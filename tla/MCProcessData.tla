--------------------------- MODULE MCProcessData ---------------------------
EXTENDS ProcessData

\* A client that reads, or reads and writes.
Uses == {<<0, 2>>, <<2, 2>>}
=============================================================================
