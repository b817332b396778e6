--------------------------- MODULE MCTransceiver ---------------------------
(***************************************************************************)
(* The transceiver for TLC: both channels of the chip.                     *)
(***************************************************************************)
EXTENDS Transceiver
=============================================================================
