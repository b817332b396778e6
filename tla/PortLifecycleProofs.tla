------------------------- MODULE PortLifecycleProofs -------------------------
(* What a port that keeps PortLifecycle may be relied upon for, even if the  *)
(* reports of the system management are late.  That PortStack keeps LateSpec *)
(* is StackLifecycle of PortStackProofs; LifecycleKept is about Spec.        *)
EXTENDS PortLifecycle, TLAPS

LEMMA Step == Exclusive /\ [LateNext]_vars => Exclusive'
  <1> SUFFICES ASSUME Exclusive, [LateNext]_vars
               PROVE  Exclusive'
    OBVIOUS
  <1> USE DEF Exclusive
  <1>1. CASE LateReady
    BY <1>1 DEF LateReady
  <1>2. CASE LateStores
    BY <1>2 DEF LateStores
  <1>3. CASE Stored
    BY <1>3 DEF Stored
  <1>4. CASE LateOperates
    BY <1>4 DEF LateOperates
  <1>5. CASE LateOpens
    BY <1>5 DEF LateOpens
  <1>6. CASE Closes
    BY <1>6 DEF Closes
  <1>7. CASE Faulty
    BY <1>7 DEF Faulty
  <1>8. CASE Lost \/ Off
    BY <1>8 DEF Lost, Off
  <1>9. CASE UNCHANGED vars
    BY <1>9 DEF vars
  <1> QED
    BY <1>1, <1>2, <1>3, <1>4, <1>5, <1>6, <1>7, <1>8, <1>9 DEF LateNext

\* While data storage (iolink_ds.c) transfers parameters, the application
\* (iolink_ode.c) is kept out and the configuration manager neither makes the port
\* operational nor calls it faulty, however late the status of the port is.
THEOREM StorageAlone == LateSpec => []Exclusive
  <1>1. Init => Exclusive
    BY DEF Init, Exclusive
  <1> QED
    BY <1>1, Step, PTL DEF LateSpec

\* A port whose reports come in time keeps what is promised of any port.
LEMMA InTimeIsLate == Spec => LateSpec
  <1>1. [Next]_vars => [LateNext]_vars
    BY DEF Next, LateNext, Ready, Stores, Operates, Opens
  <1> QED
    BY <1>1, PTL DEF Spec, LateSpec

=============================================================================
