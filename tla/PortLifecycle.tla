---------------------------- MODULE PortLifecycle ----------------------------
(***************************************************************************)
(* What the application is promised of a port: the order in which its      *)
(* status (port_status_info) changes, and who may access the device when.  *)
(*                                                                         *)
(*   Whatever the port was, it becomes PREOP first, when a device has been *)
(*   found to be the one configured.  Data storage then has the device for *)
(*   itself, and only when it is done does the port become operational.    *)
(*   The application (od) is let in only after that.                       *)
(*                                                                         *)
(* The status lags behind a port that is configured again while a report   *)
(* of the system management is still to be handled: a report of the start  *)
(* before makes it PREOP or DEACTIVATED late.  LateSpec is what is left of *)
(* the promise then, and Spec what it is when no report is late.           *)
(***************************************************************************)

VARIABLES
  status,  \* port_status_info
  storage, \* data storage has started and is not done
  od       \* the application may access the device

Init == status = "DEACTIVATED" /\ ~storage /\ ~od

\* A device has been started up; late, the application has not been shut out yet.
LateReady == /\ ~storage
             /\ status' = "PREOP" /\ UNCHANGED <<storage, od>>
Ready == ~od /\ LateReady

\* Data storage has the device for itself; late, the port is said to be off.
LateStores == /\ status \in {"PREOP", "DEACTIVATED"} /\ ~od
              /\ storage' = TRUE /\ UNCHANGED <<status, od>>
Stores == status = "PREOP" /\ LateStores

\* Data storage is done, or has given up.
Stored == /\ storage
          /\ storage' = FALSE /\ UNCHANGED <<status, od>>

\* Process data are exchanged.
LateOperates == /\ status \in {"PREOP", "DEACTIVATED"} /\ ~storage
                /\ status' = "OP" /\ UNCHANGED <<storage, od>>
Operates == status = "PREOP" /\ LateOperates

\* The application may access the device, and it may not.
LateOpens == /\ ~storage
             /\ od' = TRUE /\ UNCHANGED <<status, storage>>
Opens  == status # "PREOP" /\ LateOpens
Closes == od' = FALSE /\ UNCHANGED <<status, storage>>

\* The device is not the one configured, or data storage has failed.
Faulty == /\ ~storage
          /\ status' = "PORT_DIAG" /\ UNCHANGED <<storage, od>>

\* The device does not answer; or the port has been switched off, or over.
Lost == status' = "NO_DEV" /\ UNCHANGED <<storage, od>>
Off  == status' \in {"DEACTIVATED", "DIDO"} /\ UNCHANGED <<storage, od>>

Next == Ready \/ Stores \/ Stored \/ Operates \/ Opens \/ Closes \/ Faulty \/ Lost \/ Off

LateNext ==
  LateReady \/ LateStores \/ Stored \/ LateOperates \/ LateOpens \/ Closes \/ Faulty \/ Lost \/ Off

vars == <<status, storage, od>>

Spec == Init /\ [][Next]_vars
LateSpec == Init /\ [][LateNext]_vars

\* What the order is good for: while data storage accesses the device the
\* application does not, and the port is neither operational nor reported faulty.
Exclusive == storage => ~od /\ status \notin {"OP", "PORT_DIAG"}

=============================================================================
