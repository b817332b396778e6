--------------------------- MODULE ApplicationLayer ---------------------------
(***************************************************************************)
(* The on-request data of the application layer (ilink/iolink_al.c): one    *)
(* service at a time, read or write, of a parameter octet or through an     *)
(* ISDU.  p.al is the al->service struct and the state of its FSM:          *)
(*                                                                          *)
(*   state     "Idle", "AwaitParam", "AwaitIsdu"                            *)
(*   read      who is told the outcome of a read: "SM", "DS", "USER"        *)
(*   write     who is told the outcome of a write                           *)
(*   direction "READ" or "WRITE", that of the service under way             *)
(*   data      what the last read through an ISDU has returned              *)
(*                                                                          *)
(*   ev        the events collected, see DeviceEvents                       *)
(*                                                                          *)
(* "SM" and "DS" are the system management and data storage; "USER" stands  *)
(* for the on-request data exchange.                                        *)
(***************************************************************************)
EXTENDS DataLink

\* AL_Read_req and AL_Write_req: the request is a job like any other.
AL_ReadWrite_req(p, direction, index, who) ==
  Post(p, [type |-> "AL_REQ", direction |-> direction, index |-> index, who |-> who])

\* The callbacks al_read_cb and al_write_cb: each posts a job to its own layer.
\* Nobody has asked if the callback is not set: the program calls address 0.
Confirm(p, direction, who, ok) ==
  CASE who = "SM"   -> Post(p, [type |-> "AL_CNF", direction |-> direction, ok |-> ok,
                                from |-> p.al.data])
    [] who = "DS"   -> Post(p, [type |-> IF direction = "READ" THEN "DS_READ_CNF"
                                                               ELSE "DS_WRITE_CNF",
                                ok |-> ok])
    [] who = "USER" -> Post(p, [type |-> "AL_USER_CNF"])
    [] who = "NONE" -> [p EXCEPT !.failed = "null callback"]

\* al_od_build_dl_service and the DL service it chooses.  The first octet of the
\* parameter page ("PARAM_0") can only be read.
BuildDLService(p, job) ==
  LET q == IF job.direction = "READ"
           THEN [p EXCEPT !.al.direction = "READ", !.al.read = job.who]
           ELSE [p EXCEPT !.al.direction = "WRITE", !.al.write = job.who]
  IN CASE job.index = "ISDU" ->
            DL_ISDUTransport_req([q EXCEPT !.al.state = "AwaitIsdu"])
       [] job.index = "PARAM_0" /\ job.direction = "WRITE" ->
            Confirm(q, "WRITE", job.who, FALSE)
       [] OTHER ->
            DL_ReadWriteParam_req([q EXCEPT !.al.state = "AwaitParam"],
                                  IF job.direction = "READ" THEN "READPARAM"
                                                            ELSE "WRITEPARAM")

\* al_read_write_cb: while a service is under way another one is refused.
AlRequest(p, job) ==
  IF p.al.state = "Idle" THEN BuildDLService(p, job)
  ELSE Confirm(p, job.direction, job.who, FALSE)

\* al_dl_readparam_cnf_cb and al_dl_writeparam_cnf_cb: whatever the service was,
\* the callback of the direction that is confirmed is called.
AlParamCnf(p, direction, ok) ==
  IF p.al.state # "AwaitParam" THEN p
  ELSE Confirm([p EXCEPT !.al.state = "Idle"], direction,
               IF direction = "READ" THEN p.al.read ELSE p.al.write, ok)

\* Mutant: an ISDU that has failed is not confirmed to whom it is for.
AlIsduCnf_SuccessOnly(p, ok) ==
  IF p.al.state # "AwaitIsdu" THEN p
  ELSE IF ~ok THEN [p EXCEPT !.al.state = "Idle"]
  ELSE Confirm([p EXCEPT !.al.state = "Idle"], p.al.direction,
               IF p.al.direction = "READ" THEN p.al.read ELSE p.al.write, ok)

\* al_dl_isdu_transport_cnf_cb
AlIsduCnf(p, ok) ==
  IF p.al.state # "AwaitIsdu" THEN p
  ELSE Confirm([p EXCEPT !.al.state = "Idle"], p.al.direction,
               IF p.al.direction = "READ" THEN p.al.read ELSE p.al.write, ok)

\* Nothing has been read: the octets are 0.
NoIdentity == [rev |-> "none", differs |-> "nothing"]

InitApplicationLayer ==
  [state |-> "Idle", read |-> "NONE", write |-> "NONE", direction |-> "READ",
   data |-> NoIdentity,
   ev |-> [state |-> "Event_idle", cnt |-> 0,
           set |-> [entry \in 1..MaxEvents |-> "none"]]]

=============================================================================
