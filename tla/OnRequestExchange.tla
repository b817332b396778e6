--------------------------- MODULE OnRequestExchange ---------------------------
(***************************************************************************)
(* The on-request data exchange of one port (ilink/iolink_ode.c): the       *)
(* services SMI_DeviceRead and SMI_DeviceWrite of the application, one at a *)
(* time.  p.od is the state of its FSM, p.user counts what the application  *)
(* has asked for and has not been answered.                                 *)
(*                                                                          *)
(* A request keeps the port blocked until the application layer confirms    *)
(* it.  Meanwhile others are refused, and when the exchange has been        *)
(* stopped the confirmation finds no transition and is dropped.             *)
(***************************************************************************)
EXTENDS ApplicationLayer

OdTransitions ==
  { <<"Inactive", "OD_START", "ODactive", "none">>,
    <<"Inactive", "SMI_DEV_RW_1", "Inactive", "od_err">>,
    <<"Inactive", "OD_STOP", "Inactive", "none">>,

    <<"ODactive", "SMI_DEV_RW_4", "ODactive", "smi_rw">>,
    <<"ODactive", "OD_BLOCK", "ODblocked", "none">>,
    <<"ODactive", "OD_STOP", "Inactive", "none">>,

    <<"ODblocked", "OD_UNBLOCK", "ODactive", "smi_done">>,
    <<"ODblocked", "SMI_DEV_RW_6", "ODblocked", "od_err">>,
    <<"ODblocked", "OD_STOP", "Inactive", "none">> }

\* iolink_smi_cnf, iolink_smi_voidblock_cnf and iolink_smi_joberror_ind: one
\* service has its answer.
Answer(p) == [p EXCEPT !.user = @ - 1]

\* The services of the application layer know their requests by an index; access
\* in batches (SMI_ParamReadBatch, SMI_ParamWriteBatch) is not supported.
Batch(job) == job.index = "BATCH"

\* The action of a row
OdAct(p, action, job) ==
  CASE action = "none" -> p
    [] action \in {"od_err", "smi_done"} -> Answer(p)
    [] action = "smi_rw" ->
         IF Batch(job) THEN Answer(p)
         ELSE AL_ReadWrite_req(p, job.direction, job.index, "USER")

\* Mutant: an event that no row is for is answered all the same.
OdTurn_Accepts(p, event, job) ==
  LET rows == {row \in OdTransitions : row[1] = p.od /\ row[2] = event} IN
  IF rows = {} THEN Answer(p)
  ELSE LET row == CHOOSE r \in rows : TRUE
       IN OdAct([p EXCEPT !.od = row[3]], row[4], job)

OdTurn(p, event, job) ==
  LET rows == {row \in OdTransitions : row[1] = p.od /\ row[2] = event} IN
  IF rows = {} THEN p
  ELSE LET row == CHOOSE r \in rows : TRUE
       IN OdAct([p EXCEPT !.od = row[3]], row[4], job)

\* iolink_ode_event: a request that has been passed on blocks the port at once.
OdeEvent(p, event, job) ==
  LET q == OdTurn(p, event, job) IN
  IF event = "SMI_DEV_RW_4" /\ ~Batch(job) THEN OdTurn(q, "OD_BLOCK", job) ELSE q

-----------------------------------------------------------------------------
(* Services and callbacks of the jobs *)

\* ode_SMI_rw_req, on the thread of the application
SMI_rw_req(p, direction, index) ==
  Post([p EXCEPT !.user = @ + 1],
       [type |-> "SMI_DEVICE_RW", direction |-> direction, index |-> index])

\* SMI_rw_req_cb
SmiRwRequest(p, job) ==
  OdeEvent(p,
           CASE p.od = "ODactive"  -> "SMI_DEV_RW_4"
             [] p.od = "Inactive"  -> "SMI_DEV_RW_1"
             [] p.od = "ODblocked" -> "SMI_DEV_RW_6",
           job)

\* ode_read_cnf_cb and ode_write_cnf_cb
OdCnf(p, job) == OdeEvent(p, "OD_UNBLOCK", job)

\* od_start_cb and od_stop_cb
OdStart(p, job) == OdeEvent(p, "OD_START", job)
OdStop(p, job)  == OdeEvent(p, "OD_STOP", job)

=============================================================================
