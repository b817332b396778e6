----------------------------- MODULE DeviceEvents -----------------------------
(***************************************************************************)
(* Events of the device in the application layer (ilink/iolink_al.c).  The  *)
(* data link layer indicates the events of a set one after the other; they  *)
(* are collected, and when the last one has come the set goes to the        *)
(* application (SMI, VOID_BLOCK with DEV_EVENT) or, if one of them asks for *)
(* it, data storage uploads the parameters of the device.                   *)
(*                                                                          *)
(* p.al.ev is al->event and the state of its FSM:                           *)
(*   state  of the FSM                                                      *)
(*   cnt    event_cnt, events collected                                     *)
(*   set    events[6]: what has been stored in each entry, ever             *)
(* p.told is the set the application has been told last; nothing of the     *)
(* program reads it.  The row for AL_Event_req, which nothing calls, is     *)
(* left out.                                                                *)
(***************************************************************************)
EXTENDS DataStorage

EventTransitions ==
  { <<"Event_idle", "dl_event_ind_more", "Read_Event_Set", "wait_read">>,
    <<"Event_idle", "dl_event_ind_done", "DU_Event_handling", "du_handle">>,

    <<"Read_Event_Set", "dl_event_ind_more", "Read_Event_Set", "wait_read">>,
    <<"Read_Event_Set", "dl_event_ind_done", "DU_Event_handling", "du_handle">>,

    <<"DU_Event_handling", "al_event_rsp", "Event_idle", "idle">> }

AL_Event_rsp(p) == Post(p, [type |-> "AL_EVENT_RSP"])
DS_Upload(p)    == Post(p, [type |-> "DS_UPLOAD"])

\* AL_Event_ind.  The entries are all looked at, those of an earlier set too; if
\* one asks for an upload the others are not reported.
AL_Event_ind(p) ==
  LET q == AL_Event_rsp(p) IN
  IF "upload" \in Range(p.al.ev.set) THEN DS_Upload(q)
  ELSE [q EXCEPT !.told = SubSeq(p.al.ev.set, 1, p.al.ev.cnt)]

\* Mutant: the events of the next set are added to those of this one.
AlEventAct_NotReset(p, action) ==
  CASE action \in {"wait_read", "idle"} -> p
    [] action = "du_handle" -> AL_Event_ind(p)

\* al_event_wait_read, al_event_du_handle and al_event_idle
AlEventAct(p, action) ==
  CASE action = "wait_read" -> p
    [] action = "du_handle" -> AL_Event_ind(p)
    [] action = "idle"      -> [p EXCEPT !.al.ev.cnt = 0]

\* iolink_al_event_event
AlEventEvent(p, event) ==
  LET rows == {row \in EventTransitions : row[1] = p.al.ev.state /\ row[2] = event} IN
  IF rows = {} THEN p
  ELSE LET row == CHOOSE r \in rows : TRUE
       IN AlEventAct([p EXCEPT !.al.ev.state = row[3]], row[4])

-----------------------------------------------------------------------------
(* Callbacks of the jobs *)

\* al_dl_event_ind_cb: the event is stored and counted whether or not it is
\* expected.
DlEventInd(p, job) ==
  IF p.al.ev.cnt >= MaxEvents THEN [p EXCEPT !.failed = "assertion"]
  ELSE AlEventEvent([p EXCEPT !.al.ev.cnt = @ + 1, !.al.ev.set[p.al.ev.cnt + 1] = job.event],
                    IF job.left > 0 THEN "dl_event_ind_more" ELSE "dl_event_ind_done")

\* al_event_rsp_cb
AlEventRsp(p, job) == AlEventEvent(p, "al_event_rsp")

\* ds_upload_cb
DsUpload(p, job) == DsEvent(p, "UPLOAD")

=============================================================================
