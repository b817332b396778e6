------------------------------ MODULE DataLink ------------------------------
(***************************************************************************)
(* The data link layer of one port (ilink/iolink_dl.c).                    *)
(*                                                                         *)
(* The C code keeps the layer in one struct, iolink_dl_t, and its handlers *)
(* (mode, message, on-request data, ISDU, command, event) are functions of *)
(* the port that call each other.  They are operators here: each takes the *)
(* context p of a port and returns the context after the call, p.dl being  *)
(* iolink_dl_t, p.pl what the transceiver has been told to do, p.mbox the  *)
(* mailbox of the main thread, p.events the event bits of the DL thread.   *)
(* A module of the layer above supplies p.sm and p.al.                     *)
(*                                                                         *)
(* Octets are abstracted.  A message is known by what decides the next     *)
(* step: whether the device answered, whether its event flag was up, what  *)
(* kind of ISDU answer it gave, what the StatusCode octet said.  Process   *)
(* data are left out, except for the interleaving of TYPE_1_1 that decides *)
(* which messages carry on-request data.                                   *)
(***************************************************************************)
EXTENDS Naturals, Sequences, FiniteSets

CONSTANTS
  MaxRetry,       \* IOLINK_MAX_RETRY
  MSeq,            \* message sequence class: "TYPE_2_X", "TYPE_1_1" or "OTHER"
  RequestSegments, \* messages an ISDU request is split into
  EventOctets      \* octets of event memory an event takes

ASSUME DataLinkAssumption ==
  /\ MaxRetry \in Nat
  /\ MSeq \in {"TYPE_2_X", "TYPE_1_1", "OTHER"}
  /\ RequestSegments \in Nat \ {0}
  /\ EventOctets \in Nat \ {0}

-----------------------------------------------------------------------------
(* Event bits, jobs and the transceiver *)

\* os_event_set on the event of the DL thread.
SetEvent(p, bit) == [p EXCEPT !.events = @ \union {bit}]

\* iolink_fetch_avail_job and iolink_post_job: the main thread executes jobs in
\* the order they are posted.  JobPool models where the jobs come from.
Post(p, job) == [p EXCEPT !.mbox = Append(@, job)]
PostAll(p, jobs) == [p EXCEPT !.mbox = @ \o jobs]

\* PL_MessageDownload_req: the message of the transmit buffer is handed to the
\* transceiver.  PL_Transfer_req also sends it, PL_Resend sends the last one.
Download(p) == [p EXCEPT !.pl.msg = p.dl.tx]
Transfer(p) == [Download(p) EXCEPT !.pl.due = TRUE]
Resend(p)   == [p EXCEPT !.pl.due = TRUE]
EnableCycleTimer(p) == [p EXCEPT !.pl.cyclic = TRUE]
DisableCycleTimer(p) == [p EXCEPT !.pl.cyclic = FALSE]

\* start_timer_initcyc: the timer runs, and its type is the one the message
\* handler waits for.
StartTimer(p) ==
  [p EXCEPT !.dl.timer_type = "TINITCYC", !.dl.timer_elapsed = FALSE,
            !.dl.timer = TRUE]

StopTimer(p) == [p EXCEPT !.dl.timer = FALSE]

\* iolink_pl_init_sdci, which is refused while a wake-up request is under way.
InitSdci(p) ==
  [p EXCEPT !.pl.wurq = TRUE, !.pl.due = FALSE, !.pl.cyclic = FALSE]

\* iolink_pl_set_mode: out of SDCI the transceiver reports nothing, and setting
\* SDCI drops a wake-up request that is under way.
PL_SetMode_req(p, mode) ==
  [p EXCEPT !.pl.sdci = (mode = "SDCI"), !.pl.wurq = FALSE, !.pl.due = FALSE,
            !.pl.cyclic = FALSE]

\* OD_req: what the next message will carry.
OD_req(p, what) == [p EXCEPT !.dl.tx = what]

-----------------------------------------------------------------------------
(* Indications and confirmations to the layers above *)

DL_Mode_ind(p, mode) == Post(p, [type |-> "DL_MODE_IND", mode |-> mode])

\* What the registers of the device say of it; the master may have read them
\* before the device is exchanged.
Identity(p) == [rev |-> p.dev.rev, differs |-> p.dev.differs]

\* The confirmations carry the address the system management holds at the
\* time of the call, not the one of the request.
DL_Read_cnf(p, ok) ==
  Post(p, [type |-> "DL_READ_CNF", addr |-> p.sm.dl_addr, ok |-> ok,
           from |-> Identity(p)])
\* Mutant: a write is confirmed as a read.
DL_Write_cnf_AsRead(p, ok) == DL_Read_cnf(p, ok)

DL_Write_cnf(p, ok) ==
  Post(p, [type |-> "DL_WRITE_CNF", addr |-> p.sm.dl_addr, ok |-> ok])

DL_ReadParam_cnf(p, ok) == Post(p, [type |-> "DL_READPARAM_CNF", ok |-> ok])
DL_WriteParam_cnf(p, ok) == Post(p, [type |-> "DL_WRITEPARAM_CNF", ok |-> ok])

\* What has been read is stored in the service of the application layer at once,
\* on the thread of the caller.
DL_ISDUTransport_cnf(p, ok) ==
  Post([p EXCEPT !.al.data = IF ok /\ p.al.direction = "READ" THEN Identity(p) ELSE @],
       [type |-> "DL_ISDU_TRANS_CNF", ok |-> ok])
DL_Write_Devicemode_cnf(p, ok) ==
  Post(p, [type |-> "DL_WRITE_DEVMODE_CNF", ok |-> ok])
DL_Event_ind(event, left) == [type |-> "DL_EVENT_IND", event |-> event, left |-> left]

\* MHInfo_ind(COMLOST)
MHInfo_ComLost(p) == SetEvent([p EXCEPT !.dl.mhinfo = "COMLOST"], "MDH")

\* write_master_command: the command under way is confirmed and forgotten.
WriteMasterCommand(p, ok) ==
  LET q == [p EXCEPT !.dl.master_command = "NONE"] IN
  IF p.dl.master_command \in {"DEVICE_OPERATE", "DEVICE_PREOP", "FALLBACK"}
  THEN DL_Write_Devicemode_cnf(q, ok)
  ELSE q

-----------------------------------------------------------------------------
(* Command handler *)

\* iolink_dl_cmd_h_sm
CommandHandler(p) ==
  CASE p.dl.cmdh = "INACTIVE" ->
         IF p.dl.chcmd = "ACTIVE" THEN [p EXCEPT !.dl.cmdh = "IDLE"] ELSE p
    [] p.dl.cmdh = "IDLE" ->
        (CASE p.dl.chcmd = "INACTIVE" -> [p EXCEPT !.dl.cmdh = "INACTIVE"]
           [] p.dl.chcmd = "ACTIVE" /\ p.dl.control_code = "PDOUTVALID" ->
                [p EXCEPT !.dl.master_command = "PD_OUT", !.dl.cmdh = "MASTERCOMMAND"]
           [] p.dl.chcmd = "ACTIVE" /\ p.dl.control_code = "PDOUTINVALID" ->
                [p EXCEPT !.dl.master_command = "DEVICE_OPERATE",
                          !.dl.cmdh = "MASTERCOMMAND"]
           [] p.dl.chcmd = "ACTIVE" /\ p.dl.control_code = "DEVICEMODE" ->
                [p EXCEPT !.dl.cmdh = "MASTERCOMMAND"]
           [] OTHER -> p)
    [] p.dl.cmdh = "MASTERCOMMAND" ->
         OD_req([p EXCEPT !.dl.control_code = "NONE", !.dl.cmdh = "IDLE"],
                p.dl.master_command)

-----------------------------------------------------------------------------
(* ISDU handler *)

\* Mutant: the ISDU is given up and nobody is told.
IsduError_Unconfirmed(p) ==
  IF p.dl.ihcmd = "INACTIVE" THEN [p EXCEPT !.dl.isduh = "INACTIVE"]
  ELSE [p EXCEPT !.dl.isdu_total = 0, !.dl.rwcmd = "NONE", !.dl.isduh = "IDLE"]

\* iolink_dl_isdu_h_sm_isdu_error4
IsduError(p) ==
  IF p.dl.ihcmd = "INACTIVE" THEN [p EXCEPT !.dl.isduh = "INACTIVE"]
  ELSE DL_ISDUTransport_cnf(
         [p EXCEPT !.dl.isdu_total = 0, !.dl.rwcmd = "NONE", !.dl.isduh = "IDLE",
                   !.dl.tx = "ISDU"],
         FALSE)

\* iolink_dl_isdu_h_sm_enter_isduerror4
EnterIsduError(p) ==
  IF p.dl.ihcmd = "INACTIVE"
  THEN DL_ISDUTransport_cnf([p EXCEPT !.dl.isdu_total = 0, !.dl.isduh = "INACTIVE"],
                            FALSE)
  ELSE IF p.dl.trigger = "MASTER" THEN IsduError(p)
  ELSE [p EXCEPT !.dl.isduh = "ISDUERROR"]

\* iolink_dl_isdu_h_sm_reception_complete
ReceptionComplete(p) ==
  DL_ISDUTransport_cnf(
    [p EXCEPT !.dl.isdu_seg = 0, !.dl.isdu_total = 0, !.dl.rwcmd = "NONE",
              !.dl.isduh = "IDLE"],
    p.dl.rx.isdu # "checksum")

\* iolink_dl_isdu_h_sm_idle1
IsduIdle(p) ==
  CASE p.dl.ihcmd = "INACTIVE" ->
         LET q == [p EXCEPT !.dl.isdu_total = 0, !.dl.isduh = "INACTIVE"] IN
         IF p.dl.isdu_total > 0 THEN DL_ISDUTransport_cnf(q, FALSE) ELSE q
    [] p.dl.ihcmd = "ACTIVE" /\ p.dl.trigger = "MASTER" ->
        (CASE p.dl.rwcmd = "ISDUTRANSPORT" ->
                OD_req([p EXCEPT !.dl.isdu_seg = 1, !.dl.isduh = "ISDUREQUEST"], "ISDU")
           [] p.dl.rwcmd \in {"READPARAM", "WRITEPARAM"} -> OD_req(p, p.dl.rwcmd)
           [] OTHER -> OD_req(p, "IDLE"))
    [] p.dl.ihcmd = "ACTIVE" /\ p.dl.trigger = "DEVICE" ->
        (CASE p.dl.rwcmd = "READPARAM" ->
                DL_ReadParam_cnf([p EXCEPT !.dl.rwcmd = "NONE"], TRUE)
           [] p.dl.rwcmd = "WRITEPARAM" ->
                DL_WriteParam_cnf([p EXCEPT !.dl.rwcmd = "NONE"], TRUE)
           [] OTHER -> p)
    [] OTHER -> p

\* iolink_dl_isdu_h_sm_isdu_request2
IsduRequest(p) ==
  CASE p.dl.mhinfo = "COMLOST" -> EnterIsduError(p)
    [] p.dl.mhinfo # "COMLOST" /\ p.dl.trigger = "MASTER" ->
         OD_req([p EXCEPT !.dl.isdu_seg = @ + 1], "ISDU")
    [] p.dl.mhinfo # "COMLOST" /\ p.dl.trigger = "DEVICE" ->
         IF p.dl.isdu_seg >= p.dl.isdu_total
         THEN [p EXCEPT !.dl.isdu_timer = "running", !.dl.isdu_seg = 0,
                        !.dl.isduh = "ISDUWAIT"]
         ELSE p
    [] OTHER -> p

\* iolink_dl_isdu_h_sm_isdu_wait3: the device says that it is busy, that it has
\* no service, something malformed, or the first message of its answer.
IsduWait(p) ==
  LET stopped == [p EXCEPT !.dl.isdu_timer = "off"]
      first   == [stopped EXCEPT !.dl.isdu_seg = 1, !.dl.isdu_total = p.dl.rx.total]
  IN CASE p.dl.isdu_timer = "elapsed" \/ p.dl.mhinfo = "COMLOST" -> EnterIsduError(p)
       [] p.dl.isdu_timer # "elapsed" /\ p.dl.mhinfo # "COMLOST" ->
           (CASE p.dl.trigger = "MASTER" -> OD_req(p, "ISDU")
              [] p.dl.trigger = "NONE" -> p
              [] p.dl.trigger = "DEVICE" ->
                  (CASE p.dl.rx.isdu = "busy" -> p
                     [] p.dl.rx.isdu = "malformed" -> EnterIsduError(stopped)
                     [] OTHER -> IF p.dl.rx.total <= 1 THEN ReceptionComplete(first)
                                 ELSE [first EXCEPT !.dl.isduh = "ISDURESPONSE"]))

\* iolink_dl_isdu_h_sm_isdu_response5
IsduResponse(p) ==
  LET next == [p EXCEPT !.dl.isdu_seg = @ + 1] IN
  CASE p.dl.mhinfo = "COMLOST" -> EnterIsduError(p)
    [] p.dl.mhinfo # "COMLOST" /\ p.dl.trigger = "MASTER" -> OD_req(p, "ISDU")
    [] p.dl.mhinfo # "COMLOST" /\ p.dl.trigger = "DEVICE" ->
         IF next.dl.isdu_seg >= p.dl.isdu_total THEN ReceptionComplete(next) ELSE next
    [] OTHER -> p

\* iolink_dl_isdu_h_sm
IsduHandler(p) ==
  CASE p.dl.isduh = "INACTIVE" ->
         IF p.dl.ihcmd = "ACTIVE"
         THEN [p EXCEPT !.dl.isdu_total = 0, !.dl.isdu_seg = 0, !.dl.isduh = "IDLE"]
         ELSE p
    [] p.dl.isduh = "IDLE"         -> IsduIdle(p)
    [] p.dl.isduh = "ISDUREQUEST"  -> IsduRequest(p)
    [] p.dl.isduh = "ISDUWAIT"     -> IsduWait(p)
    [] p.dl.isduh = "ISDUERROR"    -> IsduError(p)
    [] p.dl.isduh = "ISDURESPONSE" -> IsduResponse(p)

-----------------------------------------------------------------------------
(* Event handler *)

\* IOLINK_MAX_EVENTS
MaxEvents == 6

\* iolink_dl_ev_h_sm_signal_event3: the events of the set are indicated one after
\* the other, and the master will write the StatusCode to confirm them.
SignalEvents(p) ==
  LET set  == p.dl.ev_set
      jobs == [i \in DOMAIN set |-> DL_Event_ind(set[i], Len(set) - i)]
  IN [PostAll(p, jobs) EXCEPT !.dl.event_confirmation = TRUE, !.dl.evh = "IDLE"]

\* iolink_dl_ev_h_sm_read_event2.  A StatusCode without details ("type1") stands for
\* its events itself.  ev_left counts the octets of event memory still to be read;
\* it is 0 while the StatusCode has not been read, and stays 0 when the StatusCode
\* announces details of no event.
ReadEvent(p) ==
  CASE p.dl.mhinfo = "COMLOST" -> [p EXCEPT !.dl.evh = "INACTIVE"]
    [] p.dl.mhinfo # "COMLOST" /\ p.dl.trigger = "MASTER" -> OD_req(p, "DIAGNOSIS")
    [] p.dl.mhinfo # "COMLOST" /\ p.dl.trigger = "DEVICE" ->
        (CASE p.dl.ev_left = 0 ->
                LET q == [p EXCEPT !.dl.ev_set = p.dl.rx.set] IN
                IF p.dl.rx.status = "type1" THEN SignalEvents(q)
                ELSE [q EXCEPT !.dl.ev_left = EventOctets * Len(p.dl.rx.set)]
           [] p.dl.ev_left = 1 -> SignalEvents([p EXCEPT !.dl.ev_left = 0])
           [] p.dl.ev_left > 1 -> [p EXCEPT !.dl.ev_left = @ - 1])
    [] OTHER -> p

\* iolink_dl_ev_h_sm_idle1
EventIdle(p) ==
  CASE p.dl.ehcmd = "INACTIVE" -> [p EXCEPT !.dl.evh = "INACTIVE"]
    [] p.dl.ehcmd = "ACTIVE" /\ p.dl.trigger = "MASTER" ->
        (CASE ~p.dl.event_confirmation ->
                OD_req([p EXCEPT !.dl.ev_left = 0, !.dl.ev_set = <<>>,
                                 !.dl.evh = "READEVENT"],
                       "DIAGNOSIS")
           [] p.dl.event_confirmation /\ p.dl.mhinfo = "COMLOST" ->
                [p EXCEPT !.dl.evh = "INACTIVE"]
           [] p.dl.event_confirmation /\ p.dl.mhinfo # "COMLOST" ->
                OD_req([p EXCEPT !.dl.event_confirmation = FALSE], "EVENTCONF"))
    [] OTHER -> p

\* iolink_dl_ev_h_sm
EventHandler(p) ==
  CASE p.dl.evh = "INACTIVE" ->
         IF p.dl.ehcmd = "ACTIVE" THEN [p EXCEPT !.dl.evh = "IDLE"] ELSE p
    [] p.dl.evh = "IDLE"      -> EventIdle(p)
    [] p.dl.evh = "READEVENT" -> ReadEvent(p)

-----------------------------------------------------------------------------
(* On-request data handler: one of the three handlers above has the message *)

Untriggered(p) == [p EXCEPT !.dl.trigger = "NONE"]
CommandWaits(p) == p.dl.control_code # "NONE" /\ p.dl.trigger = "MASTER"

\* iolink_dl_od_h_sm_isdu1
OdIsdu(p) ==
  CASE p.dl.ohcmd = "INACTIVE" -> [p EXCEPT !.dl.odh = "INACTIVE"]
    [] p.dl.ohcmd = "ACTIVE" /\ CommandWaits(p) ->
         [CommandHandler(p) EXCEPT !.dl.odh = "COMMAND"]
    [] p.dl.ohcmd = "ACTIVE" /\ ~CommandWaits(p) /\ p.dl.event_flag ->
         [IsduHandler(p) EXCEPT !.dl.odh = "EVENT"]
    [] p.dl.ohcmd = "ACTIVE" /\ ~CommandWaits(p) /\ ~p.dl.event_flag ->
         IF p.dl.trigger # "NONE" THEN Untriggered(IsduHandler(p)) ELSE p

\* iolink_dl_od_h_sm_command2: switching it off stops the command handler, not
\* this one.
OdCommand(p) ==
  CASE p.dl.ohcmd = "INACTIVE" -> [p EXCEPT !.dl.cmdh = "INACTIVE"]
    [] p.dl.ohcmd = "ACTIVE" /\ p.dl.trigger = "NONE" -> p
    [] p.dl.ohcmd = "ACTIVE" /\ p.dl.trigger # "NONE" ->
         IF p.dl.control_code # "NONE" THEN Untriggered(p)
         ELSE [WriteMasterCommand(Untriggered(p), TRUE)
                 EXCEPT !.dl.odh = IF p.dl.event_flag THEN "EVENT" ELSE "ISDU"]

\* iolink_dl_od_h_sm_event3
OdEvent(p) ==
  CASE p.dl.ohcmd = "INACTIVE" -> [p EXCEPT !.dl.odh = "INACTIVE"]
    [] p.dl.ohcmd = "ACTIVE" /\ CommandWaits(p) ->
         [CommandHandler(p) EXCEPT !.dl.odh = "COMMAND"]
    [] p.dl.ohcmd = "ACTIVE" /\ ~CommandWaits(p) /\ ~p.dl.event_flag ->
         [p EXCEPT !.dl.odh = "ISDU"]
    [] p.dl.ohcmd = "ACTIVE" /\ ~CommandWaits(p) /\ p.dl.event_flag ->
         IF p.dl.trigger # "NONE" THEN Untriggered(EventHandler(p)) ELSE p

\* iolink_dl_od_h_sm
OdHandler(p) ==
  CASE p.dl.odh = "INACTIVE" ->
         IF p.dl.ohcmd = "ACTIVE" THEN [p EXCEPT !.dl.odh = "ISDU"] ELSE p
    [] p.dl.odh = "ISDU"    -> OdIsdu(p)
    [] p.dl.odh = "COMMAND" -> OdCommand(p)
    [] p.dl.odh = "EVENT"   -> OdEvent(p)

\* The on-request data handler, told that a message is to be sent or has come.
OdTriggered(p, by) == OdHandler([p EXCEPT !.dl.trigger = by])

-----------------------------------------------------------------------------
(* Message handler.  Each operator is one state of iolink_dl_message_h_sm. *)

MHBecomes(p, state) == [p EXCEPT !.dl.mh = state]

\* Mutant: the mode handler is not told.
HandleComLost_Silent(p) ==
  DisableCycleTimer(StopTimer([p EXCEPT !.dl.rwcmd = "NONE", !.dl.retry = 0,
                                        !.dl.mh = "INACTIVE_0"]))

\* iolink_dl_mh_handle_com_lost
HandleComLost(p) ==
  MHInfo_ComLost(DisableCycleTimer(StopTimer(
    [p EXCEPT !.dl.rwcmd = "NONE", !.dl.timer_type = "NONE",
              !.dl.timer_elapsed = FALSE, !.dl.error = FALSE, !.dl.retry = 0,
              !.dl.mh = "INACTIVE_0"])))

\* The message handler is told to stop while messages are exchanged.
GiveUp(p) == MHBecomes(MHInfo_ComLost(p), "INACTIVE_0")

\* iolink_dl_message_h_sm_await_reply1, reached with a baud rate only
MHAwaitReply1(p) == DL_Read_cnf(MHBecomes(p, "STARTUP_2"), TRUE)

\* iolink_dl_message_h_sm_startup2
MHStartup2(p) ==
  CASE p.dl.mhcmd = "PREOPERATE" -> MHBecomes(p, "PREOPERATE_6")
    [] p.dl.mhcmd = "OPERATE" -> MHBecomes(StartTimer(p), "OPERATE_12")
    [] p.dl.mhcmd \notin {"PREOPERATE", "OPERATE"} ->
         IF p.dl.rwcmd \in {"READ", "WRITE"}
         THEN Transfer([p EXCEPT !.dl.retry = 0, !.dl.dataready = FALSE,
                                 !.dl.mh = "RESPONSE_3"])
         ELSE p

\* Mutant: the service stays under way once it is confirmed.
StartupCnf_Kept(p, ok) ==
  CASE p.dl.rwcmd = "READ"  -> DL_Read_cnf(p, ok)
    [] p.dl.rwcmd = "WRITE" -> DL_Write_cnf(p, ok)
    [] OTHER -> p

\* DL_Read_cnf or DL_Write_cnf, if one of them is due
StartupCnf(p, ok) ==
  LET q == [p EXCEPT !.dl.rwcmd = "NONE"] IN
  CASE p.dl.rwcmd = "READ"  -> DL_Read_cnf(q, ok)
    [] p.dl.rwcmd = "WRITE" -> DL_Write_cnf(q, ok)
    [] OTHER -> p

\* iolink_dl_message_h_sm_await_reply4
MHAwaitReply4(p) ==
  CASE p.dl.dataready -> StartupCnf(MHBecomes(p, "STARTUP_2"), TRUE)
    [] ~p.dl.dataready /\ p.dl.error -> MHBecomes(StartTimer(p), "ERRORHANDLING_5")
    [] OTHER -> p

InitCycElapsed(p) == p.dl.timer_elapsed /\ p.dl.timer_type = "TINITCYC"

\* The last message is sent once more.
Retry(p, state) == [Resend(p) EXCEPT !.dl.retry = @ + 1, !.dl.mh = state]

\* Mutant: one retry too many.
MHErrorHandling5_OneMore(p) ==
  CASE p.dl.retry > MaxRetry -> StartupCnf(GiveUp([p EXCEPT !.dl.timer_type = "NONE"]), FALSE)
    [] p.dl.retry <= MaxRetry /\ InitCycElapsed(p) -> Retry(p, "AW_REPLY_4")
    [] OTHER -> p

\* iolink_dl_message_h_sm_error_handling5
MHErrorHandling5(p) ==
  CASE p.dl.retry >= MaxRetry -> StartupCnf(GiveUp([p EXCEPT !.dl.timer_type = "NONE"]), FALSE)
    [] p.dl.retry < MaxRetry /\ InitCycElapsed(p) -> Retry(p, "AW_REPLY_4")
    [] OTHER -> p

\* What makes the message handler send on-request data in PREOPERATE
SomethingToSend(p) ==
  \/ p.dl.rwcmd \in {"READPARAM", "WRITEPARAM", "ISDUTRANSPORT"}
  \/ p.dl.master_command = "DEVICE_OPERATE"
  \/ p.dl.event_flag

\* iolink_dl_message_h_sm_preoperate6
MHPreoperate6(p) ==
  CASE p.dl.mhcmd = "OPERATE"  -> MHBecomes(StartTimer(p), "OPERATE_12")
    [] p.dl.mhcmd = "STARTUP"  -> MHBecomes(p, "STARTUP_2")
    [] p.dl.mhcmd = "INACTIVE" -> Transfer(GiveUp(p))
    [] p.dl.mhcmd = "PREOPERATE" ->
         IF SomethingToSend(p)
         THEN StartTimer([p EXCEPT !.dl.retry = 0, !.dl.trigger = "MASTER",
                                   !.dl.mh = "GETOD_7"])
         ELSE p

\* iolink_dl_message_h_sm_get_od7
MHGetOd7(p) ==
  Transfer([OdHandler(p) EXCEPT !.dl.retry = 0, !.dl.dataready = FALSE,
                                !.dl.mh = "RESPONSE_8"])

\* iolink_dl_message_h_sm_await_reply9, also the handler of RESPONSE_8
MHAwaitReply9(p) ==
  LET q == OdTriggered([p EXCEPT !.dl.event_flag = p.dl.rx.flag], "DEVICE") IN
  CASE p.dl.dataready ->
        (CASE q.dl.isduh # "IDLE" ->
                StartTimer([q EXCEPT !.dl.trigger = "MASTER", !.dl.mh = "GETOD_7"])
           [] q.dl.isduh = "IDLE" /\ q.dl.mhcmd = "OPERATE" ->
                MHBecomes(StartTimer(q), "AW_REPLY_16")
           [] q.dl.isduh = "IDLE" /\ q.dl.mhcmd # "OPERATE" ->
                IF q.dl.event_flag THEN q ELSE MHBecomes(StopTimer(q), "PREOPERATE_6"))
    [] ~p.dl.dataready /\ p.dl.error -> MHBecomes(StartTimer(p), "ERRORHANDLING_10")
    [] OTHER -> p

\* iolink_dl_message_h_sm_error_handling10
MHErrorHandling10(p) ==
  LET q == WriteMasterCommand(p, FALSE) IN
  CASE p.dl.retry >= MaxRetry ->
         HandleComLost(
           CASE p.dl.rwcmd = "READPARAM"  -> DL_ReadParam_cnf(q, FALSE)
             [] p.dl.rwcmd = "WRITEPARAM" -> DL_WriteParam_cnf(q, FALSE)
             [] OTHER -> StartupCnf(q, FALSE))
    [] p.dl.retry < MaxRetry /\ InitCycElapsed(p) -> Retry(p, "AW_REPLY_9")
    [] OTHER -> p

\* Messages are exchanged cyclically, and the mode handler wants them to stop.
LeaveOperate(p) ==
  IF p.dl.mhcmd = "STARTUP"
  THEN MHBecomes(DisableCycleTimer(p), "STARTUP_2")
  ELSE DisableCycleTimer(GiveUp(p))

\* iolink_dl_message_h_sm_operate12, get_pd13 and get_od14
MHOperate12(p) ==
  LET q == IF p.dl.interleave
           THEN OD_req(p, "PROCESSDATA")
           ELSE OdTriggered(p, "MASTER")
  IN IF p.dl.mhcmd \in {"STARTUP", "INACTIVE"} THEN LeaveOperate(p)
     ELSE Transfer(EnableCycleTimer(
            [q EXCEPT !.dl.retry = 0, !.dl.dataready = FALSE, !.dl.mh = "RESPONSE_15"]))

\* iolink_dl_message_h_sm_await_reply16: whatever the interleaving, the on-request
\* data handler sees every reply and fills every message.
MHAwaitReply16(p) ==
  CASE p.dl.mhcmd \in {"STARTUP", "INACTIVE"} -> LeaveOperate(p)
    [] p.dl.mhcmd \notin {"STARTUP", "INACTIVE"} ->
        (CASE p.dl.rwcmd = "WRITEPARAM" ->
                Download([OdTriggered(p, "MASTER")
                            EXCEPT !.dl.retry = 0, !.dl.dataready = FALSE,
                                   !.dl.mh = "AW_REPLY_9"])
           [] p.dl.rwcmd # "WRITEPARAM" /\ p.dl.dataready ->
                LET received == OdTriggered([p EXCEPT !.dl.event_flag = p.dl.rx.flag],
                                            "DEVICE")
                IN Download([OdTriggered(received, "MASTER")
                               EXCEPT !.dl.dataready = FALSE, !.dl.mh = "AW_REPLY_16"])
           [] p.dl.rwcmd # "WRITEPARAM" /\ ~p.dl.dataready /\ p.dl.error ->
                HandleComLost(p)
           [] OTHER -> p)

\* iolink_dl_message_h_sm.  RESPONSE_3 and RESPONSE_15 become the state that
\* awaits the reply and run its handler at once.
MessageHandler(p) ==
  CASE p.dl.mh = "INACTIVE_0"       -> DisableCycleTimer(p)
    [] p.dl.mh = "STARTUP_2"        -> MHStartup2(p)
    [] p.dl.mh = "RESPONSE_3"       -> MHAwaitReply4(MHBecomes(p, "AW_REPLY_4"))
    [] p.dl.mh = "AW_REPLY_4"       -> MHAwaitReply4(p)
    [] p.dl.mh = "ERRORHANDLING_5"  -> MHErrorHandling5(p)
    [] p.dl.mh = "PREOPERATE_6"     -> MHPreoperate6(p)
    [] p.dl.mh = "GETOD_7"          -> MHGetOd7(p)
    [] p.dl.mh = "RESPONSE_8"       -> MHAwaitReply9(p)
    [] p.dl.mh = "AW_REPLY_9"       -> MHAwaitReply9(p)
    [] p.dl.mh = "ERRORHANDLING_10" -> MHErrorHandling10(p)
    [] p.dl.mh = "OPERATE_12"       -> MHOperate12(p)
    [] p.dl.mh = "RESPONSE_15"      -> MHAwaitReply16(MHBecomes(p, "AW_REPLY_16"))
    [] p.dl.mh = "AW_REPLY_16"      -> MHAwaitReply16(p)

-----------------------------------------------------------------------------
(* Mode handler *)

CH_Conf(p, cmd) == CommandHandler([p EXCEPT !.dl.chcmd = cmd])
OH_Conf(p, cmd) == OdHandler([p EXCEPT !.dl.ohcmd = cmd])
IH_Conf(p, cmd) == IsduHandler([p EXCEPT !.dl.ihcmd = cmd])
EH_Conf(p, cmd) == EventHandler([p EXCEPT !.dl.ehcmd = cmd])
MH_Conf(p, cmd) == MessageHandler([p EXCEPT !.dl.mhcmd = cmd])

\* PH_Conf: of the process data handler only the interleaving is kept.
PH_Conf(p, cmd) == [p EXCEPT !.dl.interleave = (cmd = "INTERLEAVE")]

\* set_OH_IH_EH_Conf_active
OdHandlersConf(p, cmd) == EH_Conf(IH_Conf(OH_Conf(p, cmd), cmd), cmd)

ModeBecomes(p, state, mode) == DL_Mode_ind([p EXCEPT !.dl.mdh = state], mode)

\* iolink_dl_mode_h_sm_goto_operate
GotoOperate(p) ==
  ModeBecomes(
    MH_Conf(CASE MSeq = "TYPE_2_X" -> PH_Conf(p, "SINGLE")
              [] MSeq = "TYPE_1_1" -> PH_Conf(p, "INTERLEAVE")
              [] MSeq = "OTHER" -> p,
            "OPERATE"),
    "OPERATE_4", "OPERATE")

\* iolink_dl_mode_h_sm_goto_idle: the message handler may report COMLOST while it
\* is stopped, which is forgotten here; the event bit remains.
GotoIdle(p, mode) ==
  ModeBecomes(
    [MH_Conf(CH_Conf(OdHandlersConf(p, "INACTIVE"), "INACTIVE"), "INACTIVE")
       EXCEPT !.dl.mhinfo = "NONE"],
    "IDLE_0", mode)

\* iolink_dl_mode_h_sm_goto_startup
GotoStartup(p) ==
  ModeBecomes(MH_Conf(OdHandlersConf(p, "INACTIVE"), "STARTUP"), "STARTUP_2", "STARTUP")

\* iolink_dl_mode_h_sm_idle0
ModeIdle0(p) ==
  IF p.dl.dl_mode = "STARTUP" /\ ~p.pl.wurq
  THEN [InitSdci(p) EXCEPT !.dl.mdh = "ESTCOM_1"]
  ELSE p

\* iolink_dl_mode_h_sm_startup2: the mode asked for goes before a lost
\* communication.
ModeStartup2(p) ==
  CASE p.dl.dl_mode = "PREOPERATE" ->
         ModeBecomes(MH_Conf(OdHandlersConf(p, "ACTIVE"), "PREOPERATE"),
                     "PREOPERATE_3", "PREOPERATE")
    [] p.dl.dl_mode = "OPERATE"  -> GotoOperate(OdHandlersConf(p, "ACTIVE"))
    [] p.dl.dl_mode = "INACTIVE" -> GotoIdle(p, "INACTIVE")
    [] p.dl.dl_mode = "STARTUP"  ->
         IF p.dl.mhinfo = "COMLOST" THEN GotoIdle(p, "COMLOST") ELSE p

\* iolink_dl_mode_h_sm_preoperate3: to become inactive, the message handler is
\* told to operate.
ModePreoperate3(p) ==
  CASE p.dl.dl_mode = "STARTUP"  -> GotoStartup(CH_Conf(p, "INACTIVE"))
    [] p.dl.dl_mode = "INACTIVE" -> MH_Conf(p, "OPERATE")
    [] p.dl.dl_mode \in {"PREOPERATE", "OPERATE"} ->
        (CASE p.dl.mhinfo = "COMLOST" -> GotoIdle(p, "COMLOST")
           [] p.dl.mhinfo # "COMLOST" /\ p.dl.dl_mode = "OPERATE" -> GotoOperate(p)
           [] OTHER -> p)

\* iolink_dl_mode_h_sm_operate4
ModeOperate4(p) ==
  LET q == PH_Conf(p, "INACTIVE") IN
  CASE p.dl.dl_mode = "STARTUP"  -> GotoStartup(q)
    [] p.dl.dl_mode = "INACTIVE" -> GotoIdle(q, "INACTIVE")
    [] p.dl.dl_mode \in {"PREOPERATE", "OPERATE"} ->
         IF p.dl.mhinfo = "COMLOST" THEN GotoIdle(q, "COMLOST") ELSE p

\* iolink_dl_mode_h_sm
ModeHandler(p) ==
  CASE p.dl.mdh = "IDLE_0"       -> ModeIdle0(p)
    [] p.dl.mdh = "ESTCOM_1"     -> p
    [] p.dl.mdh = "STARTUP_2"    -> ModeStartup2(p)
    [] p.dl.mdh = "PREOPERATE_3" -> ModePreoperate3(p)
    [] p.dl.mdh = "OPERATE_4"    -> ModeOperate4(p)

-----------------------------------------------------------------------------
(* Services, called by the main thread *)

\* DL_Read_req and DL_Write_req.  The transceiver has read MIN_CYCL itself, so
\* the first read of it is answered at once.
DL_ReadWrite_req(p, addr, rw) ==
  LET cnf(q, ok) == IF rw = "READ" THEN DL_Read_cnf(q, ok) ELSE DL_Write_cnf(q, ok)
      known == rw = "READ" /\ addr = "MIN_CYCL" /\ p.dl.first_read_min_cycl
  IN CASE p.dl.mh # "STARTUP_2" -> cnf(p, FALSE)
       [] p.dl.mh = "STARTUP_2" /\ known ->
            cnf([p EXCEPT !.dl.first_read_min_cycl = FALSE], TRUE)
       [] p.dl.mh = "STARTUP_2" /\ ~known ->
            SetEvent(OD_req([p EXCEPT !.dl.rwcmd = rw], rw), "MH")

\* DL_SetMode_req
DL_SetMode_req(p, mode) == SetEvent([p EXCEPT !.dl.dl_mode = mode], "MDH")

\* Mutant: the message handler is not woken up.
Wake_Lost(p) == p

\* The message handler waits in PREOPERATE_6 for an event.
Wake(p) == IF p.dl.mdh = "PREOPERATE_3" THEN SetEvent(p, "MH") ELSE p

\* DL_ReadParam_req and DL_WriteParam_req: the request is noted before it is
\* refused.
DL_ReadWriteParam_req(p, rw) ==
  LET q == [p EXCEPT !.dl.rwcmd = rw] IN
  CASE p.dl.mh \in {"PREOPERATE_6", "AW_REPLY_16"} -> Wake(q)
    [] p.dl.mh \notin {"PREOPERATE_6", "AW_REPLY_16"} ->
         IF rw = "READPARAM" THEN DL_ReadParam_cnf(q, FALSE)
                             ELSE DL_WriteParam_cnf(q, FALSE)

\* DL_ISDUTransport_req
DL_ISDUTransport_req(p) ==
  IF p.dl.mdh \in {"IDLE_0", "ESTCOM_1"} \/ p.dl.isduh # "IDLE"
  THEN DL_ISDUTransport_cnf(p, FALSE)
  ELSE Wake([p EXCEPT !.dl.isdu_total = RequestSegments, !.dl.isdu_seg = 0,
                      !.dl.rwcmd = "ISDUTRANSPORT"])

\* Mutant: the command takes the place of the service under way.
DL_Control_req_Clears(p, code) ==
  CommandHandler([p EXCEPT !.dl.control_code = code, !.dl.rwcmd = "NONE"])

\* DL_Control_req
DL_Control_req(p, code) == CommandHandler([p EXCEPT !.dl.control_code = code])

\* DL_Write_Devicemode_req.  In PREOPERATE a fallback is confirmed without a
\* message.
MasterCommandOf(mode) ==
  CASE mode = "INACTIVE" -> "FALLBACK"
    [] mode = "OPERATE"  -> "DEVICE_OPERATE"

DL_Write_Devicemode_req(p, mode) ==
  LET q == CommandHandler([p EXCEPT !.dl.master_command = MasterCommandOf(mode),
                                    !.dl.control_code = "DEVICEMODE"])
  IN CASE p.dl.mdh = "STARTUP_2" -> DL_Write_Devicemode_cnf(p, FALSE)
       [] p.dl.mdh = "PREOPERATE_3" ->
            IF mode = "INACTIVE" THEN DL_Write_Devicemode_cnf(q, TRUE) ELSE SetEvent(q, "MH")
       [] p.dl.mdh \notin {"STARTUP_2", "PREOPERATE_3"} -> q

-----------------------------------------------------------------------------
(* The thread of the port, dl_main: what it does for each event *)

\* IOLINK_PL_EVENT_RXRDY, with the message that has been received.  Afterwards
\* nothing of it is used.
NoReply ==
  [flag |-> FALSE, isdu |-> "ok", total |-> 1, status |-> "type1", set |-> <<>>]

RxReady(p, reply) ==
  [MessageHandler([p EXCEPT !.dl.dataready = TRUE, !.dl.rx = reply])
     EXCEPT !.dl.dataready = FALSE, !.dl.rx = NoReply]

\* iolink_dl_handle_error
HandleError(p) ==
  [MessageHandler([p EXCEPT !.dl.error = TRUE]) EXCEPT !.dl.error = FALSE]

\* iolink_dl_wurq_recv, when a device has answered and when none has.
WurqReceived(p) ==
  SetEvent(
    DL_Mode_ind(
      CH_Conf(MHAwaitReply1([p EXCEPT !.dl.mdh = "STARTUP_2", !.dl.mh = "AW_REPLY_1"]),
              "ACTIVE"),
      "STARTUP"),
    "MH")
WurqFailed(p) == ModeBecomes([p EXCEPT !.dl.mhinfo = "NONE"], "IDLE_0", "INACTIVE")

\* iolink_dl_handle_timer_timeout: the type is forgotten afterwards, even that of
\* a timer started meanwhile.
TimerTimeout(p) ==
  LET q == MessageHandler([p EXCEPT !.dl.timer_elapsed = TRUE]) IN
  IF p.dl.timer_type = "TINITCYC"
  THEN [q EXCEPT !.dl.timer_elapsed = FALSE, !.dl.timer_type = "NONE"]
  ELSE p

InitDataLink ==
  [mdh |-> "IDLE_0", dl_mode |-> "INACTIVE", mhinfo |-> "NONE",
   mh |-> "INACTIVE_0", mhcmd |-> "INACTIVE", rwcmd |-> "NONE", retry |-> 0,
   dataready |-> FALSE, error |-> FALSE,
   timer_type |-> "NONE", timer |-> FALSE, timer_elapsed |-> FALSE,
   odh |-> "INACTIVE", ohcmd |-> "INACTIVE", trigger |-> "NONE",
   isduh |-> "INACTIVE", ihcmd |-> "INACTIVE", isdu_total |-> 0, isdu_seg |-> 0,
   isdu_timer |-> "off",
   cmdh |-> "INACTIVE", chcmd |-> "INACTIVE", control_code |-> "NONE",
   master_command |-> "NONE",
   evh |-> "INACTIVE", ehcmd |-> "INACTIVE", event_flag |-> FALSE,
   event_confirmation |-> FALSE, ev_left |-> 0, ev_set |-> <<>>,
   interleave |-> FALSE, first_read_min_cycl |-> TRUE, tx |-> "NONE",
   rx |-> NoReply]

\* iolink_dl_reset, called by the handler thread: the struct is cleared whatever
\* the thread of the port is doing.
DlReset(p) == [p EXCEPT !.dl = [InitDataLink EXCEPT !.tx = p.dl.tx]]

=============================================================================
