------------------------------ MODULE PortStack ------------------------------
(***************************************************************************)
(* One port of the master: data link layer, on-request data of the         *)
(* application layer, system management and configuration manager, run by  *)
(* their threads.                                                          *)
(*                                                                         *)
(*   the thread of the port (dl_main) fetches the event bits and handles   *)
(*     them one after the other, in a fixed order;                         *)
(*   the main thread (iolink_main) takes jobs from its mailbox and calls   *)
(*     their callbacks, which call the data link layer directly;           *)
(*   the handler thread configures the port, and when it has got the event *)
(*     NO_DEV resets the data link layer and configures it again;          *)
(*   timers, the transceiver and the device do what they do.               *)
(*                                                                         *)
(* The threads interleave between events and between jobs; each event and  *)
(* each job is one step.                                                   *)
(***************************************************************************)
EXTENDS ConfigurationManager

CONSTANTS
  AccessAt,     \* a bound: when users access the device, by the status of the port
  Devices,      \* the devices that may be connected instead of another
  Configs,      \* what the port may be configured for
  Scenarios,    \* which device is there at first, and how often each of the things
                \* below may happen then
  IsduAnswers,  \* what the device may answer to an ISDU
  IsduTotals,   \* messages its answer may take
  StatusCodes,  \* its StatusCode may be without details ("type1") or with them
  EventSets,    \* the events it may say there are
  DsAnswers,    \* what its data storage may answer
  MaxJobs,      \* jobs that may wait before the thread of the port runs on
  Indices       \* what users access: through an "ISDU", as an octet of the page of
                \* parameters ("PARAM", and "PARAM_0" the first), in a "BATCH"

DeviceRecords ==
  [rev : {"V11", "V10", "V10_014E"},
   differs : {"nothing", "cycle", "vendor", "device", "serial", "overlong"},
   adapts : BOOLEAN]

ConfigRecords ==
  [mode : {"CFGCOM", "AUTOCOM", "DIDO", "INACTIVE"},
   check : {"NO", "V10", "V11", "V11_RESTORE", "V11_BAK_RESTORE"}]

\* Bounds, and nothing of the program: configurations by the user, starts after
\* COMLOST, disturbed messages, disconnections, services asked for, events
\* raised by the device, changes of the validity of output data.
BudgetRecords ==
  [configs : Nat, restarts : Nat, errors : Nat, unplugs : Nat, services : Nat,
   flags : Nat, controls : Nat]

PortStatus == {"DEACTIVATED", "DIDO", "PREOP", "OP", "PORT_DIAG", "NO_DEV"}

ASSUME PortStackAssumption ==
  /\ AccessAt \subseteq PortStatus
  /\ Devices \subseteq DeviceRecords
  /\ Configs \subseteq ConfigRecords
  /\ Scenarios \subseteq [device : DeviceRecords, budget : BudgetRecords]
  /\ IsduAnswers \subseteq {"ok", "busy", "malformed", "checksum"} /\ IsduAnswers # {}
  /\ IsduTotals \subseteq Nat \ {0} /\ IsduTotals # {}
  /\ StatusCodes \subseteq {"type1", "details"}
  /\ \A set \in EventSets :
        set \in Seq({"notice", "alarm", "upload"}) /\ Len(set) <= MaxEvents
  /\ DsAnswers \subseteq DsAnswerKinds /\ DsAnswers # {}
  /\ MaxJobs \in Nat \ {0}
  /\ Indices \subseteq {"ISDU", "PARAM", "PARAM_0", "BATCH"}

VARIABLES
  cm,      \* iolink_cm_port_t, and the status of the port
  sm,      \* iolink_sm_port_t
  ds,      \* iolink_ds_port_t
  al,      \* iolink_al_port_t
  dl,      \* iolink_dl_t
  pl,      \* what the transceiver has been told to do
  mbox,    \* jobs posted to the main thread
  events,  \* event bits set for the thread of the port
  batch,   \* dl->triggered_events: bits it has fetched and not handled yet
  dev,     \* the device; link is "absent", "asleep" (connected, and not talking
           \* IO-Link) or "awake"; flag says that it has an event to report
  user,    \* services the users have asked for and not been answered
  od,      \* the state of the on-request data exchange
  told,    \* the events the application has been told last
  wanted,  \* the configuration the application has asked for last
  lost,    \* the application has got the event NO_DEV and will start again
  failed,  \* why the program has stopped, if it has
  left     \* what remains of the budget of the scenario

vars == <<cm, sm, ds, al, dl, pl, mbox, events, batch, dev, user, od, told,
          wanted, lost, failed, left>>

layers == <<cm, sm, ds, al>>
clients == <<user, od, told, wanted, lost, failed>>

\* The context the layers work on
Port == [cm |-> cm, sm |-> sm, ds |-> ds, al |-> al, dl |-> dl, pl |-> pl, mbox |-> mbox,
         events |-> events, dev |-> dev, user |-> user, od |-> od, told |-> told,
         lost |-> lost, failed |-> failed]

Becomes(p) ==
  /\ cm' = p.cm /\ sm' = p.sm /\ ds' = p.ds /\ al' = p.al /\ dl' = p.dl /\ pl' = p.pl
  /\ mbox' = p.mbox /\ events' = p.events /\ dev' = p.dev /\ user' = p.user
  /\ od' = p.od /\ told' = p.told /\ lost' = p.lost /\ failed' = p.failed

Spend(what) == left[what] > 0 /\ left' = [left EXCEPT ![what] = @ - 1]

Running == failed = "no"

\* A device that has just been connected
Connected(d) ==
  [rev |-> d.rev, differs |-> d.differs, adapts |-> d.adapts, link |-> "asleep",
   flag |-> FALSE]

Init ==
  /\ cm = InitConfigurationManager
  /\ sm = InitSystemManagement
  /\ ds = InitDataStorage
  /\ al = InitApplicationLayer
  /\ dl = InitDataLink
  /\ pl = [sdci |-> FALSE, wurq |-> FALSE, baud |-> FALSE, due |-> FALSE,
           cyclic |-> FALSE, ready |-> FALSE, msg |-> "NONE"]
  /\ mbox = <<>>
  /\ events = {}
  /\ batch = {}
  /\ \E scenario \in Scenarios : dev = Connected(scenario.device) /\ left = scenario.budget
  /\ user = 0
  /\ od = "Inactive"
  /\ told = <<>>
  /\ wanted = NoConfig
  /\ lost = FALSE
  /\ failed = "no"

-----------------------------------------------------------------------------
(* The thread of the port *)

\* os_event_wait and os_event_clr.  MaxJobs is a bound: the main thread does not
\* fall behind by more jobs.
DlWait ==
  /\ Running /\ batch = {} /\ events # {} /\ Len(mbox) < MaxJobs
  /\ batch' = events
  /\ events' = {}
  /\ UNCHANGED <<layers, dl, pl, mbox, dev, clients, left>>

\* The order in which dl_main looks at the bits
Order == <<"RXRDY", "RXERR", "WURQ", "MDH", "MH", "TIMEOUT">>

\* The thread handles the first bit that is set.
Handles(bit) ==
  /\ Running /\ bit \in batch
  /\ \A i, j \in DOMAIN Order : i < j /\ Order[j] = bit => Order[i] \notin batch
  /\ batch' = batch \ {bit}
  /\ UNCHANGED <<wanted, left>>

\* What the reply may say, where it makes a difference.  Without details the
\* device cannot ask for an upload.
SaysStatus == dl.evh = "READEVENT" /\ dl.ev_left = 0

Replies ==
  { reply \in
      [flag   : {dev.flag},
       isdu   : IF dl.isduh = "ISDUWAIT" THEN IsduAnswers ELSE {"ok"},
       total  : IF dl.isduh = "ISDUWAIT" THEN IsduTotals ELSE {1},
       status : IF SaysStatus THEN StatusCodes ELSE {"type1"},
       set    : IF SaysStatus THEN EventSets ELSE {<<>>}] :
    reply.status = "type1" => "upload" \notin Range(reply.set) }

\* iolink_pl_get_data takes the message out of the transceiver.
DlRxReady ==
  /\ Handles("RXRDY")
  /\ \E reply \in Replies : Becomes(RxReady([Port EXCEPT !.pl.ready = FALSE], reply))

DlRxError == Handles("RXERR") /\ Becomes(HandleError(Port))

DlWakeUp ==
  /\ Handles("WURQ")
  /\ Becomes(IF pl.baud THEN WurqReceived(Port) ELSE WurqFailed(Port))

DlMode    == Handles("MDH") /\ Becomes(ModeHandler(Port))
DlMessage == Handles("MH") /\ Becomes(MessageHandler(Port))
DlTimeout == Handles("TIMEOUT") /\ Becomes(TimerTimeout(Port))

DlThread == DlRxReady \/ DlRxError \/ DlWakeUp \/ DlMode \/ DlMessage \/ DlTimeout

-----------------------------------------------------------------------------
(* The main thread: the callback of each type of job *)

\* The job is taken from the mailbox, and its callback makes p of the port.
Executes(type, Callback(_, _)) ==
  /\ Running /\ mbox # <<>> /\ Head(mbox).type = type
  /\ Becomes(Callback([Port EXCEPT !.mbox = Tail(@)], Head(mbox)))
  /\ UNCHANGED <<batch, wanted, left>>

MainPortConfiguration == Executes("SMI_PORTCONFIGURATION", CmPortConfiguration)
MainPortModeInd   == Executes("SM_PORT_MODE_IND", CmPortModeInd)
MainDsReady       == Executes("DS_READY", CmDsReady)
MainDsFault       == Executes("DS_FAULT", CmDsFault)
MainDsStartup     == Executes("DS_STARTUP", DsStartup)
MainDsInit        == Executes("DS_INIT", DsInit)
MainDsDelete      == Executes("DS_DELETE", DsDelete)
MainDsReadCnf     ==
  \E answer \in DsAnswers : Executes("DS_READ_CNF", LAMBDA p, job : DsReadCnf(p, job, answer))
MainDsWriteCnf    ==
  \E answer \in DsAnswers : Executes("DS_WRITE_CNF", LAMBDA p, job : DsWriteCnf(p, job, answer))
MainDsUpload      == Executes("DS_UPLOAD", DsUpload)
MainOdStart       == Executes("OD_START", OdStart)
MainOdStop        == Executes("OD_STOP", OdStop)
MainSmiRequest    == Executes("SMI_DEVICE_RW", SmiRwRequest)
MainUserCnf       == Executes("AL_USER_CNF", OdCnf)
MainSetPortConfig == Executes("SM_SET_PORT_CFG_REQ", LAMBDA p, job : SmSetPortConfig(p, job.config))
MainOperate       == Executes("SM_OPERATE_REQ", LAMBDA p, job : SmOperate(p))
MainModeInd       == Executes("DL_MODE_IND", LAMBDA p, job : SmModeInd(p, job.mode))
MainReadCnf       == Executes("DL_READ_CNF", SmReadCnf)
MainWriteCnf      == Executes("DL_WRITE_CNF", SmWriteCnf)
MainDevmodeCnf    == Executes("DL_WRITE_DEVMODE_CNF", LAMBDA p, job : SmDevmodeCnf(p, job.ok))
MainAlCnf         == Executes("AL_CNF", SmAlCnf)
MainAlRequest     == Executes("AL_REQ", AlRequest)
MainReadParamCnf  == Executes("DL_READPARAM_CNF", LAMBDA p, job : AlParamCnf(p, "READ", job.ok))
MainWriteParamCnf == Executes("DL_WRITEPARAM_CNF", LAMBDA p, job : AlParamCnf(p, "WRITE", job.ok))
MainIsduCnf       == Executes("DL_ISDU_TRANS_CNF", LAMBDA p, job : AlIsduCnf(p, job.ok))
MainEventInd      == Executes("DL_EVENT_IND", DlEventInd)
MainEventRsp      == Executes("AL_EVENT_RSP", AlEventRsp)

MainThread ==
  \/ MainPortConfiguration \/ MainPortModeInd \/ MainDsReady \/ MainDsFault
  \/ MainDsStartup \/ MainDsInit \/ MainDsDelete \/ MainDsReadCnf \/ MainDsWriteCnf
  \/ MainDsUpload \/ MainOdStart \/ MainOdStop \/ MainSmiRequest \/ MainUserCnf
  \/ MainSetPortConfig \/ MainOperate \/ MainModeInd
  \/ MainReadCnf \/ MainWriteCnf \/ MainDevmodeCnf
  \/ MainAlCnf \/ MainAlRequest
  \/ MainReadParamCnf \/ MainWriteParamCnf \/ MainIsduCnf
  \/ MainEventInd \/ MainEventRsp

-----------------------------------------------------------------------------
(* The layers above *)

\* cm_SMI_PortConfiguration_req
PortConfiguration_req(p, config) ==
  Post(p, [type |-> "SMI_PORTCONFIGURATION", config |-> config])

Configure ==
  /\ Running /\ Spend("configs")
  /\ wanted' \in Configs
  /\ Becomes(PortConfiguration_req(Port, wanted'))
  /\ UNCHANGED batch

\* The handler thread starts the port again.  It clears triggered_events too,
\* whatever the thread of the port is about to look at.
Restart ==
  /\ Running /\ lost /\ Spend("restarts")
  /\ Becomes(PortConfiguration_req(DlReset([Port EXCEPT !.lost = FALSE]), wanted))
  /\ batch' = {}
  /\ UNCHANGED wanted

\* SMI_DeviceRead, SMI_DeviceWrite and access in batches: the SMI passes them on,
\* whatever the state of the port.
Access ==
  /\ Running /\ cm.status \in AccessAt /\ Spend("services")
  /\ \E direction \in {"READ", "WRITE"}, index \in Indices :
        Becomes(SMI_rw_req(Port, direction, index))
  /\ UNCHANGED <<batch, wanted>>

\* SMI_PDOut with another output enable bit, on the thread of the caller: it is
\* accepted while the process data handler is active.
Control ==
  /\ Running /\ cm.state = "Port_Active" /\ dl.mdh = "OPERATE_4" /\ Spend("controls")
  /\ \E code \in {"PDOUTVALID", "PDOUTINVALID"} : Becomes(DL_Control_req(Port, code))
  /\ UNCHANGED <<batch, wanted>>

-----------------------------------------------------------------------------
(* Timers, transceiver and device *)

\* A message has been sent, or the transceiver repeats it by itself.
OnTheLine == pl.sdci /\ (pl.due \/ pl.cyclic)

\* What a message changes in the device: its events have been taken, or it has
\* been told to take the identity that has been written (DEVICE_IDENT).
Receives(msg) ==
  CASE msg = "EVENTCONF" -> [dev EXCEPT !.flag = FALSE]
    [] /\ msg = "WRITE" /\ dev.adapts
       /\ sm.state = "RestartDevice" /\ sm.dl_addr = "MASTER_CMD" ->
         [dev EXCEPT !.rev = IF sm.config.check = "V10" THEN "V10" ELSE "V11",
                     !.differs = IF sm.config.mode = "CFGCOM" /\ @ = "device"
                                 THEN "nothing" ELSE @]
    [] OTHER -> dev

\* iolink_pl_max14819_pl_handler: what has been received is reported unless what
\* came before it has not been fetched yet.
DeviceAnswers ==
  /\ Running /\ OnTheLine /\ dev.link = "awake"
  /\ pl' = [pl EXCEPT !.due = FALSE, !.ready = TRUE]
  /\ events' = IF pl.ready THEN events ELSE events \union {"RXRDY"}
  /\ dev' = Receives(pl.msg)
  /\ UNCHANGED <<layers, dl, mbox, batch, clients, left>>

\* No answer, because nobody listens, or one that is no use
Unanswered ==
  /\ Running /\ OnTheLine
  /\ pl' = [pl EXCEPT !.due = FALSE]
  /\ events' = events \union {"RXERR"}
  /\ UNCHANGED <<layers, dl, mbox, batch, dev, clients>>

NoAnswer  == Unanswered /\ dev.link # "awake" /\ UNCHANGED left
LineError == Unanswered /\ dev.link = "awake" /\ Spend("errors")

\* The transceiver has tried to wake the device up.
WakeUpEnds ==
  /\ Running /\ pl.wurq
  /\ pl' = [pl EXCEPT !.wurq = FALSE, !.baud = dev.link # "absent"]
  /\ events' = events \union {"WURQ"}
  /\ dev' = [dev EXCEPT !.link = IF @ = "absent" THEN @ ELSE "awake"]
  /\ UNCHANGED <<layers, dl, mbox, batch, clients, left>>

\* dl_timer_timeout, on a thread of its own
TimerFires ==
  /\ Running /\ dl.timer
  /\ dl' = [dl EXCEPT !.timer = FALSE]
  /\ events' = events \union {"TIMEOUT"}
  /\ UNCHANGED <<layers, pl, mbox, batch, dev, clients, left>>

\* The time the device has for an ISDU is over, which takes one that is busy;
\* nothing tells the thread.
IsduTimeElapses ==
  /\ Running /\ dl.isdu_timer = "running" /\ "busy" \in IsduAnswers
  /\ dl' = [dl EXCEPT !.isdu_timer = "elapsed"]
  /\ UNCHANGED <<layers, pl, mbox, events, batch, dev, clients, left>>

Unplug ==
  /\ Running /\ dev.link # "absent" /\ Spend("unplugs")
  /\ dev' = [dev EXCEPT !.link = "absent", !.flag = FALSE]
  /\ UNCHANGED <<layers, dl, pl, mbox, events, batch, clients>>

\* Connected again, be it the same device or another one
Plug ==
  /\ Running /\ dev.link = "absent"
  /\ \E d \in Devices : dev' = Connected(d)
  /\ UNCHANGED <<layers, dl, pl, mbox, events, batch, clients, left>>

\* A device reports its events once it has left STARTUP.
RaiseEvent ==
  /\ Running /\ dev.link = "awake" /\ ~dev.flag /\ Spend("flags")
  /\ dl.mdh \in {"PREOPERATE_3", "OPERATE_4"}
  /\ dev' = [dev EXCEPT !.flag = TRUE]
  /\ UNCHANGED <<layers, dl, pl, mbox, events, batch, clients>>

Above  == Configure \/ Restart \/ Access \/ Control
Around ==
  \/ DeviceAnswers \/ NoAnswer \/ LineError \/ WakeUpEnds \/ TimerFires
  \/ IsduTimeElapses \/ Unplug \/ Plug \/ RaiseEvent

Next == DlWait \/ DlThread \/ MainThread \/ Above \/ Around

Spec == Init /\ [][Next]_vars

-----------------------------------------------------------------------------
(* Fairness *)

\* Every thread is scheduled (the program runs its own under a real-time policy),
\* the timers expire, the transceiver ends its wake-up request and reports that
\* nothing has answered, the device answers, and the handler thread starts a lost
\* port again.  Users, lines and devices that come and go are not fair.
\*
\* The two threads and the restart have their weak fairness written out, with the
\* guard under which they can be taken and change something: TLC evaluates ENABLED
\* of callbacks nested as deep as theirs far too slowly.
Fairness ==
  /\ WF_vars(DlWait)
  /\ []<>(~(Running /\ batch # {})) \/ []<><<DlThread>>_vars
  /\ []<>(~(Running /\ mbox # <<>>)) \/ []<><<MainThread>>_vars
  /\ []<>(~(Running /\ lost /\ left.restarts > 0)) \/ []<><<Restart>>_vars
  /\ WF_vars(DeviceAnswers) /\ WF_vars(NoAnswer) /\ WF_vars(WakeUpEnds)
  /\ WF_vars(TimerFires) /\ WF_vars(IsduTimeElapses)

FairSpec == Spec /\ Fairness

-----------------------------------------------------------------------------
(* Types *)

Jobs ==
  { "SMI_PORTCONFIGURATION", "SM_PORT_MODE_IND", "DS_READY", "DS_FAULT", "DS_STARTUP",
    "DS_INIT", "DS_DELETE", "DS_UPLOAD", "DS_READ_CNF", "DS_WRITE_CNF", "OD_START",
    "OD_STOP", "SMI_DEVICE_RW", "AL_USER_CNF", "AL_EVENT_RSP",
    "SM_SET_PORT_CFG_REQ", "SM_OPERATE_REQ", "DL_MODE_IND", "DL_READ_CNF",
    "DL_WRITE_CNF", "DL_WRITE_DEVMODE_CNF", "AL_CNF", "AL_REQ", "DL_READPARAM_CNF",
    "DL_WRITEPARAM_CNF", "DL_ISDU_TRANS_CNF", "DL_EVENT_IND" }

\* The states a table of transitions names
StatesOf(table) == {row[1] : row \in table} \union {row[3] : row \in table}

DataLinkOK ==
  /\ dl.mdh \in {"IDLE_0", "ESTCOM_1", "STARTUP_2", "PREOPERATE_3", "OPERATE_4"}
  /\ dl.dl_mode \in {"INACTIVE", "STARTUP", "PREOPERATE", "OPERATE"}
  /\ dl.mh \in {"INACTIVE_0", "STARTUP_2", "RESPONSE_3", "AW_REPLY_4", "ERRORHANDLING_5",
                "PREOPERATE_6", "GETOD_7", "RESPONSE_8", "AW_REPLY_9", "ERRORHANDLING_10",
                "OPERATE_12", "RESPONSE_15", "AW_REPLY_16"}
  /\ dl.mhcmd \in {"INACTIVE", "STARTUP", "PREOPERATE", "OPERATE"}
  /\ dl.rwcmd \in {"NONE", "READ", "WRITE", "READPARAM", "WRITEPARAM", "ISDUTRANSPORT"}
  /\ dl.odh \in {"INACTIVE", "ISDU", "COMMAND", "EVENT"}
  /\ dl.isduh \in {"INACTIVE", "IDLE", "ISDUREQUEST", "ISDUWAIT", "ISDUERROR",
                   "ISDURESPONSE"}
  /\ dl.cmdh \in {"INACTIVE", "IDLE", "MASTERCOMMAND"}
  /\ dl.evh \in {"INACTIVE", "IDLE", "READEVENT"}
  /\ dl.retry \in 0..MaxRetry
  /\ dl.ev_left \in 0..EventOctets * MaxEvents

\* Every variable has its type.  Of the data link layer: a message is never sent
\* more often than MaxRetry allows (iolink_dl.c, ERRORHANDLING_5 and _10), nor
\* is more event memory read than there is.  Of data storage: iolink_ds_event
\* always comes to an end, and no more parameters are transferred than there are.
TypeOK ==
  /\ cm.state \in StatesOf(CmTransitions)
  /\ cm.config \in ConfigRecords
  /\ cm.status \in PortStatus
  /\ sm.state \in StatesOf(Transitions)
  /\ sm.config \in ConfigRecords
  /\ sm.comp_retry \in 0..1
  /\ ds.state \in StatesOf(DsTransitions)
  /\ ds.event = "NONE"
  /\ ds.pos \in 0..Parameters
  /\ al.state \in {"Idle", "AwaitParam", "AwaitIsdu"}
  /\ DataLinkOK
  /\ \A i \in DOMAIN mbox : mbox[i].type \in Jobs
  /\ events \union batch \subseteq Range(Order)
  /\ \E scenario \in Scenarios : user \in 0..scenario.budget.services
  /\ od \in StatesOf(OdTransitions)
  /\ al.ev.state \in StatesOf(EventTransitions)
  /\ wanted \in ConfigRecords
  /\ left \in BudgetRecords

-----------------------------------------------------------------------------
(* What holds whenever the port is looked at *)

Waiting(types) == {i \in DOMAIN mbox : mbox[i].type \in types}
RequestsOf(who) == {i \in Waiting({"AL_REQ"}) : mbox[i].who = who}

\* The one a service under way will be confirmed to
ServedFor == IF al.direction = "READ" THEN al.read ELSE al.write

\* The assertions of the callbacks hold, and none calls a callback that is not
\* set: no answer comes in a state that does not expect it (CC_ASSERT of
\* sm_DL_Read_cnf_cb, sm_DL_Write_cnf_cb and sm_DL_Write_cnf_restart_dev).
NoFailure == failed = "no"

\* Start-up services are in turn: one read or write of a register is under way, in
\* the data link layer or as a confirmation nobody has seen, and never two.  The
\* confirmations say no address, so that two could not be told apart
\* (iolink_sm.c, sm_DL_Read_Write_req).
OneStartUpService ==
  Cardinality(Waiting({"DL_READ_CNF", "DL_WRITE_CNF"}))
    + (IF dl.rwcmd \in {"READ", "WRITE"} THEN 1 ELSE 0) <= 1

\* Where a service of the on-request data exchange can be: asked for, under way, or
\* confirmed and not seen
UserServices ==
  Cardinality(RequestsOf("USER")) + Cardinality(Waiting({"AL_USER_CNF"}))
    + (IF al.state # "Idle" /\ ServedFor = "USER" THEN 1 ELSE 0)

\* The exchange is blocked for exactly one service, which is still to be confirmed.
\* It keeps one request, and the confirmation does not say whose it is: with a second
\* one about, a user would be answered with the data of another, and with none the
\* exchange would stay blocked (iolink_ode.c, ode->smi_req; iolink_al.c).
BlockedForOneService == od = "ODblocked" => UserServices = 1

\* Users who wait for a request that is still to be looked at, or for the service the
\* exchange is blocked for
Expected == Cardinality(Waiting({"SMI_DEVICE_RW"})) + (IF od = "ODblocked" THEN 1 ELSE 0)

\* No user is answered twice, and none loses the prospect of an answer except when
\* the exchange is stopped while its service is under way (iolink_ode.c, the rows of
\* OD_STOP; the confirmation is dropped later).
AnsweredOrStopped ==
  [][user' - Expected' # user - Expected
       => od = "ODblocked" /\ Head(mbox).type = "OD_STOP"]_vars

\* Whoever has a service with the application layer can expect its outcome: the
\* data link layer is working on it, or has confirmed it (iolink_dl.c,
\* handle_com_lost, and the ISDU handler when it is switched off).
ServiceIsDue ==
  /\ al.state = "AwaitIsdu" =>
       \/ dl.rwcmd = "ISDUTRANSPORT" \/ (dl.mh = "INACTIVE_0" /\ dl.isdu_total > 0)
       \/ dl.isduh \notin {"INACTIVE", "IDLE"}
       \/ Waiting({"DL_ISDU_TRANS_CNF"}) # {}
  /\ al.state = "AwaitParam" =>
       \/ dl.rwcmd \in {"READPARAM", "WRITEPARAM"}
       \/ Waiting({"DL_READPARAM_CNF", "DL_WRITEPARAM_CNF"}) # {}

\* The system management is in checkSerNum only while the serial number it has
\* asked for is still to come.  It ignores COMLOST there because the failed
\* confirmation is to follow (iolink_sm.c, sm_comlost_ignore).
SerialNumberIsDue ==
  sm.state = "checkSerNum" =>
    \/ Waiting({"AL_CNF"}) # {} \/ RequestsOf("SM") # {}
    \/ al.state # "Idle" /\ al.read = "SM"

\* A configuration comes when the system management takes it: it refuses one
\* without an answer while it starts a device up (sm_setportcfg_req_cb), and
\* nobody would try again.
ReconfigurationIsTaken ==
  mbox # <<>> /\ Head(mbox).type = "SM_SET_PORT_CFG_REQ" => sm.state \in ConfigurableStates

\* When all has been handled, a port that is active exchanges process data, and a
\* port that is said to be operational is active: what the application reads from
\* port_status_info is true.
Quiet == mbox = <<>> /\ events = {} /\ batch = {}

ActiveMeansOperate ==
  /\ cm.state = "Port_Active" /\ Quiet => dl.mdh = "OPERATE_4"
  /\ cm.status = "OP" /\ Quiet => cm.state = "Port_Active"

-----------------------------------------------------------------------------
(* Devices that are not the one configured *)

\* The faults one device is found to have under one configuration.  The revision goes
\* first.  A serial number is compared with the empty one.
Verdict(c, d) ==
  CASE d.rev = "V11" /\ c.check = "V10" -> {"RevisionFault"}
    [] d.differs = "cycle" -> {"CycTimeFault", "CycTimeFault_V10"}
    [] d.differs \in {"vendor", "device"} /\ c.check # "NO" -> {"CompFault", "V10CompFault"}
    [] d.differs = "serial" /\ c.check = "V10" -> {"SerNumFault"}
    [] OTHER -> {}

\* A device gets past the start-up only if it is the one configured, whichever
\* was connected when its registers were read (iolink_sm.c, the checks).
OnlyMatchingDevices ==
  cm.state \in {"DS_ParamManager", "WaitingOnOperate", "Port_Active"} /\ dev.link = "awake"
    => Verdict(cm.config, dev) = {}

\* A port that reports a fault has a device with that fault, unless the device
\* has since taken another identity.
FaultsAreTrue ==
  cm.state = "PortFault" /\ dev.link = "awake" /\ ~dev.adapts
    => sm.error_event \in Verdict(cm.config, dev)

\* Nothing disturbs the start-up of any device under any configuration: in the
\* end the port stays operational, or stays in the fault the device has.
Settled ==
  IF Verdict(wanted, dev) = {} THEN cm.status = "OP"
  ELSE cm.status = "PORT_DIAG" /\ sm.error_event \in Verdict(wanted, dev)

StartUpSettles == (left.configs = 0) ~> []Settled

-----------------------------------------------------------------------------
(* Data storage *)

Stores == ds.state \notin {"CheckActivationState", "WaitingOnDSActivity", "Off"}

\* Data storage transfers parameters only while the configuration manager waits for
\* it (DS_ParamManager), or has still to hear that it is done: it does not have
\* the device when the application has.
StorageHasThePort ==
  Stores => cm.state = "DS_ParamManager" \/ Waiting({"DS_READY", "DS_FAULT"}) # {}

\* A port with backup does not become active before the parameters of the device
\* configured are stored in the master, whatever data storage met on its way
\* (iolink_ds.c, ds_chk_validity and ds_write_cnf_cb).
StoredWhenActive ==
  cm.state = "Port_Active" /\ cm.config.check = "V11_BAK_RESTORE" /\ cm.config.mode = "CFGCOM"
    => ds.valid /\ ds.id = "configured"

\* While data storage runs, a lost communication is left to it: it will report the
\* fault, and the port is then reported lost (iolink_cm.c, cm_comlost_ignore).
ComlostIsHandled ==
  (cm.state = "DS_ParamManager" /\ sm.state = "PortInactive") ~> (cm.status = "NO_DEV")

-----------------------------------------------------------------------------
(* Events of the device *)

\* What the application is told is a set as the device has reported it, not two of
\* them mixed, however late the main thread collects the events
\* (iolink_al.c, al_dl_event_ind_cb and al_event_idle).
EventSetsAreWhole == told # <<>> => told \in EventSets

-----------------------------------------------------------------------------
(* What must happen in the end *)

\* A service does not block the exchange for ever, though the device be busy, answer
\* nonsense, be disturbed or disconnected, and the port be started again.
ExchangeIsFreed == (od = "ODblocked") ~> (od # "ODblocked")

\* An event flag that comes in PREOPERATE leads to a message that fetches the event,
\* or the port leaves PREOPERATE (iolink_dl.c, preoperate6: "event_flag" is among the
\* transitions "T13, T14, T15, T17, T16"; await_reply9, and the mode handler).
EventIsFetched ==
  (dl.mdh = "PREOPERATE_3" /\ dl.event_flag) ~> ~(dl.mdh = "PREOPERATE_3" /\ dl.event_flag)

\* A port does not stay active with a device that does not answer any more.
Silent == cm.state = "Port_Active" /\ dev.link # "awake"
LossIsNoticed == Silent ~> ~Silent

-----------------------------------------------------------------------------
(* The promise to the application *)

\* The status of the port changes, and the device is accessed, in the order
\* PortLifecycle says.
Lifecycle == INSTANCE PortLifecycle WITH
  status <- cm.status, storage <- Stores, od <- od # "Inactive"
LifecycleKept == Lifecycle!Spec

=============================================================================
