--------------------------- MODULE DataLinkProofs ---------------------------
(***************************************************************************)
(* What the operators of the data link layer make of a port, for every     *)
(* value of the constants.  They are functions of the code called by each  *)
(* other and by the layers above, so one relation describes them all:      *)
(* DlStep(p, q) says that q is a port p has become by calls of this layer. *)
(* It is transitive, and each operator has a lemma that says it makes such *)
(* a step.                                                                 *)
(***************************************************************************)
EXTENDS PortStack, SequenceTheorems, TLAPS

PortFields ==
  {"cm", "sm", "ds", "al", "dl", "pl", "mbox", "events", "dev", "user", "od", "told",
   "lost", "failed"}

DlFields ==
  {"mdh", "dl_mode", "mhinfo", "mh", "mhcmd", "rwcmd", "retry", "dataready", "error",
   "timer_type", "timer", "timer_elapsed", "odh", "ohcmd", "trigger", "isduh", "ihcmd",
   "isdu_total", "isdu_seg", "isdu_timer", "cmdh", "chcmd", "control_code",
   "master_command", "evh", "ehcmd", "event_flag", "event_confirmation", "ev_left",
   "ev_set", "interleave", "first_read_min_cycl", "tx", "rx"}

-----------------------------------------------------------------------------
(* Jobs *)

Kinds == {"notice", "alarm", "upload"}
Directions == {"READ", "WRITE"}
Revisions == {"none", "V10", "V10_014E", "V11"}
Differences == {"nothing", "cycle", "vendor", "device", "serial", "overlong"}
Identities == [rev : Revisions, differs : Differences]
Registers ==
  {"DUMMY_WURQ", "MIN_CYCL", "PDO", "VID_1", "FID_2", "REV_ID", "DID_3", "MASTER_CMD",
   "MASTER_CYCL"}
DsFaults == {"NONE", "ID", "SIZE", "LOCK", "UP", "DOWN"}
ModesTold == {"INACTIVE", "STARTUP", "PREOPERATE", "OPERATE", "COMLOST"}
PortModes == Faults \union {"COMREADY", "OPERATE", "COMLOST", "INACTIVE", "DIDO"}

\* Users read octets of the parameter page only if they access one.
UsersReadParam == {"PARAM", "PARAM_0"} \cap Indices # {}

\* The jobs of all layers but the requests of users, what they are answered, and the
\* response to a set of events
QuietJobs ==
  UNION {
    [type : {"DS_READY", "DS_STARTUP", "DS_DELETE", "DS_UPLOAD", "OD_START", "OD_STOP",
             "SM_OPERATE_REQ"}],
    [type : {"DS_FAULT"}, fault : DsFaults],
    [type : {"DS_INIT", "SM_SET_PORT_CFG_REQ", "SMI_PORTCONFIGURATION"},
     config : ConfigRecords],
    [type : {"SM_PORT_MODE_IND"}, mode : PortModes],
    [type : {"DL_MODE_IND"}, mode : ModesTold],
    [type : {"DL_READ_CNF"}, addr : Registers, ok : BOOLEAN, from : Identities],
    [type : {"DL_WRITE_CNF"}, addr : Registers, ok : BOOLEAN],
    [type : {"DL_WRITEPARAM_CNF", "DL_ISDU_TRANS_CNF", "DL_WRITE_DEVMODE_CNF",
             "DS_READ_CNF", "DS_WRITE_CNF"}
              \union (IF UsersReadParam THEN {"DL_READPARAM_CNF"} ELSE {}),
     ok : BOOLEAN],
    [type : {"AL_CNF"}, direction : Directions, ok : BOOLEAN, from : Identities],
    [type : {"AL_REQ"}, direction : Directions, index : {"ISDU"}, who : {"SM", "DS"}],
    [type : {"AL_REQ"}, direction : {"WRITE"}, index : {"PARAM"}, who : {"SM"}],
    [type : {"DL_EVENT_IND"}, event : Kinds, left : Nat] }

UserJobs ==
  UNION {
    [type : {"SMI_DEVICE_RW"}, direction : Directions, index : Indices],
    [type : {"AL_REQ"}, direction : Directions, index : Indices \ {"BATCH"},
     who : {"USER"}],
    [type : {"AL_USER_CNF", "AL_EVENT_RSP"}] }

JobSet == QuietJobs \union UserJobs

\* The set S of events is indicated by the jobs of mailbox m from position a on.
BlockAt(m, a, S) ==
  /\ a + Len(S) - 1 <= Len(m)
  /\ \A j \in 1..Len(S) : m[a + j - 1] = DL_Event_ind(S[j], Len(S) - j)

\* From position lo on the mailbox holds whole sets of events.
Whole(m, lo) ==
  \A i \in lo..Len(m) : m[i].type = "DL_EVENT_IND" =>
    \E a \in lo..i, S \in EventSets : i <= a + Len(S) - 1 /\ BlockAt(m, a, S)

\* Jobs are posted, and those of before are kept.
Grows(m, n) ==
  /\ Len(m) <= Len(n)
  /\ \A i \in 1..Len(m) : n[i] = m[i]
  /\ \A i \in Len(m) + 1 .. Len(n) : n[i] \in QuietJobs
  /\ Whole(n, Len(m) + 1)

\* The jobs that tell data storage what to do, and those by which it says that it is done
StorageJobs == {"DS_STARTUP", "DS_READY", "DS_FAULT", "DS_UPLOAD", "DS_INIT", "DS_DELETE"}

\* The jobs by which the port is configured, the application let in and kept out, and the
\* configuration manager told of the port
PortJobs ==
  {"SMI_PORTCONFIGURATION", "SM_SET_PORT_CFG_REQ", "SM_PORT_MODE_IND", "OD_START", "OD_STOP"}

Claimed == StorageJobs \union PortJobs

\* No job of data storage is among those posted; and none that configures the port either.
Apart(m, n) == \A i \in Len(m) + 1 .. Len(n) : n[i].type \notin StorageJobs
Modest(m, n) == \A i \in Len(m) + 1 .. Len(n) : n[i].type \notin Claimed

-----------------------------------------------------------------------------
(* Types *)

ReportedSets == EventSets \union {<<>>}

DlOK(d) ==
  /\ DOMAIN d = DlFields
  /\ d.mdh \in {"IDLE_0", "ESTCOM_1", "STARTUP_2", "PREOPERATE_3", "OPERATE_4"}
  /\ d.dl_mode \in {"INACTIVE", "STARTUP", "PREOPERATE", "OPERATE"}
  /\ d.mh \in {"INACTIVE_0", "STARTUP_2", "RESPONSE_3", "AW_REPLY_4", "ERRORHANDLING_5",
               "PREOPERATE_6", "GETOD_7", "RESPONSE_8", "AW_REPLY_9", "ERRORHANDLING_10",
               "OPERATE_12", "RESPONSE_15", "AW_REPLY_16"}
  /\ d.mhcmd \in {"INACTIVE", "STARTUP", "PREOPERATE", "OPERATE"}
  /\ d.rwcmd \in {"NONE", "READ", "WRITE", "READPARAM", "WRITEPARAM", "ISDUTRANSPORT"}
  /\ d.rwcmd = "READPARAM" => UsersReadParam
  /\ d.odh \in {"INACTIVE", "ISDU", "COMMAND", "EVENT"}
  /\ d.ohcmd \in {"INACTIVE", "ACTIVE"}
  /\ d.trigger \in {"NONE", "MASTER", "DEVICE"}
  /\ d.isduh \in {"INACTIVE", "IDLE", "ISDUREQUEST", "ISDUWAIT", "ISDUERROR",
                  "ISDURESPONSE"}
  /\ d.cmdh \in {"INACTIVE", "IDLE", "MASTERCOMMAND"}
  /\ d.evh \in {"INACTIVE", "IDLE", "READEVENT"}
  /\ d.retry \in 0..MaxRetry
  /\ d.ev_left \in 0..EventOctets * MaxEvents
  /\ d.ev_set \in ReportedSets
  /\ d.rx.set \in ReportedSets

\* The faults a device may be found to have
FaultEvents ==
  {"V10CompFault", "RevisionFault", "CompFault", "SerNumFault", "CycTimeFault",
   "CycTimeFault_V10"}

\* A fallback is under way only when the port has been switched off.
SmOK(s) ==
  /\ DOMAIN s = {"state", "dl_addr", "comp_retry", "error_event", "config", "real"}
  /\ s.state \in StatesOf(Transitions)
  /\ s.config \in ConfigRecords
  /\ s.comp_retry \in 0..1
  /\ s.dl_addr \in Registers
  /\ s.error_event \in FaultEvents \union {"NONE"}
  /\ s.state = "waitForFallback" => s.config.mode = "INACTIVE"

CmOK(c) ==
  /\ DOMAIN c = {"state", "config", "status"}
  /\ c.state \in StatesOf(CmTransitions)
  /\ c.config \in ConfigRecords
  /\ c.status \in PortStatus

DsOK(d) ==
  /\ DOMAIN d = {"state", "enable", "upload", "download", "fault", "pending", "id",
                 "valid", "pos", "answer", "event"}
  /\ d.state \in StatesOf(DsTransitions)
  /\ d.pos \in 0..Parameters
  /\ d.fault \in DsFaults

AlOK(a) ==
  /\ DOMAIN a = {"state", "read", "write", "direction", "data", "ev"}
  /\ a.state \in {"Idle", "AwaitParam", "AwaitIsdu"}
  /\ a.read \in {"NONE", "SM", "DS", "USER"}
  /\ a.write \in {"NONE", "SM", "DS", "USER"}
  /\ a.direction \in Directions
  /\ a.data \in Identities
  /\ DOMAIN a.ev = {"state", "cnt", "set"}
  /\ a.ev.state \in StatesOf(EventTransitions)
  /\ a.ev.cnt \in 0..MaxEvents
  /\ a.ev.set \in [1..MaxEvents -> Kinds \union {"none"}]

PortOK(p) ==
  /\ DOMAIN p = PortFields
  /\ DlOK(p.dl) /\ SmOK(p.sm) /\ CmOK(p.cm) /\ DsOK(p.ds) /\ AlOK(p.al)
  /\ p.mbox \in Seq(JobSet)
  /\ p.events \subseteq Range(Order)
  /\ DOMAIN p.dev = {"rev", "differs", "adapts", "link", "flag"}
  /\ p.dev.rev \in Revisions /\ p.dev.differs \in Differences
  /\ p.od \in StatesOf(OdTransitions)

\* No user is answered, no service taken, and the application is told nothing.
Unseen(p, q) ==
  /\ PortOK(q)
  /\ Grows(p.mbox, q.mbox)
  /\ q.user = p.user /\ q.od = p.od /\ q.told = p.told
  /\ q.al.state = p.al.state /\ q.al.read = p.al.read /\ q.al.write = p.al.write
  /\ q.al.direction = p.al.direction /\ q.al.ev = p.al.ev

\* The data link layer posts jobs, sets event bits and works on its own state.
DlStep(p, q) ==
  /\ Unseen(p, q) /\ Modest(p.mbox, q.mbox)
  /\ q.cm = p.cm /\ q.sm = p.sm /\ q.ds = p.ds /\ q.dev = p.dev
  /\ q.lost = p.lost /\ q.failed = p.failed

-----------------------------------------------------------------------------
(* Mailboxes *)

\* A mailbox that stays as it is.
LEMMA GrowsNot == ASSUME NEW m \in Seq(JobSet) PROVE Grows(m, m)
  BY DEF Grows, Whole

\* Whole sets remain whole when other whole sets follow.
LEMMA WholeTwice ==
  ASSUME NEW m \in Seq(JobSet), NEW n \in Seq(JobSet), NEW lo \in Nat \ {0},
         lo <= Len(m) + 1, Len(m) <= Len(n), \A i \in 1..Len(m) : n[i] = m[i],
         Whole(m, lo), Whole(n, Len(m) + 1)
  PROVE  Whole(n, lo)
<1>1. Len(m) \in Nat /\ Len(n) \in Nat
  OBVIOUS
<1> SUFFICES ASSUME NEW i \in lo..Len(n), n[i].type = "DL_EVENT_IND"
             PROVE  \E a \in lo..i, S \in EventSets :
                       i <= a + Len(S) - 1 /\ BlockAt(n, a, S)
  BY DEF Whole
<1>2. CASE i > Len(m)
  <2>1. i \in Len(m) + 1 .. Len(n)
    BY <1>1, <1>2
  <2>2. PICK a \in Len(m) + 1 .. i, S \in EventSets :
           i <= a + Len(S) - 1 /\ BlockAt(n, a, S)
    BY <2>1 DEF Whole
  <2>3. a \in lo..i
    BY <1>1, <2>2
  <2> QED
    BY <2>2, <2>3
<1>3. CASE i <= Len(m)
  <2>1. i \in lo..Len(m) /\ m[i] = n[i]
    BY <1>1, <1>3
  <2>2. PICK a \in lo..i, S \in EventSets :
           i <= a + Len(S) - 1 /\ BlockAt(m, a, S)
    BY <2>1 DEF Whole
  <2>3. Len(S) \in Nat
    BY PortStackAssumption
  <2>4. \A j \in 1..Len(S) : a + j - 1 \in 1..Len(m)
    BY <1>1, <2>2, <2>3 DEF BlockAt
  <2>5. \A j \in 1..Len(S) : n[a + j - 1] = m[a + j - 1]
    BY <2>4
  <2>6. a + Len(S) - 1 <= Len(n)
    BY <1>1, <2>2, <2>3 DEF BlockAt
  <2>7. BlockAt(n, a, S)
    BY <2>2, <2>5, <2>6 DEF BlockAt
  <2> QED
    BY <2>2, <2>7
<1> QED
  BY <1>1, <1>2, <1>3

\* What has grown twice has grown.
LEMMA GrowsTwice ==
  ASSUME NEW l \in Seq(JobSet), NEW m \in Seq(JobSet), NEW n \in Seq(JobSet),
         Grows(l, m), Grows(m, n)
  PROVE  Grows(l, n)
<1>1. /\ Len(l) \in Nat /\ Len(m) \in Nat /\ Len(n) \in Nat
      /\ Len(l) <= Len(m) /\ Len(m) <= Len(n)
  BY DEF Grows
<1>2. \A i \in 1..Len(l) : n[i] = l[i]
  BY <1>1 DEF Grows
<1>3. \A i \in Len(l) + 1 .. Len(n) : n[i] \in QuietJobs
  BY <1>1 DEF Grows
<1>4. Whole(n, Len(l) + 1)
  <2>1. Len(l) + 1 \in Nat \ {0} /\ Len(l) + 1 <= Len(m) + 1
    BY <1>1
  <2>2. Whole(m, Len(l) + 1) /\ Whole(n, Len(m) + 1) /\ \A i \in 1..Len(m) : n[i] = m[i]
    BY DEF Grows
  <2> HIDE DEF Whole
  <2> QED
    BY <1>1, <2>1, <2>2, WholeTwice
<1> QED
  BY <1>1, <1>2, <1>3, <1>4 DEF Grows

\* A job that is not an event is posted.
LEMMA GrowsByOne ==
  ASSUME NEW m \in Seq(JobSet), NEW job \in QuietJobs, job.type # "DL_EVENT_IND"
  PROVE  Append(m, job) \in Seq(JobSet) /\ Grows(m, Append(m, job))
<1>1. job \in JobSet
  BY DEF JobSet
<1>2. /\ Append(m, job) \in Seq(JobSet)
      /\ Len(Append(m, job)) = Len(m) + 1
      /\ \A i \in 1..Len(m) : Append(m, job)[i] = m[i]
      /\ Append(m, job)[Len(m) + 1] = job
  BY <1>1
<1>3. Len(m) \in Nat
  OBVIOUS
<1>4. Whole(Append(m, job), Len(m) + 1)
  BY <1>2, <1>3 DEF Whole
<1> QED
  BY <1>2, <1>3, <1>4 DEF Grows

\* A whole set of events is posted.
LEMMA GrowsBySet ==
  ASSUME NEW m \in Seq(JobSet), NEW S \in ReportedSets, NEW jobs,
         jobs = [i \in DOMAIN S |-> DL_Event_ind(S[i], Len(S) - i)]
  PROVE  m \o jobs \in Seq(JobSet) /\ Grows(m, m \o jobs) /\ Modest(m, m \o jobs)
<1>1. S \in Seq(Kinds) /\ Len(S) \in Nat /\ DOMAIN S = 1..Len(S)
  BY PortStackAssumption DEF ReportedSets, Kinds
<1>2. \A i \in 1..Len(S) : jobs[i] \in QuietJobs
  <2> SUFFICES ASSUME NEW i \in 1..Len(S)
               PROVE  jobs[i] \in QuietJobs
    OBVIOUS
  <2>1. jobs[i] \in [type : {"DL_EVENT_IND"}, event : Kinds, left : Nat]
    BY <1>1 DEF DL_Event_ind
  <2> QED
    BY <2>1 DEF QuietJobs
<1>3. jobs \in Seq(QuietJobs) /\ Len(jobs) = Len(S)
  BY <1>1, <1>2
<1>4. jobs \in Seq(JobSet)
  BY <1>3 DEF JobSet
<1>5. /\ m \o jobs \in Seq(JobSet)
      /\ Len(m \o jobs) = Len(m) + Len(S)
      /\ \A i \in 1..Len(m) : (m \o jobs)[i] = m[i]
      /\ \A i \in 1..Len(S) : (m \o jobs)[Len(m) + i] = jobs[i]
  <2>1. m \o jobs \in Seq(JobSet) /\ Len(m \o jobs) = Len(m) + Len(S)
    BY <1>3, <1>4
  <2>2. /\ Len(m) \in Nat /\ Len(S) \in Nat
        /\ \A i \in 1..Len(m) + Len(S) :
              (m \o jobs)[i] = IF i <= Len(m) THEN m[i] ELSE jobs[i - Len(m)]
    BY <1>1, <1>3, <1>4
  <2>3. \A i \in 1..Len(m) : (m \o jobs)[i] = m[i]
    BY <2>2
  <2>4. ASSUME NEW i \in 1..Len(S)
        PROVE  (m \o jobs)[Len(m) + i] = jobs[i]
    <3>1. Len(m) + i \in 1..Len(m) + Len(S) /\ ~(Len(m) + i <= Len(m))
      BY <2>2
    <3>2. Len(m) + i - Len(m) = i
      BY <2>2
    <3> QED
      BY <2>2, <3>1, <3>2
  <2> QED
    BY <2>1, <2>3, <2>4
<1>6. Len(m) \in Nat
  OBVIOUS
<1>7. \A i \in Len(m) + 1 .. Len(m \o jobs) : (m \o jobs)[i] \in QuietJobs
  <2> TAKE i \in Len(m) + 1 .. Len(m \o jobs)
  <2>1. i - Len(m) \in 1..Len(S) /\ i = Len(m) + (i - Len(m))
    BY <1>1, <1>5, <1>6
  <2> QED
    BY <1>2, <1>5, <2>1
<1>8. Whole(m \o jobs, Len(m) + 1)
  <2>1. CASE S = <<>>
    BY <1>5, <1>6, <2>1 DEF Whole
  <2>2. CASE S # <<>>
    <3>1. S \in EventSets
      BY <2>2 DEF ReportedSets
    <3> DEFINE a == Len(m) + 1
    <3>2. BlockAt(m \o jobs, a, S)
      <4>1. \A j \in 1..Len(S) : a + j - 1 = Len(m) + j
        BY <1>6, <1>1
      <4>2. \A j \in 1..Len(S) : (m \o jobs)[a + j - 1] = DL_Event_ind(S[j], Len(S) - j)
        BY <1>1, <1>5, <4>1
      <4>3. a + Len(S) - 1 <= Len(m \o jobs)
        BY <1>1, <1>5, <1>6
      <4> QED
        BY <4>2, <4>3 DEF BlockAt
    <3>3. \A i \in a..Len(m \o jobs) : a \in a..i /\ i <= a + Len(S) - 1
      BY <1>1, <1>5, <1>6
    <3> QED
      BY <3>1, <3>2, <3>3 DEF Whole
  <2> QED
    BY <2>1, <2>2
<1>9. Modest(m, m \o jobs)
  <2> SUFFICES ASSUME NEW i \in Len(m) + 1 .. Len(m \o jobs)
               PROVE  (m \o jobs)[i].type \notin Claimed
    BY DEF Modest
  <2>1. i - Len(m) \in 1..Len(S) /\ i = Len(m) + (i - Len(m))
    BY <1>1, <1>5, <1>6
  <2>2. (m \o jobs)[i] = jobs[i - Len(m)]
    BY <1>5, <2>1
  <2>3. jobs[i - Len(m)].type = "DL_EVENT_IND"
    BY <1>1, <2>1 DEF DL_Event_ind
  <2> QED
    BY <2>2, <2>3 DEF Claimed, PortJobs, StorageJobs
<1> QED
  BY <1>5, <1>6, <1>7, <1>8, <1>9 DEF Grows

-----------------------------------------------------------------------------
(* Steps *)

\* What layers above and below can rely on: nothing happens to a mailbox by itself,
\* and steps compose.
LEMMA UnseenNot == ASSUME NEW p, PortOK(p) PROVE Unseen(p, p)
<1>1. p.mbox \in Seq(JobSet)
  BY DEF PortOK
<1> QED
  BY <1>1, GrowsNot DEF Unseen

LEMMA UnseenTwice ==
  ASSUME NEW p, NEW q, NEW r, PortOK(p), Unseen(p, q), Unseen(q, r)
  PROVE  Unseen(p, r)
<1>1. p.mbox \in Seq(JobSet) /\ q.mbox \in Seq(JobSet) /\ r.mbox \in Seq(JobSet)
  BY DEF PortOK, Unseen
<1>2. Grows(p.mbox, r.mbox)
  BY <1>1, GrowsTwice DEF Unseen
<1> QED
  BY <1>2 DEF Unseen

LEMMA ModestNot == ASSUME NEW m, Len(m) \in Nat PROVE Modest(m, m)
  BY DEF Modest

LEMMA ModestTwice ==
  ASSUME NEW l \in Seq(JobSet), NEW m \in Seq(JobSet), NEW n \in Seq(JobSet),
         Len(l) <= Len(m), \A i \in 1..Len(m) : n[i] = m[i], Modest(l, m), Modest(m, n)
  PROVE  Modest(l, n)
<1>1. Len(l) \in Nat /\ Len(m) \in Nat /\ Len(n) \in Nat
  OBVIOUS
<1> SUFFICES ASSUME NEW i \in Len(l) + 1 .. Len(n)
             PROVE  n[i].type \notin Claimed
  BY DEF Modest
<1>2. CASE i <= Len(m)
  <2>1. i \in Len(l) + 1 .. Len(m) /\ i \in 1..Len(m)
    BY <1>1, <1>2
  <2> QED
    BY <1>1, <2>1 DEF Modest
<1>3. CASE ~(i <= Len(m))
  <2>1. i \in Len(m) + 1 .. Len(n)
    BY <1>1, <1>3
  <2> QED
    BY <2>1 DEF Modest
<1> QED
  BY <1>2, <1>3

LEMMA ApartNot == ASSUME NEW m, Len(m) \in Nat PROVE Apart(m, m)
  BY DEF Apart

LEMMA ApartTwice ==
  ASSUME NEW l \in Seq(JobSet), NEW m \in Seq(JobSet), NEW n \in Seq(JobSet),
         Len(l) <= Len(m), \A i \in 1..Len(m) : n[i] = m[i], Apart(l, m), Apart(m, n)
  PROVE  Apart(l, n)
<1>1. Len(l) \in Nat /\ Len(m) \in Nat /\ Len(n) \in Nat
  OBVIOUS
<1> SUFFICES ASSUME NEW i \in Len(l) + 1 .. Len(n)
             PROVE  n[i].type \notin StorageJobs
  BY DEF Apart
<1>2. CASE i <= Len(m)
  <2>1. i \in Len(l) + 1 .. Len(m) /\ i \in 1..Len(m)
    BY <1>1, <1>2
  <2> QED
    BY <1>1, <2>1 DEF Apart
<1>3. CASE ~(i <= Len(m))
  <2>1. i \in Len(m) + 1 .. Len(n)
    BY <1>1, <1>3
  <2> QED
    BY <2>1 DEF Apart
<1> QED
  BY <1>2, <1>3

LEMMA ModestApart == ASSUME NEW m, NEW n, Modest(m, n) PROVE Apart(m, n)
  BY DEF Modest, Apart, Claimed

LEMMA DlNot == ASSUME NEW p, PortOK(p) PROVE DlStep(p, p)
<1>1. p.mbox \in Seq(JobSet)
  BY DEF PortOK
<1>2. Len(p.mbox) \in Nat
  BY <1>1
<1> QED
  BY <1>2, ModestNot, UnseenNot DEF DlStep

LEMMA DlTwice ==
  ASSUME NEW p, NEW q, NEW r, PortOK(p), DlStep(p, q), DlStep(q, r)
  PROVE  DlStep(p, r)
<1>1. p.mbox \in Seq(JobSet) /\ q.mbox \in Seq(JobSet) /\ r.mbox \in Seq(JobSet)
  BY DEF PortOK, DlStep, Unseen
<1>2. Modest(p.mbox, r.mbox)
  BY <1>1, ModestTwice DEF DlStep, Unseen, Grows
<1> QED
  BY <1>2, UnseenTwice DEF DlStep

LEMMA DlPortOK == ASSUME NEW p, NEW q, DlStep(p, q) PROVE PortOK(q)
  BY DEF DlStep, Unseen

\* The state of the data link layer is set.
LEMMA SetDl ==
  ASSUME NEW p, PortOK(p), NEW d, DlOK(d)
  PROVE  DlStep(p, [p EXCEPT !.dl = d])
<1> DEFINE q == [p EXCEPT !.dl = d]
<1>1. DOMAIN p = PortFields /\ p.mbox \in Seq(JobSet)
  BY DEF PortOK
<1>2. /\ DOMAIN q = PortFields /\ q.dl = d
      /\ \A f \in PortFields \ {"dl"} : q[f] = p[f]
  BY <1>1 DEF PortFields
<1> HIDE DEF q
<1>3. /\ q.cm = p.cm /\ q.sm = p.sm /\ q.ds = p.ds /\ q.al = p.al /\ q.mbox = p.mbox
      /\ q.events = p.events /\ q.dev = p.dev /\ q.user = p.user /\ q.od = p.od
      /\ q.told = p.told /\ q.lost = p.lost /\ q.failed = p.failed
  BY <1>2 DEF PortFields
<1>4. PortOK(q)
  BY <1>2, <1>3 DEF PortOK
<1>5. Grows(p.mbox, q.mbox) /\ Modest(p.mbox, q.mbox)
  BY <1>1, <1>3, GrowsNot, ModestNot
<1>6. DlStep(p, q)
  BY <1>3, <1>4, <1>5 DEF DlStep, Unseen
<1> QED
  BY <1>6 DEF q

\* The transceiver is told something.
LEMMA SetPl ==
  ASSUME NEW p, PortOK(p), NEW x
  PROVE  DlStep(p, [p EXCEPT !.pl = x])
<1> DEFINE q == [p EXCEPT !.pl = x]
<1>1. DOMAIN p = PortFields /\ p.mbox \in Seq(JobSet)
  BY DEF PortOK
<1>2. /\ DOMAIN q = PortFields
      /\ \A f \in PortFields \ {"pl"} : q[f] = p[f]
  BY <1>1 DEF PortFields
<1> HIDE DEF q
<1>3. /\ q.cm = p.cm /\ q.sm = p.sm /\ q.ds = p.ds /\ q.al = p.al /\ q.mbox = p.mbox
      /\ q.events = p.events /\ q.dev = p.dev /\ q.user = p.user /\ q.od = p.od
      /\ q.told = p.told /\ q.lost = p.lost /\ q.failed = p.failed /\ q.dl = p.dl
  BY <1>2 DEF PortFields
<1>4. PortOK(q)
  BY <1>2, <1>3 DEF PortOK
<1>5. Grows(p.mbox, q.mbox) /\ Modest(p.mbox, q.mbox)
  BY <1>1, <1>3, GrowsNot, ModestNot
<1>6. DlStep(p, q)
  BY <1>3, <1>4, <1>5 DEF DlStep, Unseen
<1> QED
  BY <1>6 DEF q

\* An event bit is set.
LEMMA SetEventStep ==
  ASSUME NEW p, PortOK(p), NEW bit \in Range(Order)
  PROVE  DlStep(p, SetEvent(p, bit))
<1> DEFINE q == SetEvent(p, bit)
<1>1. DOMAIN p = PortFields /\ p.mbox \in Seq(JobSet) /\ p.events \subseteq Range(Order)
  BY DEF PortOK
<1>2. /\ DOMAIN q = PortFields /\ q.events = p.events \union {bit}
      /\ \A f \in PortFields \ {"events"} : q[f] = p[f]
  BY <1>1 DEF PortFields, SetEvent
<1> HIDE DEF q
<1>3. /\ q.cm = p.cm /\ q.sm = p.sm /\ q.ds = p.ds /\ q.al = p.al /\ q.mbox = p.mbox
      /\ q.dl = p.dl /\ q.dev = p.dev /\ q.user = p.user /\ q.od = p.od
      /\ q.told = p.told /\ q.lost = p.lost /\ q.failed = p.failed
  BY <1>2 DEF PortFields
<1>4. PortOK(q)
  BY <1>1, <1>2, <1>3 DEF PortOK
<1>5. Grows(p.mbox, q.mbox) /\ Modest(p.mbox, q.mbox)
  BY <1>1, <1>3, GrowsNot, ModestNot
<1>6. DlStep(p, q)
  BY <1>3, <1>4, <1>5 DEF DlStep, Unseen
<1> QED
  BY <1>6 DEF q

\* The mailbox grows.
LEMMA SetMbox ==
  ASSUME NEW p, PortOK(p), NEW m \in Seq(JobSet), Grows(p.mbox, m), Modest(p.mbox, m)
  PROVE  DlStep(p, [p EXCEPT !.mbox = m])
<1> DEFINE q == [p EXCEPT !.mbox = m]
<1>1. DOMAIN p = PortFields
  BY DEF PortOK
<1>2. /\ DOMAIN q = PortFields /\ q.mbox = m
      /\ \A f \in PortFields \ {"mbox"} : q[f] = p[f]
  BY <1>1 DEF PortFields
<1> HIDE DEF q
<1>3. /\ q.cm = p.cm /\ q.sm = p.sm /\ q.ds = p.ds /\ q.al = p.al /\ q.dl = p.dl
      /\ q.events = p.events /\ q.dev = p.dev /\ q.user = p.user /\ q.od = p.od
      /\ q.told = p.told /\ q.lost = p.lost /\ q.failed = p.failed
  BY <1>2 DEF PortFields
<1>4. PortOK(q)
  BY <1>2, <1>3 DEF PortOK
<1>6. DlStep(p, q)
  BY <1>2, <1>3, <1>4 DEF DlStep, Unseen
<1> QED
  BY <1>6 DEF q

LEMMA PostStep ==
  ASSUME NEW p, PortOK(p),
         NEW job \in QuietJobs, job.type \notin Claimed \union {"DL_EVENT_IND"}
  PROVE  DlStep(p, Post(p, job))
<1>1. DOMAIN p = PortFields /\ p.mbox \in Seq(JobSet)
  BY DEF PortOK
<1>2. /\ Append(p.mbox, job) \in Seq(JobSet) /\ Grows(p.mbox, Append(p.mbox, job))
      /\ Modest(p.mbox, Append(p.mbox, job))
  <2>1. Append(p.mbox, job)[Len(p.mbox) + 1] = job
        /\ Len(Append(p.mbox, job)) = Len(p.mbox) + 1
    BY <1>1
  <2>2. Modest(p.mbox, Append(p.mbox, job))
    BY <1>1, <2>1 DEF Modest
  <2> QED
    BY <1>1, <2>2, GrowsByOne
<1>3. Post(p, job) = [p EXCEPT !.mbox = Append(p.mbox, job)]
  BY DEF Post
<1> QED
  BY <1>2, <1>3, SetMbox

\* The event bits there are.
LEMMA Bits == Range(Order) = {"RXRDY", "RXERR", "WURQ", "MDH", "MH", "TIMEOUT"}
<1>1. DOMAIN Order = 1..6
  BY DEF Order
<1>2. 1..6 = {1, 2, 3, 4, 5, 6}
  OBVIOUS
<1> QED
  BY <1>1, <1>2 DEF Order, Range

-----------------------------------------------------------------------------
(* Timers, transceiver, indications and confirmations *)

LEMMA OD_reqStep ==
  ASSUME NEW p, PortOK(p), NEW what PROVE DlStep(p, OD_req(p, what))
<1>0. DOMAIN p = PortFields /\ DlOK(p.dl)
  BY DEF PortOK
<1> DEFINE d == [p.dl EXCEPT !.tx = what]
<1> DEFINE q == [p EXCEPT !.dl = d]
<1>1. DlOK(d)
  BY <1>0 DEF DlOK, DlFields
<1>2. DlStep(p, q) /\ PortOK(q)
  BY <1>1, SetDl, DlPortOK
<1>3. [p EXCEPT !.dl.tx = what] = q
  BY <1>0 DEF PortFields
<1> QED
  BY <1>2, <1>3 DEF OD_req

LEMMA TransferStep == ASSUME NEW p, PortOK(p) PROVE DlStep(p, Transfer(p))
<1> DEFINE q == Download(p)
<1>1. DlStep(p, q) /\ PortOK(q)
  BY SetPl, DlPortOK DEF Download
<1>2. Transfer(p) = [q EXCEPT !.pl = [q.pl EXCEPT !.due = TRUE]]
  BY DEF Transfer
<1> HIDE DEF q
<1> QED
  BY <1>1, <1>2, SetPl, DlTwice

LEMMA DownloadStep == ASSUME NEW p, PortOK(p) PROVE DlStep(p, Download(p))
  BY SetPl DEF Download

LEMMA ResendStep == ASSUME NEW p, PortOK(p) PROVE DlStep(p, Resend(p))
  BY SetPl DEF Resend

LEMMA CycleTimerStep ==
  ASSUME NEW p, PortOK(p)
  PROVE  DlStep(p, EnableCycleTimer(p)) /\ DlStep(p, DisableCycleTimer(p))
  BY SetPl DEF EnableCycleTimer, DisableCycleTimer

LEMMA StartTimerStep == ASSUME NEW p, PortOK(p) PROVE DlStep(p, StartTimer(p))
<1>0. DOMAIN p = PortFields /\ DlOK(p.dl)
  BY DEF PortOK
<1> DEFINE d == [p.dl EXCEPT !.timer_type = "TINITCYC", !.timer_elapsed = FALSE,
                             !.timer = TRUE]
<1> DEFINE q == [p EXCEPT !.dl = d]
<1>1. DlOK(d)
  BY <1>0 DEF DlOK, DlFields
<1>2. DlStep(p, q) /\ PortOK(q)
  BY <1>1, SetDl, DlPortOK
<1>3. [p EXCEPT !.dl.timer_type = "TINITCYC", !.dl.timer_elapsed = FALSE,
                !.dl.timer = TRUE] = q
  BY <1>0 DEF PortFields
<1> QED
  BY <1>2, <1>3 DEF StartTimer

LEMMA StopTimerStep == ASSUME NEW p, PortOK(p) PROVE DlStep(p, StopTimer(p))
<1>0. DOMAIN p = PortFields /\ DlOK(p.dl)
  BY DEF PortOK
<1> DEFINE d == [p.dl EXCEPT !.timer = FALSE]
<1> DEFINE q == [p EXCEPT !.dl = d]
<1>1. DlOK(d)
  BY <1>0 DEF DlOK, DlFields
<1>2. DlStep(p, q) /\ PortOK(q)
  BY <1>1, SetDl, DlPortOK
<1>3. [p EXCEPT !.dl.timer = FALSE] = q
  BY <1>0 DEF PortFields
<1> QED
  BY <1>2, <1>3 DEF StopTimer

LEMMA InitSdciStep == ASSUME NEW p, PortOK(p) PROVE DlStep(p, InitSdci(p))
<1> DEFINE x == [p.pl EXCEPT !.wurq = TRUE, !.due = FALSE, !.cyclic = FALSE]
<1>0. DOMAIN p = PortFields
  BY DEF PortOK
<1>1. InitSdci(p) = [p EXCEPT !.pl = x]
  BY <1>0 DEF InitSdci, PortFields
<1> QED
  BY <1>1, SetPl

LEMMA PL_SetModeStep ==
  ASSUME NEW p, PortOK(p), NEW mode PROVE DlStep(p, PL_SetMode_req(p, mode))
<1> DEFINE x == [p.pl EXCEPT !.sdci = (mode = "SDCI"), !.wurq = FALSE, !.due = FALSE,
                             !.cyclic = FALSE]
<1>0. DOMAIN p = PortFields
  BY DEF PortOK
<1>1. PL_SetMode_req(p, mode) = [p EXCEPT !.pl = x]
  BY <1>0 DEF PL_SetMode_req, PortFields
<1> QED
  BY <1>1, SetPl, SMTT(60)

LEMMA DL_Mode_indStep ==
  ASSUME NEW p, PortOK(p), NEW mode \in ModesTold PROVE DlStep(p, DL_Mode_ind(p, mode))
<1>1. [type |-> "DL_MODE_IND", mode |-> mode] \in QuietJobs
  BY DEF QuietJobs
<1> QED
  BY <1>1, PostStep DEF Claimed, PortJobs, StorageJobs, DL_Mode_ind

LEMMA DL_Read_cnfStep ==
  ASSUME NEW p, PortOK(p), NEW ok \in BOOLEAN PROVE DlStep(p, DL_Read_cnf(p, ok))
<1>1. p.sm.dl_addr \in Registers /\ Identity(p) \in Identities
  BY DEF PortOK, SmOK, Identity, Identities
<1>2. [type |-> "DL_READ_CNF", addr |-> p.sm.dl_addr, ok |-> ok, from |-> Identity(p)]
         \in QuietJobs
  BY <1>1 DEF QuietJobs
<1> QED
  BY <1>2, PostStep DEF Claimed, PortJobs, StorageJobs, DL_Read_cnf

LEMMA DL_Write_cnfStep ==
  ASSUME NEW p, PortOK(p), NEW ok \in BOOLEAN PROVE DlStep(p, DL_Write_cnf(p, ok))
<1>1. p.sm.dl_addr \in Registers
  BY DEF PortOK, SmOK
<1>2. [type |-> "DL_WRITE_CNF", addr |-> p.sm.dl_addr, ok |-> ok] \in QuietJobs
  BY <1>1 DEF QuietJobs
<1> QED
  BY <1>2, PostStep DEF Claimed, PortJobs, StorageJobs, DL_Write_cnf

LEMMA DL_ReadParam_cnfStep ==
  ASSUME NEW p, PortOK(p), NEW ok \in BOOLEAN, UsersReadParam
  PROVE  DlStep(p, DL_ReadParam_cnf(p, ok))
<1>1. [type |-> "DL_READPARAM_CNF", ok |-> ok] \in QuietJobs
  BY DEF QuietJobs
<1> QED
  BY <1>1, PostStep DEF Claimed, PortJobs, StorageJobs, DL_ReadParam_cnf

LEMMA DL_WriteParam_cnfStep ==
  ASSUME NEW p, PortOK(p), NEW ok \in BOOLEAN PROVE DlStep(p, DL_WriteParam_cnf(p, ok))
<1>1. [type |-> "DL_WRITEPARAM_CNF", ok |-> ok] \in QuietJobs
  BY DEF QuietJobs
<1> QED
  BY <1>1, PostStep DEF Claimed, PortJobs, StorageJobs, DL_WriteParam_cnf

LEMMA DL_Write_Devicemode_cnfStep ==
  ASSUME NEW p, PortOK(p), NEW ok \in BOOLEAN
  PROVE  DlStep(p, DL_Write_Devicemode_cnf(p, ok))
<1>1. [type |-> "DL_WRITE_DEVMODE_CNF", ok |-> ok] \in QuietJobs
  BY DEF QuietJobs
<1> QED
  BY <1>1, PostStep DEF Claimed, PortJobs, StorageJobs, DL_Write_Devicemode_cnf

\* What has been read through an ISDU is stored in the application layer.
LEMMA SetAlData ==
  ASSUME NEW p, PortOK(p), NEW x \in Identities
  PROVE  DlStep(p, [p EXCEPT !.al.data = x])
<1> DEFINE a == [p.al EXCEPT !.data = x]
           q == [p EXCEPT !.al = a]
<1>1. DOMAIN p = PortFields /\ p.mbox \in Seq(JobSet) /\ AlOK(p.al)
  BY DEF PortOK
<1>2. /\ DOMAIN q = PortFields /\ q.al = a
      /\ \A f \in PortFields \ {"al"} : q[f] = p[f]
  BY <1>1 DEF PortFields
<1>3. AlOK(a) /\ a.state = p.al.state /\ a.read = p.al.read /\ a.write = p.al.write
      /\ a.direction = p.al.direction /\ a.ev = p.al.ev
  BY <1>1 DEF AlOK
<1> HIDE DEF a
<1>4. q = [p EXCEPT !.al.data = x]
  BY DEF a
<1> HIDE DEF q
<1>5. /\ q.cm = p.cm /\ q.sm = p.sm /\ q.ds = p.ds /\ q.dl = p.dl /\ q.mbox = p.mbox
      /\ q.events = p.events /\ q.dev = p.dev /\ q.user = p.user /\ q.od = p.od
      /\ q.told = p.told /\ q.lost = p.lost /\ q.failed = p.failed
  BY <1>2 DEF PortFields
<1>6. PortOK(q)
  BY <1>2, <1>3, <1>5 DEF PortOK
<1>7. Grows(p.mbox, q.mbox) /\ Modest(p.mbox, q.mbox)
  BY <1>1, <1>5, GrowsNot, ModestNot
<1>8. DlStep(p, q)
  BY <1>2, <1>3, <1>5, <1>6, <1>7 DEF DlStep, Unseen
<1> QED
  BY <1>4, <1>8

LEMMA DL_ISDUTransport_cnfStep ==
  ASSUME NEW p, PortOK(p), NEW ok \in BOOLEAN
  PROVE  DlStep(p, DL_ISDUTransport_cnf(p, ok))
<1> DEFINE x == IF ok /\ p.al.direction = "READ" THEN Identity(p) ELSE p.al.data
           q == [p EXCEPT !.al.data = x]
<1>1. x \in Identities
  BY DEF PortOK, AlOK, Identity, Identities
<1>2. DL_ISDUTransport_cnf(p, ok) = Post(q, [type |-> "DL_ISDU_TRANS_CNF", ok |-> ok])
  BY DEF DL_ISDUTransport_cnf
<1> HIDE DEF x
<1>3. DlStep(p, q) /\ PortOK(q)
  BY <1>1, SetAlData, DlPortOK
<1> HIDE DEF q
<1>4. [type |-> "DL_ISDU_TRANS_CNF", ok |-> ok] \in QuietJobs
  BY DEF QuietJobs
<1>5. DlStep(q, Post(q, [type |-> "DL_ISDU_TRANS_CNF", ok |-> ok]))
  BY <1>3, <1>4, PostStep DEF Claimed, PortJobs, StorageJobs
<1> QED
  BY <1>2, <1>3, <1>5, DlTwice

LEMMA MHInfo_ComLostStep == ASSUME NEW p, PortOK(p) PROVE DlStep(p, MHInfo_ComLost(p))
<1>0. DOMAIN p = PortFields /\ DlOK(p.dl)
  BY DEF PortOK
<1> DEFINE d == [p.dl EXCEPT !.mhinfo = "COMLOST"]
<1> DEFINE q == [p EXCEPT !.dl = d]
<1>1. DlOK(d)
  BY <1>0 DEF DlOK, DlFields
<1>2. DlStep(p, q) /\ PortOK(q)
  BY <1>1, SetDl, DlPortOK
<1>3. [p EXCEPT !.dl.mhinfo = "COMLOST"] = q
  BY <1>0 DEF PortFields
<1>4. MHInfo_ComLost(p) = SetEvent(q, "MDH")
  BY <1>3 DEF MHInfo_ComLost
<1> HIDE DEF q
<1>5. DlStep(q, SetEvent(q, "MDH"))
  BY <1>2, SetEventStep, Bits
<1> QED
  BY <1>2, <1>4, <1>5, DlTwice

LEMMA WriteMasterCommandStep ==
  ASSUME NEW p, PortOK(p), NEW ok \in BOOLEAN PROVE DlStep(p, WriteMasterCommand(p, ok))
<1>0. DOMAIN p = PortFields /\ DlOK(p.dl)
  BY DEF PortOK
<1> DEFINE q == [p EXCEPT !.dl = [p.dl EXCEPT !.master_command = "NONE"]]
<1>1. DlOK([p.dl EXCEPT !.master_command = "NONE"])
  BY <1>0 DEF DlOK, DlFields
<1>2. DlStep(p, q) /\ PortOK(q)
  BY <1>1, SetDl, DlPortOK
<1>3. WriteMasterCommand(p, ok) \in {q, DL_Write_Devicemode_cnf(q, ok)}
  BY DEF WriteMasterCommand
<1> HIDE DEF q
<1>4. DlStep(q, DL_Write_Devicemode_cnf(q, ok))
  BY <1>2, DL_Write_Devicemode_cnfStep
<1> QED
  BY <1>2, <1>3, <1>4, DlTwice

-----------------------------------------------------------------------------
(* Command handler and ISDU handler *)

LEMMA CommandHandlerStep == ASSUME NEW p, PortOK(p) PROVE DlStep(p, CommandHandler(p))
<1>0. DOMAIN p = PortFields /\ DlOK(p.dl)
  BY DEF PortOK
<1>1. CASE p.dl.cmdh = "INACTIVE" /\ p.dl.chcmd = "ACTIVE"
  <2> DEFINE d == [p.dl EXCEPT !.cmdh = "IDLE"]
             q == [p EXCEPT !.dl = d]
  <2>1. DlOK(d)
    BY <1>0, <1>1 DEF DlOK, DlFields
  <2>2. DlStep(p, q) /\ PortOK(q)
    BY <2>1, SetDl, DlPortOK
  <2>3. [p EXCEPT !.dl.cmdh = "IDLE"] = q
    BY <1>0 DEF PortFields
  <2> QED
    BY <2>2, <2>3, <1>1 DEF CommandHandler
<1>2. CASE p.dl.cmdh = "INACTIVE" /\ p.dl.chcmd # "ACTIVE"
  <2>1. CommandHandler(p) = p
    BY <1>2 DEF CommandHandler
  <2> QED
    BY <2>1, DlNot
<1>3. CASE p.dl.cmdh = "IDLE" /\ p.dl.chcmd = "INACTIVE"
  <2> DEFINE d == [p.dl EXCEPT !.cmdh = "INACTIVE"]
             q == [p EXCEPT !.dl = d]
  <2>1. DlOK(d)
    BY <1>0, <1>3 DEF DlOK, DlFields
  <2>2. DlStep(p, q) /\ PortOK(q)
    BY <2>1, SetDl, DlPortOK
  <2>3. [p EXCEPT !.dl.cmdh = "INACTIVE"] = q
    BY <1>0 DEF PortFields
  <2> QED
    BY <2>2, <2>3, <1>3 DEF CommandHandler
<1>4. CASE p.dl.cmdh = "IDLE" /\ p.dl.chcmd = "ACTIVE" /\ p.dl.control_code = "PDOUTVALID"
  <2> DEFINE d == [p.dl EXCEPT !.master_command = "PD_OUT", !.cmdh = "MASTERCOMMAND"]
             q == [p EXCEPT !.dl = d]
  <2>1. DlOK(d)
    BY <1>0, <1>4 DEF DlOK, DlFields
  <2>2. DlStep(p, q) /\ PortOK(q)
    BY <2>1, SetDl, DlPortOK
  <2>3. [p EXCEPT !.dl.master_command = "PD_OUT", !.dl.cmdh = "MASTERCOMMAND"] = q
    BY <1>0 DEF PortFields
  <2> QED
    BY <2>2, <2>3, <1>4 DEF CommandHandler
<1>5. CASE p.dl.cmdh = "IDLE" /\ p.dl.chcmd = "ACTIVE" /\ p.dl.control_code = "PDOUTINVALID"
  <2> DEFINE d == [p.dl EXCEPT !.master_command = "DEVICE_OPERATE",
                               !.cmdh = "MASTERCOMMAND"]
             q == [p EXCEPT !.dl = d]
  <2>1. DlOK(d)
    BY <1>0, <1>5 DEF DlOK, DlFields
  <2>2. DlStep(p, q) /\ PortOK(q)
    BY <2>1, SetDl, DlPortOK
  <2>3. [p EXCEPT !.dl.master_command = "DEVICE_OPERATE", !.dl.cmdh = "MASTERCOMMAND"] = q
    BY <1>0 DEF PortFields
  <2> QED
    BY <2>2, <2>3, <1>5 DEF CommandHandler
<1>6. CASE p.dl.cmdh = "IDLE" /\ p.dl.chcmd = "ACTIVE" /\ p.dl.control_code = "DEVICEMODE"
  <2> DEFINE d == [p.dl EXCEPT !.cmdh = "MASTERCOMMAND"]
             q == [p EXCEPT !.dl = d]
  <2>1. DlOK(d)
    BY <1>0, <1>6 DEF DlOK, DlFields
  <2>2. DlStep(p, q) /\ PortOK(q)
    BY <2>1, SetDl, DlPortOK
  <2>3. [p EXCEPT !.dl.cmdh = "MASTERCOMMAND"] = q
    BY <1>0 DEF PortFields
  <2> QED
    BY <2>2, <2>3, <1>6 DEF CommandHandler
<1>7. CASE /\ p.dl.cmdh = "IDLE" /\ p.dl.chcmd # "INACTIVE"
           /\ p.dl.chcmd = "ACTIVE" =>
                p.dl.control_code \notin {"PDOUTVALID", "PDOUTINVALID", "DEVICEMODE"}
  <2>1. CommandHandler(p) = p
    BY <1>7 DEF CommandHandler
  <2> QED
    BY <2>1, DlNot
<1>8. CASE p.dl.cmdh = "MASTERCOMMAND"
  <2> DEFINE d == [p.dl EXCEPT !.control_code = "NONE", !.cmdh = "IDLE"]
             q == [p EXCEPT !.dl = d]
  <2>1. DlOK(d)
    BY <1>0, <1>8 DEF DlOK, DlFields
  <2>2. DlStep(p, q) /\ PortOK(q)
    BY <2>1, SetDl, DlPortOK
  <2>3. [p EXCEPT !.dl.control_code = "NONE", !.dl.cmdh = "IDLE"] = q
    BY <1>0 DEF PortFields
  <2>4. CommandHandler(p) = OD_req(q, p.dl.master_command)
    BY <2>3, <1>8 DEF CommandHandler
  <2> HIDE DEF q
  <2>5. DlStep(q, OD_req(q, p.dl.master_command))
    BY <2>2, OD_reqStep
  <2> QED
    BY <2>2, <2>4, <2>5, DlTwice
<1> QED
  BY <1>0, <1>1, <1>2, <1>3, <1>4, <1>5, <1>6, <1>7, <1>8 DEF DlOK

LEMMA IsduErrorStep == ASSUME NEW p, PortOK(p) PROVE DlStep(p, IsduError(p))
<1>0. DOMAIN p = PortFields /\ DlOK(p.dl)
  BY DEF PortOK
<1>1. CASE p.dl.ihcmd = "INACTIVE"
  <2> DEFINE d == [p.dl EXCEPT !.isduh = "INACTIVE"]
             q == [p EXCEPT !.dl = d]
  <2>1. DlOK(d)
    BY <1>0, <1>1 DEF DlOK, DlFields
  <2>2. DlStep(p, q) /\ PortOK(q)
    BY <2>1, SetDl, DlPortOK
  <2>3. [p EXCEPT !.dl.isduh = "INACTIVE"] = q
    BY <1>0 DEF PortFields
  <2> QED
    BY <2>2, <2>3, <1>1 DEF IsduError
<1>2. CASE p.dl.ihcmd # "INACTIVE"
  <2> DEFINE d == [p.dl EXCEPT !.isdu_total = 0, !.rwcmd = "NONE", !.isduh = "IDLE",
                               !.tx = "ISDU"]
             q == [p EXCEPT !.dl = d]
  <2>1. DlOK(d)
    BY <1>0, <1>2 DEF DlOK, DlFields
  <2>2. DlStep(p, q) /\ PortOK(q)
    BY <2>1, SetDl, DlPortOK
  <2>3. [p EXCEPT !.dl.isdu_total = 0, !.dl.rwcmd = "NONE", !.dl.isduh = "IDLE",
                  !.dl.tx = "ISDU"] = q
    BY <1>0 DEF PortFields
  <2>4. IsduError(p) = DL_ISDUTransport_cnf(q, FALSE)
    BY <2>3, <1>2 DEF IsduError
  <2> HIDE DEF q
  <2>5. DlStep(q, DL_ISDUTransport_cnf(q, FALSE))
    BY <2>2, DL_ISDUTransport_cnfStep
  <2> QED
    BY <2>2, <2>4, <2>5, DlTwice
<1> QED
  BY <1>0, <1>1, <1>2 DEF DlOK

LEMMA EnterIsduErrorStep == ASSUME NEW p, PortOK(p) PROVE DlStep(p, EnterIsduError(p))
<1>0. DOMAIN p = PortFields /\ DlOK(p.dl)
  BY DEF PortOK
<1>1. CASE p.dl.ihcmd = "INACTIVE"
  <2> DEFINE d == [p.dl EXCEPT !.isdu_total = 0, !.isduh = "INACTIVE"]
             q == [p EXCEPT !.dl = d]
  <2>1. DlOK(d)
    BY <1>0, <1>1 DEF DlOK, DlFields
  <2>2. DlStep(p, q) /\ PortOK(q)
    BY <2>1, SetDl, DlPortOK
  <2>3. [p EXCEPT !.dl.isdu_total = 0, !.dl.isduh = "INACTIVE"] = q
    BY <1>0 DEF PortFields
  <2>4. EnterIsduError(p) = DL_ISDUTransport_cnf(q, FALSE)
    BY <2>3, <1>1 DEF EnterIsduError
  <2> HIDE DEF q
  <2>5. DlStep(q, DL_ISDUTransport_cnf(q, FALSE))
    BY <2>2, DL_ISDUTransport_cnfStep
  <2> QED
    BY <2>2, <2>4, <2>5, DlTwice
<1>2. CASE p.dl.ihcmd # "INACTIVE" /\ p.dl.trigger = "MASTER"
  <2>1. EnterIsduError(p) = IsduError(p)
    BY <1>2 DEF EnterIsduError
  <2> QED
    BY <2>1, IsduErrorStep
<1>3. CASE p.dl.ihcmd # "INACTIVE" /\ p.dl.trigger # "MASTER"
  <2> DEFINE d == [p.dl EXCEPT !.isduh = "ISDUERROR"]
             q == [p EXCEPT !.dl = d]
  <2>1. DlOK(d)
    BY <1>0, <1>3 DEF DlOK, DlFields
  <2>2. DlStep(p, q) /\ PortOK(q)
    BY <2>1, SetDl, DlPortOK
  <2>3. [p EXCEPT !.dl.isduh = "ISDUERROR"] = q
    BY <1>0 DEF PortFields
  <2> QED
    BY <2>2, <2>3, <1>3 DEF EnterIsduError
<1> QED
  BY <1>0, <1>1, <1>2, <1>3 DEF DlOK

LEMMA ReceptionCompleteStep ==
  ASSUME NEW p, PortOK(p) PROVE DlStep(p, ReceptionComplete(p))
<1>0. DOMAIN p = PortFields /\ DlOK(p.dl)
  BY DEF PortOK
<1> DEFINE d == [p.dl EXCEPT !.isdu_seg = 0, !.isdu_total = 0, !.rwcmd = "NONE",
                             !.isduh = "IDLE"]
           q == [p EXCEPT !.dl = d]
<1>1. DlOK(d)
  BY <1>0 DEF DlOK, DlFields
<1>2. DlStep(p, q) /\ PortOK(q)
  BY <1>1, SetDl, DlPortOK
<1>3. [p EXCEPT !.dl.isdu_seg = 0, !.dl.isdu_total = 0, !.dl.rwcmd = "NONE",
                !.dl.isduh = "IDLE"] = q
  BY <1>0 DEF PortFields
<1>4. ReceptionComplete(p) = DL_ISDUTransport_cnf(q, p.dl.rx.isdu # "checksum")
  BY <1>3 DEF ReceptionComplete
<1> HIDE DEF q
<1>5. DlStep(q, DL_ISDUTransport_cnf(q, p.dl.rx.isdu # "checksum"))
  BY <1>2, DL_ISDUTransport_cnfStep
<1> QED
  BY <1>2, <1>4, <1>5, DlTwice

LEMMA IsduIdleStep == ASSUME NEW p, PortOK(p) PROVE DlStep(p, IsduIdle(p))
<1>0. DOMAIN p = PortFields /\ DlOK(p.dl)
  BY DEF PortOK
<1>1. CASE p.dl.ihcmd = "INACTIVE" /\ p.dl.isdu_total > 0
  <2> DEFINE d == [p.dl EXCEPT !.isdu_total = 0, !.isduh = "INACTIVE"]
             q == [p EXCEPT !.dl = d]
  <2>1. DlOK(d)
    BY <1>0, <1>1 DEF DlOK, DlFields
  <2>2. DlStep(p, q) /\ PortOK(q)
    BY <2>1, SetDl, DlPortOK
  <2>3. [p EXCEPT !.dl.isdu_total = 0, !.dl.isduh = "INACTIVE"] = q
    BY <1>0 DEF PortFields
  <2>4. IsduIdle(p) = DL_ISDUTransport_cnf(q, FALSE)
    BY <2>3, <1>1 DEF IsduIdle
  <2> HIDE DEF q
  <2>5. DlStep(q, DL_ISDUTransport_cnf(q, FALSE))
    BY <2>2, DL_ISDUTransport_cnfStep
  <2> QED
    BY <2>2, <2>4, <2>5, DlTwice
<1>2. CASE p.dl.ihcmd = "INACTIVE" /\ ~(p.dl.isdu_total > 0)
  <2> DEFINE d == [p.dl EXCEPT !.isdu_total = 0, !.isduh = "INACTIVE"]
             q == [p EXCEPT !.dl = d]
  <2>1. DlOK(d)
    BY <1>0, <1>2 DEF DlOK, DlFields
  <2>2. DlStep(p, q) /\ PortOK(q)
    BY <2>1, SetDl, DlPortOK
  <2>3. [p EXCEPT !.dl.isdu_total = 0, !.dl.isduh = "INACTIVE"] = q
    BY <1>0 DEF PortFields
  <2> QED
    BY <2>2, <2>3, <1>2 DEF IsduIdle
<1>3. CASE p.dl.ihcmd = "ACTIVE" /\ p.dl.trigger = "MASTER" /\ p.dl.rwcmd = "ISDUTRANSPORT"
  <2> DEFINE d == [p.dl EXCEPT !.isdu_seg = 1, !.isduh = "ISDUREQUEST"]
             q == [p EXCEPT !.dl = d]
  <2>1. DlOK(d)
    BY <1>0, <1>3 DEF DlOK, DlFields
  <2>2. DlStep(p, q) /\ PortOK(q)
    BY <2>1, SetDl, DlPortOK
  <2>3. [p EXCEPT !.dl.isdu_seg = 1, !.dl.isduh = "ISDUREQUEST"] = q
    BY <1>0 DEF PortFields
  <2>4. IsduIdle(p) = OD_req(q, "ISDU")
    BY <2>3, <1>3 DEF IsduIdle
  <2> HIDE DEF q
  <2>5. DlStep(q, OD_req(q, "ISDU"))
    BY <2>2, OD_reqStep
  <2> QED
    BY <2>2, <2>4, <2>5, DlTwice
<1>4. CASE /\ p.dl.ihcmd = "ACTIVE" /\ p.dl.trigger = "MASTER"
           /\ p.dl.rwcmd \in {"READPARAM", "WRITEPARAM"}
  <2>1. IsduIdle(p) = OD_req(p, p.dl.rwcmd)
    BY <1>4 DEF IsduIdle
  <2> QED
    BY <2>1, OD_reqStep
<1>5. CASE /\ p.dl.ihcmd = "ACTIVE" /\ p.dl.trigger = "MASTER"
           /\ p.dl.rwcmd \notin {"ISDUTRANSPORT", "READPARAM", "WRITEPARAM"}
  <2>1. IsduIdle(p) = OD_req(p, "IDLE")
    BY <1>5 DEF IsduIdle
  <2> QED
    BY <2>1, OD_reqStep
<1>6. CASE p.dl.ihcmd = "ACTIVE" /\ p.dl.trigger = "DEVICE" /\ p.dl.rwcmd = "READPARAM"
  <2> DEFINE d == [p.dl EXCEPT !.rwcmd = "NONE"]
             q == [p EXCEPT !.dl = d]
  <2>1. DlOK(d)
    BY <1>0, <1>6 DEF DlOK, DlFields
  <2>2. DlStep(p, q) /\ PortOK(q)
    BY <2>1, SetDl, DlPortOK
  <2>3. [p EXCEPT !.dl.rwcmd = "NONE"] = q
    BY <1>0 DEF PortFields
  <2>4. IsduIdle(p) = DL_ReadParam_cnf(q, TRUE)
    BY <2>3, <1>6 DEF IsduIdle
  <2>6. UsersReadParam
    BY <1>0, <1>6 DEF DlOK
  <2> HIDE DEF q
  <2>5. DlStep(q, DL_ReadParam_cnf(q, TRUE))
    BY <2>2, <2>6, DL_ReadParam_cnfStep
  <2> QED
    BY <2>2, <2>4, <2>5, DlTwice
<1>7. CASE p.dl.ihcmd = "ACTIVE" /\ p.dl.trigger = "DEVICE" /\ p.dl.rwcmd = "WRITEPARAM"
  <2> DEFINE d == [p.dl EXCEPT !.rwcmd = "NONE"]
             q == [p EXCEPT !.dl = d]
  <2>1. DlOK(d)
    BY <1>0, <1>7 DEF DlOK, DlFields
  <2>2. DlStep(p, q) /\ PortOK(q)
    BY <2>1, SetDl, DlPortOK
  <2>3. [p EXCEPT !.dl.rwcmd = "NONE"] = q
    BY <1>0 DEF PortFields
  <2>4. IsduIdle(p) = DL_WriteParam_cnf(q, TRUE)
    BY <2>3, <1>7 DEF IsduIdle
  <2> HIDE DEF q
  <2>5. DlStep(q, DL_WriteParam_cnf(q, TRUE))
    BY <2>2, DL_WriteParam_cnfStep
  <2> QED
    BY <2>2, <2>4, <2>5, DlTwice
<1>8. CASE /\ p.dl.ihcmd = "ACTIVE" /\ p.dl.trigger = "DEVICE"
           /\ p.dl.rwcmd \notin {"READPARAM", "WRITEPARAM"}
  <2>1. IsduIdle(p) = p
    BY <1>8 DEF IsduIdle
  <2> QED
    BY <2>1, DlNot
<1>9. CASE /\ p.dl.ihcmd # "INACTIVE"
           /\ p.dl.ihcmd = "ACTIVE" => p.dl.trigger \notin {"MASTER", "DEVICE"}
  <2>1. IsduIdle(p) = p
    BY <1>9 DEF IsduIdle
  <2> QED
    BY <2>1, DlNot
<1> QED
  BY <1>0, <1>1, <1>2, <1>3, <1>4, <1>5, <1>6, <1>7, <1>8, <1>9 DEF DlOK

LEMMA IsduRequestStep == ASSUME NEW p, PortOK(p) PROVE DlStep(p, IsduRequest(p))
<1>0. DOMAIN p = PortFields /\ DlOK(p.dl)
  BY DEF PortOK
<1>1. CASE p.dl.mhinfo = "COMLOST"
  <2>1. IsduRequest(p) = EnterIsduError(p)
    BY <1>1 DEF IsduRequest
  <2> QED
    BY <2>1, EnterIsduErrorStep
<1>2. CASE p.dl.mhinfo # "COMLOST" /\ p.dl.trigger = "MASTER"
  <2> DEFINE d == [p.dl EXCEPT !.isdu_seg = @ + 1]
             q == [p EXCEPT !.dl = d]
  <2>1. DlOK(d)
    BY <1>0, <1>2 DEF DlOK, DlFields
  <2>2. DlStep(p, q) /\ PortOK(q)
    BY <2>1, SetDl, DlPortOK
  <2>3. [p EXCEPT !.dl.isdu_seg = @ + 1] = q
    BY <1>0 DEF PortFields
  <2>4. IsduRequest(p) = OD_req(q, "ISDU")
    BY <2>3, <1>2 DEF IsduRequest
  <2> HIDE DEF q
  <2>5. DlStep(q, OD_req(q, "ISDU"))
    BY <2>2, OD_reqStep
  <2> QED
    BY <2>2, <2>4, <2>5, DlTwice
<1>3. CASE /\ p.dl.mhinfo # "COMLOST" /\ p.dl.trigger = "DEVICE"
           /\ p.dl.isdu_seg >= p.dl.isdu_total
  <2> DEFINE d == [p.dl EXCEPT !.isdu_timer = "running", !.isdu_seg = 0,
                               !.isduh = "ISDUWAIT"]
             q == [p EXCEPT !.dl = d]
  <2>1. DlOK(d)
    BY <1>0, <1>3 DEF DlOK, DlFields
  <2>2. DlStep(p, q) /\ PortOK(q)
    BY <2>1, SetDl, DlPortOK
  <2>3. [p EXCEPT !.dl.isdu_timer = "running", !.dl.isdu_seg = 0,
                  !.dl.isduh = "ISDUWAIT"] = q
    BY <1>0 DEF PortFields
  <2> QED
    BY <2>2, <2>3, <1>3 DEF IsduRequest
<1>4. CASE /\ p.dl.mhinfo # "COMLOST" /\ p.dl.trigger = "DEVICE"
           /\ ~(p.dl.isdu_seg >= p.dl.isdu_total)
  <2>1. IsduRequest(p) = p
    BY <1>4 DEF IsduRequest
  <2> QED
    BY <2>1, DlNot
<1>5. CASE p.dl.mhinfo # "COMLOST" /\ p.dl.trigger \notin {"MASTER", "DEVICE"}
  <2>1. IsduRequest(p) = p
    BY <1>5 DEF IsduRequest
  <2> QED
    BY <2>1, DlNot
<1> QED
  BY <1>0, <1>1, <1>2, <1>3, <1>4, <1>5 DEF DlOK

LEMMA IsduWaitStep == ASSUME NEW p, PortOK(p) PROVE DlStep(p, IsduWait(p))
<1>0. DOMAIN p = PortFields /\ DlOK(p.dl)
  BY DEF PortOK
<1>1. CASE p.dl.isdu_timer = "elapsed" \/ p.dl.mhinfo = "COMLOST"
  <2>1. IsduWait(p) = EnterIsduError(p)
    BY <1>1 DEF IsduWait
  <2> QED
    BY <2>1, EnterIsduErrorStep
<1>2. CASE /\ p.dl.isdu_timer # "elapsed" /\ p.dl.mhinfo # "COMLOST"
           /\ p.dl.trigger = "MASTER"
  <2>1. IsduWait(p) = OD_req(p, "ISDU")
    BY <1>2 DEF IsduWait
  <2> QED
    BY <2>1, OD_reqStep
<1>3. CASE /\ p.dl.isdu_timer # "elapsed" /\ p.dl.mhinfo # "COMLOST"
           /\ p.dl.trigger = "NONE"
  <2>1. IsduWait(p) = p
    BY <1>3 DEF IsduWait
  <2> QED
    BY <2>1, DlNot
<1>4. CASE /\ p.dl.isdu_timer # "elapsed" /\ p.dl.mhinfo # "COMLOST"
           /\ p.dl.trigger = "DEVICE" /\ p.dl.rx.isdu = "busy"
  <2>1. IsduWait(p) = p
    BY <1>4 DEF IsduWait
  <2> QED
    BY <2>1, DlNot
<1>5. CASE /\ p.dl.isdu_timer # "elapsed" /\ p.dl.mhinfo # "COMLOST"
           /\ p.dl.trigger = "DEVICE" /\ p.dl.rx.isdu = "malformed"
  <2> DEFINE d == [p.dl EXCEPT !.isdu_timer = "off"]
             q == [p EXCEPT !.dl = d]
  <2>1. DlOK(d)
    BY <1>0, <1>5 DEF DlOK, DlFields
  <2>2. DlStep(p, q) /\ PortOK(q)
    BY <2>1, SetDl, DlPortOK
  <2>3. [p EXCEPT !.dl.isdu_timer = "off"] = q
    BY <1>0 DEF PortFields
  <2>4. IsduWait(p) = EnterIsduError(q)
    BY <2>3, <1>5 DEF IsduWait
  <2> HIDE DEF q
  <2>5. DlStep(q, EnterIsduError(q))
    BY <2>2, EnterIsduErrorStep
  <2> QED
    BY <2>2, <2>4, <2>5, DlTwice
<1>6. CASE /\ p.dl.isdu_timer # "elapsed" /\ p.dl.mhinfo # "COMLOST"
           /\ p.dl.trigger = "DEVICE" /\ p.dl.rx.isdu \notin {"busy", "malformed"}
           /\ p.dl.rx.total <= 1
  <2> DEFINE d == [p.dl EXCEPT !.isdu_timer = "off", !.isdu_seg = 1,
                               !.isdu_total = p.dl.rx.total]
             q == [p EXCEPT !.dl = d]
  <2>1. DlOK(d)
    BY <1>0, <1>6 DEF DlOK, DlFields
  <2>2. DlStep(p, q) /\ PortOK(q)
    BY <2>1, SetDl, DlPortOK
  <2>3. [[p EXCEPT !.dl.isdu_timer = "off"]
                 EXCEPT !.dl.isdu_seg = 1,
                   !.dl.isdu_total = p.dl.rx.total] = q
    BY <1>0 DEF PortFields
  <2>4. IsduWait(p) = ReceptionComplete(q)
    BY <2>3, <1>6 DEF IsduWait
  <2> HIDE DEF q
  <2>5. DlStep(q, ReceptionComplete(q))
    BY <2>2, ReceptionCompleteStep
  <2> QED
    BY <2>2, <2>4, <2>5, DlTwice
<1>7. CASE /\ p.dl.isdu_timer # "elapsed" /\ p.dl.mhinfo # "COMLOST"
           /\ p.dl.trigger = "DEVICE" /\ p.dl.rx.isdu \notin {"busy", "malformed"}
           /\ ~(p.dl.rx.total <= 1)
  <2> DEFINE d == [p.dl EXCEPT !.isdu_timer = "off", !.isdu_seg = 1,
                               !.isdu_total = p.dl.rx.total, !.isduh = "ISDURESPONSE"]
             q == [p EXCEPT !.dl = d]
  <2>1. DlOK(d)
    BY <1>0, <1>7 DEF DlOK, DlFields
  <2>2. DlStep(p, q) /\ PortOK(q)
    BY <2>1, SetDl, DlPortOK
  <2>3. [[[p EXCEPT !.dl.isdu_timer = "off"]
                  EXCEPT !.dl.isdu_seg = 1,
                    !.dl.isdu_total = p.dl.rx.total]
                  EXCEPT !.dl.isduh = "ISDURESPONSE"] = q
    BY <1>0 DEF PortFields
  <2> QED
    BY <2>2, <2>3, <1>7 DEF IsduWait
<1> QED
  BY <1>0, <1>1, <1>2, <1>3, <1>4, <1>5, <1>6, <1>7 DEF DlOK

LEMMA IsduResponseStep == ASSUME NEW p, PortOK(p) PROVE DlStep(p, IsduResponse(p))
<1>0. DOMAIN p = PortFields /\ DlOK(p.dl)
  BY DEF PortOK
<1>1. CASE p.dl.mhinfo = "COMLOST"
  <2>1. IsduResponse(p) = EnterIsduError(p)
    BY <1>1 DEF IsduResponse
  <2> QED
    BY <2>1, EnterIsduErrorStep
<1>2. CASE p.dl.mhinfo # "COMLOST" /\ p.dl.trigger = "MASTER"
  <2>1. IsduResponse(p) = OD_req(p, "ISDU")
    BY <1>2 DEF IsduResponse
  <2> QED
    BY <2>1, OD_reqStep
<1>3. CASE p.dl.mhinfo # "COMLOST" /\ p.dl.trigger = "DEVICE"
  <2> DEFINE d == [p.dl EXCEPT !.isdu_seg = @ + 1]
             q == [p EXCEPT !.dl = d]
  <2>1. DlOK(d)
    BY <1>0, <1>3 DEF DlOK, DlFields
  <2>2. DlStep(p, q) /\ PortOK(q)
    BY <2>1, SetDl, DlPortOK
  <2>3. [p EXCEPT !.dl.isdu_seg = @ + 1] = q
    BY <1>0 DEF PortFields
  <2>4. IsduResponse(p) \in {q, ReceptionComplete(q)}
    BY <2>3, <1>3 DEF IsduResponse
  <2> HIDE DEF q
  <2>5. DlStep(q, ReceptionComplete(q))
    BY <2>2, ReceptionCompleteStep
  <2> QED
    BY <2>2, <2>4, <2>5, DlTwice
<1>4. CASE p.dl.mhinfo # "COMLOST" /\ p.dl.trigger \notin {"MASTER", "DEVICE"}
  <2>1. IsduResponse(p) = p
    BY <1>4 DEF IsduResponse
  <2> QED
    BY <2>1, DlNot
<1> QED
  BY <1>0, <1>1, <1>2, <1>3, <1>4 DEF DlOK

LEMMA IsduHandlerStep == ASSUME NEW p, PortOK(p) PROVE DlStep(p, IsduHandler(p))
<1>0. DOMAIN p = PortFields /\ DlOK(p.dl)
  BY DEF PortOK
<1>1. CASE p.dl.isduh = "INACTIVE" /\ p.dl.ihcmd = "ACTIVE"
  <2> DEFINE d == [p.dl EXCEPT !.isdu_total = 0, !.isdu_seg = 0, !.isduh = "IDLE"]
             q == [p EXCEPT !.dl = d]
  <2>1. DlOK(d)
    BY <1>0, <1>1 DEF DlOK, DlFields
  <2>2. DlStep(p, q) /\ PortOK(q)
    BY <2>1, SetDl, DlPortOK
  <2>3. [p EXCEPT !.dl.isdu_total = 0, !.dl.isdu_seg = 0, !.dl.isduh = "IDLE"] = q
    BY <1>0 DEF PortFields
  <2> QED
    BY <2>2, <2>3, <1>1 DEF IsduHandler
<1>2. CASE p.dl.isduh = "INACTIVE" /\ p.dl.ihcmd # "ACTIVE"
  <2>1. IsduHandler(p) = p
    BY <1>2 DEF IsduHandler
  <2> QED
    BY <2>1, DlNot
<1>3. CASE p.dl.isduh = "IDLE"
  <2>1. IsduHandler(p) = IsduIdle(p)
    BY <1>3 DEF IsduHandler
  <2> QED
    BY <2>1, IsduIdleStep
<1>4. CASE p.dl.isduh = "ISDUREQUEST"
  <2>1. IsduHandler(p) = IsduRequest(p)
    BY <1>4 DEF IsduHandler
  <2> QED
    BY <2>1, IsduRequestStep
<1>5. CASE p.dl.isduh = "ISDUWAIT"
  <2>1. IsduHandler(p) = IsduWait(p)
    BY <1>5 DEF IsduHandler
  <2> QED
    BY <2>1, IsduWaitStep
<1>6. CASE p.dl.isduh = "ISDUERROR"
  <2>1. IsduHandler(p) = IsduError(p)
    BY <1>6 DEF IsduHandler
  <2> QED
    BY <2>1, IsduErrorStep
<1>7. CASE p.dl.isduh = "ISDURESPONSE"
  <2>1. IsduHandler(p) = IsduResponse(p)
    BY <1>7 DEF IsduHandler
  <2> QED
    BY <2>1, IsduResponseStep
<1> QED
  BY <1>0, <1>1, <1>2, <1>3, <1>4, <1>5, <1>6, <1>7 DEF DlOK

-----------------------------------------------------------------------------
(* Event handler and on-request data handler *)

\* The events of a set are posted as a whole.
LEMMA SignalEventsStep == ASSUME NEW p, PortOK(p) PROVE DlStep(p, SignalEvents(p))
<1> DEFINE S == p.dl.ev_set
           jobs == [i \in DOMAIN S |-> DL_Event_ind(S[i], Len(S) - i)]
           q == [p EXCEPT !.mbox = p.mbox \o jobs]
           d == [q.dl EXCEPT !.event_confirmation = TRUE, !.evh = "IDLE"]
<1>1. p.mbox \in Seq(JobSet) /\ S \in ReportedSets
  BY DEF PortOK, DlOK
<1>2. /\ p.mbox \o jobs \in Seq(JobSet) /\ Grows(p.mbox, p.mbox \o jobs)
      /\ Modest(p.mbox, p.mbox \o jobs)
  BY <1>1, GrowsBySet
<1>3. SignalEvents(p) = [q EXCEPT !.dl.event_confirmation = TRUE, !.dl.evh = "IDLE"]
  BY DEF SignalEvents, PostAll
<1> HIDE DEF jobs
<1>4. DlStep(p, q) /\ PortOK(q)
  BY <1>2, SetMbox, DlPortOK
<1> HIDE DEF q
<1>5. DOMAIN q = PortFields /\ DlOK(q.dl)
  BY <1>4 DEF PortOK
<1>6. [q EXCEPT !.dl.event_confirmation = TRUE, !.dl.evh = "IDLE"] = [q EXCEPT !.dl = d]
  BY <1>5 DEF PortFields
<1>7. DlOK(d)
  BY <1>5 DEF DlOK, DlFields
<1>8. DlStep(q, [q EXCEPT !.dl = d])
  BY <1>4, <1>7, SetDl
<1> QED
  BY <1>3, <1>4, <1>6, <1>8, DlTwice

\* The details of a set take no more event memory than there is.
LEMMA EventMemory ==
  /\ EventOctets * MaxEvents \in Nat
  /\ \A S \in ReportedSets : EventOctets * Len(S) \in 0..EventOctets * MaxEvents
<1>1. EventOctets \in Nat /\ MaxEvents = 6
  BY DataLinkAssumption DEF MaxEvents
<1>2. ASSUME NEW S \in ReportedSets
      PROVE  EventOctets * Len(S) \in 0..EventOctets * MaxEvents
  <2>1. Len(S) \in Nat /\ Len(S) <= MaxEvents
    <3>1. CASE S = <<>>
      BY <1>1, <3>1
    <3>2. CASE S \in EventSets
      BY <3>2, PortStackAssumption
    <3> QED
      BY <3>1, <3>2 DEF ReportedSets
  <2>2. \A n \in 0..6 : EventOctets * n \in 0..EventOctets * 6
    <3>1. \A n \in {0, 1, 2, 3, 4, 5, 6} : EventOctets * n \in 0..EventOctets * 6
      BY <1>1
    <3> QED
      BY <3>1
  <2> QED
    BY <1>1, <2>1, <2>2
<1>3. EventOctets * MaxEvents \in Nat
  BY <1>1
<1> QED
  BY <1>2, <1>3

LEMMA ReadEventStep == ASSUME NEW p, PortOK(p) PROVE DlStep(p, ReadEvent(p))
<1>0. DOMAIN p = PortFields /\ DlOK(p.dl)
  BY DEF PortOK
<1>1. CASE p.dl.mhinfo = "COMLOST"
  <2> DEFINE d == [p.dl EXCEPT !.evh = "INACTIVE"]
             q == [p EXCEPT !.dl = d]
  <2>1. DlOK(d)
    BY <1>0, <1>1 DEF DlOK, DlFields
  <2>2. DlStep(p, q) /\ PortOK(q)
    BY <2>1, SetDl, DlPortOK
  <2>3. [p EXCEPT !.dl.evh = "INACTIVE"] = q
    BY <1>0 DEF PortFields
  <2> QED
    BY <2>2, <2>3, <1>1 DEF ReadEvent
<1>2. CASE p.dl.mhinfo # "COMLOST" /\ p.dl.trigger = "MASTER"
  <2>1. ReadEvent(p) = OD_req(p, "DIAGNOSIS")
    BY <1>2 DEF ReadEvent
  <2> QED
    BY <2>1, OD_reqStep
<1>3. CASE /\ p.dl.mhinfo # "COMLOST" /\ p.dl.trigger = "DEVICE" /\ p.dl.ev_left = 0
           /\ p.dl.rx.status = "type1"
  <2> DEFINE d == [p.dl EXCEPT !.ev_set = p.dl.rx.set]
             q == [p EXCEPT !.dl = d]
  <2>1. DlOK(d)
    BY <1>0, <1>3 DEF DlOK, DlFields
  <2>2. DlStep(p, q) /\ PortOK(q)
    BY <2>1, SetDl, DlPortOK
  <2>3. [p EXCEPT !.dl.ev_set = p.dl.rx.set] = q
    BY <1>0 DEF PortFields
  <2>4. ReadEvent(p) = SignalEvents(q)
    BY <2>3, <1>3 DEF ReadEvent
  <2> HIDE DEF q
  <2>5. DlStep(q, SignalEvents(q))
    BY <2>2, SignalEventsStep
  <2> QED
    BY <2>2, <2>4, <2>5, DlTwice
<1>4. CASE /\ p.dl.mhinfo # "COMLOST" /\ p.dl.trigger = "DEVICE" /\ p.dl.ev_left = 0
           /\ p.dl.rx.status # "type1"
  <2>0. EventOctets * Len(p.dl.rx.set) \in 0..EventOctets * MaxEvents
    BY <1>0, EventMemory DEF DlOK
  <2> DEFINE d == [p.dl EXCEPT !.ev_set = p.dl.rx.set,
                               !.ev_left = EventOctets * Len(p.dl.rx.set)]
             q == [p EXCEPT !.dl = d]
  <2>1. DlOK(d)
    BY <1>0, <1>4, <2>0 DEF DlOK, DlFields
  <2>2. DlStep(p, q) /\ PortOK(q)
    BY <2>1, SetDl, DlPortOK
  <2>3. [[p EXCEPT !.dl.ev_set = p.dl.rx.set]
             EXCEPT !.dl.ev_left = EventOctets * Len(p.dl.rx.set)] = q
    BY <1>0 DEF PortFields
  <2> QED
    BY <2>2, <2>3, <1>4 DEF ReadEvent
<1>5. CASE p.dl.mhinfo # "COMLOST" /\ p.dl.trigger = "DEVICE" /\ p.dl.ev_left = 1
  <2> DEFINE d == [p.dl EXCEPT !.ev_left = 0]
             q == [p EXCEPT !.dl = d]
  <2>1. DlOK(d)
    BY <1>0, <1>5, EventMemory DEF DlOK, DlFields
  <2>2. DlStep(p, q) /\ PortOK(q)
    BY <2>1, SetDl, DlPortOK
  <2>3. [p EXCEPT !.dl.ev_left = 0] = q
    BY <1>0 DEF PortFields
  <2>4. ReadEvent(p) = SignalEvents(q)
    BY <2>3, <1>5 DEF ReadEvent
  <2> HIDE DEF q
  <2>5. DlStep(q, SignalEvents(q))
    BY <2>2, SignalEventsStep
  <2> QED
    BY <2>2, <2>4, <2>5, DlTwice
<1>6. CASE p.dl.mhinfo # "COMLOST" /\ p.dl.trigger = "DEVICE" /\ p.dl.ev_left > 1
  <2> DEFINE d == [p.dl EXCEPT !.ev_left = @ - 1]
             q == [p EXCEPT !.dl = d]
  <2>1. DlOK(d)
    BY <1>0, <1>6, EventMemory DEF DlOK, DlFields
  <2>2. DlStep(p, q) /\ PortOK(q)
    BY <2>1, SetDl, DlPortOK
  <2>3. [p EXCEPT !.dl.ev_left = @ - 1] = q
    BY <1>0 DEF PortFields
  <2> QED
    BY <2>2, <2>3, <1>6 DEF ReadEvent
<1>7. CASE p.dl.mhinfo # "COMLOST" /\ p.dl.trigger \notin {"MASTER", "DEVICE"}
  <2>1. ReadEvent(p) = p
    BY <1>7 DEF ReadEvent
  <2> QED
    BY <2>1, DlNot
<1> QED
  BY <1>0, <1>1, <1>2, <1>3, <1>4, <1>5, <1>6, <1>7, EventMemory DEF DlOK

LEMMA EventIdleStep == ASSUME NEW p, PortOK(p) PROVE DlStep(p, EventIdle(p))
<1>0. DOMAIN p = PortFields /\ DlOK(p.dl)
  BY DEF PortOK
<1>1. CASE p.dl.ehcmd = "INACTIVE"
  <2> DEFINE d == [p.dl EXCEPT !.evh = "INACTIVE"]
             q == [p EXCEPT !.dl = d]
  <2>1. DlOK(d)
    BY <1>0, <1>1 DEF DlOK, DlFields
  <2>2. DlStep(p, q) /\ PortOK(q)
    BY <2>1, SetDl, DlPortOK
  <2>3. [p EXCEPT !.dl.evh = "INACTIVE"] = q
    BY <1>0 DEF PortFields
  <2> QED
    BY <2>2, <2>3, <1>1 DEF EventIdle
<1>2. CASE p.dl.ehcmd = "ACTIVE" /\ p.dl.trigger = "MASTER" /\ ~p.dl.event_confirmation
  <2> DEFINE d == [p.dl EXCEPT !.ev_left = 0, !.ev_set = <<>>, !.evh = "READEVENT"]
             q == [p EXCEPT !.dl = d]
  <2>1. DlOK(d)
    BY <1>0, <1>2, EventMemory DEF DlOK, DlFields, ReportedSets
  <2>2. DlStep(p, q) /\ PortOK(q)
    BY <2>1, SetDl, DlPortOK
  <2>3. [p EXCEPT !.dl.ev_left = 0, !.dl.ev_set = <<>>, !.dl.evh = "READEVENT"] = q
    BY <1>0 DEF PortFields
  <2>4. EventIdle(p) = OD_req(q, "DIAGNOSIS")
    BY <2>3, <1>2 DEF EventIdle
  <2> HIDE DEF q
  <2>5. DlStep(q, OD_req(q, "DIAGNOSIS"))
    BY <2>2, OD_reqStep
  <2> QED
    BY <2>2, <2>4, <2>5, DlTwice
<1>3. CASE /\ p.dl.ehcmd = "ACTIVE" /\ p.dl.trigger = "MASTER" /\ p.dl.event_confirmation
           /\ p.dl.mhinfo = "COMLOST"
  <2> DEFINE d == [p.dl EXCEPT !.evh = "INACTIVE"]
             q == [p EXCEPT !.dl = d]
  <2>1. DlOK(d)
    BY <1>0, <1>3 DEF DlOK, DlFields
  <2>2. DlStep(p, q) /\ PortOK(q)
    BY <2>1, SetDl, DlPortOK
  <2>3. [p EXCEPT !.dl.evh = "INACTIVE"] = q
    BY <1>0 DEF PortFields
  <2> QED
    BY <2>2, <2>3, <1>3 DEF EventIdle
<1>4. CASE /\ p.dl.ehcmd = "ACTIVE" /\ p.dl.trigger = "MASTER" /\ p.dl.event_confirmation
           /\ p.dl.mhinfo # "COMLOST"
  <2> DEFINE d == [p.dl EXCEPT !.event_confirmation = FALSE]
             q == [p EXCEPT !.dl = d]
  <2>1. DlOK(d)
    BY <1>0, <1>4 DEF DlOK, DlFields
  <2>2. DlStep(p, q) /\ PortOK(q)
    BY <2>1, SetDl, DlPortOK
  <2>3. [p EXCEPT !.dl.event_confirmation = FALSE] = q
    BY <1>0 DEF PortFields
  <2>4. EventIdle(p) = OD_req(q, "EVENTCONF")
    BY <2>3, <1>4 DEF EventIdle
  <2> HIDE DEF q
  <2>5. DlStep(q, OD_req(q, "EVENTCONF"))
    BY <2>2, OD_reqStep
  <2> QED
    BY <2>2, <2>4, <2>5, DlTwice
<1>5. CASE p.dl.ehcmd # "INACTIVE" /\ ~(p.dl.ehcmd = "ACTIVE" /\ p.dl.trigger = "MASTER")
  <2>1. EventIdle(p) = p
    BY <1>5 DEF EventIdle
  <2> QED
    BY <2>1, DlNot
<1> QED
  BY <1>0, <1>1, <1>2, <1>3, <1>4, <1>5 DEF DlOK

LEMMA EventHandlerStep == ASSUME NEW p, PortOK(p) PROVE DlStep(p, EventHandler(p))
<1>0. DOMAIN p = PortFields /\ DlOK(p.dl)
  BY DEF PortOK
<1>1. CASE p.dl.evh = "INACTIVE" /\ p.dl.ehcmd = "ACTIVE"
  <2> DEFINE d == [p.dl EXCEPT !.evh = "IDLE"]
             q == [p EXCEPT !.dl = d]
  <2>1. DlOK(d)
    BY <1>0, <1>1 DEF DlOK, DlFields
  <2>2. DlStep(p, q) /\ PortOK(q)
    BY <2>1, SetDl, DlPortOK
  <2>3. [p EXCEPT !.dl.evh = "IDLE"] = q
    BY <1>0 DEF PortFields
  <2> QED
    BY <2>2, <2>3, <1>1 DEF EventHandler
<1>2. CASE p.dl.evh = "INACTIVE" /\ p.dl.ehcmd # "ACTIVE"
  <2>1. EventHandler(p) = p
    BY <1>2 DEF EventHandler
  <2> QED
    BY <2>1, DlNot
<1>3. CASE p.dl.evh = "IDLE"
  <2>1. EventHandler(p) = EventIdle(p)
    BY <1>3 DEF EventHandler
  <2> QED
    BY <2>1, EventIdleStep
<1>4. CASE p.dl.evh = "READEVENT"
  <2>1. EventHandler(p) = ReadEvent(p)
    BY <1>4 DEF EventHandler
  <2> QED
    BY <2>1, ReadEventStep
<1> QED
  BY <1>0, <1>1, <1>2, <1>3, <1>4 DEF DlOK

LEMMA SetOdh ==
  ASSUME NEW p, PortOK(p), NEW s \in {"INACTIVE", "ISDU", "COMMAND", "EVENT"}
  PROVE  DlStep(p, [p EXCEPT !.dl.odh = s])
<1>0. DOMAIN p = PortFields /\ DlOK(p.dl)
  BY DEF PortOK
<1> DEFINE d == [p.dl EXCEPT !.odh = s]
           q == [p EXCEPT !.dl = d]
<1>1. DlOK(d)
  BY <1>0 DEF DlOK, DlFields
<1>2. DlStep(p, q) /\ PortOK(q)
  BY <1>1, SetDl, DlPortOK
<1>3. [p EXCEPT !.dl.odh = s] = q
  BY <1>0 DEF PortFields
<1> QED
  BY <1>2, <1>3

LEMMA UntriggeredStep ==
  ASSUME NEW p, PortOK(p)
  PROVE  DlStep(p, Untriggered(p))
<1>0. DOMAIN p = PortFields /\ DlOK(p.dl)
  BY DEF PortOK
<1> DEFINE d == [p.dl EXCEPT !.trigger = "NONE"]
           q == [p EXCEPT !.dl = d]
<1>1. DlOK(d)
  BY <1>0 DEF DlOK, DlFields
<1>2. DlStep(p, q) /\ PortOK(q)
  BY <1>1, SetDl, DlPortOK
<1>3. [p EXCEPT !.dl.trigger = "NONE"] = q
  BY <1>0 DEF PortFields
<1> QED
  BY <1>2, <1>3 DEF Untriggered

LEMMA OdIsduStep == ASSUME NEW p, PortOK(p) PROVE DlStep(p, OdIsdu(p))
<1>0. DOMAIN p = PortFields /\ DlOK(p.dl)
  BY DEF PortOK
<1>1. CASE p.dl.ohcmd = "INACTIVE"
  <2> DEFINE d == [p.dl EXCEPT !.odh = "INACTIVE"]
             q == [p EXCEPT !.dl = d]
  <2>1. DlOK(d)
    BY <1>0, <1>1 DEF DlOK, DlFields
  <2>2. DlStep(p, q) /\ PortOK(q)
    BY <2>1, SetDl, DlPortOK
  <2>3. [p EXCEPT !.dl.odh = "INACTIVE"] = q
    BY <1>0 DEF PortFields
  <2> QED
    BY <2>2, <2>3, <1>1 DEF OdIsdu
<1>2. CASE p.dl.ohcmd = "ACTIVE" /\ CommandWaits(p)
  <2> DEFINE q1 == CommandHandler(p)
             q2 == [q1 EXCEPT !.dl.odh = "COMMAND"]
  <2>1. OdIsdu(p) = q2
    BY <1>2 DEF OdIsdu
  <2>2. DlStep(p, q1) /\ PortOK(q1)
    BY CommandHandlerStep, DlPortOK
  <2> HIDE DEF q1
  <2>3. DlStep(p, q2) /\ PortOK(q2)
    BY <2>2, SetOdh, DlTwice, DlPortOK
  <2> QED
    BY <2>3, <2>1
<1>3. CASE p.dl.ohcmd = "ACTIVE" /\ ~CommandWaits(p) /\ p.dl.event_flag
  <2> DEFINE q1 == IsduHandler(p)
             q2 == [q1 EXCEPT !.dl.odh = "EVENT"]
  <2>1. OdIsdu(p) = q2
    BY <1>3 DEF OdIsdu
  <2>2. DlStep(p, q1) /\ PortOK(q1)
    BY IsduHandlerStep, DlPortOK
  <2> HIDE DEF q1
  <2>3. DlStep(p, q2) /\ PortOK(q2)
    BY <2>2, SetOdh, DlTwice, DlPortOK
  <2> QED
    BY <2>3, <2>1
<1>4. CASE /\ p.dl.ohcmd = "ACTIVE" /\ ~CommandWaits(p) /\ ~p.dl.event_flag
           /\ p.dl.trigger # "NONE"
  <2> DEFINE q1 == IsduHandler(p)
             q2 == Untriggered(q1)
  <2>1. OdIsdu(p) = q2
    BY <1>4 DEF OdIsdu
  <2>2. DlStep(p, q1) /\ PortOK(q1)
    BY IsduHandlerStep, DlPortOK
  <2> HIDE DEF q1
  <2>3. DlStep(p, q2) /\ PortOK(q2)
    BY <2>2, UntriggeredStep, DlTwice, DlPortOK
  <2> QED
    BY <2>3, <2>1
<1>5. CASE /\ p.dl.ohcmd = "ACTIVE" /\ ~CommandWaits(p) /\ ~p.dl.event_flag
           /\ p.dl.trigger = "NONE"
  <2>1. OdIsdu(p) = p
    BY <1>5 DEF OdIsdu
  <2> QED
    BY <2>1, DlNot
<1> QED
  BY <1>0, <1>1, <1>2, <1>3, <1>4, <1>5 DEF DlOK

LEMMA OdCommandStep == ASSUME NEW p, PortOK(p) PROVE DlStep(p, OdCommand(p))
<1>0. DOMAIN p = PortFields /\ DlOK(p.dl)
  BY DEF PortOK
<1>1. CASE p.dl.ohcmd = "INACTIVE"
  <2> DEFINE d == [p.dl EXCEPT !.cmdh = "INACTIVE"]
             q == [p EXCEPT !.dl = d]
  <2>1. DlOK(d)
    BY <1>0, <1>1 DEF DlOK, DlFields
  <2>2. DlStep(p, q) /\ PortOK(q)
    BY <2>1, SetDl, DlPortOK
  <2>3. [p EXCEPT !.dl.cmdh = "INACTIVE"] = q
    BY <1>0 DEF PortFields
  <2> QED
    BY <2>2, <2>3, <1>1 DEF OdCommand
<1>2. CASE p.dl.ohcmd = "ACTIVE" /\ p.dl.trigger = "NONE"
  <2>1. OdCommand(p) = p
    BY <1>2 DEF OdCommand
  <2> QED
    BY <2>1, DlNot
<1>3. CASE p.dl.ohcmd = "ACTIVE" /\ p.dl.trigger # "NONE" /\ p.dl.control_code # "NONE"
  <2>1. OdCommand(p) = Untriggered(p)
    BY <1>3 DEF OdCommand
  <2> QED
    BY <2>1, UntriggeredStep
<1>4. CASE p.dl.ohcmd = "ACTIVE" /\ p.dl.trigger # "NONE" /\ p.dl.control_code = "NONE"
  <2> DEFINE q1 == Untriggered(p)
             q2 == WriteMasterCommand(q1, TRUE)
             q3 == [q2 EXCEPT !.dl.odh = IF p.dl.event_flag THEN "EVENT" ELSE "ISDU"]
  <2>1. OdCommand(p) = q3
    BY <1>4 DEF OdCommand
  <2>2. DlStep(p, q1) /\ PortOK(q1)
    BY UntriggeredStep, DlPortOK
  <2> HIDE DEF q1
  <2>3. DlStep(p, q2) /\ PortOK(q2)
    BY <2>2, WriteMasterCommandStep, DlTwice, DlPortOK
  <2> HIDE DEF q2
  <2>4. DlStep(p, q3) /\ PortOK(q3)
    BY <2>3, SetOdh, DlTwice, DlPortOK
  <2> QED
    BY <2>4, <2>1
<1> QED
  BY <1>0, <1>1, <1>2, <1>3, <1>4 DEF DlOK

LEMMA OdEventStep == ASSUME NEW p, PortOK(p) PROVE DlStep(p, OdEvent(p))
<1>0. DOMAIN p = PortFields /\ DlOK(p.dl)
  BY DEF PortOK
<1>1. CASE p.dl.ohcmd = "INACTIVE"
  <2> DEFINE d == [p.dl EXCEPT !.odh = "INACTIVE"]
             q == [p EXCEPT !.dl = d]
  <2>1. DlOK(d)
    BY <1>0, <1>1 DEF DlOK, DlFields
  <2>2. DlStep(p, q) /\ PortOK(q)
    BY <2>1, SetDl, DlPortOK
  <2>3. [p EXCEPT !.dl.odh = "INACTIVE"] = q
    BY <1>0 DEF PortFields
  <2> QED
    BY <2>2, <2>3, <1>1 DEF OdEvent
<1>2. CASE p.dl.ohcmd = "ACTIVE" /\ CommandWaits(p)
  <2> DEFINE q1 == CommandHandler(p)
             q2 == [q1 EXCEPT !.dl.odh = "COMMAND"]
  <2>1. OdEvent(p) = q2
    BY <1>2 DEF OdEvent
  <2>2. DlStep(p, q1) /\ PortOK(q1)
    BY CommandHandlerStep, DlPortOK
  <2> HIDE DEF q1
  <2>3. DlStep(p, q2) /\ PortOK(q2)
    BY <2>2, SetOdh, DlTwice, DlPortOK
  <2> QED
    BY <2>3, <2>1
<1>3. CASE p.dl.ohcmd = "ACTIVE" /\ ~CommandWaits(p) /\ ~p.dl.event_flag
  <2> DEFINE d == [p.dl EXCEPT !.odh = "ISDU"]
             q == [p EXCEPT !.dl = d]
  <2>1. DlOK(d)
    BY <1>0, <1>3 DEF DlOK, DlFields
  <2>2. DlStep(p, q) /\ PortOK(q)
    BY <2>1, SetDl, DlPortOK
  <2>3. [p EXCEPT !.dl.odh = "ISDU"] = q
    BY <1>0 DEF PortFields
  <2> QED
    BY <2>2, <2>3, <1>3 DEF OdEvent
<1>4. CASE /\ p.dl.ohcmd = "ACTIVE" /\ ~CommandWaits(p) /\ p.dl.event_flag
           /\ p.dl.trigger # "NONE"
  <2> DEFINE q1 == EventHandler(p)
             q2 == Untriggered(q1)
  <2>1. OdEvent(p) = q2
    BY <1>4 DEF OdEvent
  <2>2. DlStep(p, q1) /\ PortOK(q1)
    BY EventHandlerStep, DlPortOK
  <2> HIDE DEF q1
  <2>3. DlStep(p, q2) /\ PortOK(q2)
    BY <2>2, UntriggeredStep, DlTwice, DlPortOK
  <2> QED
    BY <2>3, <2>1
<1>5. CASE /\ p.dl.ohcmd = "ACTIVE" /\ ~CommandWaits(p) /\ p.dl.event_flag
           /\ p.dl.trigger = "NONE"
  <2>1. OdEvent(p) = p
    BY <1>5 DEF OdEvent
  <2> QED
    BY <2>1, DlNot
<1> QED
  BY <1>0, <1>1, <1>2, <1>3, <1>4, <1>5 DEF DlOK

LEMMA OdHandlerStep == ASSUME NEW p, PortOK(p) PROVE DlStep(p, OdHandler(p))
<1>0. DOMAIN p = PortFields /\ DlOK(p.dl)
  BY DEF PortOK
<1>1. CASE p.dl.odh = "INACTIVE" /\ p.dl.ohcmd = "ACTIVE"
  <2> DEFINE d == [p.dl EXCEPT !.odh = "ISDU"]
             q == [p EXCEPT !.dl = d]
  <2>1. DlOK(d)
    BY <1>0, <1>1 DEF DlOK, DlFields
  <2>2. DlStep(p, q) /\ PortOK(q)
    BY <2>1, SetDl, DlPortOK
  <2>3. [p EXCEPT !.dl.odh = "ISDU"] = q
    BY <1>0 DEF PortFields
  <2> QED
    BY <2>2, <2>3, <1>1 DEF OdHandler
<1>2. CASE p.dl.odh = "INACTIVE" /\ p.dl.ohcmd # "ACTIVE"
  <2>1. OdHandler(p) = p
    BY <1>2 DEF OdHandler
  <2> QED
    BY <2>1, DlNot
<1>3. CASE p.dl.odh = "ISDU"
  <2>1. OdHandler(p) = OdIsdu(p)
    BY <1>3 DEF OdHandler
  <2> QED
    BY <2>1, OdIsduStep
<1>4. CASE p.dl.odh = "COMMAND"
  <2>1. OdHandler(p) = OdCommand(p)
    BY <1>4 DEF OdHandler
  <2> QED
    BY <2>1, OdCommandStep
<1>5. CASE p.dl.odh = "EVENT"
  <2>1. OdHandler(p) = OdEvent(p)
    BY <1>5 DEF OdHandler
  <2> QED
    BY <2>1, OdEventStep
<1> QED
  BY <1>0, <1>1, <1>2, <1>3, <1>4, <1>5 DEF DlOK

LEMMA OdTriggeredStep ==
  ASSUME NEW p, PortOK(p), NEW by \in {"NONE", "MASTER", "DEVICE"}
  PROVE  DlStep(p, OdTriggered(p, by))
<1>0. DOMAIN p = PortFields /\ DlOK(p.dl)
  BY DEF PortOK
<1> DEFINE d1 == [p.dl EXCEPT !.trigger = by]
           q1 == [p EXCEPT !.dl = d1]
           q2 == OdHandler(q1)
<1>1. [p EXCEPT !.dl.trigger = by] = q1
  BY <1>0 DEF PortFields
<1>2. OdTriggered(p, by) = q2
  BY <1>1 DEF OdTriggered
<1>3. DlOK(d1)
  BY <1>0 DEF DlOK, DlFields
<1>4. DlStep(p, q1) /\ PortOK(q1)
  BY <1>3, SetDl, DlPortOK
<1> HIDE DEF q1
<1>5. DlStep(p, q2) /\ PortOK(q2)
  BY <1>4, OdHandlerStep, DlTwice, DlPortOK
<1> QED
  BY <1>5, <1>2

-----------------------------------------------------------------------------
(* Message handler *)

MhStates ==
  {"INACTIVE_0", "STARTUP_2", "RESPONSE_3", "AW_REPLY_4", "ERRORHANDLING_5",
   "PREOPERATE_6", "GETOD_7", "RESPONSE_8", "AW_REPLY_9", "ERRORHANDLING_10",
   "OPERATE_12", "RESPONSE_15", "AW_REPLY_16"}

LEMMA MHBecomesStep ==
  ASSUME NEW p, PortOK(p), NEW s \in MhStates
  PROVE  DlStep(p, MHBecomes(p, s))
<1>0. DOMAIN p = PortFields /\ DlOK(p.dl)
  BY DEF PortOK
<1> DEFINE d == [p.dl EXCEPT !.mh = s]
           q == [p EXCEPT !.dl = d]
<1>1. DlOK(d)
  BY <1>0 DEF DlOK, DlFields, MhStates
<1>2. DlStep(p, q) /\ PortOK(q)
  BY <1>1, SetDl, DlPortOK
<1>3. [p EXCEPT !.dl.mh = s] = q
  BY <1>0 DEF PortFields
<1> QED
  BY <1>2, <1>3 DEF MHBecomes

\* A message is about to be sent for the first time.
LEMMA SetUnanswered ==
  ASSUME NEW p, PortOK(p), NEW s \in MhStates
  PROVE  DlStep(p, [p EXCEPT !.dl.retry = 0, !.dl.dataready = FALSE, !.dl.mh = s])
<1>0. DOMAIN p = PortFields /\ DlOK(p.dl)
  BY DEF PortOK
<1> DEFINE d == [p.dl EXCEPT !.retry = 0, !.dataready = FALSE, !.mh = s]
           q == [p EXCEPT !.dl = d]
<1>1. DlOK(d)
  BY <1>0, DataLinkAssumption DEF DlOK, DlFields, MhStates
<1>2. DlStep(p, q) /\ PortOK(q)
  BY <1>1, SetDl, DlPortOK
<1>3. [p EXCEPT !.dl.retry = 0, !.dl.dataready = FALSE, !.dl.mh = s] = q
  BY <1>0 DEF PortFields
<1> QED
  BY <1>2, <1>3

LEMMA SetReplied ==
  ASSUME NEW p, PortOK(p), NEW s \in MhStates
  PROVE  DlStep(p, [p EXCEPT !.dl.dataready = FALSE, !.dl.mh = s])
<1>0. DOMAIN p = PortFields /\ DlOK(p.dl)
  BY DEF PortOK
<1> DEFINE d == [p.dl EXCEPT !.dataready = FALSE, !.mh = s]
           q == [p EXCEPT !.dl = d]
<1>1. DlOK(d)
  BY <1>0 DEF DlOK, DlFields, MhStates
<1>2. DlStep(p, q) /\ PortOK(q)
  BY <1>1, SetDl, DlPortOK
<1>3. [p EXCEPT !.dl.dataready = FALSE, !.dl.mh = s] = q
  BY <1>0 DEF PortFields
<1> QED
  BY <1>2, <1>3

LEMMA SetTriggered ==
  ASSUME NEW p, PortOK(p), NEW s \in MhStates
  PROVE  DlStep(p, [p EXCEPT !.dl.trigger = "MASTER", !.dl.mh = s])
<1>0. DOMAIN p = PortFields /\ DlOK(p.dl)
  BY DEF PortOK
<1> DEFINE d == [p.dl EXCEPT !.trigger = "MASTER", !.mh = s]
           q == [p EXCEPT !.dl = d]
<1>1. DlOK(d)
  BY <1>0 DEF DlOK, DlFields, MhStates
<1>2. DlStep(p, q) /\ PortOK(q)
  BY <1>1, SetDl, DlPortOK
<1>3. [p EXCEPT !.dl.trigger = "MASTER", !.dl.mh = s] = q
  BY <1>0 DEF PortFields
<1> QED
  BY <1>2, <1>3

LEMMA HandleComLostStep == ASSUME NEW p, PortOK(p) PROVE DlStep(p, HandleComLost(p))
<1>0. DOMAIN p = PortFields /\ DlOK(p.dl)
  BY DEF PortOK
<1> DEFINE d1 == [p.dl EXCEPT !.rwcmd = "NONE", !.timer_type = "NONE",
                              !.timer_elapsed = FALSE, !.error = FALSE, !.retry = 0,
                              !.mh = "INACTIVE_0"]
           q1 == [p EXCEPT !.dl = d1]
           q2 == StopTimer(q1)
           q3 == DisableCycleTimer(q2)
           q4 == MHInfo_ComLost(q3)
<1>1. [p EXCEPT !.dl.rwcmd = "NONE", !.dl.timer_type = "NONE", !.dl.timer_elapsed = FALSE,
                !.dl.error = FALSE, !.dl.retry = 0, !.dl.mh = "INACTIVE_0"] = q1
  BY <1>0 DEF PortFields
<1>2. HandleComLost(p) = q4
  BY <1>1 DEF HandleComLost
<1>3. DlOK(d1)
  BY <1>0, DataLinkAssumption DEF DlOK, DlFields
<1>4. DlStep(p, q1) /\ PortOK(q1)
  BY <1>3, SetDl, DlPortOK
<1> HIDE DEF q1
<1>5. DlStep(p, q2) /\ PortOK(q2)
  BY <1>4, StopTimerStep, DlTwice, DlPortOK
<1> HIDE DEF q2
<1>6. DlStep(p, q3) /\ PortOK(q3)
  BY <1>5, CycleTimerStep, DlTwice, DlPortOK
<1> HIDE DEF q3
<1>7. DlStep(p, q4) /\ PortOK(q4)
  BY <1>6, MHInfo_ComLostStep, DlTwice, DlPortOK
<1> QED
  BY <1>7, <1>2

LEMMA GiveUpStep == ASSUME NEW p, PortOK(p) PROVE DlStep(p, GiveUp(p))
<1> DEFINE q1 == MHInfo_ComLost(p)
           q2 == MHBecomes(q1, "INACTIVE_0")
<1>1. GiveUp(p) = q2
  BY DEF GiveUp
<1>2. DlStep(p, q1) /\ PortOK(q1)
  BY MHInfo_ComLostStep, DlPortOK
<1> HIDE DEF q1
<1>3. DlStep(p, q2) /\ PortOK(q2)
  BY <1>2, MHBecomesStep, DlTwice, DlPortOK DEF MhStates
<1> QED
  BY <1>3, <1>1

LEMMA StartupCnfStep ==
  ASSUME NEW p, PortOK(p), NEW ok \in BOOLEAN
  PROVE  DlStep(p, StartupCnf(p, ok))
<1>0. DOMAIN p = PortFields /\ DlOK(p.dl)
  BY DEF PortOK
<1>1. CASE p.dl.rwcmd = "READ"
  <2> DEFINE d == [p.dl EXCEPT !.rwcmd = "NONE"]
             q == [p EXCEPT !.dl = d]
  <2>1. DlOK(d)
    BY <1>0, <1>1 DEF DlOK, DlFields
  <2>2. DlStep(p, q) /\ PortOK(q)
    BY <2>1, SetDl, DlPortOK
  <2>3. [p EXCEPT !.dl.rwcmd = "NONE"] = q
    BY <1>0 DEF PortFields
  <2>4. StartupCnf(p, ok) = DL_Read_cnf(q, ok)
    BY <2>3, <1>1 DEF StartupCnf
  <2> HIDE DEF q
  <2>5. DlStep(q, DL_Read_cnf(q, ok))
    BY <2>2, DL_Read_cnfStep
  <2> QED
    BY <2>2, <2>4, <2>5, DlTwice
<1>2. CASE p.dl.rwcmd = "WRITE"
  <2> DEFINE d == [p.dl EXCEPT !.rwcmd = "NONE"]
             q == [p EXCEPT !.dl = d]
  <2>1. DlOK(d)
    BY <1>0, <1>2 DEF DlOK, DlFields
  <2>2. DlStep(p, q) /\ PortOK(q)
    BY <2>1, SetDl, DlPortOK
  <2>3. [p EXCEPT !.dl.rwcmd = "NONE"] = q
    BY <1>0 DEF PortFields
  <2>4. StartupCnf(p, ok) = DL_Write_cnf(q, ok)
    BY <2>3, <1>2 DEF StartupCnf
  <2> HIDE DEF q
  <2>5. DlStep(q, DL_Write_cnf(q, ok))
    BY <2>2, DL_Write_cnfStep
  <2> QED
    BY <2>2, <2>4, <2>5, DlTwice
<1>3. CASE p.dl.rwcmd \notin {"READ", "WRITE"}
  <2>1. StartupCnf(p, ok) = p
    BY <1>3 DEF StartupCnf
  <2> QED
    BY <2>1, DlNot
<1> QED
  BY <1>0, <1>1, <1>2, <1>3 DEF DlOK

LEMMA MHStartup2Step == ASSUME NEW p, PortOK(p) PROVE DlStep(p, MHStartup2(p))
<1>0. DOMAIN p = PortFields /\ DlOK(p.dl)
  BY DEF PortOK
<1>1. CASE p.dl.mhcmd = "PREOPERATE"
  <2>1. MHStartup2(p) = MHBecomes(p, "PREOPERATE_6")
    BY <1>1 DEF MHStartup2
  <2> QED
    BY <2>1, MHBecomesStep DEF MhStates
<1>2. CASE p.dl.mhcmd = "OPERATE"
  <2> DEFINE q1 == StartTimer(p)
             q2 == MHBecomes(q1, "OPERATE_12")
  <2>1. MHStartup2(p) = q2
    BY <1>2 DEF MHStartup2
  <2>2. DlStep(p, q1) /\ PortOK(q1)
    BY StartTimerStep, DlPortOK
  <2> HIDE DEF q1
  <2>3. DlStep(p, q2) /\ PortOK(q2)
    BY <2>2, MHBecomesStep, DlTwice, DlPortOK DEF MhStates
  <2> QED
    BY <2>3, <2>1
<1>3. CASE /\ p.dl.mhcmd \notin {"PREOPERATE", "OPERATE"}
           /\ p.dl.rwcmd \in {"READ", "WRITE"}
  <2> DEFINE q1 == [p EXCEPT !.dl.retry = 0, !.dl.dataready = FALSE, !.dl.mh = "RESPONSE_3"]
             q2 == Transfer(q1)
  <2>1. MHStartup2(p) = q2
    BY <1>3 DEF MHStartup2
  <2>2. DlStep(p, q1) /\ PortOK(q1)
    BY SetUnanswered, DlPortOK DEF MhStates
  <2> HIDE DEF q1
  <2>3. DlStep(p, q2) /\ PortOK(q2)
    BY <2>2, TransferStep, DlTwice, DlPortOK
  <2> QED
    BY <2>3, <2>1
<1>4. CASE /\ p.dl.mhcmd \notin {"PREOPERATE", "OPERATE"}
           /\ p.dl.rwcmd \notin {"READ", "WRITE"}
  <2>1. MHStartup2(p) = p
    BY <1>4 DEF MHStartup2
  <2> QED
    BY <2>1, DlNot
<1> QED
  BY <1>0, <1>1, <1>2, <1>3, <1>4 DEF DlOK

LEMMA MHAwaitReply4Step == ASSUME NEW p, PortOK(p) PROVE DlStep(p, MHAwaitReply4(p))
<1>0. DOMAIN p = PortFields /\ DlOK(p.dl)
  BY DEF PortOK
<1>1. CASE p.dl.dataready
  <2> DEFINE q1 == MHBecomes(p, "STARTUP_2")
             q2 == StartupCnf(q1, TRUE)
  <2>1. MHAwaitReply4(p) = q2
    BY <1>1 DEF MHAwaitReply4
  <2>2. DlStep(p, q1) /\ PortOK(q1)
    BY MHBecomesStep, DlPortOK DEF MhStates
  <2> HIDE DEF q1
  <2>3. DlStep(p, q2) /\ PortOK(q2)
    BY <2>2, StartupCnfStep, DlTwice, DlPortOK
  <2> QED
    BY <2>3, <2>1
<1>2. CASE ~p.dl.dataready /\ p.dl.error
  <2> DEFINE q1 == StartTimer(p)
             q2 == MHBecomes(q1, "ERRORHANDLING_5")
  <2>1. MHAwaitReply4(p) = q2
    BY <1>2 DEF MHAwaitReply4
  <2>2. DlStep(p, q1) /\ PortOK(q1)
    BY StartTimerStep, DlPortOK
  <2> HIDE DEF q1
  <2>3. DlStep(p, q2) /\ PortOK(q2)
    BY <2>2, MHBecomesStep, DlTwice, DlPortOK DEF MhStates
  <2> QED
    BY <2>3, <2>1
<1>3. CASE ~p.dl.dataready /\ ~p.dl.error
  <2>1. MHAwaitReply4(p) = p
    BY <1>3 DEF MHAwaitReply4
  <2> QED
    BY <2>1, DlNot
<1> QED
  BY <1>0, <1>1, <1>2, <1>3 DEF DlOK

LEMMA RetryStep ==
  ASSUME NEW p, PortOK(p), NEW s \in MhStates, p.dl.retry < MaxRetry
  PROVE  DlStep(p, Retry(p, s))
<1> DEFINE q == Resend(p)
           d == [q.dl EXCEPT !.retry = @ + 1, !.mh = s]
<1>0. DOMAIN p = PortFields
  BY DEF PortOK
<1>1. DlStep(p, q) /\ PortOK(q)
  BY ResendStep, DlPortOK
<1>2. q.dl = p.dl
  BY <1>0 DEF Resend, PortFields
<1>3. Retry(p, s) = [q EXCEPT !.dl.retry = @ + 1, !.dl.mh = s]
  BY DEF Retry
<1> HIDE DEF q
<1>4. DOMAIN q = PortFields /\ DlOK(q.dl)
  BY <1>1 DEF PortOK
<1>5. DlOK(d)
  BY <1>2, <1>4, DataLinkAssumption DEF DlOK, DlFields, MhStates
<1>6. [q EXCEPT !.dl.retry = @ + 1, !.dl.mh = s] = [q EXCEPT !.dl = d]
  BY <1>4 DEF PortFields
<1>7. DlStep(q, [q EXCEPT !.dl = d])
  BY <1>1, <1>5, SetDl
<1> QED
  BY <1>1, <1>3, <1>6, <1>7, DlTwice

LEMMA MHErrorHandling5Step == ASSUME NEW p, PortOK(p) PROVE DlStep(p, MHErrorHandling5(p))
<1>0. DOMAIN p = PortFields /\ DlOK(p.dl)
  BY DEF PortOK
<1>n. p.dl.retry < MaxRetry <=> ~(p.dl.retry >= MaxRetry)
  BY <1>0, DataLinkAssumption DEF DlOK
<1>1. CASE p.dl.retry >= MaxRetry
  <2> DEFINE d1 == [p.dl EXCEPT !.timer_type = "NONE"]
             q1 == [p EXCEPT !.dl = d1]
             q2 == GiveUp(q1)
             q3 == StartupCnf(q2, FALSE)
  <2>1. [p EXCEPT !.dl.timer_type = "NONE"] = q1
    BY <1>0 DEF PortFields
  <2>2. MHErrorHandling5(p) = q3
    BY <2>1, <1>1, <1>n DEF MHErrorHandling5
  <2>3. DlOK(d1)
    BY <1>0, <1>1 DEF DlOK, DlFields
  <2>4. DlStep(p, q1) /\ PortOK(q1)
    BY <2>3, SetDl, DlPortOK
  <2> HIDE DEF q1
  <2>5. DlStep(p, q2) /\ PortOK(q2)
    BY <2>4, GiveUpStep, DlTwice, DlPortOK
  <2> HIDE DEF q2
  <2>6. DlStep(p, q3) /\ PortOK(q3)
    BY <2>5, StartupCnfStep, DlTwice, DlPortOK
  <2> QED
    BY <2>6, <2>2
<1>2. CASE p.dl.retry < MaxRetry /\ InitCycElapsed(p)
  <2>1. MHErrorHandling5(p) = Retry(p, "AW_REPLY_4")
    BY <1>2, <1>n DEF MHErrorHandling5
  <2> QED
    BY <2>1, <1>2, RetryStep DEF MhStates
<1>3. CASE p.dl.retry < MaxRetry /\ ~InitCycElapsed(p)
  <2>1. MHErrorHandling5(p) = p
    BY <1>3, <1>n DEF MHErrorHandling5
  <2> QED
    BY <2>1, DlNot
<1> QED
  BY <1>0, <1>1, <1>2, <1>3, <1>n DEF DlOK

LEMMA MHPreoperate6Step == ASSUME NEW p, PortOK(p) PROVE DlStep(p, MHPreoperate6(p))
<1>0. DOMAIN p = PortFields /\ DlOK(p.dl)
  BY DEF PortOK
<1>1. CASE p.dl.mhcmd = "OPERATE"
  <2> DEFINE q1 == StartTimer(p)
             q2 == MHBecomes(q1, "OPERATE_12")
  <2>1. MHPreoperate6(p) = q2
    BY <1>1 DEF MHPreoperate6
  <2>2. DlStep(p, q1) /\ PortOK(q1)
    BY StartTimerStep, DlPortOK
  <2> HIDE DEF q1
  <2>3. DlStep(p, q2) /\ PortOK(q2)
    BY <2>2, MHBecomesStep, DlTwice, DlPortOK DEF MhStates
  <2> QED
    BY <2>3, <2>1
<1>2. CASE p.dl.mhcmd = "STARTUP"
  <2>1. MHPreoperate6(p) = MHBecomes(p, "STARTUP_2")
    BY <1>2 DEF MHPreoperate6
  <2> QED
    BY <2>1, MHBecomesStep DEF MhStates
<1>3. CASE p.dl.mhcmd = "INACTIVE"
  <2> DEFINE q1 == GiveUp(p)
             q2 == Transfer(q1)
  <2>1. MHPreoperate6(p) = q2
    BY <1>3 DEF MHPreoperate6
  <2>2. DlStep(p, q1) /\ PortOK(q1)
    BY GiveUpStep, DlPortOK
  <2> HIDE DEF q1
  <2>3. DlStep(p, q2) /\ PortOK(q2)
    BY <2>2, TransferStep, DlTwice, DlPortOK
  <2> QED
    BY <2>3, <2>1
<1>4. CASE p.dl.mhcmd = "PREOPERATE" /\ SomethingToSend(p)
  <2> DEFINE d1 == [p.dl EXCEPT !.retry = 0, !.trigger = "MASTER", !.mh = "GETOD_7"]
             q1 == [p EXCEPT !.dl = d1]
             q2 == StartTimer(q1)
  <2>1. [p EXCEPT !.dl.retry = 0, !.dl.trigger = "MASTER", !.dl.mh = "GETOD_7"] = q1
    BY <1>0 DEF PortFields
  <2>2. MHPreoperate6(p) = q2
    BY <2>1, <1>4 DEF MHPreoperate6
  <2>3. DlOK(d1)
    BY <1>0, <1>4, DataLinkAssumption DEF DlOK, DlFields
  <2>4. DlStep(p, q1) /\ PortOK(q1)
    BY <2>3, SetDl, DlPortOK
  <2> HIDE DEF q1
  <2>5. DlStep(p, q2) /\ PortOK(q2)
    BY <2>4, StartTimerStep, DlTwice, DlPortOK
  <2> QED
    BY <2>5, <2>2
<1>5. CASE p.dl.mhcmd = "PREOPERATE" /\ ~SomethingToSend(p)
  <2>1. MHPreoperate6(p) = p
    BY <1>5 DEF MHPreoperate6
  <2> QED
    BY <2>1, DlNot
<1> QED
  BY <1>0, <1>1, <1>2, <1>3, <1>4, <1>5 DEF DlOK

LEMMA MHGetOd7Step == ASSUME NEW p, PortOK(p) PROVE DlStep(p, MHGetOd7(p))
<1> DEFINE q1 == OdHandler(p)
           q2 == [q1 EXCEPT !.dl.retry = 0, !.dl.dataready = FALSE, !.dl.mh = "RESPONSE_8"]
           q3 == Transfer(q2)
<1>1. MHGetOd7(p) = q3
  BY DEF MHGetOd7
<1>2. DlStep(p, q1) /\ PortOK(q1)
  BY OdHandlerStep, DlPortOK
<1> HIDE DEF q1
<1>3. DlStep(p, q2) /\ PortOK(q2)
  BY <1>2, SetUnanswered, DlTwice, DlPortOK, ZenonT(60) DEF MhStates
<1> HIDE DEF q2
<1>4. DlStep(p, q3) /\ PortOK(q3)
  BY <1>3, TransferStep, DlTwice, DlPortOK
<1> QED
  BY <1>4, <1>1

LEMMA MHAwaitReply9Step == ASSUME NEW p, PortOK(p) PROVE DlStep(p, MHAwaitReply9(p))
<1>0. DOMAIN p = PortFields /\ DlOK(p.dl)
  BY DEF PortOK
<1>1. CASE p.dl.dataready
  <2> DEFINE d == [p.dl EXCEPT !.event_flag = p.dl.rx.flag]
             q0 == [p EXCEPT !.dl = d]
             q == OdTriggered(q0, "DEVICE")
             again == [q EXCEPT !.dl.trigger = "MASTER", !.dl.mh = "GETOD_7"]
  <2>1. [p EXCEPT !.dl.event_flag = p.dl.rx.flag] = q0
    BY <1>0 DEF PortFields
  <2>2. MHAwaitReply9(p) \in {StartTimer(again), MHBecomes(StartTimer(q), "AW_REPLY_16"),
                              q, MHBecomes(StopTimer(q), "PREOPERATE_6")}
    BY <1>1, <2>1 DEF MHAwaitReply9
  <2>3. DlOK(d)
    BY <1>0 DEF DlOK, DlFields
  <2>4. DlStep(p, q0) /\ PortOK(q0)
    BY <2>3, SetDl, DlPortOK
  <2> HIDE DEF q0
  <2>5. DlStep(p, q) /\ PortOK(q)
    BY <2>4, OdTriggeredStep, DlTwice, DlPortOK
  <2> HIDE DEF q
  <2>6. DlStep(p, again) /\ PortOK(again)
    BY <2>5, SetTriggered, DlTwice, DlPortOK, ZenonT(60) DEF MhStates
  <2> HIDE DEF again
  <2>7. DlStep(p, StartTimer(again))
    BY <2>6, StartTimerStep, DlTwice
  <2>8. DlStep(p, MHBecomes(StartTimer(q), "AW_REPLY_16"))
    <3>1. DlStep(p, StartTimer(q)) /\ PortOK(StartTimer(q))
      BY <2>5, StartTimerStep, DlTwice, DlPortOK
    <3> QED
      BY <3>1, MHBecomesStep, DlTwice DEF MhStates
  <2>9. DlStep(p, MHBecomes(StopTimer(q), "PREOPERATE_6"))
    <3>1. DlStep(p, StopTimer(q)) /\ PortOK(StopTimer(q))
      BY <2>5, StopTimerStep, DlTwice, DlPortOK
    <3> QED
      BY <3>1, MHBecomesStep, DlTwice DEF MhStates
  <2> QED
    BY <2>2, <2>5, <2>7, <2>8, <2>9
<1>2. CASE ~p.dl.dataready /\ p.dl.error
  <2> DEFINE q1 == StartTimer(p)
             q2 == MHBecomes(q1, "ERRORHANDLING_10")
  <2>1. MHAwaitReply9(p) = q2
    BY <1>2 DEF MHAwaitReply9
  <2>2. DlStep(p, q1) /\ PortOK(q1)
    BY StartTimerStep, DlPortOK
  <2> HIDE DEF q1
  <2>3. DlStep(p, q2) /\ PortOK(q2)
    BY <2>2, MHBecomesStep, DlTwice, DlPortOK DEF MhStates
  <2> QED
    BY <2>3, <2>1
<1>3. CASE ~p.dl.dataready /\ ~p.dl.error
  <2>1. MHAwaitReply9(p) = p
    BY <1>3 DEF MHAwaitReply9
  <2> QED
    BY <2>1, DlNot
<1> QED
  BY <1>1, <1>2, <1>3

LEMMA MHErrorHandling10Step ==
  ASSUME NEW p, PortOK(p) PROVE DlStep(p, MHErrorHandling10(p))
<1>0. DOMAIN p = PortFields /\ DlOK(p.dl)
  BY DEF PortOK
<1>n. p.dl.retry < MaxRetry <=> ~(p.dl.retry >= MaxRetry)
  BY <1>0, DataLinkAssumption DEF DlOK
<1>1. CASE p.dl.retry >= MaxRetry
  <2> DEFINE q == WriteMasterCommand(p, FALSE)
             r == CASE p.dl.rwcmd = "READPARAM"  -> DL_ReadParam_cnf(q, FALSE)
                    [] p.dl.rwcmd = "WRITEPARAM" -> DL_WriteParam_cnf(q, FALSE)
                    [] OTHER -> StartupCnf(q, FALSE)
  <2>1. MHErrorHandling10(p) = HandleComLost(r)
    BY <1>1, <1>n DEF MHErrorHandling10
  <2>2. DlStep(p, q) /\ PortOK(q)
    BY WriteMasterCommandStep, DlPortOK
  <2> HIDE DEF q
  <2>3. CASE p.dl.rwcmd = "READPARAM"
    <3>1. UsersReadParam
      BY <1>0, <2>3 DEF DlOK
    <3>2. DlStep(p, DL_ReadParam_cnf(q, FALSE))
      BY <2>2, <3>1, DL_ReadParam_cnfStep, DlTwice
    <3>3. DlStep(p, r)
      BY <2>3, <3>2
    <3> HIDE DEF r
    <3> QED
      BY <2>1, <3>3, HandleComLostStep, DlTwice, DlPortOK
  <2>4. CASE p.dl.rwcmd = "WRITEPARAM"
    <3>1. DlStep(p, DL_WriteParam_cnf(q, FALSE))
      BY <2>2, DL_WriteParam_cnfStep, DlTwice
    <3>2. DlStep(p, r)
      BY <2>4, <3>1
    <3> HIDE DEF r
    <3> QED
      BY <2>1, <3>2, HandleComLostStep, DlTwice, DlPortOK
  <2>5. CASE p.dl.rwcmd \notin {"READPARAM", "WRITEPARAM"}
    <3>1. DlStep(p, StartupCnf(q, FALSE))
      BY <2>2, StartupCnfStep, DlTwice
    <3>2. DlStep(p, r)
      BY <2>5, <3>1
    <3> HIDE DEF r
    <3> QED
      BY <2>1, <3>2, HandleComLostStep, DlTwice, DlPortOK
  <2> QED
    BY <2>3, <2>4, <2>5
<1>2. CASE p.dl.retry < MaxRetry /\ InitCycElapsed(p)
  <2>1. MHErrorHandling10(p) = Retry(p, "AW_REPLY_9")
    BY <1>2, <1>n DEF MHErrorHandling10
  <2> QED
    BY <2>1, <1>2, RetryStep DEF MhStates
<1>3. CASE p.dl.retry < MaxRetry /\ ~InitCycElapsed(p)
  <2>1. MHErrorHandling10(p) = p
    BY <1>3, <1>n DEF MHErrorHandling10
  <2> QED
    BY <2>1, DlNot
<1> QED
  BY <1>n, <1>1, <1>2, <1>3

LEMMA LeaveOperateStep == ASSUME NEW p, PortOK(p) PROVE DlStep(p, LeaveOperate(p))
<1>0. DOMAIN p = PortFields /\ DlOK(p.dl)
  BY DEF PortOK
<1>1. CASE p.dl.mhcmd = "STARTUP"
  <2> DEFINE q1 == DisableCycleTimer(p)
             q2 == MHBecomes(q1, "STARTUP_2")
  <2>1. LeaveOperate(p) = q2
    BY <1>1 DEF LeaveOperate
  <2>2. DlStep(p, q1) /\ PortOK(q1)
    BY CycleTimerStep, DlPortOK
  <2> HIDE DEF q1
  <2>3. DlStep(p, q2) /\ PortOK(q2)
    BY <2>2, MHBecomesStep, DlTwice, DlPortOK DEF MhStates
  <2> QED
    BY <2>3, <2>1
<1>2. CASE p.dl.mhcmd # "STARTUP"
  <2> DEFINE q1 == GiveUp(p)
             q2 == DisableCycleTimer(q1)
  <2>1. LeaveOperate(p) = q2
    BY <1>2 DEF LeaveOperate
  <2>2. DlStep(p, q1) /\ PortOK(q1)
    BY GiveUpStep, DlPortOK
  <2> HIDE DEF q1
  <2>3. DlStep(p, q2) /\ PortOK(q2)
    BY <2>2, CycleTimerStep, DlTwice, DlPortOK
  <2> QED
    BY <2>3, <2>1
<1> QED
  BY <1>0, <1>1, <1>2 DEF DlOK

LEMMA MHOperate12Step == ASSUME NEW p, PortOK(p) PROVE DlStep(p, MHOperate12(p))
<1>0. DOMAIN p = PortFields /\ DlOK(p.dl)
  BY DEF PortOK
<1>1. CASE p.dl.mhcmd \in {"STARTUP", "INACTIVE"}
  <2>1. MHOperate12(p) = LeaveOperate(p)
    BY <1>1 DEF MHOperate12
  <2> QED
    BY <2>1, LeaveOperateStep
<1>2. CASE p.dl.mhcmd \notin {"STARTUP", "INACTIVE"} /\ p.dl.interleave
  <2> DEFINE q1 == OD_req(p, "PROCESSDATA")
             q2 == [q1 EXCEPT !.dl.retry = 0, !.dl.dataready = FALSE, !.dl.mh = "RESPONSE_15"]
             q3 == EnableCycleTimer(q2)
             q4 == Transfer(q3)
  <2>1. MHOperate12(p) = q4
    BY <1>2 DEF MHOperate12
  <2>2. DlStep(p, q1) /\ PortOK(q1)
    BY OD_reqStep, DlPortOK
  <2> HIDE DEF q1
  <2>3. DlStep(p, q2) /\ PortOK(q2)
    BY <2>2, SetUnanswered, DlTwice, DlPortOK, ZenonT(60) DEF MhStates
  <2> HIDE DEF q2
  <2>4. DlStep(p, q3) /\ PortOK(q3)
    BY <2>3, CycleTimerStep, DlTwice, DlPortOK
  <2> HIDE DEF q3
  <2>5. DlStep(p, q4) /\ PortOK(q4)
    BY <2>4, TransferStep, DlTwice, DlPortOK
  <2> QED
    BY <2>5, <2>1
<1>3. CASE p.dl.mhcmd \notin {"STARTUP", "INACTIVE"} /\ ~p.dl.interleave
  <2> DEFINE q1 == OdTriggered(p, "MASTER")
             q2 == [q1 EXCEPT !.dl.retry = 0, !.dl.dataready = FALSE, !.dl.mh = "RESPONSE_15"]
             q3 == EnableCycleTimer(q2)
             q4 == Transfer(q3)
  <2>1. MHOperate12(p) = q4
    BY <1>3 DEF MHOperate12
  <2>2. DlStep(p, q1) /\ PortOK(q1)
    BY OdTriggeredStep, DlPortOK
  <2> HIDE DEF q1
  <2>3. DlStep(p, q2) /\ PortOK(q2)
    BY <2>2, SetUnanswered, DlTwice, DlPortOK, ZenonT(60) DEF MhStates
  <2> HIDE DEF q2
  <2>4. DlStep(p, q3) /\ PortOK(q3)
    BY <2>3, CycleTimerStep, DlTwice, DlPortOK
  <2> HIDE DEF q3
  <2>5. DlStep(p, q4) /\ PortOK(q4)
    BY <2>4, TransferStep, DlTwice, DlPortOK
  <2> QED
    BY <2>5, <2>1
<1> QED
  BY <1>0, <1>1, <1>2, <1>3 DEF DlOK

LEMMA MHAwaitReply16Step == ASSUME NEW p, PortOK(p) PROVE DlStep(p, MHAwaitReply16(p))
<1>0. DOMAIN p = PortFields /\ DlOK(p.dl)
  BY DEF PortOK
<1>1. CASE p.dl.mhcmd \in {"STARTUP", "INACTIVE"}
  <2>1. MHAwaitReply16(p) = LeaveOperate(p)
    BY <1>1 DEF MHAwaitReply16
  <2> QED
    BY <2>1, LeaveOperateStep
<1>2. CASE /\ p.dl.mhcmd \notin {"STARTUP", "INACTIVE"}
           /\ p.dl.rwcmd = "WRITEPARAM"
  <2> DEFINE q1 == OdTriggered(p, "MASTER")
             q2 == [q1 EXCEPT !.dl.retry = 0, !.dl.dataready = FALSE, !.dl.mh = "AW_REPLY_9"]
             q3 == Download(q2)
  <2>1. MHAwaitReply16(p) = q3
    BY <1>2 DEF MHAwaitReply16
  <2>2. DlStep(p, q1) /\ PortOK(q1)
    BY OdTriggeredStep, DlPortOK
  <2> HIDE DEF q1
  <2>3. DlStep(p, q2) /\ PortOK(q2)
    BY <2>2, SetUnanswered, DlTwice, DlPortOK, ZenonT(60) DEF MhStates
  <2> HIDE DEF q2
  <2>4. DlStep(p, q3) /\ PortOK(q3)
    BY <2>3, DownloadStep, DlTwice, DlPortOK
  <2> QED
    BY <2>4, <2>1
<1>3. CASE /\ p.dl.mhcmd \notin {"STARTUP", "INACTIVE"}
           /\ p.dl.rwcmd # "WRITEPARAM" /\ p.dl.dataready
  <2> DEFINE d1 == [p.dl EXCEPT !.event_flag = p.dl.rx.flag]
             q1 == [p EXCEPT !.dl = d1]
             q2 == OdTriggered(q1, "DEVICE")
             q3 == OdTriggered(q2, "MASTER")
             q4 == [q3 EXCEPT !.dl.dataready = FALSE, !.dl.mh = "AW_REPLY_16"]
             q5 == Download(q4)
  <2>1. [p EXCEPT !.dl.event_flag = p.dl.rx.flag] = q1
    BY <1>0 DEF PortFields
  <2>2. MHAwaitReply16(p) = q5
    BY <2>1, <1>3 DEF MHAwaitReply16
  <2>3. DlOK(d1)
    BY <1>0, <1>3 DEF DlOK, DlFields
  <2>4. DlStep(p, q1) /\ PortOK(q1)
    BY <2>3, SetDl, DlPortOK
  <2> HIDE DEF q1
  <2>5. DlStep(p, q2) /\ PortOK(q2)
    BY <2>4, OdTriggeredStep, DlTwice, DlPortOK
  <2> HIDE DEF q2
  <2>6. DlStep(p, q3) /\ PortOK(q3)
    BY <2>5, OdTriggeredStep, DlTwice, DlPortOK
  <2> HIDE DEF q3
  <2>7. DlStep(p, q4) /\ PortOK(q4)
    BY <2>6, SetReplied, DlTwice, DlPortOK DEF MhStates
  <2> HIDE DEF q4
  <2>8. DlStep(p, q5) /\ PortOK(q5)
    BY <2>7, DownloadStep, DlTwice, DlPortOK
  <2> QED
    BY <2>8, <2>2
<1>4. CASE /\ p.dl.mhcmd \notin {"STARTUP", "INACTIVE"}
           /\ p.dl.rwcmd # "WRITEPARAM" /\ ~p.dl.dataready /\ p.dl.error
  <2>1. MHAwaitReply16(p) = HandleComLost(p)
    BY <1>4 DEF MHAwaitReply16
  <2> QED
    BY <2>1, HandleComLostStep
<1>5. CASE /\ p.dl.mhcmd \notin {"STARTUP", "INACTIVE"}
           /\ p.dl.rwcmd # "WRITEPARAM" /\ ~p.dl.dataready /\ ~p.dl.error
  <2>1. MHAwaitReply16(p) = p
    BY <1>5 DEF MHAwaitReply16
  <2> QED
    BY <2>1, DlNot
<1> QED
  BY <1>0, <1>1, <1>2, <1>3, <1>4, <1>5 DEF DlOK

LEMMA MessageHandlerStep == ASSUME NEW p, PortOK(p) PROVE DlStep(p, MessageHandler(p))
<1>0. DOMAIN p = PortFields /\ DlOK(p.dl)
  BY DEF PortOK
<1>1. CASE p.dl.mh = "INACTIVE_0"
  <2>1. MessageHandler(p) = DisableCycleTimer(p)
    BY <1>1 DEF MessageHandler
  <2> QED
    BY <2>1, CycleTimerStep
<1>2. CASE p.dl.mh = "STARTUP_2"
  <2>1. MessageHandler(p) = MHStartup2(p)
    BY <1>2 DEF MessageHandler
  <2> QED
    BY <2>1, MHStartup2Step
<1>3. CASE p.dl.mh = "RESPONSE_3"
  <2> DEFINE q1 == MHBecomes(p, "AW_REPLY_4")
             q2 == MHAwaitReply4(q1)
  <2>1. MessageHandler(p) = q2
    BY <1>3 DEF MessageHandler
  <2>2. DlStep(p, q1) /\ PortOK(q1)
    BY MHBecomesStep, DlPortOK DEF MhStates
  <2> HIDE DEF q1
  <2>3. DlStep(p, q2) /\ PortOK(q2)
    BY <2>2, MHAwaitReply4Step, DlTwice, DlPortOK
  <2> QED
    BY <2>3, <2>1
<1>4. CASE p.dl.mh = "AW_REPLY_4"
  <2>1. MessageHandler(p) = MHAwaitReply4(p)
    BY <1>4 DEF MessageHandler
  <2> QED
    BY <2>1, MHAwaitReply4Step
<1>5. CASE p.dl.mh = "ERRORHANDLING_5"
  <2>1. MessageHandler(p) = MHErrorHandling5(p)
    BY <1>5 DEF MessageHandler
  <2> QED
    BY <2>1, MHErrorHandling5Step
<1>6. CASE p.dl.mh = "PREOPERATE_6"
  <2>1. MessageHandler(p) = MHPreoperate6(p)
    BY <1>6 DEF MessageHandler
  <2> QED
    BY <2>1, MHPreoperate6Step
<1>7. CASE p.dl.mh = "GETOD_7"
  <2>1. MessageHandler(p) = MHGetOd7(p)
    BY <1>7 DEF MessageHandler
  <2> QED
    BY <2>1, MHGetOd7Step
<1>8. CASE p.dl.mh = "RESPONSE_8"
  <2>1. MessageHandler(p) = MHAwaitReply9(p)
    BY <1>8 DEF MessageHandler
  <2> QED
    BY <2>1, MHAwaitReply9Step
<1>9. CASE p.dl.mh = "AW_REPLY_9"
  <2>1. MessageHandler(p) = MHAwaitReply9(p)
    BY <1>9 DEF MessageHandler
  <2> QED
    BY <2>1, MHAwaitReply9Step
<1>10. CASE p.dl.mh = "ERRORHANDLING_10"
  <2>1. MessageHandler(p) = MHErrorHandling10(p)
    BY <1>10 DEF MessageHandler
  <2> QED
    BY <2>1, MHErrorHandling10Step
<1>11. CASE p.dl.mh = "OPERATE_12"
  <2>1. MessageHandler(p) = MHOperate12(p)
    BY <1>11 DEF MessageHandler
  <2> QED
    BY <2>1, MHOperate12Step
<1>12. CASE p.dl.mh = "RESPONSE_15"
  <2> DEFINE q1 == MHBecomes(p, "AW_REPLY_16")
             q2 == MHAwaitReply16(q1)
  <2>1. MessageHandler(p) = q2
    BY <1>12 DEF MessageHandler
  <2>2. DlStep(p, q1) /\ PortOK(q1)
    BY MHBecomesStep, DlPortOK DEF MhStates
  <2> HIDE DEF q1
  <2>3. DlStep(p, q2) /\ PortOK(q2)
    BY <2>2, MHAwaitReply16Step, DlTwice, DlPortOK
  <2> QED
    BY <2>3, <2>1
<1>13. CASE p.dl.mh = "AW_REPLY_16"
  <2>1. MessageHandler(p) = MHAwaitReply16(p)
    BY <1>13 DEF MessageHandler
  <2> QED
    BY <2>1, MHAwaitReply16Step
<1> QED
  BY <1>0, <1>1, <1>2, <1>3, <1>4, <1>5, <1>6, <1>7, <1>8, <1>9, <1>10, <1>11, <1>12, <1>13 DEF DlOK

-----------------------------------------------------------------------------
(* Mode handler *)

LEMMA CH_ConfStep ==
  ASSUME NEW p, PortOK(p), NEW cmd
  PROVE  DlStep(p, CH_Conf(p, cmd))
<1>0. DOMAIN p = PortFields /\ DlOK(p.dl)
  BY DEF PortOK
<1> DEFINE d1 == [p.dl EXCEPT !.chcmd = cmd]
           q1 == [p EXCEPT !.dl = d1]
           q2 == CommandHandler(q1)
<1>1. [p EXCEPT !.dl.chcmd = cmd] = q1
  BY <1>0 DEF PortFields
<1>2. CH_Conf(p, cmd) = q2
  BY <1>1 DEF CH_Conf
<1>3. DlOK(d1)
  BY <1>0 DEF DlOK, DlFields
<1>4. DlStep(p, q1) /\ PortOK(q1)
  BY <1>3, SetDl, DlPortOK
<1> HIDE DEF q1
<1>5. DlStep(p, q2) /\ PortOK(q2)
  BY <1>4, CommandHandlerStep, DlTwice, DlPortOK
<1> QED
  BY <1>5, <1>2

LEMMA OH_ConfStep ==
  ASSUME NEW p, PortOK(p), NEW cmd \in {"INACTIVE", "ACTIVE"}
  PROVE  DlStep(p, OH_Conf(p, cmd))
<1>0. DOMAIN p = PortFields /\ DlOK(p.dl)
  BY DEF PortOK
<1> DEFINE d1 == [p.dl EXCEPT !.ohcmd = cmd]
           q1 == [p EXCEPT !.dl = d1]
           q2 == OdHandler(q1)
<1>1. [p EXCEPT !.dl.ohcmd = cmd] = q1
  BY <1>0 DEF PortFields
<1>2. OH_Conf(p, cmd) = q2
  BY <1>1 DEF OH_Conf
<1>3. DlOK(d1)
  BY <1>0 DEF DlOK, DlFields
<1>4. DlStep(p, q1) /\ PortOK(q1)
  BY <1>3, SetDl, DlPortOK
<1> HIDE DEF q1
<1>5. DlStep(p, q2) /\ PortOK(q2)
  BY <1>4, OdHandlerStep, DlTwice, DlPortOK
<1> QED
  BY <1>5, <1>2

LEMMA IH_ConfStep ==
  ASSUME NEW p, PortOK(p), NEW cmd
  PROVE  DlStep(p, IH_Conf(p, cmd))
<1>0. DOMAIN p = PortFields /\ DlOK(p.dl)
  BY DEF PortOK
<1> DEFINE d1 == [p.dl EXCEPT !.ihcmd = cmd]
           q1 == [p EXCEPT !.dl = d1]
           q2 == IsduHandler(q1)
<1>1. [p EXCEPT !.dl.ihcmd = cmd] = q1
  BY <1>0 DEF PortFields
<1>2. IH_Conf(p, cmd) = q2
  BY <1>1 DEF IH_Conf
<1>3. DlOK(d1)
  BY <1>0 DEF DlOK, DlFields
<1>4. DlStep(p, q1) /\ PortOK(q1)
  BY <1>3, SetDl, DlPortOK
<1> HIDE DEF q1
<1>5. DlStep(p, q2) /\ PortOK(q2)
  BY <1>4, IsduHandlerStep, DlTwice, DlPortOK
<1> QED
  BY <1>5, <1>2

LEMMA EH_ConfStep ==
  ASSUME NEW p, PortOK(p), NEW cmd
  PROVE  DlStep(p, EH_Conf(p, cmd))
<1>0. DOMAIN p = PortFields /\ DlOK(p.dl)
  BY DEF PortOK
<1> DEFINE d1 == [p.dl EXCEPT !.ehcmd = cmd]
           q1 == [p EXCEPT !.dl = d1]
           q2 == EventHandler(q1)
<1>1. [p EXCEPT !.dl.ehcmd = cmd] = q1
  BY <1>0 DEF PortFields
<1>2. EH_Conf(p, cmd) = q2
  BY <1>1 DEF EH_Conf
<1>3. DlOK(d1)
  BY <1>0 DEF DlOK, DlFields
<1>4. DlStep(p, q1) /\ PortOK(q1)
  BY <1>3, SetDl, DlPortOK
<1> HIDE DEF q1
<1>5. DlStep(p, q2) /\ PortOK(q2)
  BY <1>4, EventHandlerStep, DlTwice, DlPortOK
<1> QED
  BY <1>5, <1>2

LEMMA MH_ConfStep ==
  ASSUME NEW p, PortOK(p), NEW cmd \in {"INACTIVE", "STARTUP", "PREOPERATE", "OPERATE"}
  PROVE  DlStep(p, MH_Conf(p, cmd))
<1>0. DOMAIN p = PortFields /\ DlOK(p.dl)
  BY DEF PortOK
<1> DEFINE d1 == [p.dl EXCEPT !.mhcmd = cmd]
           q1 == [p EXCEPT !.dl = d1]
           q2 == MessageHandler(q1)
<1>1. [p EXCEPT !.dl.mhcmd = cmd] = q1
  BY <1>0 DEF PortFields
<1>2. MH_Conf(p, cmd) = q2
  BY <1>1 DEF MH_Conf
<1>3. DlOK(d1)
  BY <1>0 DEF DlOK, DlFields
<1>4. DlStep(p, q1) /\ PortOK(q1)
  BY <1>3, SetDl, DlPortOK
<1> HIDE DEF q1
<1>5. DlStep(p, q2) /\ PortOK(q2)
  BY <1>4, MessageHandlerStep, DlTwice, DlPortOK
<1> QED
  BY <1>5, <1>2

LEMMA PH_ConfStep ==
  ASSUME NEW p, PortOK(p), NEW cmd
  PROVE  DlStep(p, PH_Conf(p, cmd))
<1>0. DOMAIN p = PortFields /\ DlOK(p.dl)
  BY DEF PortOK
<1> DEFINE d == [p.dl EXCEPT !.interleave = (cmd = "INTERLEAVE")]
           q == [p EXCEPT !.dl = d]
<1>1. DlOK(d)
  BY <1>0 DEF DlOK, DlFields
<1>2. DlStep(p, q) /\ PortOK(q)
  BY <1>1, SetDl, DlPortOK
<1>3. [p EXCEPT !.dl.interleave = (cmd = "INTERLEAVE")] = q
  BY <1>0 DEF PortFields
<1> QED
  BY <1>2, <1>3 DEF PH_Conf

LEMMA OdHandlersConfStep ==
  ASSUME NEW p, PortOK(p), NEW cmd \in {"INACTIVE", "ACTIVE"}
  PROVE  DlStep(p, OdHandlersConf(p, cmd))
<1> DEFINE q1 == OH_Conf(p, cmd)
           q2 == IH_Conf(q1, cmd)
           q3 == EH_Conf(q2, cmd)
<1>1. OdHandlersConf(p, cmd) = q3
  BY DEF OdHandlersConf
<1>2. DlStep(p, q1) /\ PortOK(q1)
  BY OH_ConfStep, DlPortOK
<1> HIDE DEF q1
<1>3. DlStep(p, q2) /\ PortOK(q2)
  BY <1>2, IH_ConfStep, DlTwice, DlPortOK
<1> HIDE DEF q2
<1>4. DlStep(p, q3) /\ PortOK(q3)
  BY <1>3, EH_ConfStep, DlTwice, DlPortOK
<1> QED
  BY <1>4, <1>1

MdhStates == {"IDLE_0", "ESTCOM_1", "STARTUP_2", "PREOPERATE_3", "OPERATE_4"}

LEMMA ModeBecomesStep ==
  ASSUME NEW p, PortOK(p), NEW s \in MdhStates, NEW mode \in ModesTold
  PROVE  DlStep(p, ModeBecomes(p, s, mode))
<1>0. DOMAIN p = PortFields /\ DlOK(p.dl)
  BY DEF PortOK
<1> DEFINE d1 == [p.dl EXCEPT !.mdh = s]
           q1 == [p EXCEPT !.dl = d1]
           q2 == DL_Mode_ind(q1, mode)
<1>1. [p EXCEPT !.dl.mdh = s] = q1
  BY <1>0 DEF PortFields
<1>2. ModeBecomes(p, s, mode) = q2
  BY <1>1 DEF ModeBecomes
<1>3. DlOK(d1)
  BY <1>0 DEF DlOK, DlFields, MdhStates
<1>4. DlStep(p, q1) /\ PortOK(q1)
  BY <1>3, SetDl, DlPortOK
<1> HIDE DEF q1
<1>5. DlStep(p, q2) /\ PortOK(q2)
  BY <1>4, DL_Mode_indStep, DlTwice, DlPortOK
<1> QED
  BY <1>5, <1>2

LEMMA SetMhinfo ==
  ASSUME NEW p, PortOK(p)
  PROVE  DlStep(p, [p EXCEPT !.dl.mhinfo = "NONE"])
<1>0. DOMAIN p = PortFields /\ DlOK(p.dl)
  BY DEF PortOK
<1> DEFINE d == [p.dl EXCEPT !.mhinfo = "NONE"]
           q == [p EXCEPT !.dl = d]
<1>1. DlOK(d)
  BY <1>0 DEF DlOK, DlFields
<1>2. DlStep(p, q) /\ PortOK(q)
  BY <1>1, SetDl, DlPortOK
<1>3. [p EXCEPT !.dl.mhinfo = "NONE"] = q
  BY <1>0 DEF PortFields
<1> QED
  BY <1>2, <1>3

LEMMA GotoOperateStep == ASSUME NEW p, PortOK(p) PROVE DlStep(p, GotoOperate(p))
<1>0. DOMAIN p = PortFields /\ DlOK(p.dl)
  BY DEF PortOK
<1>1. CASE MSeq = "TYPE_2_X"
  <2> DEFINE q1 == PH_Conf(p, "SINGLE")
             q2 == MH_Conf(q1, "OPERATE")
             q3 == ModeBecomes(q2, "OPERATE_4", "OPERATE")
  <2>1. GotoOperate(p) = q3
    BY <1>1 DEF GotoOperate
  <2>2. DlStep(p, q1) /\ PortOK(q1)
    BY PH_ConfStep, DlPortOK
  <2> HIDE DEF q1
  <2>3. DlStep(p, q2) /\ PortOK(q2)
    BY <2>2, MH_ConfStep, DlTwice, DlPortOK
  <2> HIDE DEF q2
  <2>4. DlStep(p, q3) /\ PortOK(q3)
    BY <2>3, ModeBecomesStep, DlTwice, DlPortOK DEF MdhStates, ModesTold
  <2> QED
    BY <2>4, <2>1
<1>2. CASE MSeq = "TYPE_1_1"
  <2> DEFINE q1 == PH_Conf(p, "INTERLEAVE")
             q2 == MH_Conf(q1, "OPERATE")
             q3 == ModeBecomes(q2, "OPERATE_4", "OPERATE")
  <2>1. GotoOperate(p) = q3
    BY <1>2 DEF GotoOperate
  <2>2. DlStep(p, q1) /\ PortOK(q1)
    BY PH_ConfStep, DlPortOK
  <2> HIDE DEF q1
  <2>3. DlStep(p, q2) /\ PortOK(q2)
    BY <2>2, MH_ConfStep, DlTwice, DlPortOK
  <2> HIDE DEF q2
  <2>4. DlStep(p, q3) /\ PortOK(q3)
    BY <2>3, ModeBecomesStep, DlTwice, DlPortOK DEF MdhStates, ModesTold
  <2> QED
    BY <2>4, <2>1
<1>3. CASE MSeq = "OTHER"
  <2> DEFINE q1 == MH_Conf(p, "OPERATE")
             q2 == ModeBecomes(q1, "OPERATE_4", "OPERATE")
  <2>1. GotoOperate(p) = q2
    BY <1>3 DEF GotoOperate
  <2>2. DlStep(p, q1) /\ PortOK(q1)
    BY MH_ConfStep, DlPortOK
  <2> HIDE DEF q1
  <2>3. DlStep(p, q2) /\ PortOK(q2)
    BY <2>2, ModeBecomesStep, DlTwice, DlPortOK DEF MdhStates, ModesTold
  <2> QED
    BY <2>3, <2>1
<1> QED
  BY <1>0, <1>1, <1>2, <1>3, DataLinkAssumption DEF DlOK

LEMMA GotoIdleStep ==
  ASSUME NEW p, PortOK(p), NEW mode \in ModesTold
  PROVE  DlStep(p, GotoIdle(p, mode))
<1> DEFINE q1 == OdHandlersConf(p, "INACTIVE")
           q2 == CH_Conf(q1, "INACTIVE")
           q3 == MH_Conf(q2, "INACTIVE")
           q4 == [q3 EXCEPT !.dl.mhinfo = "NONE"]
           q5 == ModeBecomes(q4, "IDLE_0", mode)
<1>1. GotoIdle(p, mode) = q5
  BY DEF GotoIdle
<1>2. DlStep(p, q1) /\ PortOK(q1)
  BY OdHandlersConfStep, DlPortOK
<1> HIDE DEF q1
<1>3. DlStep(p, q2) /\ PortOK(q2)
  BY <1>2, CH_ConfStep, DlTwice, DlPortOK
<1> HIDE DEF q2
<1>4. DlStep(p, q3) /\ PortOK(q3)
  BY <1>3, MH_ConfStep, DlTwice, DlPortOK
<1> HIDE DEF q3
<1>5. DlStep(p, q4) /\ PortOK(q4)
  BY <1>4, SetMhinfo, DlTwice, DlPortOK
<1> HIDE DEF q4
<1>6. DlStep(p, q5) /\ PortOK(q5)
  BY <1>5, ModeBecomesStep, DlTwice, DlPortOK DEF MdhStates, ModesTold
<1> QED
  BY <1>6, <1>1

LEMMA GotoStartupStep == ASSUME NEW p, PortOK(p) PROVE DlStep(p, GotoStartup(p))
<1> DEFINE q1 == OdHandlersConf(p, "INACTIVE")
           q2 == MH_Conf(q1, "STARTUP")
           q3 == ModeBecomes(q2, "STARTUP_2", "STARTUP")
<1>1. GotoStartup(p) = q3
  BY DEF GotoStartup
<1>2. DlStep(p, q1) /\ PortOK(q1)
  BY OdHandlersConfStep, DlPortOK
<1> HIDE DEF q1
<1>3. DlStep(p, q2) /\ PortOK(q2)
  BY <1>2, MH_ConfStep, DlTwice, DlPortOK
<1> HIDE DEF q2
<1>4. DlStep(p, q3) /\ PortOK(q3)
  BY <1>3, ModeBecomesStep, DlTwice, DlPortOK DEF MdhStates, ModesTold
<1> QED
  BY <1>4, <1>1

LEMMA SetMdh ==
  ASSUME NEW p, PortOK(p), NEW s \in MdhStates
  PROVE  DlStep(p, [p EXCEPT !.dl.mdh = s])
<1>0. DOMAIN p = PortFields /\ DlOK(p.dl)
  BY DEF PortOK
<1> DEFINE d == [p.dl EXCEPT !.mdh = s]
           q == [p EXCEPT !.dl = d]
<1>1. DlOK(d)
  BY <1>0 DEF DlOK, DlFields, MdhStates
<1>2. DlStep(p, q) /\ PortOK(q)
  BY <1>1, SetDl, DlPortOK
<1>3. [p EXCEPT !.dl.mdh = s] = q
  BY <1>0 DEF PortFields
<1> QED
  BY <1>2, <1>3

LEMMA ModeIdle0Step == ASSUME NEW p, PortOK(p) PROVE DlStep(p, ModeIdle0(p))
<1>0. DOMAIN p = PortFields /\ DlOK(p.dl)
  BY DEF PortOK
<1>1. CASE p.dl.dl_mode = "STARTUP" /\ ~p.pl.wurq
  <2> DEFINE q1 == InitSdci(p)
             q2 == [q1 EXCEPT !.dl.mdh = "ESTCOM_1"]
  <2>1. ModeIdle0(p) = q2
    BY <1>1 DEF ModeIdle0
  <2>2. DlStep(p, q1) /\ PortOK(q1)
    BY InitSdciStep, DlPortOK
  <2> HIDE DEF q1
  <2>3. DlStep(p, q2) /\ PortOK(q2)
    BY <2>2, SetMdh, DlTwice, DlPortOK DEF MdhStates, ModesTold
  <2> QED
    BY <2>3, <2>1
<1>2. CASE ~(p.dl.dl_mode = "STARTUP" /\ ~p.pl.wurq)
  <2>1. ModeIdle0(p) = p
    BY <1>2 DEF ModeIdle0
  <2> QED
    BY <2>1, DlNot
<1> QED
  BY <1>0, <1>1, <1>2 DEF DlOK

LEMMA ModeStartup2Step == ASSUME NEW p, PortOK(p) PROVE DlStep(p, ModeStartup2(p))
<1>0. DOMAIN p = PortFields /\ DlOK(p.dl)
  BY DEF PortOK
<1>1. CASE p.dl.dl_mode = "PREOPERATE"
  <2> DEFINE q1 == OdHandlersConf(p, "ACTIVE")
             q2 == MH_Conf(q1, "PREOPERATE")
             q3 == ModeBecomes(q2, "PREOPERATE_3", "PREOPERATE")
  <2>1. ModeStartup2(p) = q3
    BY <1>1 DEF ModeStartup2
  <2>2. DlStep(p, q1) /\ PortOK(q1)
    BY OdHandlersConfStep, DlPortOK
  <2> HIDE DEF q1
  <2>3. DlStep(p, q2) /\ PortOK(q2)
    BY <2>2, MH_ConfStep, DlTwice, DlPortOK
  <2> HIDE DEF q2
  <2>4. DlStep(p, q3) /\ PortOK(q3)
    BY <2>3, ModeBecomesStep, DlTwice, DlPortOK DEF MdhStates, ModesTold
  <2> QED
    BY <2>4, <2>1
<1>2. CASE p.dl.dl_mode = "OPERATE"
  <2> DEFINE q1 == OdHandlersConf(p, "ACTIVE")
             q2 == GotoOperate(q1)
  <2>1. ModeStartup2(p) = q2
    BY <1>2 DEF ModeStartup2
  <2>2. DlStep(p, q1) /\ PortOK(q1)
    BY OdHandlersConfStep, DlPortOK
  <2> HIDE DEF q1
  <2>3. DlStep(p, q2) /\ PortOK(q2)
    BY <2>2, GotoOperateStep, DlTwice, DlPortOK
  <2> QED
    BY <2>3, <2>1
<1>3. CASE p.dl.dl_mode = "INACTIVE"
  <2>1. ModeStartup2(p) = GotoIdle(p, "INACTIVE")
    BY <1>3 DEF ModeStartup2
  <2> QED
    BY <2>1, GotoIdleStep DEF ModesTold
<1>4. CASE p.dl.dl_mode = "STARTUP" /\ p.dl.mhinfo = "COMLOST"
  <2>1. ModeStartup2(p) = GotoIdle(p, "COMLOST")
    BY <1>4 DEF ModeStartup2
  <2> QED
    BY <2>1, GotoIdleStep DEF ModesTold
<1>5. CASE p.dl.dl_mode = "STARTUP" /\ p.dl.mhinfo # "COMLOST"
  <2>1. ModeStartup2(p) = p
    BY <1>5 DEF ModeStartup2
  <2> QED
    BY <2>1, DlNot
<1> QED
  BY <1>0, <1>1, <1>2, <1>3, <1>4, <1>5 DEF DlOK

LEMMA ModePreoperate3Step == ASSUME NEW p, PortOK(p) PROVE DlStep(p, ModePreoperate3(p))
<1>0. DOMAIN p = PortFields /\ DlOK(p.dl)
  BY DEF PortOK
<1>1. CASE p.dl.dl_mode = "STARTUP"
  <2> DEFINE q1 == CH_Conf(p, "INACTIVE")
             q2 == GotoStartup(q1)
  <2>1. ModePreoperate3(p) = q2
    BY <1>1 DEF ModePreoperate3
  <2>2. DlStep(p, q1) /\ PortOK(q1)
    BY CH_ConfStep, DlPortOK
  <2> HIDE DEF q1
  <2>3. DlStep(p, q2) /\ PortOK(q2)
    BY <2>2, GotoStartupStep, DlTwice, DlPortOK
  <2> QED
    BY <2>3, <2>1
<1>2. CASE p.dl.dl_mode = "INACTIVE"
  <2>1. ModePreoperate3(p) = MH_Conf(p, "OPERATE")
    BY <1>2 DEF ModePreoperate3
  <2> QED
    BY <2>1, MH_ConfStep
<1>3. CASE p.dl.dl_mode \in {"PREOPERATE", "OPERATE"} /\ p.dl.mhinfo = "COMLOST"
  <2>1. ModePreoperate3(p) = GotoIdle(p, "COMLOST")
    BY <1>3 DEF ModePreoperate3
  <2> QED
    BY <2>1, GotoIdleStep DEF ModesTold
<1>4. CASE p.dl.dl_mode = "OPERATE" /\ p.dl.mhinfo # "COMLOST"
  <2>1. ModePreoperate3(p) = GotoOperate(p)
    BY <1>4 DEF ModePreoperate3
  <2> QED
    BY <2>1, GotoOperateStep
<1>5. CASE p.dl.dl_mode = "PREOPERATE" /\ p.dl.mhinfo # "COMLOST"
  <2>1. ModePreoperate3(p) = p
    BY <1>5 DEF ModePreoperate3
  <2> QED
    BY <2>1, DlNot
<1> QED
  BY <1>0, <1>1, <1>2, <1>3, <1>4, <1>5 DEF DlOK

LEMMA ModeOperate4Step == ASSUME NEW p, PortOK(p) PROVE DlStep(p, ModeOperate4(p))
<1>0. DOMAIN p = PortFields /\ DlOK(p.dl)
  BY DEF PortOK
<1>1. CASE p.dl.dl_mode = "STARTUP"
  <2> DEFINE q1 == PH_Conf(p, "INACTIVE")
             q2 == GotoStartup(q1)
  <2>1. ModeOperate4(p) = q2
    BY <1>1 DEF ModeOperate4
  <2>2. DlStep(p, q1) /\ PortOK(q1)
    BY PH_ConfStep, DlPortOK
  <2> HIDE DEF q1
  <2>3. DlStep(p, q2) /\ PortOK(q2)
    BY <2>2, GotoStartupStep, DlTwice, DlPortOK
  <2> QED
    BY <2>3, <2>1
<1>2. CASE p.dl.dl_mode = "INACTIVE"
  <2> DEFINE q1 == PH_Conf(p, "INACTIVE")
             q2 == GotoIdle(q1, "INACTIVE")
  <2>1. ModeOperate4(p) = q2
    BY <1>2 DEF ModeOperate4
  <2>2. DlStep(p, q1) /\ PortOK(q1)
    BY PH_ConfStep, DlPortOK
  <2> HIDE DEF q1
  <2>3. DlStep(p, q2) /\ PortOK(q2)
    BY <2>2, GotoIdleStep, DlTwice, DlPortOK DEF ModesTold
  <2> QED
    BY <2>3, <2>1
<1>3. CASE p.dl.dl_mode \in {"PREOPERATE", "OPERATE"} /\ p.dl.mhinfo = "COMLOST"
  <2> DEFINE q1 == PH_Conf(p, "INACTIVE")
             q2 == GotoIdle(q1, "COMLOST")
  <2>1. ModeOperate4(p) = q2
    BY <1>3 DEF ModeOperate4
  <2>2. DlStep(p, q1) /\ PortOK(q1)
    BY PH_ConfStep, DlPortOK
  <2> HIDE DEF q1
  <2>3. DlStep(p, q2) /\ PortOK(q2)
    BY <2>2, GotoIdleStep, DlTwice, DlPortOK DEF ModesTold
  <2> QED
    BY <2>3, <2>1
<1>4. CASE p.dl.dl_mode \in {"PREOPERATE", "OPERATE"} /\ p.dl.mhinfo # "COMLOST"
  <2>1. ModeOperate4(p) = p
    BY <1>4 DEF ModeOperate4
  <2> QED
    BY <2>1, DlNot
<1> QED
  BY <1>0, <1>1, <1>2, <1>3, <1>4 DEF DlOK

LEMMA ModeHandlerStep == ASSUME NEW p, PortOK(p) PROVE DlStep(p, ModeHandler(p))
<1>0. DOMAIN p = PortFields /\ DlOK(p.dl)
  BY DEF PortOK
<1>1. CASE p.dl.mdh = "IDLE_0"
  <2>1. ModeHandler(p) = ModeIdle0(p)
    BY <1>1 DEF ModeHandler
  <2> QED
    BY <2>1, ModeIdle0Step
<1>2. CASE p.dl.mdh = "ESTCOM_1"
  <2>1. ModeHandler(p) = p
    BY <1>2 DEF ModeHandler
  <2> QED
    BY <2>1, DlNot
<1>3. CASE p.dl.mdh = "STARTUP_2"
  <2>1. ModeHandler(p) = ModeStartup2(p)
    BY <1>3 DEF ModeHandler
  <2> QED
    BY <2>1, ModeStartup2Step
<1>4. CASE p.dl.mdh = "PREOPERATE_3"
  <2>1. ModeHandler(p) = ModePreoperate3(p)
    BY <1>4 DEF ModeHandler
  <2> QED
    BY <2>1, ModePreoperate3Step
<1>5. CASE p.dl.mdh = "OPERATE_4"
  <2>1. ModeHandler(p) = ModeOperate4(p)
    BY <1>5 DEF ModeHandler
  <2> QED
    BY <2>1, ModeOperate4Step
<1> QED
  BY <1>0, <1>1, <1>2, <1>3, <1>4, <1>5 DEF DlOK

-----------------------------------------------------------------------------
(* Services *)

\* The confirmation of a start-up service
StartupService(p, rw, ok) == IF rw = "READ" THEN DL_Read_cnf(p, ok) ELSE DL_Write_cnf(p, ok)

LEMMA StartupServiceStep ==
  ASSUME NEW p, PortOK(p), NEW rw, NEW ok \in BOOLEAN
  PROVE  DlStep(p, StartupService(p, rw, ok))
<1>1. CASE rw = "READ"
  BY <1>1, DL_Read_cnfStep DEF StartupService
<1>2. CASE rw # "READ"
  BY <1>2, DL_Write_cnfStep DEF StartupService
<1> QED
  BY <1>1, <1>2

LEMMA DL_ReadWrite_reqStep ==
  ASSUME NEW p, PortOK(p), NEW addr, NEW rw \in {"READ", "WRITE"}
  PROVE  DlStep(p, DL_ReadWrite_req(p, addr, rw))
<1>0. DOMAIN p = PortFields /\ DlOK(p.dl)
  BY DEF PortOK
<1>1. CASE p.dl.mh # "STARTUP_2"
  <2>1. DL_ReadWrite_req(p, addr, rw) = StartupService(p, rw, FALSE)
    BY <1>1 DEF DL_ReadWrite_req, StartupService
  <2> QED
    BY <2>1, StartupServiceStep
<1>2. CASE p.dl.mh = "STARTUP_2" /\ rw = "READ" /\ addr = "MIN_CYCL" /\ p.dl.first_read_min_cycl
  <2> DEFINE d1 == [p.dl EXCEPT !.first_read_min_cycl = FALSE]
             q1 == [p EXCEPT !.dl = d1]
             q2 == StartupService(q1, rw, TRUE)
  <2>1. [p EXCEPT !.dl.first_read_min_cycl = FALSE] = q1
    BY <1>0 DEF PortFields
  <2>2. DL_ReadWrite_req(p, addr, rw) = q2
    BY <2>1, <1>2 DEF DL_ReadWrite_req, StartupService
  <2>3. DlOK(d1)
    BY <1>0, <1>2 DEF DlOK, DlFields
  <2>4. DlStep(p, q1) /\ PortOK(q1)
    BY <2>3, SetDl, DlPortOK
  <2> HIDE DEF q1
  <2>5. DlStep(p, q2) /\ PortOK(q2)
    BY <2>4, StartupServiceStep, DlTwice, DlPortOK
  <2> QED
    BY <2>5, <2>2
<1>3. CASE p.dl.mh = "STARTUP_2" /\ ~(rw = "READ" /\ addr = "MIN_CYCL" /\ p.dl.first_read_min_cycl)
  <2> DEFINE d1 == [p.dl EXCEPT !.rwcmd = rw]
             q1 == [p EXCEPT !.dl = d1]
             q2 == OD_req(q1, rw)
             q3 == SetEvent(q2, "MH")
  <2>1. [p EXCEPT !.dl.rwcmd = rw] = q1
    BY <1>0 DEF PortFields
  <2>2. DL_ReadWrite_req(p, addr, rw) = q3
    BY <2>1, <1>3 DEF DL_ReadWrite_req
  <2>3. DlOK(d1)
    BY <1>0, <1>3 DEF DlOK, DlFields
  <2>4. DlStep(p, q1) /\ PortOK(q1)
    BY <2>3, SetDl, DlPortOK
  <2> HIDE DEF q1
  <2>5. DlStep(p, q2) /\ PortOK(q2)
    BY <2>4, OD_reqStep, DlTwice, DlPortOK
  <2> HIDE DEF q2
  <2>6. DlStep(p, q3) /\ PortOK(q3)
    BY <2>5, SetEventStep, Bits, DlTwice, DlPortOK
  <2> QED
    BY <2>6, <2>2
<1> QED
  BY <1>0, <1>1, <1>2, <1>3 DEF DlOK

LEMMA DL_SetMode_reqStep ==
  ASSUME NEW p, PortOK(p),
         NEW mode \in {"INACTIVE", "STARTUP", "PREOPERATE", "OPERATE"}
  PROVE  DlStep(p, DL_SetMode_req(p, mode))
<1>0. DOMAIN p = PortFields /\ DlOK(p.dl)
  BY DEF PortOK
<1> DEFINE d1 == [p.dl EXCEPT !.dl_mode = mode]
           q1 == [p EXCEPT !.dl = d1]
           q2 == SetEvent(q1, "MDH")
<1>1. [p EXCEPT !.dl.dl_mode = mode] = q1
  BY <1>0 DEF PortFields
<1>2. DL_SetMode_req(p, mode) = q2
  BY <1>1 DEF DL_SetMode_req
<1>3. DlOK(d1)
  BY <1>0 DEF DlOK, DlFields
<1>4. DlStep(p, q1) /\ PortOK(q1)
  BY <1>3, SetDl, DlPortOK
<1> HIDE DEF q1
<1>5. DlStep(p, q2) /\ PortOK(q2)
  BY <1>4, SetEventStep, Bits, DlTwice, DlPortOK
<1> QED
  BY <1>5, <1>2

LEMMA WakeStep == ASSUME NEW p, PortOK(p) PROVE DlStep(p, Wake(p))
<1>0. DOMAIN p = PortFields /\ DlOK(p.dl)
  BY DEF PortOK
<1>1. CASE p.dl.mdh = "PREOPERATE_3"
  <2>1. Wake(p) = SetEvent(p, "MH")
    BY <1>1 DEF Wake
  <2> QED
    BY <2>1, SetEventStep, Bits
<1>2. CASE p.dl.mdh # "PREOPERATE_3"
  <2>1. Wake(p) = p
    BY <1>2 DEF Wake
  <2> QED
    BY <2>1, DlNot
<1> QED
  BY <1>0, <1>1, <1>2 DEF DlOK

LEMMA DL_ReadWriteParam_reqStep ==
  ASSUME NEW p, PortOK(p),
         NEW rw \in {"READPARAM", "WRITEPARAM"}, rw = "READPARAM" => UsersReadParam
  PROVE  DlStep(p, DL_ReadWriteParam_req(p, rw))
<1>0. DOMAIN p = PortFields /\ DlOK(p.dl)
  BY DEF PortOK
<1>1. CASE p.dl.mh \in {"PREOPERATE_6", "AW_REPLY_16"}
  <2> DEFINE d1 == [p.dl EXCEPT !.rwcmd = rw]
             q1 == [p EXCEPT !.dl = d1]
             q2 == Wake(q1)
  <2>1. [p EXCEPT !.dl.rwcmd = rw] = q1
    BY <1>0 DEF PortFields
  <2>2. DL_ReadWriteParam_req(p, rw) = q2
    BY <2>1, <1>1 DEF DL_ReadWriteParam_req
  <2>3. DlOK(d1)
    BY <1>0, <1>1 DEF DlOK, DlFields
  <2>4. DlStep(p, q1) /\ PortOK(q1)
    BY <2>3, SetDl, DlPortOK
  <2> HIDE DEF q1
  <2>5. DlStep(p, q2) /\ PortOK(q2)
    BY <2>4, WakeStep, DlTwice, DlPortOK
  <2> QED
    BY <2>5, <2>2
<1>2. CASE p.dl.mh \notin {"PREOPERATE_6", "AW_REPLY_16"} /\ rw = "READPARAM"
  <2> DEFINE d1 == [p.dl EXCEPT !.rwcmd = rw]
             q1 == [p EXCEPT !.dl = d1]
             q2 == DL_ReadParam_cnf(q1, FALSE)
  <2>1. [p EXCEPT !.dl.rwcmd = rw] = q1
    BY <1>0 DEF PortFields
  <2>2. DL_ReadWriteParam_req(p, rw) = q2
    BY <2>1, <1>2 DEF DL_ReadWriteParam_req
  <2>3. DlOK(d1)
    BY <1>0, <1>2 DEF DlOK, DlFields
  <2>4. DlStep(p, q1) /\ PortOK(q1)
    BY <2>3, SetDl, DlPortOK
  <2> HIDE DEF q1
  <2>5. DlStep(p, q2) /\ PortOK(q2)
    BY <2>4, <1>2, DL_ReadParam_cnfStep, DlTwice, DlPortOK
  <2> QED
    BY <2>5, <2>2
<1>3. CASE p.dl.mh \notin {"PREOPERATE_6", "AW_REPLY_16"} /\ rw = "WRITEPARAM"
  <2> DEFINE d1 == [p.dl EXCEPT !.rwcmd = rw]
             q1 == [p EXCEPT !.dl = d1]
             q2 == DL_WriteParam_cnf(q1, FALSE)
  <2>1. [p EXCEPT !.dl.rwcmd = rw] = q1
    BY <1>0 DEF PortFields
  <2>2. DL_ReadWriteParam_req(p, rw) = q2
    BY <2>1, <1>3 DEF DL_ReadWriteParam_req
  <2>3. DlOK(d1)
    BY <1>0, <1>3 DEF DlOK, DlFields
  <2>4. DlStep(p, q1) /\ PortOK(q1)
    BY <2>3, SetDl, DlPortOK
  <2> HIDE DEF q1
  <2>5. DlStep(p, q2) /\ PortOK(q2)
    BY <2>4, DL_WriteParam_cnfStep, DlTwice, DlPortOK
  <2> QED
    BY <2>5, <2>2
<1> QED
  BY <1>0, <1>1, <1>2, <1>3 DEF DlOK

LEMMA DL_ISDUTransport_reqStep ==
  ASSUME NEW p, PortOK(p)
  PROVE  DlStep(p, DL_ISDUTransport_req(p))
<1>0. DOMAIN p = PortFields /\ DlOK(p.dl)
  BY DEF PortOK
<1>1. CASE p.dl.mdh \in {"IDLE_0", "ESTCOM_1"} \/ p.dl.isduh # "IDLE"
  <2>1. DL_ISDUTransport_req(p) = DL_ISDUTransport_cnf(p, FALSE)
    BY <1>1 DEF DL_ISDUTransport_req
  <2> QED
    BY <2>1, DL_ISDUTransport_cnfStep
<1>2. CASE ~(p.dl.mdh \in {"IDLE_0", "ESTCOM_1"} \/ p.dl.isduh # "IDLE")
  <2> DEFINE d1 == [p.dl EXCEPT !.isdu_total = RequestSegments, !.isdu_seg = 0,
                                !.rwcmd = "ISDUTRANSPORT"]
             q1 == [p EXCEPT !.dl = d1]
             q2 == Wake(q1)
  <2>1. [p EXCEPT !.dl.isdu_total = RequestSegments, !.dl.isdu_seg = 0,
                  !.dl.rwcmd = "ISDUTRANSPORT"] = q1
    BY <1>0 DEF PortFields
  <2>2. DL_ISDUTransport_req(p) = q2
    BY <2>1, <1>2 DEF DL_ISDUTransport_req
  <2>3. DlOK(d1)
    BY <1>0, <1>2 DEF DlOK, DlFields
  <2>4. DlStep(p, q1) /\ PortOK(q1)
    BY <2>3, SetDl, DlPortOK
  <2> HIDE DEF q1
  <2>5. DlStep(p, q2) /\ PortOK(q2)
    BY <2>4, WakeStep, DlTwice, DlPortOK
  <2> QED
    BY <2>5, <2>2
<1> QED
  BY <1>0, <1>1, <1>2 DEF DlOK

LEMMA DL_Control_reqStep ==
  ASSUME NEW p, PortOK(p), NEW code
  PROVE  DlStep(p, DL_Control_req(p, code))
<1>0. DOMAIN p = PortFields /\ DlOK(p.dl)
  BY DEF PortOK
<1> DEFINE d1 == [p.dl EXCEPT !.control_code = code]
           q1 == [p EXCEPT !.dl = d1]
           q2 == CommandHandler(q1)
<1>1. [p EXCEPT !.dl.control_code = code] = q1
  BY <1>0 DEF PortFields
<1>2. DL_Control_req(p, code) = q2
  BY <1>1 DEF DL_Control_req
<1>3. DlOK(d1)
  BY <1>0 DEF DlOK, DlFields
<1>4. DlStep(p, q1) /\ PortOK(q1)
  BY <1>3, SetDl, DlPortOK
<1> HIDE DEF q1
<1>5. DlStep(p, q2) /\ PortOK(q2)
  BY <1>4, CommandHandlerStep, DlTwice, DlPortOK
<1> QED
  BY <1>5, <1>2

LEMMA DL_Write_Devicemode_reqStep ==
  ASSUME NEW p, PortOK(p), NEW mode
  PROVE  DlStep(p, DL_Write_Devicemode_req(p, mode))
<1>0. DOMAIN p = PortFields /\ DlOK(p.dl)
  BY DEF PortOK
<1>1. CASE p.dl.mdh = "STARTUP_2"
  <2>1. DL_Write_Devicemode_req(p, mode) = DL_Write_Devicemode_cnf(p, FALSE)
    BY <1>1 DEF DL_Write_Devicemode_req
  <2> QED
    BY <2>1, DL_Write_Devicemode_cnfStep
<1>2. CASE p.dl.mdh = "PREOPERATE_3" /\ mode = "INACTIVE"
  <2> DEFINE d1 == [p.dl EXCEPT !.master_command = MasterCommandOf(mode),
                                !.control_code = "DEVICEMODE"]
             q1 == [p EXCEPT !.dl = d1]
             q2 == CommandHandler(q1)
             q3 == DL_Write_Devicemode_cnf(q2, TRUE)
  <2>1. [p EXCEPT !.dl.master_command = MasterCommandOf(mode),
                  !.dl.control_code = "DEVICEMODE"] = q1
    BY <1>0 DEF PortFields
  <2>2. DL_Write_Devicemode_req(p, mode) = q3
    BY <2>1, <1>2 DEF DL_Write_Devicemode_req
  <2>3. DlOK(d1)
    BY <1>0, <1>2 DEF DlOK, DlFields
  <2>4. DlStep(p, q1) /\ PortOK(q1)
    BY <2>3, SetDl, DlPortOK
  <2> HIDE DEF q1
  <2>5. DlStep(p, q2) /\ PortOK(q2)
    BY <2>4, CommandHandlerStep, DlTwice, DlPortOK
  <2> HIDE DEF q2
  <2>6. DlStep(p, q3) /\ PortOK(q3)
    BY <2>5, DL_Write_Devicemode_cnfStep, DlTwice, DlPortOK
  <2> QED
    BY <2>6, <2>2
<1>3. CASE p.dl.mdh = "PREOPERATE_3" /\ mode # "INACTIVE"
  <2> DEFINE d1 == [p.dl EXCEPT !.master_command = MasterCommandOf(mode),
                                !.control_code = "DEVICEMODE"]
             q1 == [p EXCEPT !.dl = d1]
             q2 == CommandHandler(q1)
             q3 == SetEvent(q2, "MH")
  <2>1. [p EXCEPT !.dl.master_command = MasterCommandOf(mode),
                  !.dl.control_code = "DEVICEMODE"] = q1
    BY <1>0 DEF PortFields
  <2>2. DL_Write_Devicemode_req(p, mode) = q3
    BY <2>1, <1>3 DEF DL_Write_Devicemode_req
  <2>3. DlOK(d1)
    BY <1>0, <1>3 DEF DlOK, DlFields
  <2>4. DlStep(p, q1) /\ PortOK(q1)
    BY <2>3, SetDl, DlPortOK
  <2> HIDE DEF q1
  <2>5. DlStep(p, q2) /\ PortOK(q2)
    BY <2>4, CommandHandlerStep, DlTwice, DlPortOK
  <2> HIDE DEF q2
  <2>6. DlStep(p, q3) /\ PortOK(q3)
    BY <2>5, SetEventStep, Bits, DlTwice, DlPortOK
  <2> QED
    BY <2>6, <2>2
<1>4. CASE p.dl.mdh \notin {"STARTUP_2", "PREOPERATE_3"}
  <2> DEFINE d1 == [p.dl EXCEPT !.master_command = MasterCommandOf(mode),
                                !.control_code = "DEVICEMODE"]
             q1 == [p EXCEPT !.dl = d1]
             q2 == CommandHandler(q1)
  <2>1. [p EXCEPT !.dl.master_command = MasterCommandOf(mode),
                  !.dl.control_code = "DEVICEMODE"] = q1
    BY <1>0 DEF PortFields
  <2>2. DL_Write_Devicemode_req(p, mode) = q2
    BY <2>1, <1>4 DEF DL_Write_Devicemode_req
  <2>3. DlOK(d1)
    BY <1>0, <1>4 DEF DlOK, DlFields
  <2>4. DlStep(p, q1) /\ PortOK(q1)
    BY <2>3, SetDl, DlPortOK
  <2> HIDE DEF q1
  <2>5. DlStep(p, q2) /\ PortOK(q2)
    BY <2>4, CommandHandlerStep, DlTwice, DlPortOK
  <2> QED
    BY <2>5, <2>2
<1> QED
  BY <1>0, <1>1, <1>2, <1>3, <1>4 DEF DlOK

-----------------------------------------------------------------------------
(* The thread of the port *)

LEMMA SetRx ==
  ASSUME NEW p, PortOK(p),
         NEW b, NEW reply, reply.set \in ReportedSets
  PROVE  DlStep(p, [p EXCEPT !.dl.dataready = b, !.dl.rx = reply])
<1>0. DOMAIN p = PortFields /\ DlOK(p.dl)
  BY DEF PortOK
<1> DEFINE d == [p.dl EXCEPT !.dataready = b, !.rx = reply]
           q == [p EXCEPT !.dl = d]
<1>1. DlOK(d)
  BY <1>0 DEF DlOK, DlFields
<1>2. DlStep(p, q) /\ PortOK(q)
  BY <1>1, SetDl, DlPortOK
<1>3. [p EXCEPT !.dl.dataready = b, !.dl.rx = reply] = q
  BY <1>0 DEF PortFields
<1> QED
  BY <1>2, <1>3

LEMMA SetError ==
  ASSUME NEW p, PortOK(p), NEW b
  PROVE  DlStep(p, [p EXCEPT !.dl.error = b])
<1>0. DOMAIN p = PortFields /\ DlOK(p.dl)
  BY DEF PortOK
<1> DEFINE d == [p.dl EXCEPT !.error = b]
           q == [p EXCEPT !.dl = d]
<1>1. DlOK(d)
  BY <1>0 DEF DlOK, DlFields
<1>2. DlStep(p, q) /\ PortOK(q)
  BY <1>1, SetDl, DlPortOK
<1>3. [p EXCEPT !.dl.error = b] = q
  BY <1>0 DEF PortFields
<1> QED
  BY <1>2, <1>3

LEMMA SetElapsed ==
  ASSUME NEW p, PortOK(p), NEW b
  PROVE  DlStep(p, [p EXCEPT !.dl.timer_elapsed = b])
<1>0. DOMAIN p = PortFields /\ DlOK(p.dl)
  BY DEF PortOK
<1> DEFINE d == [p.dl EXCEPT !.timer_elapsed = b]
           q == [p EXCEPT !.dl = d]
<1>1. DlOK(d)
  BY <1>0 DEF DlOK, DlFields
<1>2. DlStep(p, q) /\ PortOK(q)
  BY <1>1, SetDl, DlPortOK
<1>3. [p EXCEPT !.dl.timer_elapsed = b] = q
  BY <1>0 DEF PortFields
<1> QED
  BY <1>2, <1>3

LEMMA SetTimerType ==
  ASSUME NEW p, PortOK(p)
  PROVE  DlStep(p, [p EXCEPT !.dl.timer_elapsed = FALSE, !.dl.timer_type = "NONE"])
<1>0. DOMAIN p = PortFields /\ DlOK(p.dl)
  BY DEF PortOK
<1> DEFINE d == [p.dl EXCEPT !.timer_elapsed = FALSE, !.timer_type = "NONE"]
           q == [p EXCEPT !.dl = d]
<1>1. DlOK(d)
  BY <1>0 DEF DlOK, DlFields
<1>2. DlStep(p, q) /\ PortOK(q)
  BY <1>1, SetDl, DlPortOK
<1>3. [p EXCEPT !.dl.timer_elapsed = FALSE, !.dl.timer_type = "NONE"] = q
  BY <1>0 DEF PortFields
<1> QED
  BY <1>2, <1>3

LEMMA RxReadyStep ==
  ASSUME NEW p, PortOK(p), NEW reply, reply.set \in ReportedSets
  PROVE  DlStep(p, RxReady(p, reply))
<1>s. NoReply.set \in ReportedSets
  BY DEF NoReply, ReportedSets
<1> DEFINE q1 == [p EXCEPT !.dl.dataready = TRUE, !.dl.rx = reply]
           q2 == MessageHandler(q1)
           q3 == [q2 EXCEPT !.dl.dataready = FALSE, !.dl.rx = NoReply]
<1>1. RxReady(p, reply) = q3
  BY DEF RxReady
<1>2. DlStep(p, q1) /\ PortOK(q1)
  BY SetRx, DlPortOK
<1> HIDE DEF q1
<1>3. DlStep(p, q2) /\ PortOK(q2)
  BY <1>2, MessageHandlerStep, DlTwice, DlPortOK
<1> HIDE DEF q2
<1>4. DlStep(p, q3) /\ PortOK(q3)
  BY <1>3, <1>s, SetRx, DlTwice, DlPortOK, ZenonT(60)
<1> QED
  BY <1>4, <1>1

LEMMA HandleErrorStep == ASSUME NEW p, PortOK(p) PROVE DlStep(p, HandleError(p))
<1> DEFINE q1 == [p EXCEPT !.dl.error = TRUE]
           q2 == MessageHandler(q1)
           q3 == [q2 EXCEPT !.dl.error = FALSE]
<1>1. HandleError(p) = q3
  BY DEF HandleError
<1>2. DlStep(p, q1) /\ PortOK(q1)
  BY SetError, DlPortOK
<1> HIDE DEF q1
<1>3. DlStep(p, q2) /\ PortOK(q2)
  BY <1>2, MessageHandlerStep, DlTwice, DlPortOK
<1> HIDE DEF q2
<1>4. DlStep(p, q3) /\ PortOK(q3)
  BY <1>3, SetError, DlTwice, DlPortOK
<1> QED
  BY <1>4, <1>1

LEMMA WurqFailedStep == ASSUME NEW p, PortOK(p) PROVE DlStep(p, WurqFailed(p))
<1> DEFINE q1 == [p EXCEPT !.dl.mhinfo = "NONE"]
           q2 == ModeBecomes(q1, "IDLE_0", "INACTIVE")
<1>1. WurqFailed(p) = q2
  BY DEF WurqFailed
<1>2. DlStep(p, q1) /\ PortOK(q1)
  BY SetMhinfo, DlPortOK
<1> HIDE DEF q1
<1>3. DlStep(p, q2) /\ PortOK(q2)
  BY <1>2, ModeBecomesStep, DlTwice, DlPortOK DEF MdhStates, ModesTold
<1> QED
  BY <1>3, <1>1

LEMMA TimerTimeoutStep == ASSUME NEW p, PortOK(p) PROVE DlStep(p, TimerTimeout(p))
<1>0. DOMAIN p = PortFields /\ DlOK(p.dl)
  BY DEF PortOK
<1>1. CASE p.dl.timer_type = "TINITCYC"
  <2> DEFINE q1 == [p EXCEPT !.dl.timer_elapsed = TRUE]
             q2 == MessageHandler(q1)
             q3 == [q2 EXCEPT !.dl.timer_elapsed = FALSE, !.dl.timer_type = "NONE"]
  <2>1. TimerTimeout(p) = q3
    BY <1>1 DEF TimerTimeout
  <2>2. DlStep(p, q1) /\ PortOK(q1)
    BY SetElapsed, DlPortOK
  <2> HIDE DEF q1
  <2>3. DlStep(p, q2) /\ PortOK(q2)
    BY <2>2, MessageHandlerStep, DlTwice, DlPortOK
  <2> HIDE DEF q2
  <2>4. DlStep(p, q3) /\ PortOK(q3)
    BY <2>3, SetTimerType, DlTwice, DlPortOK
  <2> QED
    BY <2>4, <2>1
<1>2. CASE p.dl.timer_type # "TINITCYC"
  <2>1. TimerTimeout(p) = p
    BY <1>2 DEF TimerTimeout
  <2> QED
    BY <2>1, DlNot
<1> QED
  BY <1>0, <1>1, <1>2 DEF DlOK

\* The message handler leaves AW_REPLY_1 in the call that takes it there.
LEMMA WurqReceivedStep == ASSUME NEW p, PortOK(p) PROVE DlStep(p, WurqReceived(p))
<1>0. DOMAIN p = PortFields /\ DlOK(p.dl)
  BY DEF PortOK
<1> DEFINE d1 == [p.dl EXCEPT !.mdh = "STARTUP_2", !.mh = "STARTUP_2"]
           q1 == [p EXCEPT !.dl = d1]
           q2 == DL_Read_cnf(q1, TRUE)
           q3 == CH_Conf(q2, "ACTIVE")
           q4 == DL_Mode_ind(q3, "STARTUP")
           q5 == SetEvent(q4, "MH")
<1>1. [[p EXCEPT !.dl.mdh = "STARTUP_2", !.dl.mh = "AW_REPLY_1"]
         EXCEPT !.dl.mh = "STARTUP_2"] = q1
  <2> DEFINE d0 == [p.dl EXCEPT !.mdh = "STARTUP_2", !.mh = "AW_REPLY_1"]
             q0 == [p EXCEPT !.dl = d0]
  <2>1. [p EXCEPT !.dl.mdh = "STARTUP_2", !.dl.mh = "AW_REPLY_1"] = q0
    BY <1>0 DEF PortFields
  <2>2. [d0 EXCEPT !.mh = "STARTUP_2"] = d1
    BY <1>0 DEF DlOK, DlFields
  <2> HIDE DEF d0, d1
  <2>3. [q0 EXCEPT !.dl = [q0.dl EXCEPT !.mh = "STARTUP_2"]] = [p EXCEPT !.dl = d1]
    BY <1>0, <2>2 DEF PortFields
  <2> QED
    BY <2>1, <2>3
<1>2. WurqReceived(p) = q5
  BY <1>1 DEF WurqReceived, MHAwaitReply1, MHBecomes
<1>3. DlOK(d1)
  BY <1>0 DEF DlOK, DlFields
<1>4. DlStep(p, q1) /\ PortOK(q1)
  BY <1>3, SetDl, DlPortOK
<1> HIDE DEF q1
<1>5. DlStep(p, q2) /\ PortOK(q2)
  BY <1>4, DL_Read_cnfStep, DlTwice, DlPortOK
<1> HIDE DEF q2
<1>6. DlStep(p, q3) /\ PortOK(q3)
  BY <1>5, CH_ConfStep, DlTwice, DlPortOK
<1> HIDE DEF q3
<1>7. DlStep(p, q4) /\ PortOK(q4)
  BY <1>6, DL_Mode_indStep, DlTwice, DlPortOK DEF ModesTold
<1> HIDE DEF q4
<1>8. DlStep(p, q5) /\ PortOK(q5)
  BY <1>7, SetEventStep, Bits, DlTwice, DlPortOK
<1> QED
  BY <1>8, <1>2

\* The layer is reset.
LEMMA DlResetStep == ASSUME NEW p, PortOK(p) PROVE DlStep(p, DlReset(p))
<1> DEFINE d == [InitDataLink EXCEPT !.tx = p.dl.tx]
<1>1. DlOK(d)
  <2>1. MaxRetry \in Nat /\ EventOctets \in Nat \ {0} /\ 0 \in 0..EventOctets * MaxEvents
    BY DataLinkAssumption DEF MaxEvents
  <2> QED
    BY <2>1 DEF DlOK, DlFields, InitDataLink, ReportedSets, NoReply
<1> QED
  BY <1>1, SetDl DEF DlReset

=============================================================================
