--------------------------- MODULE PortStackProofs ---------------------------
(***************************************************************************)
(* Theorems about the port, for any devices, configurations and budgets and*)
(* with any number of jobs waiting: every variable keeps its type, every   *)
(* user who waits can expect an answer, the application is told the events *)
(* of one set, and, for devices that do not ask for uploads, data storage  *)
(* has the device only while the port waits for it, and never together     *)
(* with the application; the parameters are stored when a port with backup *)
(* becomes active; and the port implements PortLifecycle, with the reports *)
(* of the system management that come late.                                *)
(*                                                                         *)
(* A step is a callback or a handler that works on the port and writes it  *)
(* back: DataLinkProofs and LayerProofs say what each of them makes of a   *)
(* port, and here that is put together with the mailbox it takes its job   *)
(* from, the users who wait and the events collected.                      *)
(***************************************************************************)
EXTENDS LayerProofs, FiniteSetTheorems

-----------------------------------------------------------------------------
(* Requests that wait *)

Asked(m) == {i \in DOMAIN m : m[i].type = "SMI_DEVICE_RW"}

LEMMA AskedFinite ==
  ASSUME NEW m \in Seq(JobSet)
  PROVE  IsFiniteSet(Asked(m)) /\ Cardinality(Asked(m)) \in Nat
<1>1. DOMAIN m = 1..Len(m) /\ Len(m) \in Nat
  OBVIOUS
<1>2. IsFiniteSet(1..Len(m))
  BY <1>1, FS_Interval
<1>3. Asked(m) \subseteq 1..Len(m)
  BY <1>1 DEF Asked
<1> QED
  BY <1>2, <1>3, FS_Subset, FS_CardinalityType

\* Other jobs make no difference.
LEMMA AskedLengthens ==
  ASSUME NEW m \in Seq(JobSet), NEW n \in Seq(JobSet), Lengthens(m, n)
  PROVE  Asked(n) = Asked(m)
<1>1. /\ DOMAIN m = 1..Len(m) /\ DOMAIN n = 1..Len(n) /\ Len(m) \in Nat /\ Len(n) \in Nat
      /\ Len(m) <= Len(n)
      /\ \A i \in 1..Len(m) : n[i] = m[i]
      /\ \A i \in Len(m) + 1 .. Len(n) : n[i].type # "SMI_DEVICE_RW"
  BY DEF Lengthens, UsersAndEvents
<1>2. ASSUME NEW i \in Asked(n) PROVE i \in Asked(m)
  <2>1. i \in 1..Len(n) /\ n[i].type = "SMI_DEVICE_RW"
    BY <1>1 DEF Asked
  <2>2. i \in 1..Len(m)
    BY <1>1, <2>1
  <2> QED
    BY <1>1, <2>1, <2>2 DEF Asked
<1>3. ASSUME NEW i \in Asked(m) PROVE i \in Asked(n)
  BY <1>1 DEF Asked
<1> QED
  BY <1>2, <1>3

\* A request is posted.
LEMMA AskedAppend ==
  ASSUME NEW m \in Seq(JobSet), NEW job \in JobSet, job.type = "SMI_DEVICE_RW"
  PROVE  Cardinality(Asked(Append(m, job))) = Cardinality(Asked(m)) + 1
<1> DEFINE n == Append(m, job)
<1>1. /\ DOMAIN m = 1..Len(m) /\ Len(m) \in Nat
      /\ DOMAIN n = 1..Len(m) + 1
      /\ \A i \in 1..Len(m) : n[i] = m[i]
      /\ n[Len(m) + 1] = job
  OBVIOUS
<1> HIDE DEF n
<1>2. Asked(n) = Asked(m) \cup {Len(m) + 1}
  <2>1. ASSUME NEW i \in Asked(n) PROVE i \in Asked(m) \cup {Len(m) + 1}
    BY <1>1 DEF Asked
  <2>2. ASSUME NEW i \in Asked(m) PROVE i \in Asked(n)
    BY <1>1 DEF Asked
  <2>3. Len(m) + 1 \in Asked(n)
    BY <1>1 DEF Asked
  <2> QED
    BY <2>1, <2>2, <2>3
<1>3. Len(m) + 1 \notin Asked(m)
  BY <1>1 DEF Asked
<1> QED
  BY <1>2, <1>3, AskedFinite, FS_AddElement DEF n

\* The first job is taken.
LEMMA AskedTail ==
  ASSUME NEW m \in Seq(JobSet), m # <<>>
  PROVE  Cardinality(Asked(m)) =
           Cardinality(Asked(Tail(m))) + (IF Head(m).type = "SMI_DEVICE_RW" THEN 1 ELSE 0)
<1> DEFINE n == Tail(m)
<1>1. /\ DOMAIN m = 1..Len(m) /\ Len(m) \in Nat \ {0}
      /\ n \in Seq(JobSet) /\ Len(n) = Len(m) - 1 /\ DOMAIN n = 1..Len(m) - 1
      /\ \A i \in 1..Len(m) - 1 : n[i] = m[i + 1]
      /\ Head(m) = m[1]
  OBVIOUS
<1> HIDE DEF n
<1> DEFINE f == [i \in Asked(n) |-> i + 1]
           rest == Asked(m) \ {1}
<1>2. f \in Bijection(Asked(n), rest)
  <2>1. \A i \in Asked(n) : i \in 1..Len(m) - 1 /\ i + 1 \in rest
    BY <1>1 DEF Asked
  <2>2. f \in [Asked(n) -> rest]
    BY <2>1
  <2>3. \A i, j \in Asked(n) : f[i] = f[j] => i = j
    BY <2>1
  <2>4. ASSUME NEW k \in rest PROVE \E i \in Asked(n) : f[i] = k
    <3>1. k - 1 \in Asked(n)
      BY <1>1 DEF Asked
    <3>2. f[k - 1] = k
      BY <1>1, <3>1 DEF Asked
    <3> QED
      BY <3>1, <3>2
  <2> QED
    BY <2>2, <2>3, <2>4 DEF Bijection, Injection, Surjection, IsInjective
<1>3. IsFiniteSet(Asked(n)) /\ IsFiniteSet(Asked(m)) /\ Cardinality(Asked(m)) \in Nat
  BY <1>1, AskedFinite
<1>4. Cardinality(rest) = Cardinality(Asked(n))
  BY <1>2, <1>3, FS_Bijection DEF ExistsBijection
<1>5. Cardinality(rest) = IF 1 \in Asked(m) THEN Cardinality(Asked(m)) - 1
                                            ELSE Cardinality(Asked(m))
  BY <1>3, FS_RemoveElement
<1>6. 1 \in Asked(m) <=> Head(m).type = "SMI_DEVICE_RW"
  BY <1>1 DEF Asked
<1> QED
  BY <1>3, <1>4, <1>5, <1>6 DEF n

-----------------------------------------------------------------------------
(* Jobs *)

\* What the jobs say
LEMMA JobFields ==
  ASSUME NEW job \in JobSet
  PROVE  /\ job.type \in {"SMI_PORTCONFIGURATION", "DS_INIT", "SM_SET_PORT_CFG_REQ"} =>
              job.config \in ConfigRecords
         /\ job.type = "SM_PORT_MODE_IND" => job.mode \in PortModes
         /\ job.type \in {"DL_READ_CNF", "DL_WRITE_CNF", "DL_WRITE_DEVMODE_CNF", "AL_CNF",
                          "DL_READPARAM_CNF", "DL_WRITEPARAM_CNF", "DL_ISDU_TRANS_CNF"} =>
              job.ok \in BOOLEAN
         /\ job.type = "AL_CNF" => job.direction \in Directions
         /\ job.type = "DL_EVENT_IND" => job.event \in Kinds /\ job.left \in Nat
         /\ job.type = "SMI_DEVICE_RW" =>
              job.direction \in Directions /\ job.index \in Indices
         /\ job.type \in Jobs
<1>1. CASE job \in QuietJobs
  BY <1>1 DEF QuietJobs, Jobs
<1>2. CASE job \in UserJobs
  BY <1>2 DEF UserJobs, Jobs
<1> QED
  BY <1>1, <1>2 DEF JobSet

LEMMA RequestFields ==
  ASSUME NEW job \in JobSet, job.type = "AL_REQ" PROVE AlRequestOK(job)
<1>1. CASE job \in QuietJobs
  <2>1. \/ job \in [type : {"AL_REQ"}, direction : Directions, index : {"ISDU"},
                    who : {"SM", "DS"}]
        \/ job \in [type : {"AL_REQ"}, direction : {"WRITE"}, index : {"PARAM"}, who : {"SM"}]
    BY <1>1 DEF QuietJobs
  <2> QED
    BY <2>1 DEF AlRequestOK, Directions
<1>2. CASE job \in UserJobs
  <2>1. job \in [type : {"AL_REQ"}, direction : Directions, index : Indices \ {"BATCH"},
                 who : {"USER"}]
    BY <1>2 DEF UserJobs
  <2> QED
    BY <2>1, PortStackAssumption DEF AlRequestOK, UsersReadParam
<1> QED
  BY <1>1, <1>2 DEF JobSet

-----------------------------------------------------------------------------
(* Steps of the port *)

\* Every variable of the port has its type, and the jobs carry what their callbacks
\* expect.
StackOK ==
  /\ PortOK(Port)
  /\ ds.event = "NONE"
  /\ batch \subseteq Range(Order)
  /\ wanted \in ConfigRecords
  /\ left \in BudgetRecords

\* What surrounds the port keeps its type.
Frame ==
  /\ batch' \subseteq Range(Order)
  /\ wanted' \in ConfigRecords
  /\ left' \in BudgetRecords
  /\ left'.services <= left.services

\* The port when the first job has been taken from its mailbox
Taken(p) == [p EXCEPT !.mbox = Tail(p.mbox)]

\* Jobs that have to do with the users or with the events of the device
Spoken ==
  {"SMI_DEVICE_RW", "AL_USER_CNF", "OD_START", "OD_STOP", "DL_EVENT_IND", "AL_EVENT_RSP"}

\* The main thread executes another job.
Executed(p, q) ==
  /\ p.mbox # <<>> /\ Head(p.mbox).type \notin Spoken
  /\ Calm(Taken(p), q)

\* It executes one that has nothing to do with configurations or data storage either.
Passes(p, q) ==
  /\ p.mbox # <<>> /\ Head(p.mbox).type \notin Spoken \union StorageJobs
  /\ Aside(Taken(p), q)

\* A user asks for a service.
Asks(p, q) ==
  /\ PortOK(q)
  /\ \E job \in JobSet : job.type = "SMI_DEVICE_RW" /\ q.mbox = Append(p.mbox, job)
  /\ q.user = p.user + 1
  /\ q.od = p.od /\ q.told = p.told /\ q.al = p.al /\ q.ds = p.ds /\ q.cm = p.cm

\* His request blocks the exchange, or is answered at once.
Looks(p, q) ==
  /\ p.mbox # <<>> /\ Head(p.mbox).type = "SMI_DEVICE_RW"
  /\ OdStep(Taken(p), q)
  /\ \/ q.user = p.user /\ p.od = "ODactive" /\ q.od = "ODblocked"
     \/ q.user = p.user - 1 /\ q.od = p.od

\* The service the exchange is blocked for is confirmed.
Answers(p, q) ==
  /\ p.mbox # <<>> /\ Head(p.mbox).type = "AL_USER_CNF"
  /\ OdStep(Taken(p), q)
  /\ IF p.od = "ODblocked" THEN q.user = p.user - 1 /\ q.od = "ODactive"
                           ELSE q.user = p.user /\ q.od = p.od

\* The exchange is started, or stopped.
Starts(p, q) ==
  /\ p.mbox # <<>> /\ Head(p.mbox).type = "OD_START"
  /\ OdStep(Taken(p), q)
  /\ q.user = p.user /\ (q.od = "ODblocked" <=> p.od = "ODblocked")

Stops(p, q) ==
  /\ p.mbox # <<>> /\ Head(p.mbox).type = "OD_STOP"
  /\ OdStep(Taken(p), q)
  /\ q.user = p.user /\ q.od = "Inactive"

\* An event is collected.  After the last one of a set the application is told, or data
\* storage uploads the parameters.
Collects(p, q) ==
  LET ev == p.al.ev
      c == Collected(p, Head(p.mbox))
      rest == Tail(p.mbox)
      response == Append(rest, [type |-> "AL_EVENT_RSP"])
  IN
  /\ p.mbox # <<>> /\ Head(p.mbox).type = "DL_EVENT_IND"
  /\ PortOK(q) /\ q.user = p.user /\ q.od = p.od /\ q.ds = p.ds /\ q.cm = p.cm
  /\ \/ q.failed # "no" /\ q.told = p.told /\ q.mbox = rest /\ q.al.ev = ev
     \/ /\ ev.cnt < MaxEvents
        /\ q.al.ev.cnt = c.cnt /\ q.al.ev.set = c.set
        /\ \/ /\ ev.state = "DU_Event_handling" /\ q.al.ev.state = "DU_Event_handling"
              /\ q.mbox = rest /\ q.told = p.told
           \/ /\ ev.state # "DU_Event_handling" /\ q.al.ev.state = "Read_Event_Set"
              /\ Head(p.mbox).left > 0 /\ q.mbox = rest /\ q.told = p.told
           \/ /\ ev.state # "DU_Event_handling" /\ q.al.ev.state = "DU_Event_handling"
              /\ Head(p.mbox).left = 0
              /\ \/ q.mbox = response /\ q.told = SubSeq(c.set, 1, c.cnt)
                 \/ /\ q.mbox = Append(response, [type |-> "DS_UPLOAD"]) /\ q.told = p.told
                    /\ "upload" \in Range(c.set)

\* The application responds to a set.
Responds(p, q) ==
  /\ p.mbox # <<>> /\ Head(p.mbox).type = "AL_EVENT_RSP"
  /\ PortOK(q) /\ q.user = p.user /\ q.od = p.od /\ q.ds = p.ds /\ q.cm = p.cm
  /\ q.mbox = Tail(p.mbox) /\ q.told = p.told /\ q.al.ev.set = p.al.ev.set
  /\ p.al.ev.state = "DU_Event_handling" =>
       q.al.ev.state = "Event_idle" /\ q.al.ev.cnt = 0

LEMMA TakenOK ==
  ASSUME NEW p, PortOK(p), p.mbox # <<>>
  PROVE  LET t == Taken(p) IN
         /\ PortOK(t) /\ t.mbox = Tail(p.mbox)
         /\ t.user = p.user /\ t.od = p.od /\ t.told = p.told /\ t.al = p.al /\ t.ds = p.ds
         /\ t.failed = p.failed /\ t.cm = p.cm
         /\ Head(p.mbox) \in JobSet
<1> DEFINE t == Taken(p)
<1>1. DOMAIN p = PortFields /\ p.mbox \in Seq(JobSet)
  BY DEF PortOK
<1>2. Tail(p.mbox) \in Seq(JobSet) /\ Head(p.mbox) \in JobSet
  BY <1>1
<1>3. /\ DOMAIN t = PortFields /\ t.mbox = Tail(p.mbox)
      /\ \A f \in PortFields \ {"mbox"} : t[f] = p[f]
  BY <1>1 DEF Taken, PortFields
<1> HIDE DEF t
<1>4. /\ t.cm = p.cm /\ t.sm = p.sm /\ t.ds = p.ds /\ t.al = p.al /\ t.dl = p.dl
      /\ t.events = p.events /\ t.dev = p.dev /\ t.user = p.user
      /\ t.od = p.od /\ t.told = p.told /\ t.lost = p.lost /\ t.failed = p.failed
  BY <1>3 DEF PortFields
<1>5. PortOK(t)
  BY <1>1, <1>2, <1>3, <1>4 DEF PortOK
<1> QED
  BY <1>2, <1>3, <1>4, <1>5 DEF t

\* The fields of the port are the variables.
LEMMA PortVariables ==
  /\ Port.cm = cm /\ Port.sm = sm /\ Port.ds = ds /\ Port.al = al /\ Port.dl = dl
  /\ Port.pl = pl /\ Port.mbox = mbox /\ Port.events = events /\ Port.dev = dev
  /\ Port.user = user /\ Port.od = od /\ Port.told = told /\ Port.lost = lost
  /\ Port.failed = failed
  /\ DOMAIN Port = PortFields
  BY DEF Port, PortFields

LEMMA Becoming ==
  ASSUME NEW q, PortOK(q), Becomes(q)
  PROVE  /\ PortOK(Port')
         /\ Port'.mbox = q.mbox /\ Port'.user = q.user /\ Port'.od = q.od
         /\ Port'.told = q.told /\ Port'.al = q.al /\ Port'.ds = q.ds
         /\ Port'.failed = q.failed /\ Port'.cm = q.cm
<1>1. DOMAIN Port' = PortFields
  BY DEF Port, PortFields
<1>2. /\ Port'.cm = q.cm /\ Port'.sm = q.sm /\ Port'.ds = q.ds /\ Port'.al = q.al
      /\ Port'.dl = q.dl /\ Port'.mbox = q.mbox /\ Port'.events = q.events
      /\ Port'.dev = q.dev /\ Port'.user = q.user /\ Port'.od = q.od
      /\ Port'.told = q.told /\ Port'.lost = q.lost /\ Port'.failed = q.failed
  BY DEF Port, Becomes
<1> QED
  BY <1>1, <1>2 DEF PortOK

\* What holds of what the port becomes holds of the port.
LEMMA CalmBecoming ==
  ASSUME NEW p, NEW q, Calm(p, q), Becomes(q) PROVE Calm(p, Port')
  BY Becoming DEF Calm

LEMMA AsideBecoming ==
  ASSUME NEW p, NEW q, Aside(p, q), Becomes(q) PROVE Aside(p, Port')
  BY Becoming DEF Aside, Calm

LEMMA OdBecoming ==
  ASSUME NEW p, NEW q, OdStep(p, q), Becomes(q) PROVE OdStep(p, Port')
  BY Becoming DEF OdStep

\* The main thread executes a job that has nothing to do with users or events.
LEMMA CalmJob ==
  ASSUME StackOK, mbox # <<>>, Head(mbox).type \notin Spoken,
         NEW q, Calm(Taken(Port), q), Becomes(q)
  PROVE  Executed(Port, Port')
<1>1. Calm(Taken(Port), Port')
  BY CalmBecoming
<1> QED
  BY <1>1, PortVariables DEF Executed

LEMMA StillJob ==
  ASSUME StackOK, mbox # <<>>, Head(mbox).type \notin Spoken,
         NEW q, Still(Taken(Port), q), Becomes(q)
  PROVE  Executed(Port, Port')
<1>1. PortOK(Taken(Port))
  BY PortVariables, TakenOK DEF StackOK
<1>2. Calm(Taken(Port), q)
  BY <1>1, StillCalm
<1> QED
  BY <1>2, CalmJob

LEMMA PassesExecuted == ASSUME NEW p, NEW q, Passes(p, q) PROVE Executed(p, q)
  BY DEF Passes, Executed, Aside

LEMMA AsideJob ==
  ASSUME StackOK, mbox # <<>>, Head(mbox).type \notin Spoken \union StorageJobs,
         NEW q, Aside(Taken(Port), q), Becomes(q)
  PROVE  Passes(Port, Port')
<1>1. Aside(Taken(Port), Port')
  BY AsideBecoming
<1> QED
  BY <1>1, PortVariables DEF Passes

LEMMA BelowJob ==
  ASSUME StackOK, mbox # <<>>, Head(mbox).type \notin Spoken \union StorageJobs,
         NEW q, Below(Taken(Port), q), Becomes(q)
  PROVE  Passes(Port, Port')
<1>1. PortOK(Taken(Port))
  BY PortVariables, TakenOK DEF StackOK
<1>2. Aside(Taken(Port), q)
  BY <1>1, BelowAside
<1> QED
  BY <1>2, AsideJob

\* The first job, and the port without it
LEMMA FirstJob ==
  ASSUME StackOK, mbox # <<>>
  PROVE  /\ PortOK(Taken(Port)) /\ Taken(Port).ds.event = "NONE"
         /\ Taken(Port) = [Port EXCEPT !.mbox = Tail(@)]
         /\ Head(mbox) \in JobSet
  BY PortVariables, TakenOK DEF StackOK, Taken

\* The jobs of the system management
LEMMA SmJobs ==
  ASSUME StackOK,
         MainSetPortConfig \/ MainOperate \/ MainModeInd \/ MainReadCnf \/ MainWriteCnf
            \/ MainDevmodeCnf \/ MainAlCnf
  PROVE  Passes(Port, Port')
<1> DEFINE t == Taken(Port)
           job == Head(mbox)
<1>1. mbox # <<>>
  BY DEF MainSetPortConfig, MainOperate, MainModeInd, MainReadCnf, MainWriteCnf,
         MainDevmodeCnf, MainAlCnf, Executes
<1>2. PortOK(t) /\ t = [Port EXCEPT !.mbox = Tail(@)] /\ job \in JobSet
      /\ t.ds.event = "NONE"
  BY <1>1, FirstJob
<1> HIDE DEF t, job
<1>3. CASE MainSetPortConfig
  <2>1. job.type = "SM_SET_PORT_CFG_REQ" /\ Becomes(SmSetPortConfig(t, job.config))
    BY <1>2, <1>3 DEF MainSetPortConfig, Executes, job
  <2>2. Below(t, SmSetPortConfig(t, job.config))
    BY <1>2, <2>1, JobFields, SmSetPortConfigStep
  <2> QED
    BY <1>1, <2>1, <2>2, BelowJob DEF Spoken, StorageJobs, t, job
<1>4. CASE MainOperate
  <2>1. job.type = "SM_OPERATE_REQ" /\ Becomes(SmOperate(t))
    BY <1>2, <1>4 DEF MainOperate, Executes, job
  <2>2. Below(t, SmOperate(t))
    BY <1>2, <2>1, JobFields, SmOperateStep DEF Under
  <2> QED
    BY <1>1, <2>1, <2>2, BelowJob DEF Spoken, StorageJobs, t, job
<1>5. CASE MainModeInd
  <2>1. job.type = "DL_MODE_IND" /\ Becomes(SmModeInd(t, job.mode))
    BY <1>2, <1>5 DEF MainModeInd, Executes, job
  <2>2. Below(t, SmModeInd(t, job.mode))
    BY <1>2, <2>1, JobFields, SmModeIndStep DEF Under
  <2> QED
    BY <1>1, <2>1, <2>2, BelowJob DEF Spoken, StorageJobs, t, job
<1>6. CASE MainReadCnf
  <2>1. job.type = "DL_READ_CNF" /\ Becomes(SmReadCnf(t, job))
    BY <1>2, <1>6 DEF MainReadCnf, Executes, job
  <2>2. Below(t, SmReadCnf(t, job))
    BY <1>2, <2>1, JobFields, SmReadCnfStep DEF Under
  <2> QED
    BY <1>1, <2>1, <2>2, BelowJob DEF Spoken, StorageJobs, t, job
<1>7. CASE MainWriteCnf
  <2>1. job.type = "DL_WRITE_CNF" /\ Becomes(SmWriteCnf(t, job))
    BY <1>2, <1>7 DEF MainWriteCnf, Executes, job
  <2>2. Below(t, SmWriteCnf(t, job))
    BY <1>2, <2>1, JobFields, SmWriteCnfStep DEF Under
  <2> QED
    BY <1>1, <2>1, <2>2, BelowJob DEF Spoken, StorageJobs, t, job
<1>8. CASE MainDevmodeCnf
  <2>1. job.type = "DL_WRITE_DEVMODE_CNF" /\ Becomes(SmDevmodeCnf(t, job.ok))
    BY <1>2, <1>8 DEF MainDevmodeCnf, Executes, job
  <2>2. Below(t, SmDevmodeCnf(t, job.ok))
    BY <1>2, <2>1, JobFields, SmDevmodeCnfStep DEF Under
  <2> QED
    BY <1>1, <2>1, <2>2, BelowJob DEF Spoken, StorageJobs, t, job
<1>9. CASE MainAlCnf
  <2>1. job.type = "AL_CNF" /\ Becomes(SmAlCnf(t, job))
    BY <1>2, <1>9 DEF MainAlCnf, Executes, job
  <2>2. Below(t, SmAlCnf(t, job))
    BY <1>2, <2>1, JobFields, SmAlCnfStep DEF Under
  <2> QED
    BY <1>1, <2>1, <2>2, BelowJob DEF Spoken, StorageJobs, t, job
<1> QED
  BY <1>3, <1>4, <1>5, <1>6, <1>7, <1>8, <1>9

\* The jobs of the configuration manager
LEMMA CmJobs ==
  ASSUME StackOK,
         MainPortConfiguration \/ MainPortModeInd \/ MainDsReady \/ MainDsFault
  PROVE  Executed(Port, Port')
<1> DEFINE t == Taken(Port)
           job == Head(mbox)
<1>1. mbox # <<>>
  BY DEF MainPortConfiguration, MainPortModeInd, MainDsReady, MainDsFault, Executes
<1>2. PortOK(t) /\ t = [Port EXCEPT !.mbox = Tail(@)] /\ job \in JobSet
      /\ t.ds.event = "NONE"
  BY <1>1, FirstJob
<1> HIDE DEF t, job
<1>3. CASE MainPortConfiguration
  <2>1. job.type = "SMI_PORTCONFIGURATION" /\ Becomes(CmPortConfiguration(t, job))
    BY <1>2, <1>3 DEF MainPortConfiguration, Executes, job
  <2>2. Still(t, CmPortConfiguration(t, job))
    BY <1>2, <2>1, JobFields, CmCallbacksStep
  <2> QED
    BY <1>1, <2>1, <2>2, StillJob DEF Spoken, t, job
<1>4. CASE MainPortModeInd
  <2>1. job.type = "SM_PORT_MODE_IND" /\ Becomes(CmPortModeInd(t, job))
    BY <1>2, <1>4 DEF MainPortModeInd, Executes, job
  <2>2. Still(t, CmPortModeInd(t, job))
    BY <1>2, <2>1, JobFields, CmPortModeIndStep
  <2> QED
    BY <1>1, <2>1, <2>2, StillJob DEF Spoken, t, job
<1>5. CASE MainDsReady
  <2>1. job.type = "DS_READY" /\ Becomes(CmDsReady(t, job))
    BY <1>2, <1>5 DEF MainDsReady, Executes, job
  <2>2. Still(t, CmDsReady(t, job))
    BY <1>2, <2>1, JobFields, CmCallbacksStep
  <2> QED
    BY <1>1, <2>1, <2>2, StillJob DEF Spoken, t, job
<1>6. CASE MainDsFault
  <2>1. job.type = "DS_FAULT" /\ Becomes(CmDsFault(t, job))
    BY <1>2, <1>6 DEF MainDsFault, Executes, job
  <2>2. Still(t, CmDsFault(t, job))
    BY <1>2, <2>1, JobFields, CmCallbacksStep
  <2> QED
    BY <1>1, <2>1, <2>2, StillJob DEF Spoken, t, job
<1> QED
  BY <1>3, <1>4, <1>5, <1>6

\* The jobs of data storage
LEMMA DsJobs ==
  ASSUME StackOK,
         MainDsStartup \/ MainDsInit \/ MainDsDelete \/ MainDsUpload \/ MainDsReadCnf
            \/ MainDsWriteCnf
  PROVE  Executed(Port, Port')
<1> DEFINE t == Taken(Port)
           job == Head(mbox)
<1>1. mbox # <<>>
  BY DEF MainDsStartup, MainDsInit, MainDsDelete, MainDsUpload, MainDsReadCnf,
         MainDsWriteCnf, Executes
<1>2. PortOK(t) /\ t = [Port EXCEPT !.mbox = Tail(@)] /\ job \in JobSet
      /\ t.ds.event = "NONE"
  BY <1>1, FirstJob
<1> HIDE DEF t, job
<1>3. CASE MainDsStartup
  <2>1. job.type = "DS_STARTUP" /\ Becomes(DsStartup(t, job))
    BY <1>2, <1>3 DEF MainDsStartup, Executes, job
  <2>2. Still(t, DsStartup(t, job))
    BY <1>2, <2>1, JobFields, DsCallbacksStep
  <2> QED
    BY <1>1, <2>1, <2>2, StillJob DEF Spoken, t, job
<1>4. CASE MainDsInit
  <2>1. job.type = "DS_INIT" /\ Becomes(DsInit(t, job))
    BY <1>2, <1>4 DEF MainDsInit, Executes, job
  <2>2. Still(t, DsInit(t, job))
    BY <1>2, <2>1, JobFields, DsCallbacksStep
  <2> QED
    BY <1>1, <2>1, <2>2, StillJob DEF Spoken, t, job
<1>5. CASE MainDsDelete
  <2>1. job.type = "DS_DELETE" /\ Becomes(DsDelete(t, job))
    BY <1>2, <1>5 DEF MainDsDelete, Executes, job
  <2>2. Still(t, DsDelete(t, job))
    BY <1>2, <2>1, JobFields, DsCallbacksStep
  <2> QED
    BY <1>1, <2>1, <2>2, StillJob DEF Spoken, t, job
<1>6. CASE MainDsUpload
  <2>1. job.type = "DS_UPLOAD" /\ Becomes(DsUpload(t, job))
    BY <1>2, <1>6 DEF MainDsUpload, Executes, job
  <2>2. Still(t, DsUpload(t, job))
    BY <1>2, <2>1, JobFields, DsCallbacksStep
  <2> QED
    BY <1>1, <2>1, <2>2, StillJob DEF Spoken, t, job
<1>7. CASE MainDsReadCnf
  <2>1. PICK answer \in DsAnswers :
           job.type = "DS_READ_CNF" /\ Becomes(DsReadCnf(t, job, answer))
    BY <1>2, <1>7 DEF MainDsReadCnf, Executes, job
  <2>2. Still(t, DsReadCnf(t, job, answer))
    BY <1>2, <2>1, JobFields, DsReadCnfStep
  <2> QED
    BY <1>1, <2>1, <2>2, StillJob DEF Spoken, t, job
<1>8. CASE MainDsWriteCnf
  <2>1. PICK answer \in DsAnswers :
           job.type = "DS_WRITE_CNF" /\ Becomes(DsWriteCnf(t, job, answer))
    BY <1>2, <1>8 DEF MainDsWriteCnf, Executes, job
  <2>2. Still(t, DsWriteCnf(t, job, answer))
    BY <1>2, <2>1, JobFields, DsWriteCnfStep
  <2> QED
    BY <1>1, <2>1, <2>2, StillJob DEF Spoken, t, job
<1> QED
  BY <1>3, <1>4, <1>5, <1>6, <1>7, <1>8

\* The jobs of the application layer
LEMMA AlJobs ==
  ASSUME StackOK,
         MainAlRequest \/ MainReadParamCnf \/ MainWriteParamCnf \/ MainIsduCnf
  PROVE  Passes(Port, Port')
<1> DEFINE t == Taken(Port)
           job == Head(mbox)
<1>1. mbox # <<>>
  BY DEF MainAlRequest, MainReadParamCnf, MainWriteParamCnf, MainIsduCnf, Executes
<1>2. PortOK(t) /\ t = [Port EXCEPT !.mbox = Tail(@)] /\ job \in JobSet
      /\ t.ds.event = "NONE"
  BY <1>1, FirstJob
<1> HIDE DEF t, job
<1>3. CASE MainAlRequest
  <2>1. job.type = "AL_REQ" /\ Becomes(AlRequest(t, job))
    BY <1>2, <1>3 DEF MainAlRequest, Executes, job
  <2>2. Aside(t, AlRequest(t, job))
    BY <1>2, <2>1, JobFields, RequestFields, AlRequestStep
  <2> QED
    BY <1>1, <2>1, <2>2, AsideJob DEF Spoken, StorageJobs, t, job
<1>4. CASE MainReadParamCnf
  <2>1. job.type = "DL_READPARAM_CNF" /\ Becomes(AlParamCnf(t, "READ", job.ok))
    BY <1>2, <1>4 DEF MainReadParamCnf, Executes, job
  <2>2. Aside(t, AlParamCnf(t, "READ", job.ok))
    BY <1>2, <2>1, JobFields, AlCnfStep DEF Directions
  <2> QED
    BY <1>1, <2>1, <2>2, AsideJob DEF Spoken, StorageJobs, t, job
<1>5. CASE MainWriteParamCnf
  <2>1. job.type = "DL_WRITEPARAM_CNF" /\ Becomes(AlParamCnf(t, "WRITE", job.ok))
    BY <1>2, <1>5 DEF MainWriteParamCnf, Executes, job
  <2>2. Aside(t, AlParamCnf(t, "WRITE", job.ok))
    BY <1>2, <2>1, JobFields, AlCnfStep DEF Directions
  <2> QED
    BY <1>1, <2>1, <2>2, AsideJob DEF Spoken, StorageJobs, t, job
<1>6. CASE MainIsduCnf
  <2>1. job.type = "DL_ISDU_TRANS_CNF" /\ Becomes(AlIsduCnf(t, job.ok))
    BY <1>2, <1>6 DEF MainIsduCnf, Executes, job
  <2>2. Aside(t, AlIsduCnf(t, job.ok))
    BY <1>2, <2>1, JobFields, AlCnfStep DEF Directions
  <2> QED
    BY <1>1, <2>1, <2>2, AsideJob DEF Spoken, StorageJobs, t, job
<1> QED
  BY <1>3, <1>4, <1>5, <1>6

\* The jobs of the on-request data exchange
LEMMA OdJobs ==
  ASSUME StackOK, MainSmiRequest \/ MainUserCnf \/ MainOdStart \/ MainOdStop
  PROVE  \/ Looks(Port, Port') \/ Answers(Port, Port')
         \/ Starts(Port, Port') \/ Stops(Port, Port')
<1> DEFINE t == Taken(Port)
           job == Head(mbox)
<1>1. mbox # <<>>
  BY DEF MainSmiRequest, MainUserCnf, MainOdStart, MainOdStop, Executes
<1>2. PortOK(t) /\ t = [Port EXCEPT !.mbox = Tail(@)] /\ job \in JobSet
      /\ t.user = Port.user /\ t.od = Port.od
  BY <1>1, FirstJob, TakenOK, PortVariables DEF StackOK
<1>0. PortOK(t) /\ job \in JobSet
  BY <1>2
<1> HIDE DEF t, job
<1>3. CASE MainSmiRequest
  <2> DEFINE q == SmiRwRequest(t, job)
  <2>1. job.type = "SMI_DEVICE_RW" /\ Becomes(q)
    BY <1>2, <1>3 DEF MainSmiRequest, Executes, job
  <2>2. /\ OdStep(t, q)
        /\ \/ q.user = t.user /\ t.od = "ODactive" /\ q.od = "ODblocked"
           \/ q.user = t.user - 1 /\ q.od = t.od
    BY <1>2, <2>1, JobFields, SmiRwRequestStep
  <2> HIDE DEF q
  <2>3. PortOK(q) /\ OdStep(t, Port')
    BY <2>1, <2>2, OdBecoming DEF OdStep
  <2> QED
    BY <1>1, <1>2, <2>1, <2>2, <2>3, Becoming, PortVariables DEF Looks, t, job
<1>4. CASE MainUserCnf
  <2> DEFINE q == OdCnf(t, job)
  <2>1. job.type = "AL_USER_CNF" /\ Becomes(q)
    BY <1>2, <1>4 DEF MainUserCnf, Executes, job
  <2>2. /\ OdStep(t, q)
        /\ IF t.od = "ODblocked" THEN q.user = t.user - 1 /\ q.od = "ODactive"
                                 ELSE q.user = t.user /\ q.od = t.od
    BY <1>2, OdCnfStep
  <2> HIDE DEF q
  <2>3. PortOK(q) /\ OdStep(t, Port')
    BY <2>1, <2>2, OdBecoming DEF OdStep
  <2> QED
    BY <1>1, <1>2, <2>1, <2>2, <2>3, Becoming, PortVariables DEF Answers, t, job
<1>5. CASE MainOdStart
  <2> DEFINE q == OdStart(t, job)
  <2>1. job.type = "OD_START" /\ Becomes(q)
    BY <1>2, <1>5 DEF MainOdStart, Executes, job
  <2>2. OdStep(t, q) /\ q.user = t.user /\ (q.od = "ODblocked" <=> t.od = "ODblocked")
    BY <1>0, OdStartStopStep
  <2> HIDE DEF q
  <2>3. PortOK(q) /\ OdStep(t, Port')
    BY <2>1, <2>2, OdBecoming DEF OdStep
  <2> QED
    BY <1>1, <1>2, <2>1, <2>2, <2>3, Becoming, PortVariables DEF Starts, t, job
<1>6. CASE MainOdStop
  <2> DEFINE q == OdStop(t, job)
  <2>1. job.type = "OD_STOP" /\ Becomes(q)
    BY <1>2, <1>6 DEF MainOdStop, Executes, job
  <2>2. OdStep(t, q) /\ q.user = t.user /\ q.od = "Inactive"
    BY <1>0, OdStartStopStep
  <2> HIDE DEF q
  <2>3. PortOK(q) /\ OdStep(t, Port')
    BY <2>1, <2>2, OdBecoming DEF OdStep
  <2> QED
    BY <1>1, <1>2, <2>1, <2>2, <2>3, Becoming, PortVariables DEF Stops, t, job
<1> QED
  BY <1>3, <1>4, <1>5, <1>6

\* The jobs of the events
LEMMA EventJobs ==
  ASSUME StackOK, MainEventInd \/ MainEventRsp
  PROVE  Collects(Port, Port') \/ Responds(Port, Port')
<1> DEFINE t == Taken(Port)
           job == Head(mbox)
<1>1. mbox # <<>>
  BY DEF MainEventInd, MainEventRsp, Executes
<1>2. PortOK(t) /\ t = [Port EXCEPT !.mbox = Tail(@)] /\ job \in JobSet
      /\ t.user = user /\ t.od = od /\ t.ds = ds /\ t.cm = cm /\ t.al = al /\ t.told = told
      /\ t.mbox = Tail(mbox)
  BY <1>1, FirstJob, TakenOK, PortVariables DEF StackOK
<1>0. PortOK(t) /\ job \in JobSet
  BY <1>2
<1> HIDE DEF t, job
<1>3. CASE MainEventInd
  <2> DEFINE q == DlEventInd(t, job)
             c == Collected(t, job)
             m == Append(t.mbox, [type |-> "AL_EVENT_RSP"])
  <2>1. job.type = "DL_EVENT_IND" /\ Becomes(q)
    BY <1>2, <1>3 DEF MainEventInd, Executes, job
  <2>2. job.event \in Kinds /\ job.left \in Nat
    BY <1>2, <2>1, JobFields
  <2>3. /\ PortOK(q) /\ q.user = t.user /\ q.od = t.od /\ q.ds = t.ds /\ q.cm = t.cm
        /\ \/ /\ q.failed # "no" /\ q.told = t.told /\ q.mbox = t.mbox
              /\ q.al.ev = t.al.ev
           \/ /\ t.al.ev.cnt < MaxEvents
              /\ q.al.ev.cnt = c.cnt /\ q.al.ev.set = c.set
              /\ \/ /\ t.al.ev.state = "DU_Event_handling"
                    /\ q.al.ev.state = t.al.ev.state /\ q.mbox = t.mbox /\ q.told = t.told
                 \/ /\ t.al.ev.state # "DU_Event_handling" /\ job.left > 0
                    /\ q.al.ev.state = "Read_Event_Set"
                    /\ q.mbox = t.mbox /\ q.told = t.told
                 \/ /\ t.al.ev.state # "DU_Event_handling" /\ job.left = 0
                    /\ q.al.ev.state = "DU_Event_handling"
                    /\ \/ q.mbox = m /\ q.told = SubSeq(c.set, 1, c.cnt)
                       \/ /\ q.mbox = Append(m, [type |-> "DS_UPLOAD"]) /\ q.told = t.told
                          /\ "upload" \in Range(c.set)
    BY <1>0, <2>2, DlEventIndStep
  <2>4. c = Collected(Port, Head(Port.mbox))
    BY <1>2, PortVariables DEF Collected, job
  <2> HIDE DEF q, c
  <2>5. /\ PortOK(Port')
        /\ Port'.mbox = q.mbox /\ Port'.user = q.user /\ Port'.od = q.od
        /\ Port'.told = q.told /\ Port'.al = q.al /\ Port'.ds = q.ds
        /\ Port'.failed = q.failed /\ Port'.cm = q.cm
    BY <2>1, <2>3, Becoming
  <2>6. Collects(Port, Port')
    BY <1>1, <1>2, <2>1, <2>3, <2>4, <2>5, PortVariables DEF Collects, job
  <2> QED
    BY <2>6
<1>4. CASE MainEventRsp
  <2> DEFINE q == AlEventRsp(t, job)
  <2>1. job.type = "AL_EVENT_RSP" /\ Becomes(q)
    BY <1>2, <1>4 DEF MainEventRsp, Executes, job
  <2>2. /\ PortOK(q) /\ q.user = t.user /\ q.od = t.od /\ q.ds = t.ds /\ q.cm = t.cm
        /\ q.mbox = t.mbox /\ q.told = t.told /\ q.al.ev.set = t.al.ev.set
        /\ t.al.ev.state = "DU_Event_handling" =>
             q.al.ev.state = "Event_idle" /\ q.al.ev.cnt = 0
    BY <1>0, AlEventRspStep
  <2> HIDE DEF q
  <2>3. Responds(Port, Port')
    BY <1>1, <1>2, <2>1, <2>2, Becoming, PortVariables DEF Responds, job
  <2> QED
    BY <2>3
<1> QED
  BY <1>3, <1>4

-----------------------------------------------------------------------------
(* The other threads *)

\* What a step of the thread of the port makes of the port
LEMMA DlBecoming ==
  ASSUME NEW p, PortOK(p), NEW q, DlStep(p, q), Becomes(q)
  PROVE  Aside(p, Port')
  BY DlBelow, BelowAside, AsideBecoming

\* iolink_pl_get_data changes nothing but the transceiver.
LEMMA FetchStep ==
  ASSUME NEW p, PortOK(p)
  PROVE  DlStep(p, [p EXCEPT !.pl.ready = FALSE])
<1> DEFINE x == [p.pl EXCEPT !.ready = FALSE]
<1>1. [p EXCEPT !.pl.ready = FALSE] = [p EXCEPT !.pl = x]
  BY DEF PortOK, PortFields
<1> HIDE DEF x
<1> QED
  BY <1>1, SetPl

LEMMA DlThreadStep ==
  ASSUME StackOK, DlThread PROVE Aside(Port, Port') /\ Frame
<1>1. PortOK(Port)
  BY DEF StackOK
<1>2. Frame
  <2>1. PICK bit : Handles(bit)
    BY DEF DlThread, DlRxReady, DlRxError, DlWakeUp, DlMode, DlMessage, DlTimeout
  <2>2. batch' \subseteq Range(Order) /\ wanted' = wanted /\ left' = left
    BY <2>1 DEF Handles, StackOK
  <2>3. left.services \in Nat
    BY DEF StackOK, BudgetRecords
  <2> QED
    BY <2>2, <2>3 DEF Frame, StackOK
<1>3. CASE DlRxReady
  <2> DEFINE q == [Port EXCEPT !.pl.ready = FALSE]
  <2>1. PICK reply \in Replies : Becomes(RxReady(q, reply))
    BY <1>3 DEF DlRxReady
  <2>2. reply.set \in ReportedSets
    BY DEF Replies, ReportedSets
  <2>3. DlStep(Port, q)
    BY <1>1, FetchStep
  <2> HIDE DEF q
  <2>4. DlStep(q, RxReady(q, reply))
    BY <2>2, <2>3, DlPortOK, RxReadyStep
  <2>5. DlStep(Port, RxReady(q, reply))
    BY <1>1, <2>3, <2>4, DlTwice
  <2> QED
    BY <1>1, <1>2, <2>1, <2>5, DlBecoming
<1>4. CASE DlRxError
  BY <1>1, <1>2, <1>4, HandleErrorStep, DlBecoming DEF DlRxError
<1>5. CASE DlWakeUp
  <2>1. Becomes(WurqReceived(Port)) \/ Becomes(WurqFailed(Port))
    BY <1>5 DEF DlWakeUp
  <2> QED
    BY <1>1, <1>2, <2>1, WurqReceivedStep, WurqFailedStep, DlBecoming
<1>6. CASE DlMode
  BY <1>1, <1>2, <1>6, ModeHandlerStep, DlBecoming DEF DlMode
<1>7. CASE DlMessage
  BY <1>1, <1>2, <1>7, MessageHandlerStep, DlBecoming DEF DlMessage
<1>8. CASE DlTimeout
  BY <1>1, <1>2, <1>8, TimerTimeoutStep, DlBecoming DEF DlTimeout
<1> QED
  BY <1>3, <1>4, <1>5, <1>6, <1>7, <1>8 DEF DlThread

\* A bound that is spent stays one.
LEMMA SpendStep ==
  ASSUME left \in BudgetRecords,
         NEW what \in {"configs", "restarts", "errors", "unplugs", "services", "flags",
                       "controls"},
         Spend(what)
  PROVE  /\ left' \in BudgetRecords
         /\ left'.services = IF what = "services" THEN left.services - 1 ELSE left.services
         /\ left.services \in Nat
<1>1. left[what] \in Nat /\ left[what] - 1 \in Nat
  BY DEF Spend, BudgetRecords
<1>2. left' = [left EXCEPT ![what] = left[what] - 1]
  BY DEF Spend
<1> QED
  BY <1>1, <1>2 DEF BudgetRecords

\* A job of the user that configures the port
LEMMA ConfigurationStep ==
  ASSUME NEW p, PortOK(p), NEW config \in ConfigRecords
  PROVE  Below(p, PortConfiguration_req(p, config))
<1> DEFINE job == [type |-> "SMI_PORTCONFIGURATION", config |-> config]
<1>1. job \in QuietJobs /\ job.type \notin StorageJobs \union GateJobs
  BY DEF QuietJobs, StorageJobs, GateJobs
<1>2. PortConfiguration_req(p, config) = Post(p, job)
  BY DEF PortConfiguration_req
<1> HIDE DEF job
<1> QED
  BY <1>1, <1>2, PostBelow DEF job

LEMMA ConfigureStep ==
  ASSUME StackOK, Configure PROVE Aside(Port, Port') /\ Frame
<1>1. wanted' \in ConfigRecords
  BY PortStackAssumption DEF Configure
<1>2. Becomes(PortConfiguration_req(Port, wanted')) /\ Spend("configs") /\ batch' = batch
  BY DEF Configure
<1>3. Below(Port, PortConfiguration_req(Port, wanted'))
  BY <1>1, ConfigurationStep DEF StackOK
<1>4. Aside(Port, Port')
  BY <1>2, <1>3, BelowAside, AsideBecoming DEF StackOK
<1>5. Frame
  BY <1>1, <1>2, SpendStep DEF StackOK, Frame
<1> QED
  BY <1>4, <1>5

LEMMA RestartStep ==
  ASSUME StackOK, Restart PROVE Aside(Port, Port') /\ Frame
<1> DEFINE p == [Port EXCEPT !.lost = FALSE]
           q == DlReset(p)
           r == PortConfiguration_req(q, wanted)
<1>1. Becomes(r) /\ Spend("restarts") /\ batch' = {} /\ wanted' = wanted
  BY DEF Restart
<1>2. PortOK(Port) /\ Below(Port, p)
  BY SetLost DEF StackOK
<1> HIDE DEF p
<1>3. PortOK(p) /\ Below(p, q)
  BY <1>2, BelowPortOK, DlResetStep, DlBelow
<1> HIDE DEF q
<1>4. Below(q, r)
  BY <1>3, BelowPortOK, ConfigurationStep DEF StackOK
<1> HIDE DEF r
<1>5. Below(Port, r)
  BY <1>2, <1>3, <1>4, BelowTwice
<1>6. Aside(Port, Port')
  BY <1>1, <1>2, <1>5, BelowAside, AsideBecoming
<1>7. Frame
  BY <1>1, SpendStep DEF StackOK, Frame
<1> QED
  BY <1>6, <1>7

LEMMA ControlStep ==
  ASSUME StackOK, Control PROVE Aside(Port, Port') /\ Frame
<1>1. PICK code : Becomes(DL_Control_req(Port, code))
  BY DEF Control
<1>2. Spend("controls") /\ batch' = batch /\ wanted' = wanted
  BY DEF Control
<1>3. DlStep(Port, DL_Control_req(Port, code))
  BY DL_Control_reqStep DEF StackOK
<1>4. Aside(Port, Port')
  BY <1>1, <1>3, DlBecoming DEF StackOK
<1>5. Frame
  BY <1>2, SpendStep DEF StackOK, Frame
<1> QED
  BY <1>4, <1>5

LEMMA AccessStep ==
  ASSUME StackOK, Access
  PROVE  Asks(Port, Port') /\ Frame /\ left'.services = left.services - 1
<1>1. PICK direction \in {"READ", "WRITE"}, index \in Indices :
         Becomes(SMI_rw_req(Port, direction, index))
  BY DEF Access
<1>2. Spend("services") /\ batch' = batch /\ wanted' = wanted
  BY DEF Access
<1> DEFINE q == SMI_rw_req(Port, direction, index)
           job == [type |-> "SMI_DEVICE_RW", direction |-> direction, index |-> index]
<1>3. /\ PortOK(q) /\ job \in JobSet /\ q.mbox = Append(Port.mbox, job)
      /\ q.user = Port.user + 1 /\ q.od = Port.od /\ q.told = Port.told
      /\ q.al = Port.al /\ q.ds = Port.ds /\ q.cm = Port.cm
  BY <1>1, SMI_rw_reqStep DEF StackOK, Directions
<1>4. job.type = "SMI_DEVICE_RW" /\ Becomes(q)
  BY <1>1
<1> HIDE DEF q, job
<1>5. Asks(Port, Port')
  BY <1>3, <1>4, Becoming DEF Asks
<1>6. left' \in BudgetRecords /\ left'.services = left.services - 1 /\ left.services \in Nat
  BY <1>2, SpendStep DEF StackOK
<1> QED
  BY <1>2, <1>5, <1>6 DEF StackOK, Frame

\* What surrounds the layers: it sets event bits, and leaves the jobs alone.
LEMMA AroundStep ==
  ASSUME StackOK, Around \/ DlWait PROVE Aside(Port, Port') /\ Frame
<1>1. PortOK(Port) /\ left.services \in Nat
  BY DEF StackOK, BudgetRecords
<1>2. /\ cm' = cm /\ sm' = sm /\ ds' = ds /\ al' = al /\ mbox' = mbox
      /\ user' = user /\ od' = od /\ told' = told /\ lost' = lost /\ failed' = failed
      /\ wanted' = wanted
  BY DEF Around, DlWait, DeviceAnswers, NoAnswer, LineError, Unanswered, WakeUpEnds,
         TimerFires, IsduTimeElapses, Unplug, Plug, RaiseEvent, layers, clients
<1>3. DlOK(dl')
  <2>1. DlOK(dl)
    BY <1>1 DEF PortOK, Port
  <2>2. CASE dl' = dl
    BY <2>1, <2>2
  <2>3. CASE dl' = [dl EXCEPT !.timer = FALSE]
    BY <2>1, <2>3 DEF DlOK, DlFields
  <2>4. CASE dl' = [dl EXCEPT !.isdu_timer = "elapsed"]
    BY <2>1, <2>4 DEF DlOK, DlFields
  <2> QED
    BY <2>2, <2>3, <2>4
    DEF Around, DlWait, DeviceAnswers, NoAnswer, LineError, Unanswered, WakeUpEnds,
        TimerFires, IsduTimeElapses, Unplug, Plug, RaiseEvent
<1>4. events' \subseteq Range(Order)
  <2>1. events \subseteq Range(Order)
    BY <1>1 DEF PortOK, Port
  <2>2. \E bit \in {"RXRDY", "RXERR", "WURQ", "TIMEOUT"} :
           events' \in {{}, events, events \union {bit}}
    BY DEF Around, DlWait, DeviceAnswers, NoAnswer, LineError, Unanswered, WakeUpEnds,
           TimerFires, IsduTimeElapses, Unplug, Plug, RaiseEvent
  <2> QED
    BY <2>1, <2>2, Bits
<1> DEFINE DevOK(d) == /\ DOMAIN d = {"rev", "differs", "adapts", "link", "flag"}
                       /\ d.rev \in Revisions /\ d.differs \in Differences
<1>5. DevOK(dev')
  <2>1. DevOK(dev)
    BY <1>1 DEF PortOK, Port
  <2>2. \A d \in Devices : DevOK(Connected(d))
    BY PortStackAssumption DEF DeviceRecords, Connected, Revisions, Differences
  <2>3. \A msg : DevOK(Receives(msg))
    <3> TAKE msg
    <3> DEFINE adapted ==
          [dev EXCEPT !.rev = IF sm.config.check = "V10" THEN "V10" ELSE "V11",
                      !.differs = IF sm.config.mode = "CFGCOM" /\ @ = "device"
                                  THEN "nothing" ELSE @]
    <3>1. DevOK(adapted)
      BY <2>1 DEF Revisions, Differences
    <3>2. Receives(msg) \in {[dev EXCEPT !.flag = FALSE], adapted, dev}
      BY DEF Receives
    <3>3. DevOK([dev EXCEPT !.flag = FALSE])
      BY <2>1
    <3> QED
      BY <2>1, <3>1, <3>2, <3>3
  <2> HIDE DEF DevOK
  <2>4. CASE DeviceAnswers
    BY <2>3, <2>4 DEF DeviceAnswers
  <2>5. CASE WakeUpEnds
    <3> DEFINE x == IF dev.link = "absent" THEN dev.link ELSE "awake"
    <3>1. dev' = [dev EXCEPT !.link = x]
      BY <2>5 DEF WakeUpEnds
    <3> HIDE DEF x
    <3> QED
      BY <2>1, <3>1 DEF DevOK
  <2>6. CASE Unplug
    <3>1. dev' = [dev EXCEPT !.link = "absent", !.flag = FALSE]
      BY <2>6 DEF Unplug
    <3> QED
      BY <2>1, <3>1 DEF DevOK
  <2>7. CASE RaiseEvent
    <3>1. dev' = [dev EXCEPT !.flag = TRUE]
      BY <2>7 DEF RaiseEvent
    <3> QED
      BY <2>1, <3>1 DEF DevOK
  <2>8. CASE Plug
    BY <2>2, <2>8 DEF Plug
  <2>9. CASE DlWait \/ NoAnswer \/ LineError \/ TimerFires \/ IsduTimeElapses
    <3>1. dev' = dev
      BY <2>9 DEF DlWait, NoAnswer, LineError, Unanswered, TimerFires, IsduTimeElapses
    <3> QED
      BY <2>1, <3>1
  <2> QED
    BY <2>4, <2>5, <2>6, <2>8, <2>9, <2>7 DEF Around
<1>6. batch' \subseteq Range(Order)
  <2>1. events \subseteq Range(Order) /\ batch \subseteq Range(Order)
    BY <1>1 DEF PortOK, Port, StackOK
  <2>2. batch' \in {batch, events}
    BY DEF Around, DlWait, DeviceAnswers, NoAnswer, LineError, Unanswered, WakeUpEnds,
           TimerFires, IsduTimeElapses, Unplug, Plug, RaiseEvent
  <2> QED
    BY <2>1, <2>2
<1>7. left' \in BudgetRecords /\ left'.services <= left.services
  <2>1. left' = left \/ \E what \in {"errors", "unplugs", "flags"} : Spend(what)
    BY DEF Around, DlWait, DeviceAnswers, NoAnswer, LineError, Unanswered, WakeUpEnds,
           TimerFires, IsduTimeElapses, Unplug, Plug, RaiseEvent
  <2> QED
    BY <1>1, <2>1, SpendStep DEF StackOK
<1>8. Frame
  BY <1>2, <1>6, <1>7 DEF Frame, StackOK
<1>9. PortOK(Port')
  <2>1. DOMAIN Port' = PortFields
    BY DEF Port, PortFields
  <2>2. /\ Port'.cm = Port.cm /\ Port'.sm = Port.sm /\ Port'.ds = Port.ds
        /\ Port'.al = Port.al /\ Port'.mbox = Port.mbox /\ Port'.od = Port.od
        /\ Port'.dl = dl' /\ Port'.events = events' /\ Port'.dev = dev'
    BY <1>2 DEF Port
  <2> QED
    BY <1>1, <1>3, <1>4, <1>5, <2>1, <2>2 DEF PortOK
<1>10. /\ Port'.mbox = Port.mbox /\ Port'.user = Port.user /\ Port'.od = Port.od
       /\ Port'.told = Port.told /\ Port'.al = Port.al /\ Port'.ds = Port.ds
       /\ Port'.cm = Port.cm
  BY <1>2 DEF Port
<1>11. Lengthens(Port.mbox, Port'.mbox) /\ Clear(Port.mbox, Port'.mbox)
  BY <1>1, <1>10, LengthensNot
<1> QED
  BY <1>8, <1>9, <1>10, <1>11 DEF Aside, Calm

\* The main thread leaves what surrounds the port alone.
LEMMA MainFrame == ASSUME StackOK, MainThread PROVE Frame
<1>1. batch' = batch /\ wanted' = wanted /\ left' = left
  BY DEF MainThread, Executes, MainPortConfiguration, MainPortModeInd, MainDsReady,
         MainDsFault, MainDsStartup, MainDsInit, MainDsDelete, MainDsReadCnf,
         MainDsWriteCnf, MainDsUpload, MainOdStart, MainOdStop, MainSmiRequest,
         MainUserCnf, MainSetPortConfig, MainOperate, MainModeInd, MainReadCnf,
         MainWriteCnf, MainDevmodeCnf, MainAlCnf, MainAlRequest, MainReadParamCnf,
         MainWriteParamCnf, MainIsduCnf, MainEventInd, MainEventRsp
<1>2. left.services \in Nat
  BY DEF StackOK, BudgetRecords
<1> QED
  BY <1>1, <1>2 DEF StackOK, Frame

\* The steps there are.
Talks(p, q) == Looks(p, q) \/ Answers(p, q) \/ Starts(p, q) \/ Stops(p, q)

LEMMA Steps ==
  ASSUME StackOK, Next
  PROVE  /\ Frame /\ PortOK(Port') /\ Running
         /\ \/ Calm(Port, Port') \/ Executed(Port, Port')
            \/ Asks(Port, Port') /\ left'.services = left.services - 1
            \/ Talks(Port, Port') \/ Collects(Port, Port') \/ Responds(Port, Port')
<1>1. CASE DlWait \/ DlThread \/ Around
  <2>1. Calm(Port, Port') /\ Frame
    BY <1>1, DlThreadStep, AroundStep DEF Aside
  <2>2. Running
    BY <1>1 DEF DlWait, DlThread, Handles, DlRxReady, DlRxError, DlWakeUp, DlMode, DlMessage,
       DlTimeout, Around, DeviceAnswers, NoAnswer, LineError, Unanswered, WakeUpEnds,
       TimerFires, IsduTimeElapses, Unplug, Plug, RaiseEvent
  <2> QED
    BY <2>1, <2>2, CalmPortOK
<1>2. CASE Above
  <2>1. CASE Access
    BY <2>1, AccessStep DEF Access, Asks
  <2>2. CASE Configure \/ Restart \/ Control
    BY <2>2, ConfigureStep, RestartStep, ControlStep, CalmPortOK
    DEF Configure, Restart, Control, Aside
  <2> QED
    BY <1>2, <2>1, <2>2 DEF Above
<1>3. CASE MainThread
  <2>1. Frame
    BY <1>3, MainFrame
  <2>2. Running
    BY <1>3 DEF MainThread, Executes, MainPortConfiguration, MainPortModeInd, MainDsReady,
         MainDsFault, MainDsStartup, MainDsInit, MainDsDelete, MainDsReadCnf,
         MainDsWriteCnf, MainDsUpload, MainOdStart, MainOdStop, MainSmiRequest,
         MainUserCnf, MainSetPortConfig, MainOperate, MainModeInd, MainReadCnf,
         MainWriteCnf, MainDevmodeCnf, MainAlCnf, MainAlRequest, MainReadParamCnf,
         MainWriteParamCnf, MainIsduCnf, MainEventInd, MainEventRsp
  <2>3. \/ Executed(Port, Port') \/ Talks(Port, Port')
        \/ Collects(Port, Port') \/ Responds(Port, Port')
    BY <1>3, SmJobs, CmJobs, DsJobs, AlJobs, OdJobs, EventJobs, PassesExecuted
       DEF MainThread, Talks
  <2>4. PortOK(Port')
    BY <2>3
    DEF Executed, Calm, Talks, Looks, Answers, Starts, Stops, OdStep, Collects, Responds
  <2> QED
    BY <2>1, <2>2, <2>3, <2>4
<1> QED
  BY <1>1, <1>2, <1>3 DEF Next

-----------------------------------------------------------------------------
(* The types *)

LEMMA StackStart == Init => StackOK
<1> SUFFICES ASSUME Init PROVE StackOK
  OBVIOUS
<1>1. NoConfig \in ConfigRecords
  BY DEF NoConfig, ConfigRecords
<1>2. SmOK(sm)
  <2>1. "PortInactive" \in StatesOf(Transitions)
    BY DEF StatesOf, Transitions
  <2> QED
    BY <1>1, <2>1 DEF Init, InitSystemManagement, SmOK, Registers
<1>3. CmOK(cm)
  <2>1. "Port_Deactivated" \in StatesOf(CmTransitions)
    BY DEF StatesOf, CmTransitions
  <2> QED
    BY <1>1, <2>1 DEF Init, InitConfigurationManager, CmOK, PortStatus
<1>4. DsOK(ds) /\ ds.event = "NONE"
  <2>1. "CheckActivationState" \in StatesOf(DsTransitions)
    BY DEF StatesOf, DsTransitions
  <2>2. 0 \in 0..Parameters
    BY DataStorageAssumption
  <2> QED
    BY <2>1, <2>2 DEF Init, InitDataStorage, DsOK, DsFaults
<1>5. AlOK(al)
  <2>1. "Event_idle" \in StatesOf(EventTransitions)
    BY EventStates
  <2>2. 0 \in 0..MaxEvents
    BY DEF MaxEvents
  <2>3. NoIdentity \in Identities
    BY DEF NoIdentity, Identities, Revisions, Differences
  <2>4. [entry \in 1..MaxEvents |-> "none"] \in [1..MaxEvents -> Kinds \union {"none"}]
    OBVIOUS
  <2> QED
    BY <2>1, <2>2, <2>3, <2>4 DEF Init, InitApplicationLayer, AlOK, Directions
<1>6. DlOK(dl)
  <2>1. 0 \in 0..MaxRetry /\ 0 \in 0..EventOctets * MaxEvents
    BY DataLinkAssumption DEF MaxEvents
  <2>2. <<>> \in ReportedSets /\ NoReply.set = <<>>
    BY DEF ReportedSets, NoReply
  <2> QED
    BY <2>1, <2>2 DEF Init, InitDataLink, DlOK, DlFields
<1>7. /\ DOMAIN dev = {"rev", "differs", "adapts", "link", "flag"}
      /\ dev.rev \in Revisions /\ dev.differs \in Differences
  BY PortStackAssumption DEF Init, DeviceRecords, Connected, Revisions, Differences
<1>8. PortOK(Port)
  <2>1. mbox = <<>> /\ events = {} /\ od = "Inactive"
    BY DEF Init
  <2>2. od \in StatesOf(OdTransitions) /\ mbox \in Seq(JobSet)
    BY <2>1, OdStates
  <2> QED
    BY <1>2, <1>3, <1>4, <1>5, <1>6, <1>7, <2>1, <2>2, PortVariables DEF PortOK
<1> QED
  BY <1>1, <1>4, <1>8, PortStackAssumption DEF Init, StackOK

LEMMA StackStep ==
  ASSUME StackOK, [Next]_vars PROVE StackOK'
<1>1. CASE UNCHANGED vars
  <2>1. Port' = Port /\ ds' = ds /\ batch' = batch /\ wanted' = wanted /\ left' = left
    BY <1>1 DEF vars, Port
  <2> QED
    BY <2>1 DEF StackOK
<1>2. CASE Next
  <2>1. Frame /\ PortOK(Port')
    BY <1>2, Steps
  <2>2. Port'.ds.event = "NONE"
    <3>1. Port.ds.event = "NONE"
      BY PortVariables DEF StackOK
    <3>2. Port.mbox # <<>> => Taken(Port).ds = Port.ds
      BY TakenOK DEF StackOK
    <3> QED
      BY <1>2, <3>1, <3>2, Steps
      DEF Calm, Executed, Asks, Talks, Looks, Answers, Starts, Stops, OdStep, Collects, Responds
  <2>3. ds'.event = "NONE"
    BY <2>2 DEF Port
  <2> QED
    BY <2>1, <2>3 DEF StackOK, Frame
<1> QED
  BY <1>1, <1>2

-----------------------------------------------------------------------------
(* Users who wait *)

Blocked(p) == IF p.od = "ODblocked" THEN 1 ELSE 0

\* What the users of port p can expect
Due(p) == Cardinality(Asked(p.mbox)) + Blocked(p)

LEMMA ExpectedIsDue ==
  /\ Expected = Due(Port)
  /\ Expected' = Due(Port')
<1>1. Waiting({"SMI_DEVICE_RW"}) = Asked(mbox)
  BY DEF Waiting, Asked
<1>2. Waiting({"SMI_DEVICE_RW"})' = Asked(mbox')
  BY DEF Waiting, Asked
<1>3. Expected = Due(Port)
  BY <1>1, PortVariables DEF Expected, Due, Blocked
<1>4. Port'.mbox = mbox' /\ Port'.od = od'
  BY DEF Port
<1>5. Expected' = Due(Port')
  BY <1>2, <1>4 DEF Expected, Due, Blocked
<1> QED
  BY <1>3, <1>5

\* As many users wait and can expect an answer as before.
Fair(p, q) == q.user \in Int /\ q.user - Due(q) = p.user - Due(p)

\* When a job is taken that is no request, the requests are as many.
LEMMA OthersAsked ==
  ASSUME NEW p, PortOK(p), p.mbox # <<>>
  PROVE  /\ Tail(p.mbox) \in Seq(JobSet)
         /\ Cardinality(Asked(Tail(p.mbox))) \in Nat
         /\ Cardinality(Asked(p.mbox)) =
              Cardinality(Asked(Tail(p.mbox)))
                + (IF Head(p.mbox).type = "SMI_DEVICE_RW" THEN 1 ELSE 0)
<1>1. p.mbox \in Seq(JobSet)
  BY DEF PortOK
<1>2. Tail(p.mbox) \in Seq(JobSet)
  BY <1>1
<1> QED
  BY <1>1, <1>2, AskedFinite, AskedTail

LEMMA CalmIsFair ==
  ASSUME NEW p, PortOK(p), p.user \in Int, NEW q, Calm(p, q) \/ Executed(p, q)
  PROVE  Fair(p, q) /\ q.user = p.user
<1>1. CASE Calm(p, q)
  <2>1. p.mbox \in Seq(JobSet) /\ q.mbox \in Seq(JobSet)
    BY <1>1 DEF Calm, PortOK
  <2>2. Asked(q.mbox) = Asked(p.mbox)
    BY <1>1, <2>1, AskedLengthens DEF Calm
  <2>3. Due(q) = Due(p)
    BY <1>1, <2>2 DEF Due, Blocked, Calm
  <2>4. q.user = p.user
    BY <1>1 DEF Calm
  <2> QED
    BY <2>3, <2>4 DEF Fair
<1>2. CASE Executed(p, q)
  <2> DEFINE t == Taken(p)
  <2>1. /\ p.mbox # <<>> /\ Calm(t, q) /\ Head(p.mbox).type # "SMI_DEVICE_RW"
    BY <1>2 DEF Executed, Spoken
  <2>2. PortOK(t) /\ t.mbox = Tail(p.mbox) /\ t.user = p.user /\ t.od = p.od
    BY <2>1, TakenOK
  <2> HIDE DEF t
  <2>3. t.mbox \in Seq(JobSet) /\ q.mbox \in Seq(JobSet)
    BY <2>1, <2>2 DEF Calm, PortOK
  <2>4. Asked(q.mbox) = Asked(Tail(p.mbox))
    BY <2>1, <2>2, <2>3, AskedLengthens DEF Calm
  <2>5. Cardinality(Asked(p.mbox)) = Cardinality(Asked(q.mbox)) + 0
    BY <2>1, <2>4, OthersAsked
  <2>6. Cardinality(Asked(q.mbox)) \in Nat
    BY <2>3, AskedFinite
  <2>7. q.od = p.od /\ q.user = p.user
    BY <2>1, <2>2 DEF Calm
  <2>8. Due(q) = Due(p)
    BY <2>5, <2>6, <2>7 DEF Due, Blocked
  <2> QED
    BY <2>7, <2>8 DEF Fair
<1> QED
  BY <1>1, <1>2

LEMMA AskingIsFair ==
  ASSUME NEW p, PortOK(p), p.user \in Int, NEW q, Asks(p, q)
  PROVE  Fair(p, q) /\ q.user = p.user + 1
<1>1. PICK job \in JobSet : job.type = "SMI_DEVICE_RW" /\ q.mbox = Append(p.mbox, job)
  BY DEF Asks
<1>2. p.mbox \in Seq(JobSet)
  BY DEF PortOK
<1>3. Cardinality(Asked(q.mbox)) = Cardinality(Asked(p.mbox)) + 1
  BY <1>1, <1>2, AskedAppend
<1>4. Cardinality(Asked(p.mbox)) \in Nat
  BY <1>2, AskedFinite
<1>5. q.user = p.user + 1 /\ q.od = p.od
  BY DEF Asks
<1>6. Due(q) = Due(p) + 1 /\ Due(p) \in Nat
  BY <1>3, <1>4, <1>5 DEF Due, Blocked
<1> QED
  BY <1>5, <1>6 DEF Fair

\* What the first job makes of the users: only the end of a service that the exchange is
\* stopped in leaves them with less to expect.
LEMMA TalkingIsFair ==
  ASSUME NEW p, PortOK(p), p.user \in Int, NEW q, Talks(p, q)
  PROVE  /\ q.user <= p.user /\ q.user \in Int
         /\ \/ Fair(p, q)
            \/ /\ p.mbox # <<>> /\ Head(p.mbox).type = "OD_STOP" /\ p.od = "ODblocked"
               /\ q.user - Due(q) = p.user - Due(p) + 1
<1> DEFINE t == Taken(p)
           a == Cardinality(Asked(p.mbox))
           b == Cardinality(Asked(q.mbox))
<1>1. p.mbox # <<>> /\ OdStep(t, q)
  BY DEF Talks, Looks, Answers, Starts, Stops
<1>2. PortOK(t) /\ t.mbox = Tail(p.mbox)
  BY <1>1, TakenOK
<1> HIDE DEF t
<1>3. t.mbox \in Seq(JobSet) /\ q.mbox \in Seq(JobSet)
  BY <1>1, <1>2 DEF OdStep, PortOK
<1>4. Asked(q.mbox) = Asked(Tail(p.mbox))
  BY <1>1, <1>2, <1>3, AskedLengthens DEF OdStep
<1>5. a = b + (IF Head(p.mbox).type = "SMI_DEVICE_RW" THEN 1 ELSE 0) /\ b \in Nat
  BY <1>1, <1>4, OthersAsked
<1>6. Due(p) = a + Blocked(p) /\ Due(q) = b + Blocked(q)
  BY DEF Due
<1> HIDE DEF a, b
<1>7. CASE Looks(p, q)
  <2>1. Head(p.mbox).type = "SMI_DEVICE_RW"
    BY <1>7 DEF Looks
  <2>2. \/ q.user = p.user /\ Blocked(p) = 0 /\ Blocked(q) = 1
        \/ q.user = p.user - 1 /\ Blocked(q) = Blocked(p) /\ Blocked(p) \in Nat
    BY <1>7 DEF Looks, Blocked
  <2> QED
    BY <1>5, <1>6, <2>1, <2>2 DEF Fair
<1>8. CASE Answers(p, q)
  <2>1. Head(p.mbox).type # "SMI_DEVICE_RW"
    BY <1>8 DEF Answers
  <2>2. \/ q.user = p.user - 1 /\ Blocked(p) = 1 /\ Blocked(q) = 0
        \/ q.user = p.user /\ Blocked(q) = Blocked(p) /\ Blocked(p) \in Nat
    BY <1>8 DEF Answers, Blocked
  <2> QED
    BY <1>5, <1>6, <2>1, <2>2 DEF Fair
<1>9. CASE Starts(p, q)
  <2>1. Head(p.mbox).type # "SMI_DEVICE_RW"
    BY <1>9 DEF Starts
  <2>2. q.user = p.user /\ Blocked(q) = Blocked(p) /\ Blocked(p) \in Nat
    BY <1>9 DEF Starts, Blocked
  <2> QED
    BY <1>5, <1>6, <2>1, <2>2 DEF Fair
<1>10. CASE Stops(p, q)
  <2>1. Head(p.mbox).type = "OD_STOP" /\ q.user = p.user /\ Blocked(q) = 0
    BY <1>10 DEF Stops, Blocked
  <2>2. \/ p.od = "ODblocked" /\ Blocked(p) = 1
        \/ Blocked(p) = 0
    BY DEF Blocked
  <2> QED
    BY <1>1, <1>5, <1>6, <2>1, <2>2 DEF Fair
<1> QED
  BY <1>7, <1>8, <1>9, <1>10 DEF Talks

LEMMA EventsAreFair ==
  ASSUME NEW p, PortOK(p), p.user \in Int, NEW q, Collects(p, q) \/ Responds(p, q)
  PROVE  Fair(p, q) /\ q.user = p.user
<1> DEFINE rest == Tail(p.mbox)
           response == [type |-> "AL_EVENT_RSP"]
           upload == [type |-> "DS_UPLOAD"]
<1>1. /\ p.mbox # <<>> /\ Head(p.mbox).type # "SMI_DEVICE_RW"
      /\ q.user = p.user /\ q.od = p.od
  BY DEF Collects, Responds
<1>2. q.mbox \in {rest, Append(rest, response), Append(Append(rest, response), upload)}
  BY DEF Collects, Responds
<1>3. rest \in Seq(JobSet) /\ Cardinality(Asked(rest)) \in Nat
      /\ Cardinality(Asked(p.mbox)) = Cardinality(Asked(rest)) + 0
  BY <1>1, OthersAsked
<1> HIDE DEF rest
<1>4. Asked(Append(rest, response)) = Asked(rest)
  <2>1. ASSUME NEW i \in Asked(Append(rest, response)) PROVE i \in Asked(rest)
    BY <1>3 DEF Asked
  <2>2. ASSUME NEW i \in Asked(rest) PROVE i \in Asked(Append(rest, response))
    BY <1>3 DEF Asked
  <2> QED
    BY <2>1, <2>2
<1>5. Append(rest, response) \in Seq(JobSet)
  <2>1. response \in JobSet
    BY DEF JobSet, UserJobs
  <2> QED
    BY <1>3, <2>1
<1> DEFINE m == Append(rest, response)
<1> HIDE DEF m
<1>6. Asked(Append(m, upload)) = Asked(m)
  <2>0. m \in Seq(JobSet)
    BY <1>5 DEF m
  <2>1. ASSUME NEW i \in Asked(Append(m, upload)) PROVE i \in Asked(m)
    BY <2>0 DEF Asked
  <2>2. ASSUME NEW i \in Asked(m) PROVE i \in Asked(Append(m, upload))
    BY <2>0 DEF Asked
  <2> QED
    BY <2>1, <2>2
<1>7. Asked(q.mbox) = Asked(rest)
  BY <1>2, <1>4, <1>6 DEF m
<1>8. Due(q) = Due(p)
  BY <1>1, <1>3, <1>7 DEF Due, Blocked
<1> QED
  BY <1>1, <1>8 DEF Fair

\* One step, and the users
LEMMA UsersStep ==
  ASSUME StackOK, Next, user \in Int
  PROVE  /\ user' \in Int
         /\ user' + left'.services <= user + left.services
         /\ \/ user' - Expected' = user - Expected
            \/ /\ mbox # <<>> /\ Head(mbox).type = "OD_STOP" /\ od = "ODblocked"
               /\ user' - Expected' = user - Expected + 1
<1>1. /\ Frame
      /\ \/ Calm(Port, Port') \/ Executed(Port, Port')
         \/ Asks(Port, Port') /\ left'.services = left.services - 1
         \/ Talks(Port, Port') \/ Collects(Port, Port') \/ Responds(Port, Port')
  BY Steps
<1>2. PortOK(Port) /\ left.services \in Nat /\ left'.services \in Nat
      /\ left'.services <= left.services
  BY <1>1 DEF StackOK, Frame, BudgetRecords
<1>3. /\ Port.user = user /\ Port'.user = user' /\ Port.od = od /\ Port.mbox = mbox
      /\ Expected = Due(Port) /\ Expected' = Due(Port')
  BY ExpectedIsDue, PortVariables DEF Port
<1> DEFINE q == Port'
           p == Port
<1> HIDE DEF p, q
<1>4. CASE Calm(p, q) \/ Executed(p, q) \/ Collects(p, q) \/ Responds(p, q)
  BY <1>2, <1>3, <1>4, CalmIsFair, EventsAreFair DEF Fair, p, q
<1>5. CASE Asks(p, q) /\ left'.services = left.services - 1
  BY <1>2, <1>3, <1>5, AskingIsFair DEF Fair, p, q
<1>6. CASE Talks(p, q)
  BY <1>2, <1>3, <1>6, TalkingIsFair DEF Fair, p, q
<1> QED
  BY <1>1, <1>4, <1>5, <1>6 DEF p, q

\* Users who wait can be answered: nobody is answered more often than he has asked, and
\* the bound on what they ask holds.
UsersOK ==
  /\ user \in Int /\ Expected <= user
  /\ \E scenario \in Scenarios : user + left.services <= scenario.budget.services

StackInv == StackOK /\ UsersOK

LEMMA ExpectedNatural == ASSUME StackOK PROVE Expected \in Nat
<1>1. Cardinality(Asked(Port.mbox)) \in Nat
  BY AskedFinite DEF StackOK, PortOK
<1> QED
  BY <1>1, ExpectedIsDue DEF Due, Blocked

LEMMA StillExpected ==
  \A u, v, a, b \in Int : (v - b = u - a \/ v - b = u - a + 1) /\ a <= u => b <= v
  OBVIOUS

LEMMA StackInvariant == Spec => []StackInv
<1>1. Init => StackInv
  <2> SUFFICES ASSUME Init PROVE StackInv
    OBVIOUS
  <2>1. StackOK
    BY StackStart
  <2>2. mbox = <<>> /\ od = "Inactive" /\ user = 0
    BY DEF Init
  <2>3. Waiting({"SMI_DEVICE_RW"}) = {}
    BY <2>2 DEF Waiting
  <2>4. Expected = 0
    BY <2>2, <2>3, FS_EmptySet DEF Expected
  <2>5. \E scenario \in Scenarios : left = scenario.budget
    BY DEF Init
  <2>6. left.services \in Nat
    BY <2>5, PortStackAssumption DEF BudgetRecords
  <2>7. \E scenario \in Scenarios : user + left.services <= scenario.budget.services
    BY <2>2, <2>5, <2>6
  <2> QED
    BY <2>1, <2>2, <2>4, <2>7 DEF StackInv, UsersOK
<1>2. ASSUME StackInv, [Next]_vars PROVE StackInv'
  <2>1. StackOK'
    BY <1>2, StackStep DEF StackInv
  <2>2. UsersOK'
    <3>1. CASE Next
      <4> DEFINE a == Due(Port)
                 b == Due(Port')
      <4>0. Expected = a /\ Expected' = b
        BY ExpectedIsDue
      <4>1. a \in Int /\ b \in Int
        <5>1. PortOK(Port) /\ PortOK(Port')
          BY <1>2, <2>1 DEF StackInv, StackOK
        <5>2. Cardinality(Asked(Port.mbox)) \in Nat /\ Cardinality(Asked(Port'.mbox)) \in Nat
          BY <5>1, AskedFinite DEF PortOK
        <5> QED
          BY <5>2 DEF Due, Blocked
      <4> HIDE DEF a, b
      <4>2. left.services \in Nat /\ left'.services \in Nat
        BY <1>2, <2>1 DEF StackInv, StackOK, BudgetRecords
      <4>3. user \in Int /\ user' \in Int
        BY <1>2, <3>1, UsersStep DEF StackInv, UsersOK
      <4>4. user' - b = user - a \/ user' - b = user - a + 1
        BY <1>2, <3>1, <4>0, UsersStep DEF StackInv, UsersOK
      <4>5. a <= user
        BY <1>2, <4>0 DEF StackInv, UsersOK
      <4>6. b <= user'
        BY <4>1, <4>3, <4>4, <4>5, StillExpected
      <4>7. PICK scenario \in Scenarios :
               /\ user' + left'.services <= user + left.services
               /\ user + left.services <= scenario.budget.services
        BY <1>2, <3>1, UsersStep DEF StackInv, UsersOK
      <4>8. scenario.budget.services \in Nat
        BY PortStackAssumption DEF BudgetRecords
      <4>9. user' + left'.services <= scenario.budget.services
        BY <4>2, <4>3, <4>7, <4>8
      <4> QED
        BY <4>0, <4>3, <4>6, <4>9 DEF UsersOK
    <3>2. CASE UNCHANGED vars
      <4>1. user' = user /\ left' = left /\ mbox' = mbox /\ od' = od
        BY <3>2 DEF vars
      <4>2. Expected' = Expected
        BY <4>1 DEF Expected, Waiting
      <4> QED
        BY <1>2, <4>1, <4>2 DEF StackInv, UsersOK
    <3> QED
      BY <1>2, <3>1, <3>2
  <2> QED
    BY <2>1, <2>2 DEF StackInv
<1> QED
  BY <1>1, <1>2, PTL DEF Spec

\* Every variable keeps its type, for any devices, configurations and bounds, however
\* many jobs wait: a message is not repeated more often than MaxRetry says, no more event
\* memory is read than there is, an event of data storage comes to its end within the
\* callback it occurs in, and no user is answered who has not asked.
THEOREM StackTypes == Spec => []TypeOK
<1>1. ASSUME StackInv PROVE TypeOK
  <2>1. PortOK(Port) /\ StackOK /\ UsersOK
    BY <1>1 DEF StackInv, StackOK
  <2>2. DlOK(dl) /\ SmOK(sm) /\ CmOK(cm) /\ DsOK(ds) /\ AlOK(al)
    BY <2>1, PortVariables DEF PortOK
  <2>3. mbox \in Seq(JobSet) /\ events \subseteq Range(Order)
        /\ od \in StatesOf(OdTransitions)
    BY <2>1, PortVariables DEF PortOK
  <2>4. \A i \in DOMAIN mbox : mbox[i].type \in Jobs
    BY <2>3, JobFields
  <2>5. \E scenario \in Scenarios : user \in 0..scenario.budget.services
    <3>1. Expected \in Nat
      BY <2>1, ExpectedNatural
    <3>2. PICK scenario \in Scenarios : user + left.services <= scenario.budget.services
      BY <2>1 DEF UsersOK
    <3>3. left.services \in Nat /\ scenario.budget.services \in Nat
      BY <2>1, PortStackAssumption DEF StackOK, BudgetRecords
    <3> QED
      BY <2>1, <3>1, <3>2, <3>3 DEF UsersOK
  <2>6. DataLinkOK
    BY <2>2 DEF DlOK, DataLinkOK
  <2>7. ds.event = "NONE" /\ batch \subseteq Range(Order) /\ wanted \in ConfigRecords
        /\ left \in BudgetRecords
    BY <2>1 DEF StackOK
  <2> QED
    BY <2>2, <2>3, <2>4, <2>5, <2>6, <2>7 DEF TypeOK, SmOK, CmOK, DsOK, AlOK
<1> QED
  BY <1>1, StackInvariant, PTL

\* No user is answered twice, and none loses the prospect of an answer except when the
\* exchange is stopped while it is blocked for his service.
THEOREM StackAnswers == Spec => AnsweredOrStopped
<1>1. ASSUME StackInv, [Next]_vars
      PROVE  [user' - Expected' # user - Expected
                => od = "ODblocked" /\ Head(mbox).type = "OD_STOP"]_vars
  <2>1. CASE Next
    BY <1>1, <2>1, UsersStep DEF StackInv, UsersOK
  <2> QED
    BY <1>1, <2>1
<1> QED
  BY <1>1, StackInvariant, PTL DEF Spec, AnsweredOrStopped

-----------------------------------------------------------------------------
(* Sets of events in the mailbox *)

\* Of the set S of events k have been taken: the rest of it comes first, then whole sets.
Rest(m, S, k) ==
  /\ Len(S) - k <= Len(m)
  /\ \A j \in 1..Len(S) - k : m[j] = DL_Event_ind(S[k + j], Len(S) - k - j)
  /\ Whole(m, Len(S) - k + 1)

LEMMA ReportedSet ==
  ASSUME NEW S \in ReportedSets
  PROVE  S \in Seq(Kinds) /\ Len(S) \in Nat /\ Len(S) <= MaxEvents /\ DOMAIN S = 1..Len(S)
<1>1. CASE S \in EventSets
  BY <1>1, PortStackAssumption DEF Kinds
<1>2. CASE S = <<>>
  BY <1>2 DEF MaxEvents
<1> QED
  BY <1>1, <1>2 DEF ReportedSets

\* What is left of a mailbox when its first job has been taken
LEMMA TailOf ==
  ASSUME NEW m \in Seq(JobSet), m # <<>>
  PROVE  /\ Tail(m) \in Seq(JobSet) /\ Len(m) \in Nat \ {0} /\ Len(Tail(m)) = Len(m) - 1
         /\ Head(m) = m[1]
         /\ \A i \in 1..Len(m) - 1 : Tail(m)[i] = m[i + 1]
  OBVIOUS

\* Whole sets move up.
LEMMA WholeShift ==
  ASSUME NEW m \in Seq(JobSet), m # <<>>, NEW lo \in Nat \ {0}, Whole(m, lo + 1)
  PROVE  Whole(Tail(m), lo)
<1> DEFINE n == Tail(m)
<1>1. /\ n \in Seq(JobSet) /\ Len(m) \in Nat \ {0} /\ Len(n) = Len(m) - 1
      /\ \A i \in 1..Len(m) - 1 : n[i] = m[i + 1]
  BY TailOf
<1> HIDE DEF n
<1> SUFFICES ASSUME NEW i \in lo..Len(n), n[i].type = "DL_EVENT_IND"
             PROVE  \E a \in lo..i, S \in EventSets :
                       i <= a + Len(S) - 1 /\ BlockAt(n, a, S)
  BY DEF Whole, n
<1>2. i + 1 \in lo + 1 .. Len(m) /\ m[i + 1].type = "DL_EVENT_IND"
  BY <1>1
<1>3. PICK b \in lo + 1 .. i + 1, S \in EventSets :
         i + 1 <= b + Len(S) - 1 /\ BlockAt(m, b, S)
  BY <1>2 DEF Whole
<1>4. Len(S) \in Nat
  BY ReportedSet DEF ReportedSets
<1> DEFINE a == b - 1
<1>5. a \in lo..i /\ i <= a + Len(S) - 1
  BY <1>1, <1>3, <1>4
<1>6. a + Len(S) - 1 <= Len(n)
  BY <1>1, <1>3, <1>4 DEF BlockAt
<1>7. ASSUME NEW j \in 1..Len(S)
      PROVE  n[a + j - 1] = DL_Event_ind(S[j], Len(S) - j)
  <2>1. a + j - 1 \in 1..Len(m) - 1
    BY <1>1, <1>4, <1>5, <1>6
  <2>2. (a + j - 1) + 1 = b + j - 1
    BY <1>3, <1>4
  <2>3. n[a + j - 1] = m[b + j - 1]
    BY <1>1, <2>1, <2>2
  <2> QED
    BY <1>3, <2>3 DEF BlockAt
<1> QED
  BY <1>5, <1>6, <1>7 DEF BlockAt

\* What is left of a set is left when whole sets are posted.
LEMMA RestGrows ==
  ASSUME NEW m \in Seq(JobSet), NEW n \in Seq(JobSet),
         Len(m) <= Len(n), \A i \in 1..Len(m) : n[i] = m[i], Whole(n, Len(m) + 1),
         NEW S \in ReportedSets, NEW k \in 0..Len(S), Rest(m, S, k)
  PROVE  Rest(n, S, k)
<1>1. Len(m) \in Nat /\ Len(n) \in Nat /\ Len(S) \in Nat
  BY ReportedSet
<1> DEFINE lo == Len(S) - k + 1
<1>2. lo \in Nat \ {0} /\ lo <= Len(m) + 1
  BY <1>1 DEF Rest
<1>3. Whole(n, lo)
  <2>1. Whole(m, lo)
    BY DEF Rest
  <2> HIDE DEF lo
  <2> QED
    BY <1>1, <1>2, <2>1, WholeTwice
<1>4. \A j \in 1..Len(S) - k : n[j] = m[j]
  BY <1>1 DEF Rest
<1> QED
  BY <1>1, <1>3, <1>4 DEF Rest

\* The next event of a set is taken.
LEMMA RestTaken ==
  ASSUME NEW m \in Seq(JobSet), m # <<>>,
         NEW S \in ReportedSets, NEW k \in 0..Len(S) - 1, Rest(m, S, k)
  PROVE  /\ Head(m) = DL_Event_ind(S[k + 1], Len(S) - k - 1)
         /\ Rest(Tail(m), S, k + 1)
<1> DEFINE n == Tail(m)
<1>1. /\ n \in Seq(JobSet) /\ Len(m) \in Nat \ {0} /\ Len(n) = Len(m) - 1
      /\ Head(m) = m[1]
      /\ \A i \in 1..Len(m) - 1 : n[i] = m[i + 1]
  BY TailOf
<1>2. Len(S) \in Nat
  BY ReportedSet
<1>3. 1 \in 1..Len(S) - k
  BY <1>2
<1>4. Head(m) = DL_Event_ind(S[k + 1], Len(S) - k - 1)
  BY <1>1, <1>3 DEF Rest
<1>5. Len(S) - (k + 1) <= Len(n)
  BY <1>1, <1>2 DEF Rest
<1>6. Whole(n, Len(S) - (k + 1) + 1)
  <2> DEFINE lo == Len(S) - (k + 1) + 1
  <2>1. lo \in Nat \ {0} /\ lo + 1 = Len(S) - k + 1
    BY <1>2
  <2>2. Whole(m, lo + 1)
    BY <2>1 DEF Rest
  <2> HIDE DEF lo
  <2>3. Whole(n, lo)
    BY <2>1, <2>2, WholeShift
  <2> QED
    BY <2>3 DEF lo
<1> HIDE DEF n
<1>7. ASSUME NEW j \in 1..Len(S) - (k + 1)
      PROVE  n[j] = DL_Event_ind(S[(k + 1) + j], Len(S) - (k + 1) - j)
  <2>1. j + 1 \in 1..Len(S) - k /\ j \in 1..Len(m) - 1
    BY <1>1, <1>2 DEF Rest
  <2>2. k + (j + 1) = (k + 1) + j /\ Len(S) - k - (j + 1) = Len(S) - (k + 1) - j
    BY <1>2
  <2>3. m[j + 1] = DL_Event_ind(S[k + (j + 1)], Len(S) - k - (j + 1))
    BY <2>1 DEF Rest
  <2>4. n[j] = m[j + 1]
    BY <1>1, <2>1
  <2> QED
    BY <2>2, <2>3, <2>4
<1>8. Rest(n, S, k + 1)
  BY <1>5, <1>6, <1>7 DEF Rest
<1> QED
  BY <1>4, <1>8 DEF n

\* A job that is not an event is not within a set.
LEMMA WholeOther ==
  ASSUME NEW m \in Seq(JobSet), m # <<>>, Head(m).type # "DL_EVENT_IND", Whole(m, 1)
  PROVE  Whole(Tail(m), 1)
<1>1. Len(m) \in Nat \ {0} /\ Head(m) = m[1]
  BY TailOf
<1>2. Whole(m, 1 + 1)
  <2> SUFFICES ASSUME NEW i \in 2..Len(m), m[i].type = "DL_EVENT_IND"
               PROVE  \E a \in 2..i, S \in EventSets :
                         i <= a + Len(S) - 1 /\ BlockAt(m, a, S)
    BY DEF Whole
  <2>1. PICK a \in 1..i, S \in EventSets : i <= a + Len(S) - 1 /\ BlockAt(m, a, S)
    BY DEF Whole
  <2>2. Len(S) \in Nat
    BY ReportedSet DEF ReportedSets
  <2>3. a # 1
    <3> SUFFICES ASSUME a = 1 PROVE FALSE
      OBVIOUS
    <3>1. 1 \in 1..Len(S) /\ a + 1 - 1 = 1
      BY <2>1, <2>2
    <3>2. m[1] = DL_Event_ind(S[1], Len(S) - 1)
      BY <2>1, <3>1 DEF BlockAt
    <3> QED
      BY <1>1, <3>2 DEF DL_Event_ind
  <2>4. a \in 2..i
    BY <2>1, <2>3
  <2> QED
    BY <2>1, <2>4
<1> QED
  BY <1>2, WholeShift

\* The first event of a whole set begins it: sets do not overlap, as an event says how
\* many are still to come.
LEMMA WholeEvent ==
  ASSUME NEW m \in Seq(JobSet), m # <<>>, Head(m).type = "DL_EVENT_IND", Whole(m, 1)
  PROVE  \E S \in EventSets : Len(S) \in Nat \ {0} /\ Rest(m, S, 0)
<1>1. Len(m) \in Nat \ {0} /\ Head(m) = m[1]
  BY TailOf
<1>2. PICK S \in EventSets : 1 <= 1 + Len(S) - 1 /\ BlockAt(m, 1, S)
  <2>1. 1 \in 1..Len(m)
    BY <1>1
  <2>2. PICK a \in 1..1, S \in EventSets : 1 <= a + Len(S) - 1 /\ BlockAt(m, a, S)
    BY <1>1, <2>1 DEF Whole
  <2>3. a = 1
    BY <2>2
  <2> QED
    BY <2>2, <2>3
<1>3. Len(S) \in Nat \ {0}
  BY <1>2, ReportedSet DEF ReportedSets
<1>4. Len(S) <= Len(m) /\ \A j \in 1..Len(S) : m[j] = DL_Event_ind(S[j], Len(S) - j)
  <2>1. 1 + Len(S) - 1 <= Len(m)
    BY <1>2 DEF BlockAt
  <2>2. ASSUME NEW j \in 1..Len(S) PROVE m[j] = DL_Event_ind(S[j], Len(S) - j)
    <3>1. 1 + j - 1 = j
      BY <1>3
    <3>2. m[1 + j - 1] = DL_Event_ind(S[j], Len(S) - j)
      BY <1>2 DEF BlockAt
    <3> QED
      BY <3>1, <3>2
  <2> QED
    BY <1>1, <1>3, <2>1, <2>2
<1>5. Whole(m, Len(S) + 1)
  <2> SUFFICES ASSUME NEW i \in Len(S) + 1 .. Len(m), m[i].type = "DL_EVENT_IND"
               PROVE  \E a \in Len(S) + 1 .. i, T \in EventSets :
                         i <= a + Len(T) - 1 /\ BlockAt(m, a, T)
    BY DEF Whole
  <2>1. i \in 1..Len(m)
    BY <1>1, <1>3
  <2>2. PICK a \in 1..i, T \in EventSets : i <= a + Len(T) - 1 /\ BlockAt(m, a, T)
    BY <2>1 DEF Whole
  <2>3. Len(T) \in Nat
    BY ReportedSet DEF ReportedSets
  <2>4. a > Len(S)
    <3> SUFFICES ASSUME a <= Len(S) PROVE FALSE
      BY <1>3, <2>2
    <3> DEFINE j == Len(S) - a + 1
    <3>1. j \in 1..Len(T) /\ a + j - 1 = Len(S) /\ Len(T) - j # 0
      BY <1>3, <2>2, <2>3
    <3> HIDE DEF j
    <3>2. m[Len(S)] = DL_Event_ind(T[j], Len(T) - j)
      BY <2>2, <3>1 DEF BlockAt
    <3>3. Len(S) \in 1..Len(S) /\ Len(S) - Len(S) = 0
      BY <1>3
    <3>4. m[Len(S)] = DL_Event_ind(S[Len(S)], 0)
      BY <1>4, <3>3
    <3>5. m[Len(S)].left = Len(T) - j /\ m[Len(S)].left = 0
      BY <3>2, <3>4 DEF DL_Event_ind
    <3> QED
      BY <3>1, <3>5
  <2>5. a \in Len(S) + 1 .. i
    BY <1>3, <2>2, <2>4
  <2> QED
    BY <2>2, <2>5
<1>6. Rest(m, S, 0)
  <2>1. /\ Len(S) - 0 = Len(S)
        /\ \A j \in 1..Len(S) : 0 + j = j
    BY <1>3
  <2> QED
    BY <1>4, <1>5, <2>1 DEF Rest
<1> QED
  BY <1>3, <1>6

\* The first event of the mailbox, when part of a set has been taken or all of it
LEMMA RestEvent ==
  ASSUME NEW m \in Seq(JobSet), m # <<>>, Head(m).type = "DL_EVENT_IND",
         NEW S \in ReportedSets, NEW k \in 0..Len(S), Rest(m, S, k)
  PROVE  \E T \in ReportedSets : \E i \in 0..Len(T) : Rest(Tail(m), T, i)
<1>1. Len(S) \in Nat
  BY ReportedSet
<1>2. CASE k < Len(S)
  <2>1. k \in 0..Len(S) - 1
    BY <1>1, <1>2
  <2>2. Rest(Tail(m), S, k + 1) /\ k + 1 \in 0..Len(S)
    BY <1>1, <2>1, RestTaken
  <2> QED
    BY <2>2
<1>3. CASE k = Len(S)
  <2>1. Whole(m, 1)
    <3>1. Len(S) - k + 1 = 1
      BY <1>1, <1>3
    <3> QED
      BY <3>1 DEF Rest
  <2>2. PICK T \in EventSets : Len(T) \in Nat \ {0} /\ Rest(m, T, 0)
    BY <2>1, WholeEvent
  <2>3. T \in ReportedSets /\ 0 \in 0..Len(T) - 1 /\ 0 + 1 \in 0..Len(T)
    BY <2>2 DEF ReportedSets
  <2>4. Rest(Tail(m), T, 0 + 1)
    BY <2>2, <2>3, RestTaken
  <2> QED
    BY <2>3, <2>4
<1> QED
  BY <1>1, <1>2, <1>3

\* Another first job comes after all of the set.
LEMMA RestOther ==
  ASSUME NEW m \in Seq(JobSet), m # <<>>, Head(m).type # "DL_EVENT_IND",
         NEW S \in ReportedSets, NEW k \in 0..Len(S), Rest(m, S, k)
  PROVE  k = Len(S) /\ Whole(Tail(m), 1) /\ Rest(Tail(m), S, k)
<1>1. Len(S) \in Nat
  BY ReportedSet
<1>2. k = Len(S)
  <2> SUFFICES ASSUME k # Len(S) PROVE FALSE
    OBVIOUS
  <2>1. k \in 0..Len(S) - 1
    BY <1>1
  <2>2. Head(m) = DL_Event_ind(S[k + 1], Len(S) - k - 1)
    BY <2>1, RestTaken
  <2> QED
    BY <2>2 DEF DL_Event_ind
<1>3. Whole(m, 1)
  <2>1. Len(S) - k + 1 = 1
    BY <1>1, <1>2
  <2> QED
    BY <2>1 DEF Rest
<1>4. Whole(Tail(m), 1)
  BY <1>3, WholeOther
<1>5. Len(S) - k = 0 /\ Len(S) - k + 1 = 1 /\ Len(Tail(m)) \in Nat
  BY <1>1, <1>2, TailOf
<1>6. Rest(Tail(m), S, k)
  <2>1. \A j \in 1..Len(S) - k : FALSE
    BY <1>5
  <2>2. Len(S) - k <= Len(Tail(m))
    BY <1>5
  <2> QED
    BY <1>4, <1>5, <2>1, <2>2 DEF Rest
<1> QED
  BY <1>2, <1>4, <1>6

-----------------------------------------------------------------------------
(* Responses in the mailbox *)

NoResponse(m) == \A i \in 1..Len(m) : m[i].type # "AL_EVENT_RSP"

OneResponse(m) ==
  \E i \in 1..Len(m) :
    /\ m[i].type = "AL_EVENT_RSP"
    /\ \A j \in 1..Len(m) : j # i => m[j].type # "AL_EVENT_RSP"

\* Jobs are posted, and no response among them.
Follows(m, n) ==
  /\ Len(m) <= Len(n)
  /\ \A i \in 1..Len(m) : n[i] = m[i]
  /\ \A i \in Len(m) + 1 .. Len(n) : n[i].type # "AL_EVENT_RSP"
  /\ Whole(n, Len(m) + 1)

LEMMA ResponseFollows ==
  ASSUME NEW m \in Seq(JobSet), NEW n \in Seq(JobSet), Follows(m, n)
  PROVE  /\ NoResponse(m) => NoResponse(n)
         /\ OneResponse(m) => OneResponse(n)
<1>1. /\ Len(m) \in Nat /\ Len(n) \in Nat /\ Len(m) <= Len(n)
      /\ \A i \in 1..Len(m) : n[i] = m[i]
      /\ \A i \in Len(m) + 1 .. Len(n) : n[i].type # "AL_EVENT_RSP"
  BY DEF Follows
<1>2. \A i \in 1..Len(n) : i \in 1..Len(m) \/ i \in Len(m) + 1 .. Len(n)
  BY <1>1
<1>3. ASSUME NoResponse(m) PROVE NoResponse(n)
  BY <1>1, <1>2, <1>3 DEF NoResponse
<1>4. ASSUME OneResponse(m) PROVE OneResponse(n)
  <2>1. PICK i \in 1..Len(m) :
           /\ m[i].type = "AL_EVENT_RSP"
           /\ \A j \in 1..Len(m) : j # i => m[j].type # "AL_EVENT_RSP"
    BY <1>4 DEF OneResponse
  <2>2. i \in 1..Len(n) /\ n[i].type = "AL_EVENT_RSP"
    BY <1>1, <2>1
  <2>3. \A j \in 1..Len(n) : j # i => n[j].type # "AL_EVENT_RSP"
    BY <1>1, <1>2, <2>1
  <2> QED
    BY <2>2, <2>3 DEF OneResponse
<1> QED
  BY <1>3, <1>4

LEMMA ResponseTaken ==
  ASSUME NEW m \in Seq(JobSet), m # <<>>
  PROVE  /\ NoResponse(m) => Head(m).type # "AL_EVENT_RSP" /\ NoResponse(Tail(m))
         /\ OneResponse(m) =>
              IF Head(m).type = "AL_EVENT_RSP" THEN NoResponse(Tail(m))
                                               ELSE OneResponse(Tail(m))
<1> DEFINE n == Tail(m)
<1>1. /\ Len(m) \in Nat \ {0} /\ Len(n) = Len(m) - 1 /\ Head(m) = m[1]
      /\ \A i \in 1..Len(m) - 1 : n[i] = m[i + 1]
  BY TailOf
<1> HIDE DEF n
<1>2. \A i \in 1..Len(n) : i + 1 \in 1..Len(m) /\ i + 1 # 1 /\ n[i] = m[i + 1]
  BY <1>1
<1>3. 1 \in 1..Len(m)
  BY <1>1
<1>4. ASSUME NoResponse(m) PROVE Head(m).type # "AL_EVENT_RSP" /\ NoResponse(n)
  BY <1>1, <1>2, <1>3, <1>4 DEF NoResponse
<1>5. ASSUME OneResponse(m), Head(m).type = "AL_EVENT_RSP" PROVE NoResponse(n)
  <2>1. PICK i \in 1..Len(m) :
           \A j \in 1..Len(m) : j # i => m[j].type # "AL_EVENT_RSP"
    BY <1>5 DEF OneResponse
  <2>2. i = 1
    BY <1>1, <1>3, <1>5, <2>1
  <2> QED
    BY <1>2, <2>1, <2>2 DEF NoResponse
<1>6. ASSUME OneResponse(m), Head(m).type # "AL_EVENT_RSP" PROVE OneResponse(n)
  <2>1. PICK i \in 1..Len(m) :
           /\ m[i].type = "AL_EVENT_RSP"
           /\ \A j \in 1..Len(m) : j # i => m[j].type # "AL_EVENT_RSP"
    BY <1>6 DEF OneResponse
  <2>2. i # 1
    BY <1>1, <1>6, <2>1
  <2> DEFINE k == i - 1
  <2>3. k \in 1..Len(n) /\ k + 1 = i
    BY <1>1, <2>1, <2>2
  <2> HIDE DEF k
  <2>4. n[k].type = "AL_EVENT_RSP"
    BY <1>2, <2>1, <2>3
  <2>5. \A j \in 1..Len(n) : j # k => j + 1 # i
    BY <1>1, <2>3
  <2>6. \A j \in 1..Len(n) : j # k => n[j].type # "AL_EVENT_RSP"
    BY <1>2, <2>1, <2>5
  <2> QED
    BY <2>3, <2>4, <2>6 DEF OneResponse
<1> QED
  BY <1>4, <1>5, <1>6 DEF n

LEMMA ResponsePosted ==
  ASSUME NEW m \in Seq(JobSet), NoResponse(m)
  PROVE  /\ Append(m, [type |-> "AL_EVENT_RSP"]) \in Seq(JobSet)
         /\ OneResponse(Append(m, [type |-> "AL_EVENT_RSP"]))
<1> DEFINE job == [type |-> "AL_EVENT_RSP"]
           n == Append(m, job)
<1>1. job \in JobSet /\ job.type = "AL_EVENT_RSP"
  BY DEF JobSet, UserJobs
<1> HIDE DEF job
<1>2. /\ n \in Seq(JobSet) /\ Len(m) \in Nat /\ Len(n) = Len(m) + 1
      /\ \A i \in 1..Len(m) : n[i] = m[i]
      /\ n[Len(m) + 1] = job
  BY <1>1
<1> HIDE DEF n
<1>3. \A j \in 1..Len(n) : j # Len(m) + 1 => j \in 1..Len(m)
  BY <1>2
<1>4. Len(m) + 1 \in 1..Len(n)
  BY <1>2
<1>5. OneResponse(n)
  BY <1>1, <1>2, <1>3, <1>4 DEF NoResponse, OneResponse
<1> QED
  BY <1>2, <1>5 DEF n, job

\* A job that is neither a response nor an event is posted.
LEMMA FollowsByOne ==
  ASSUME NEW m \in Seq(JobSet), NEW job \in JobSet,
         job.type \notin {"AL_EVENT_RSP", "DL_EVENT_IND"}
  PROVE  Append(m, job) \in Seq(JobSet) /\ Follows(m, Append(m, job))
<1> DEFINE n == Append(m, job)
<1>1. /\ n \in Seq(JobSet) /\ Len(m) \in Nat /\ Len(n) = Len(m) + 1
      /\ \A i \in 1..Len(m) : n[i] = m[i]
      /\ n[Len(m) + 1] = job
  OBVIOUS
<1> HIDE DEF n
<1>2. \A i \in Len(m) + 1 .. Len(n) : i = Len(m) + 1
  BY <1>1
<1>3. Whole(n, Len(m) + 1)
  BY <1>1, <1>2 DEF Whole
<1>4. Follows(m, n)
  BY <1>1, <1>2, <1>3 DEF Follows
<1> QED
  BY <1>1, <1>4 DEF n

LEMMA LengthensFollows ==
  ASSUME NEW m, NEW n, Lengthens(m, n) PROVE Follows(m, n)
  BY DEF Lengthens, Follows, UsersAndEvents

\* A response or an upload breaks no set.
LEMMA RestAppend ==
  ASSUME NEW m \in Seq(JobSet), NEW job \in JobSet, job.type # "DL_EVENT_IND",
         NEW S \in ReportedSets, NEW k \in 0..Len(S), Rest(m, S, k)
  PROVE  Rest(Append(m, job), S, k)
<1> DEFINE n == Append(m, job)
<1>1. /\ n \in Seq(JobSet) /\ Len(m) \in Nat /\ Len(n) = Len(m) + 1
      /\ \A i \in 1..Len(m) : n[i] = m[i]
      /\ n[Len(m) + 1] = job
  OBVIOUS
<1> HIDE DEF n
<1>2. \A i \in Len(m) + 1 .. Len(n) : i = Len(m) + 1
  BY <1>1
<1>3. Whole(n, Len(m) + 1) /\ Len(m) <= Len(n)
  BY <1>1, <1>2 DEF Whole
<1>4. Rest(n, S, k)
  BY <1>1, <1>3, RestGrows
<1> QED
  BY <1>4 DEF n

-----------------------------------------------------------------------------
(* Events collected *)

\* No event of the set has been collected.
NoneCollected(ev, m) ==
  /\ ev.state = "Event_idle" /\ ev.cnt = 0
  /\ NoResponse(m) /\ Whole(m, 1)

\* Part of the set has been collected, and the rest of it comes first.
PartCollected(ev, m) ==
  /\ ev.state = "Read_Event_Set"
  /\ NoResponse(m)
  /\ \E S \in EventSets :
       /\ ev.cnt \in 1..Len(S) - 1
       /\ \A j \in 1..ev.cnt : ev.set[j] = S[j]
       /\ Rest(m, S, ev.cnt)

\* The set has been told.  The events of others that wait before its response are
\* collected whole, to be forgotten with the response.
SetTold(ev, m) ==
  /\ ev.state = "DU_Event_handling"
  /\ OneResponse(m)
  /\ \E S \in ReportedSets : \E k \in 0..Len(S) : Rest(m, S, k)

Collecting(ev, m) == NoneCollected(ev, m) \/ PartCollected(ev, m) \/ SetTold(ev, m)

EventsOK(p) ==
  /\ p.told # <<>> => p.told \in EventSets
  /\ p.failed = "no" => Collecting(p.al.ev, p.mbox)

\* Jobs that follow change nothing.
LEMMA CollectingFollows ==
  ASSUME NEW m \in Seq(JobSet), NEW n \in Seq(JobSet), Follows(m, n),
         NEW ev, Collecting(ev, m)
  PROVE  Collecting(ev, n)
<1>1. /\ Len(m) \in Nat /\ Len(n) \in Nat /\ Len(m) <= Len(n)
      /\ \A i \in 1..Len(m) : n[i] = m[i]
      /\ Whole(n, Len(m) + 1)
  BY DEF Follows
<1>2. CASE NoneCollected(ev, m)
  <2>1. Whole(n, 1)
    <3>1. 1 \in Nat \ {0} /\ 1 <= Len(m) + 1 /\ Whole(m, 1)
      BY <1>1, <1>2 DEF NoneCollected
    <3> QED
      BY <1>1, <3>1, WholeTwice
  <2>2. NoResponse(n)
    BY <1>2, ResponseFollows DEF NoneCollected
  <2> QED
    BY <1>2, <2>1, <2>2 DEF NoneCollected, Collecting
<1>3. CASE PartCollected(ev, m)
  <2>1. PICK S \in EventSets :
           /\ ev.cnt \in 1..Len(S) - 1
           /\ \A j \in 1..ev.cnt : ev.set[j] = S[j]
           /\ Rest(m, S, ev.cnt)
    BY <1>3 DEF PartCollected
  <2>2. S \in ReportedSets /\ Len(S) \in Nat
    BY ReportedSet DEF ReportedSets
  <2>3. ev.cnt \in 0..Len(S)
    BY <2>1, <2>2
  <2>4. Rest(n, S, ev.cnt)
    BY <1>1, <2>1, <2>2, <2>3, RestGrows
  <2>5. NoResponse(n)
    BY <1>3, ResponseFollows DEF PartCollected
  <2> QED
    BY <1>3, <2>1, <2>4, <2>5 DEF PartCollected, Collecting
<1>4. CASE SetTold(ev, m)
  <2>1. PICK S \in ReportedSets : \E k \in 0..Len(S) : Rest(m, S, k)
    BY <1>4 DEF SetTold
  <2>2. PICK k \in 0..Len(S) : Rest(m, S, k)
    BY <2>1
  <2>3. Rest(n, S, k)
    BY <1>1, <2>2, RestGrows
  <2>4. OneResponse(n)
    BY <1>4, ResponseFollows DEF SetTold
  <2> QED
    BY <1>4, <2>3, <2>4 DEF SetTold, Collecting
<1> QED
  BY <1>2, <1>3, <1>4 DEF Collecting

\* Another job is taken: it does not come in the middle of a set.
LEMMA CollectingOther ==
  ASSUME NEW m \in Seq(JobSet), m # <<>>,
         Head(m).type \notin {"DL_EVENT_IND", "AL_EVENT_RSP"},
         NEW ev, Collecting(ev, m)
  PROVE  Collecting(ev, Tail(m))
<1>1. CASE NoneCollected(ev, m)
  BY <1>1, ResponseTaken, WholeOther DEF NoneCollected, Collecting
<1>2. CASE PartCollected(ev, m)
  <2>1. PICK S \in EventSets : ev.cnt \in 1..Len(S) - 1 /\ Rest(m, S, ev.cnt)
    BY <1>2 DEF PartCollected
  <2>2. S \in ReportedSets /\ Len(S) \in Nat
    BY ReportedSet DEF ReportedSets
  <2>3. ev.cnt \in 0..Len(S) /\ ev.cnt # Len(S)
    BY <2>1, <2>2
  <2>4. ev.cnt = Len(S)
    BY <2>1, <2>2, <2>3, RestOther
  <2> QED
    BY <2>3, <2>4
<1>3. CASE SetTold(ev, m)
  <2>1. PICK S \in ReportedSets : \E k \in 0..Len(S) : Rest(m, S, k)
    BY <1>3 DEF SetTold
  <2>2. PICK k \in 0..Len(S) : Rest(m, S, k)
    BY <2>1
  <2>3. Rest(Tail(m), S, k)
    BY <2>2, RestOther
  <2>4. OneResponse(Tail(m))
    BY <1>3, ResponseTaken DEF SetTold
  <2> QED
    BY <1>3, <2>3, <2>4 DEF SetTold, Collecting
<1> QED
  BY <1>1, <1>2, <1>3 DEF Collecting

\* The response is taken: the sets before it have been collected whole.
LEMMA CollectingResponse ==
  ASSUME NEW m \in Seq(JobSet), m # <<>>, Head(m).type = "AL_EVENT_RSP",
         NEW ev, Collecting(ev, m)
  PROVE  ev.state = "DU_Event_handling" /\ NoResponse(Tail(m)) /\ Whole(Tail(m), 1)
<1>1. SetTold(ev, m)
  BY ResponseTaken DEF Collecting, NoneCollected, PartCollected
<1>2. PICK S \in ReportedSets : \E k \in 0..Len(S) : Rest(m, S, k)
  BY <1>1 DEF SetTold
<1>3. PICK k \in 0..Len(S) : Rest(m, S, k)
  BY <1>2
<1>4. Whole(Tail(m), 1)
  BY <1>3, RestOther
<1> QED
  BY <1>1, <1>4, ResponseTaken DEF SetTold

\* An event is taken: it is the next one of the set.
LEMMA CollectingEvent ==
  ASSUME NEW m \in Seq(JobSet), m # <<>>, Head(m).type = "DL_EVENT_IND",
         NEW ev, Collecting(ev, m), ev.state # "DU_Event_handling"
  PROVE  /\ NoResponse(Tail(m))
         /\ \E S \in EventSets :
              /\ ev.cnt \in 0..Len(S) - 1 /\ Len(S) \in Nat
              /\ \A j \in 1..ev.cnt : ev.set[j] = S[j]
              /\ Head(m) = DL_Event_ind(S[ev.cnt + 1], Len(S) - ev.cnt - 1)
              /\ Rest(Tail(m), S, ev.cnt + 1)
<1>1. CASE NoneCollected(ev, m)
  <2>1. PICK S \in EventSets : Len(S) \in Nat \ {0} /\ Rest(m, S, 0)
    BY <1>1, WholeEvent DEF NoneCollected
  <2>2. S \in ReportedSets /\ 0 \in 0..Len(S) - 1 /\ ev.cnt = 0
    BY <1>1, <2>1 DEF ReportedSets, NoneCollected
  <2>3. /\ Head(m) = DL_Event_ind(S[ev.cnt + 1], Len(S) - ev.cnt - 1)
        /\ Rest(Tail(m), S, ev.cnt + 1)
    BY <2>1, <2>2, RestTaken
  <2>4. \A j \in 1..ev.cnt : ev.set[j] = S[j]
    BY <2>2
  <2>5. NoResponse(Tail(m))
    BY <1>1, ResponseTaken DEF NoneCollected
  <2> QED
    BY <2>1, <2>2, <2>3, <2>4, <2>5
<1>2. CASE PartCollected(ev, m)
  <2>1. PICK S \in EventSets :
           /\ ev.cnt \in 1..Len(S) - 1
           /\ \A j \in 1..ev.cnt : ev.set[j] = S[j]
           /\ Rest(m, S, ev.cnt)
    BY <1>2 DEF PartCollected
  <2>2. S \in ReportedSets /\ Len(S) \in Nat
    BY ReportedSet DEF ReportedSets
  <2>3. ev.cnt \in 0..Len(S) - 1
    BY <2>1, <2>2
  <2>4. /\ Head(m) = DL_Event_ind(S[ev.cnt + 1], Len(S) - ev.cnt - 1)
        /\ Rest(Tail(m), S, ev.cnt + 1)
    BY <2>1, <2>2, <2>3, RestTaken
  <2>5. NoResponse(Tail(m))
    BY <1>2, ResponseTaken DEF PartCollected
  <2> QED
    BY <2>1, <2>2, <2>3, <2>4, <2>5
<1> QED
  BY <1>1, <1>2 DEF Collecting, SetTold

\* What has been collected of a set, when it is all of it, is the set.
LEMMA CollectedWhole ==
  ASSUME NEW S \in EventSets,
         NEW set \in [1..MaxEvents -> Kinds \union {"none"}],
         \A j \in 1..Len(S) : set[j] = S[j]
  PROVE  SubSeq(set, 1, Len(S)) = S
<1>1. S \in Seq(Kinds) /\ Len(S) \in Nat /\ Len(S) <= MaxEvents /\ DOMAIN S = 1..Len(S)
  BY ReportedSet DEF ReportedSets
<1>2. MaxEvents \in Nat
  BY DEF MaxEvents
<1> DEFINE t == SubSeq(set, 1, Len(S))
<1>3. t = [i \in 1..Len(S) |-> set[i]]
  <2>1. t = [i \in 1..(1 + Len(S) - 1) |-> set[i + 1 - 1]]
    BY <1>1, <1>2
  <2> QED
    BY <1>1, <2>1
<1>4. S = [i \in 1..Len(S) |-> S[i]]
  BY <1>1
<1> QED
  BY <1>3, <1>4

LEMMA CollectingLengthens ==
  ASSUME NEW p, PortOK(p), NEW q, PortOK(q), Lengthens(p.mbox, q.mbox), q.told = p.told,
         q.al.ev = p.al.ev, p.told # <<>> => p.told \in EventSets,
         Collecting(p.al.ev, p.mbox)
  PROVE  EventsOK(q)
<1>1. p.mbox \in Seq(JobSet) /\ q.mbox \in Seq(JobSet)
  BY DEF PortOK
<1>2. Follows(p.mbox, q.mbox)
  BY LengthensFollows
<1> QED
  BY <1>1, <1>2, CollectingFollows DEF EventsOK

\* Requests, and jobs that have nothing to do with events
LEMMA OthersEvents ==
  ASSUME NEW p, PortOK(p), p.failed = "no", EventsOK(p),
         NEW q, Calm(p, q) \/ Executed(p, q) \/ Asks(p, q) \/ Talks(p, q)
  PROVE  EventsOK(q)
<1>1. /\ p.told # <<>> => p.told \in EventSets
      /\ Collecting(p.al.ev, p.mbox)
      /\ p.mbox \in Seq(JobSet)
  BY DEF EventsOK, PortOK
<1>2. CASE Calm(p, q)
  BY <1>1, <1>2, CollectingLengthens DEF Calm
<1>3. CASE Asks(p, q)
  <2>1. PICK job \in JobSet : job.type = "SMI_DEVICE_RW" /\ q.mbox = Append(p.mbox, job)
    BY <1>3 DEF Asks
  <2>2. q.told = p.told /\ q.al = p.al
    BY <1>3 DEF Asks
  <2>3. q.mbox \in Seq(JobSet) /\ Follows(p.mbox, q.mbox)
    BY <1>1, <2>1, FollowsByOne
  <2>4. Collecting(p.al.ev, q.mbox)
    BY <1>1, <2>3, CollectingFollows
  <2> QED
    BY <1>1, <2>2, <2>4 DEF EventsOK
<1>4. CASE Executed(p, q) \/ Talks(p, q)
  <2> DEFINE t == Taken(p)
  <2>1. /\ p.mbox # <<>>
        /\ Head(p.mbox).type \notin {"DL_EVENT_IND", "AL_EVENT_RSP"}
        /\ Calm(t, q) \/ OdStep(t, q)
    BY <1>4 DEF Executed, Spoken, Talks, Looks, Answers, Starts, Stops
  <2>2. PortOK(t) /\ t.mbox = Tail(p.mbox) /\ t.told = p.told /\ t.al = p.al
    BY <2>1, TakenOK
  <2> HIDE DEF t
  <2>3. Collecting(t.al.ev, t.mbox)
    BY <1>1, <2>1, <2>2, CollectingOther
  <2>4. /\ PortOK(q) /\ Lengthens(t.mbox, q.mbox) /\ q.told = t.told
        /\ q.al.ev = t.al.ev
    BY <2>1 DEF Calm, OdStep
  <2> QED
    BY <1>1, <2>2, <2>3, <2>4, CollectingLengthens
<1> QED
  BY <1>2, <1>3, <1>4

\* The application responds.
LEMMA RespondsEvents ==
  ASSUME NEW p, PortOK(p), p.failed = "no", EventsOK(p), NEW q, Responds(p, q)
  PROVE  EventsOK(q)
<1>1. /\ p.told # <<>> => p.told \in EventSets
      /\ Collecting(p.al.ev, p.mbox)
      /\ p.mbox \in Seq(JobSet)
  BY DEF EventsOK, PortOK
<1>2. p.mbox # <<>> /\ Head(p.mbox).type = "AL_EVENT_RSP"
  BY DEF Responds
<1>3. /\ p.al.ev.state = "DU_Event_handling"
      /\ NoResponse(Tail(p.mbox)) /\ Whole(Tail(p.mbox), 1)
  BY <1>1, <1>2, CollectingResponse
<1>4. /\ q.al.ev.state = "Event_idle" /\ q.al.ev.cnt = 0
      /\ q.mbox = Tail(p.mbox) /\ q.told = p.told
  BY <1>3 DEF Responds
<1> QED
  BY <1>1, <1>3, <1>4 DEF EventsOK, Collecting, NoneCollected

\* An event is collected: the last one, and the application is told the set or data
\* storage uploads the parameters
LEMMA LastEvent ==
  ASSUME NEW m \in Seq(JobSet), NoResponse(m),
         NEW S \in EventSets, Rest(m, S, Len(S)),
         NEW ev, ev.state = "DU_Event_handling",
         NEW n, n = Append(m, [type |-> "AL_EVENT_RSP"])
                \/ n = Append(Append(m, [type |-> "AL_EVENT_RSP"]), [type |-> "DS_UPLOAD"])
  PROVE  Collecting(ev, n)
<1> DEFINE response == [type |-> "AL_EVENT_RSP"]
           upload == [type |-> "DS_UPLOAD"]
           r == Append(m, response)
<1>1. response \in JobSet /\ response.type = "AL_EVENT_RSP"
  BY DEF JobSet, UserJobs
<1>2. upload \in JobSet /\ upload.type = "DS_UPLOAD"
  BY DEF JobSet, QuietJobs
<1>3. r \in Seq(JobSet) /\ OneResponse(r)
  BY ResponsePosted
<1>4. S \in ReportedSets /\ Len(S) \in 0..Len(S)
  BY ReportedSet DEF ReportedSets
<1>5. Rest(r, S, Len(S))
  <2> HIDE DEF response
  <2> QED
    BY <1>1, <1>4, RestAppend
<1>6. n = r \/ n = Append(r, upload)
  OBVIOUS
<1> HIDE DEF r, response, upload
<1>7. CASE n = r
  BY <1>3, <1>4, <1>5, <1>7 DEF SetTold, Collecting
<1>8. CASE n = Append(r, upload)
  <2>1. n \in Seq(JobSet) /\ Follows(r, n)
    BY <1>2, <1>3, <1>8, FollowsByOne
  <2>2. OneResponse(n)
    BY <1>3, <2>1, ResponseFollows
  <2>3. Rest(n, S, Len(S))
    BY <1>2, <1>3, <1>4, <1>5, <1>8, RestAppend
  <2> QED
    BY <1>4, <2>2, <2>3 DEF SetTold, Collecting
<1> QED
  BY <1>6, <1>7, <1>8

\* What is collected of a set
LEMMA OneMoreEvent ==
  ASSUME NEW p, PortOK(p), p.al.ev.cnt < MaxEvents, NEW job,
         NEW S, Len(S) \in Nat, p.al.ev.cnt \in 0..Len(S) - 1,
         \A j \in 1..p.al.ev.cnt : p.al.ev.set[j] = S[j],
         job.event = S[p.al.ev.cnt + 1]
  PROVE  LET c == Collected(p, job) IN
         /\ c.cnt = p.al.ev.cnt + 1 /\ c.cnt \in 1..Len(S)
         /\ \A j \in 1..c.cnt : c.set[j] = S[j]
<1> DEFINE c == Collected(p, job)
           k == p.al.ev.cnt
           old == p.al.ev.set
<1>1. /\ DOMAIN p.al.ev = {"state", "cnt", "set"} /\ MaxEvents \in Nat
      /\ k \in 0..MaxEvents
      /\ old \in [1..MaxEvents -> Kinds \union {"none"}]
  BY DEF PortOK, AlOK, MaxEvents
<1>2. c.cnt = k + 1 /\ c.set = [old EXCEPT ![k + 1] = job.event]
  BY <1>1 DEF Collected
<1>3. k + 1 \in 1..MaxEvents /\ k + 1 \in 1..Len(S)
  BY <1>1
<1> HIDE DEF c, k, old
<1>4. ASSUME NEW j \in 1..k + 1 PROVE c.set[j] = S[j]
  <2>1. CASE j = k + 1
    BY <1>1, <1>2, <1>3, <2>1 DEF k
  <2>2. CASE j # k + 1
    <3>1. j \in 1..k /\ j \in 1..MaxEvents
      BY <1>1, <1>3, <2>2 DEF k
    <3>2. c.set[j] = old[j]
      BY <1>1, <1>2, <2>2, <3>1
    <3> QED
      BY <3>1, <3>2 DEF k, old
  <2> QED
    BY <2>1, <2>2
<1> QED
  BY <1>2, <1>3, <1>4 DEF c, k

\* An event is collected.
LEMMA CollectsEvents ==
  ASSUME NEW p, PortOK(p), p.failed = "no", EventsOK(p), NEW q, Collects(p, q)
  PROVE  EventsOK(q)
<1> DEFINE ev == p.al.ev
           job == Head(p.mbox)
           c == Collected(p, job)
           rest == Tail(p.mbox)
           response == Append(rest, [type |-> "AL_EVENT_RSP"])
<1>1. /\ p.told # <<>> => p.told \in EventSets
      /\ Collecting(ev, p.mbox)
      /\ p.mbox \in Seq(JobSet)
  BY DEF EventsOK, PortOK
<1>2. p.mbox # <<>> /\ job.type = "DL_EVENT_IND" /\ PortOK(q)
  BY DEF Collects
<1>3. rest \in Seq(JobSet)
  BY <1>1, <1>2
<1>4. CASE q.failed # "no" /\ q.told = p.told
  BY <1>1, <1>4 DEF EventsOK
<1>5. CASE /\ ev.state = "DU_Event_handling" /\ q.al.ev.state = "DU_Event_handling"
           /\ q.mbox = rest /\ q.told = p.told
  <2>1. SetTold(ev, p.mbox)
    BY <1>1, <1>5 DEF Collecting, NoneCollected, PartCollected
  <2>2. PICK S \in ReportedSets : \E k \in 0..Len(S) : Rest(p.mbox, S, k)
    BY <2>1 DEF SetTold
  <2>3. PICK k \in 0..Len(S) : Rest(p.mbox, S, k)
    BY <2>2
  <2>4. \E T \in ReportedSets : \E i \in 0..Len(T) : Rest(rest, T, i)
    BY <1>1, <1>2, <2>3, RestEvent
  <2>5. OneResponse(rest)
    BY <1>1, <1>2, <2>1, ResponseTaken DEF SetTold
  <2> QED
    BY <1>1, <1>5, <2>4, <2>5 DEF EventsOK, Collecting, SetTold
<1>6. ASSUME ev.state # "DU_Event_handling", ev.cnt < MaxEvents,
             q.al.ev.cnt = c.cnt, q.al.ev.set = c.set,
             \/ /\ q.al.ev.state = "Read_Event_Set" /\ job.left > 0
                /\ q.mbox = rest /\ q.told = p.told
             \/ /\ q.al.ev.state = "DU_Event_handling" /\ job.left = 0
                /\ \/ q.mbox = response /\ q.told = SubSeq(c.set, 1, c.cnt)
                   \/ q.mbox = Append(response, [type |-> "DS_UPLOAD"]) /\ q.told = p.told
      PROVE  EventsOK(q)
  <2>1. /\ NoResponse(rest)
        /\ \E S \in EventSets :
             /\ ev.cnt \in 0..Len(S) - 1 /\ Len(S) \in Nat
             /\ \A j \in 1..ev.cnt : ev.set[j] = S[j]
             /\ job = DL_Event_ind(S[ev.cnt + 1], Len(S) - ev.cnt - 1)
             /\ Rest(rest, S, ev.cnt + 1)
    BY <1>1, <1>2, <1>6, CollectingEvent
  <2>2. PICK S \in EventSets :
           /\ ev.cnt \in 0..Len(S) - 1 /\ Len(S) \in Nat
           /\ \A j \in 1..ev.cnt : ev.set[j] = S[j]
           /\ job = DL_Event_ind(S[ev.cnt + 1], Len(S) - ev.cnt - 1)
           /\ Rest(rest, S, ev.cnt + 1)
    BY <2>1
  <2>3. job.event = S[ev.cnt + 1] /\ job.left = Len(S) - ev.cnt - 1
    <3> HIDE DEF job, rest, ev
    <3> QED
      BY <2>2 DEF DL_Event_ind
  <2>4. /\ c.cnt = ev.cnt + 1 /\ c.cnt \in 1..Len(S)
        /\ \A j \in 1..c.cnt : c.set[j] = S[j]
    <3>1. /\ ev.cnt < MaxEvents
          /\ ev.cnt \in 0..Len(S) - 1 /\ Len(S) \in Nat
          /\ \A j \in 1..ev.cnt : ev.set[j] = S[j]
          /\ job.event = S[ev.cnt + 1]
      BY <1>6, <2>2, <2>3
    <3> HIDE DEF job
    <3> QED
      BY ONLY PortOK(p), <3>1, OneMoreEvent
  <2>5. Rest(rest, S, c.cnt) /\ job.left = Len(S) - c.cnt
    BY <2>2, <2>3, <2>4
  <2>6. c.set \in [1..MaxEvents -> Kinds \union {"none"}]
    BY <1>2, <1>6 DEF PortOK, AlOK
  <2> HIDE DEF c, job, rest, ev
  <2>7. CASE job.left > 0 /\ q.al.ev.state = "Read_Event_Set" /\ q.mbox = rest
             /\ q.told = p.told
    <3>1. Len(S) \in Nat /\ c.cnt \in 1..Len(S) /\ Len(S) - c.cnt > 0
      BY <2>2, <2>4, <2>5, <2>7
    <3>2. c.cnt \in 1..Len(S) - 1
      BY <3>1
    <3>3. PartCollected(q.al.ev, rest)
      BY <1>6, <2>1, <2>4, <2>5, <2>7, <3>2 DEF PartCollected
    <3> QED
      BY <1>1, <2>7, <3>3 DEF EventsOK, Collecting
  <2>8. CASE /\ q.al.ev.state = "DU_Event_handling" /\ job.left = 0
             /\ \/ q.mbox = response /\ q.told = SubSeq(c.set, 1, c.cnt)
                \/ q.mbox = Append(response, [type |-> "DS_UPLOAD"]) /\ q.told = p.told
    <3>1. c.cnt = Len(S)
      BY <2>2, <2>4, <2>5, <2>8
    <3>2. SubSeq(c.set, 1, c.cnt) = S
      BY <2>4, <2>6, <3>1, CollectedWhole
    <3>3. Rest(rest, S, Len(S))
      BY <2>5, <3>1
    <3>4. Collecting(q.al.ev, q.mbox)
      BY <1>3, <2>1, <2>8, <3>3, LastEvent
    <3>5. q.told # <<>> => q.told \in EventSets
      BY <1>1, <2>8, <3>2
    <3> QED
      BY <3>4, <3>5 DEF EventsOK
  <2> QED
    BY <1>6, <2>7, <2>8
<1> QED
  BY <1>4, <1>5, <1>6 DEF Collects

\* What the application is told is a set as the device has reported it, in any
\* interleaving of the threads, however many jobs wait and however the device and the line
\* behave.
THEOREM StackEvents == Spec => []EventSetsAreWhole
<1>1. Init => EventsOK(Port)
  <2> SUFFICES ASSUME Init PROVE EventsOK(Port)
    OBVIOUS
  <2>1. Port.told = <<>> /\ Port.mbox = <<>> /\ Port.al = InitApplicationLayer
    BY PortVariables DEF Init
  <2>2. Port.al.ev.state = "Event_idle" /\ Port.al.ev.cnt = 0
    BY <2>1 DEF InitApplicationLayer
  <2>3. NoResponse(Port.mbox) /\ Whole(Port.mbox, 1)
    BY <2>1 DEF NoResponse, Whole
  <2> QED
    BY <2>1, <2>2, <2>3 DEF EventsOK, Collecting, NoneCollected
<1>2. ASSUME StackInv, EventsOK(Port), [Next]_vars PROVE EventsOK(Port)'
  <2>1. StackOK /\ PortOK(Port)
    BY <1>2 DEF StackInv, StackOK
  <2>2. CASE Next
    <3>1. /\ Running
          /\ \/ Calm(Port, Port') \/ Executed(Port, Port') \/ Asks(Port, Port')
             \/ Talks(Port, Port') \/ Collects(Port, Port') \/ Responds(Port, Port')
      BY <2>1, <2>2, Steps
    <3>2. Port.failed = "no"
      BY <3>1, PortVariables DEF Running
    <3>3. EventsOK(Port')
      BY <1>2, <2>1, <3>1, <3>2, OthersEvents, RespondsEvents, CollectsEvents
    <3> QED
      BY <3>3 DEF EventsOK
  <2>3. CASE UNCHANGED vars
    <3>1. Port' = Port
      BY <2>3 DEF vars, Port
    <3> QED
      BY <1>2, <3>1 DEF EventsOK
  <2> QED
    BY <1>2, <2>2, <2>3
<1>3. ASSUME EventsOK(Port) PROVE EventSetsAreWhole
  BY <1>3, PortVariables DEF EventsOK, EventSetsAreWhole
<1> QED
  BY <1>1, <1>2, <1>3, StackInvariant, PTL DEF Spec

-----------------------------------------------------------------------------
(* The jobs that wait for data storage, and those by which it reports *)

\* None waits.
Bare(m) == \A i \in 1..Len(m) : m[i].type \notin StorageJobs

\* Only those by which it is told of a configuration do.
OnlyOrders(m) == \A i \in 1..Len(m) : m[i].type \in StorageJobs => m[i].type \in Orders

\* Data storage is to be started, after it has been told of the configuration.
StartupLast(m) ==
  \E k \in 1..Len(m) :
    /\ m[k].type = "DS_STARTUP"
    /\ \A i \in 1..Len(m) :
         i # k /\ m[i].type \in StorageJobs => i < k /\ m[i].type \in Orders

\* It has reported that it is done, or a fault.
ReportAlone(m) ==
  \E k \in 1..Len(m) :
    /\ m[k].type \in {"DS_READY", "DS_FAULT"}
    /\ \A i \in 1..Len(m) : i # k => m[i].type \notin StorageJobs

\* It has been told of everything; or the last it will be told is this configuration.
NoOrders(m) == \A i \in 1..Len(m) : m[i].type \notin Orders

Renewed(m, config) ==
  \E k \in 1..Len(m) :
    /\ m[k] = [type |-> "DS_INIT", config |-> config]
    /\ \A i \in 1..Len(m) : i > k => m[i].type \notin Orders

Waits(m, type) == \E i \in 1..Len(m) : m[i].type = type

\* As far as data storage is concerned the jobs of n are those of m.
Alike(m, n) ==
  /\ Bare(m) => Bare(n)
  /\ OnlyOrders(m) => OnlyOrders(n)
  /\ StartupLast(m) => StartupLast(n)
  /\ ReportAlone(m) => ReportAlone(n)
  /\ NoOrders(m) => NoOrders(n)
  /\ \A config : Renewed(m, config) => Renewed(n, config)
  /\ \A type \in StorageJobs : Waits(m, type) <=> Waits(n, type)

\* Other jobs are posted.
LEMMA AlikeApart ==
  ASSUME NEW m \in Seq(JobSet), NEW n \in Seq(JobSet), Kept(m, n), Apart(m, n)
  PROVE  Alike(m, n)
<1>1. /\ Len(m) \in Nat /\ Len(n) \in Nat /\ Len(m) <= Len(n)
      /\ \A i \in 1..Len(m) : i \in 1..Len(n) /\ n[i] = m[i]
      /\ \A i \in 1..Len(n) : n[i].type \in StorageJobs => i \in 1..Len(m)
  BY DEF Kept, Apart
<1>2. Orders \subseteq StorageJobs /\ {"DS_STARTUP", "DS_READY", "DS_FAULT"} \subseteq StorageJobs
  BY DEF Orders, StorageJobs
<1>3. (Bare(m) => Bare(n)) /\ (OnlyOrders(m) => OnlyOrders(n)) /\ (NoOrders(m) => NoOrders(n))
  BY <1>1, <1>2 DEF Bare, OnlyOrders, NoOrders
<1>4. ASSUME StartupLast(m) PROVE StartupLast(n)
  <2>1. PICK k \in 1..Len(m) :
           /\ m[k].type = "DS_STARTUP"
           /\ \A i \in 1..Len(m) :
                i # k /\ m[i].type \in StorageJobs => i < k /\ m[i].type \in Orders
    BY <1>4 DEF StartupLast
  <2>2. k \in 1..Len(n) /\ n[k].type = "DS_STARTUP"
    BY <1>1, <2>1
  <2>3. \A i \in 1..Len(n) : i # k /\ n[i].type \in StorageJobs => i < k /\ n[i].type \in Orders
    BY <1>1, <2>1
  <2> QED
    BY <2>2, <2>3 DEF StartupLast
<1>5. ASSUME ReportAlone(m) PROVE ReportAlone(n)
  <2>1. PICK k \in 1..Len(m) :
           /\ m[k].type \in {"DS_READY", "DS_FAULT"}
           /\ \A i \in 1..Len(m) : i # k => m[i].type \notin StorageJobs
    BY <1>5 DEF ReportAlone
  <2>2. k \in 1..Len(n) /\ n[k].type \in {"DS_READY", "DS_FAULT"}
    BY <1>1, <2>1
  <2>3. \A i \in 1..Len(n) : i # k => n[i].type \notin StorageJobs
    BY <1>1, <2>1
  <2> QED
    BY <2>2, <2>3 DEF ReportAlone
<1>6. ASSUME NEW config, Renewed(m, config) PROVE Renewed(n, config)
  <2>1. PICK k \in 1..Len(m) :
           /\ m[k] = [type |-> "DS_INIT", config |-> config]
           /\ \A i \in 1..Len(m) : i > k => m[i].type \notin Orders
    BY <1>6 DEF Renewed
  <2>2. k \in 1..Len(n) /\ n[k] = [type |-> "DS_INIT", config |-> config]
    BY <1>1, <2>1
  <2>3. \A i \in 1..Len(n) : i > k => n[i].type \notin Orders
    BY <1>1, <1>2, <2>1
  <2> QED
    BY <2>2, <2>3 DEF Renewed
<1>7. ASSUME NEW type \in StorageJobs PROVE Waits(m, type) <=> Waits(n, type)
  BY <1>1 DEF Waits
<1> QED
  BY <1>3, <1>4, <1>5, <1>6, <1>7 DEF Alike

\* The first job is taken, and the rest are those that follow it.
LEMMA TailJobs ==
  ASSUME NEW m \in Seq(JobSet), m # <<>>
  PROVE  LET n == Tail(m) IN
         /\ n \in Seq(JobSet) /\ Len(n) \in Nat /\ Len(m) = Len(n) + 1 /\ m[1] = Head(m)
         /\ \A i \in 1..Len(n) : i + 1 \in 1..Len(m) /\ n[i] = m[i + 1]
         /\ \A i \in 1..Len(m) : i = 1 \/ \E j \in 1..Len(n) : i = j + 1
<1>1. /\ Tail(m) \in Seq(JobSet) /\ Len(m) \in Nat \ {0} /\ Len(Tail(m)) = Len(m) - 1
      /\ \A i \in 1..Len(m) - 1 : Tail(m)[i] = m[i + 1]
      /\ Head(m) = m[1]
  OBVIOUS
<1>2. ASSUME NEW i \in 1..Len(m), i # 1 PROVE \E j \in 1..Len(Tail(m)) : i = j + 1
  <2>1. i - 1 \in 1..Len(Tail(m)) /\ i = (i - 1) + 1
    BY <1>1, <1>2
  <2> QED
    BY <2>1
<1> QED
  BY <1>1, <1>2

LEMMA WaitsTail ==
  ASSUME NEW m \in Seq(JobSet), m # <<>>, NEW type
  PROVE  Waits(m, type) <=> Head(m).type = type \/ Waits(Tail(m), type)
<1> DEFINE n == Tail(m)
<1>1. /\ m[1] = Head(m) /\ 1 \in 1..Len(m)
      /\ \A i \in 1..Len(n) : i + 1 \in 1..Len(m) /\ n[i] = m[i + 1]
      /\ \A i \in 1..Len(m) : i = 1 \/ \E j \in 1..Len(n) : i = j + 1
  BY TailJobs
<1> HIDE DEF n
<1>2. ASSUME Waits(m, type) PROVE Head(m).type = type \/ Waits(n, type)
  <2>1. PICK i \in 1..Len(m) : m[i].type = type
    BY <1>2 DEF Waits
  <2>2. CASE i = 1
    BY <1>1, <2>1, <2>2
  <2>3. ASSUME NEW j \in 1..Len(n), i = j + 1 PROVE Waits(n, type)
    <3>1. n[j].type = type
      BY <1>1, <2>1, <2>3
    <3> QED
      BY <3>1 DEF Waits
  <2> QED
    BY <1>1, <2>2, <2>3
<1>3. ASSUME Head(m).type = type PROVE Waits(m, type)
  BY <1>1, <1>3 DEF Waits
<1>4. ASSUME Waits(n, type) PROVE Waits(m, type)
  <2>1. PICK j \in 1..Len(n) : n[j].type = type
    BY <1>4 DEF Waits
  <2>2. j + 1 \in 1..Len(m) /\ m[j + 1].type = type
    BY <1>1, <2>1
  <2> QED
    BY <2>2 DEF Waits
<1> QED
  BY <1>2, <1>3, <1>4 DEF n

LEMMA AlikeTail ==
  ASSUME NEW m \in Seq(JobSet), m # <<>>, Head(m).type \notin StorageJobs
  PROVE  Alike(m, Tail(m))
<1> DEFINE n == Tail(m)
<1>1. /\ Len(n) \in Nat /\ Len(m) = Len(n) + 1 /\ m[1].type \notin StorageJobs
      /\ \A i \in 1..Len(n) : i + 1 \in 1..Len(m) /\ n[i] = m[i + 1]
      /\ \A i \in 1..Len(m) : i = 1 \/ \E j \in 1..Len(n) : i = j + 1
  BY TailJobs
<1> HIDE DEF n
<1>2. Orders \subseteq StorageJobs /\ {"DS_STARTUP", "DS_READY", "DS_FAULT"} \subseteq StorageJobs
  BY DEF Orders, StorageJobs
<1>3. (Bare(m) => Bare(n)) /\ (OnlyOrders(m) => OnlyOrders(n)) /\ (NoOrders(m) => NoOrders(n))
  BY <1>1 DEF Bare, OnlyOrders, NoOrders
<1>4. ASSUME StartupLast(m) PROVE StartupLast(n)
  <2>1. PICK k \in 1..Len(m) :
           /\ m[k].type = "DS_STARTUP"
           /\ \A i \in 1..Len(m) :
                i # k /\ m[i].type \in StorageJobs => i < k /\ m[i].type \in Orders
    BY <1>4 DEF StartupLast
  <2>2. PICK h \in 1..Len(n) : k = h + 1
    BY <1>1, <1>2, <2>1
  <2>3. n[h].type = "DS_STARTUP"
    BY <1>1, <2>1, <2>2
  <2>4. ASSUME NEW i \in 1..Len(n), i # h, n[i].type \in StorageJobs
        PROVE  i < h /\ n[i].type \in Orders
    <3>1. i + 1 \in 1..Len(m) /\ n[i] = m[i + 1] /\ i + 1 # k
      BY <1>1, <2>2, <2>4
    <3>2. i + 1 < k /\ m[i + 1].type \in Orders
      BY <2>1, <2>4, <3>1
    <3> QED
      BY <2>2, <3>1, <3>2
  <2> QED
    BY <2>3, <2>4 DEF StartupLast
<1>5. ASSUME ReportAlone(m) PROVE ReportAlone(n)
  <2>1. PICK k \in 1..Len(m) :
           /\ m[k].type \in {"DS_READY", "DS_FAULT"}
           /\ \A i \in 1..Len(m) : i # k => m[i].type \notin StorageJobs
    BY <1>5 DEF ReportAlone
  <2>2. PICK h \in 1..Len(n) : k = h + 1
    BY <1>1, <1>2, <2>1
  <2>3. n[h].type \in {"DS_READY", "DS_FAULT"}
    BY <1>1, <2>1, <2>2
  <2>4. \A i \in 1..Len(n) : i # h => n[i].type \notin StorageJobs
    BY <1>1, <2>1, <2>2
  <2> QED
    BY <2>3, <2>4 DEF ReportAlone
<1>6. ASSUME NEW config, Renewed(m, config) PROVE Renewed(n, config)
  <2>1. PICK k \in 1..Len(m) :
           /\ m[k] = [type |-> "DS_INIT", config |-> config]
           /\ \A i \in 1..Len(m) : i > k => m[i].type \notin Orders
    BY <1>6 DEF Renewed
  <2>2. PICK h \in 1..Len(n) : k = h + 1
    <3>1. m[k].type = "DS_INIT"
      BY <2>1
    <3>2. "DS_INIT" \in StorageJobs
      BY DEF StorageJobs
    <3> QED
      BY <1>1, <3>1, <3>2
  <2>3. n[h] = [type |-> "DS_INIT", config |-> config]
    BY <1>1, <2>1, <2>2
  <2>4. \A i \in 1..Len(n) : i > h => n[i].type \notin Orders
    BY <1>1, <2>1, <2>2
  <2> QED
    BY <2>3, <2>4 DEF Renewed
<1>7. ASSUME NEW type \in StorageJobs PROVE Waits(m, type) <=> Waits(n, type)
  <2>1. Waits(m, type) <=> Head(m).type = type \/ Waits(n, type)
    BY WaitsTail DEF n
  <2> QED
    BY <2>1
<1> QED
  BY <1>3, <1>4, <1>5, <1>6, <1>7 DEF Alike, n

-----------------------------------------------------------------------------
(* The configuration manager and data storage *)

\* When the configuration manager waits for data storage, it is to be started, is at work, or
\* has reported; otherwise it is at rest, and has at most orders before it.  None is left when
\* the port becomes active.
Phase(c, d, m) ==
  \/ c.state = "DS_ParamManager" /\ Bare(m)
  \/ c.state = "DS_ParamManager" /\ AtRest(d) /\ StartupLast(m)
  \/ c.state = "DS_ParamManager" /\ AtRest(d) /\ ReportAlone(m)
  \/ /\ c.state # "DS_ParamManager" /\ AtRest(d) /\ OnlyOrders(m)
     /\ c.state \in {"WaitingOnOperate", "Port_Active"} => Bare(m)

\* The port is starting, or has started, with a backup of the parameters.
Backup(c) ==
  /\ c.state \in {"SM_Startup", "DS_ParamManager", "WaitingOnOperate", "Port_Active"}
  /\ c.config.mode = "CFGCOM" /\ c.config.check = "V11_BAK_RESTORE"

\* Then data storage is about to be told of the configuration, or has been; and a set of
\* another device is about to be deleted.
Prepared(c, d, m) ==
  Backup(c) =>
    /\ \/ Renewed(m, c.config)
       \/ NoOrders(m) /\ d.pending = "configured" /\ d.state # "Off"
    /\ d.valid /\ d.id # "configured" => Waits(m, "DS_DELETE")

\* It says that it is done, and the port goes on, with a set of the device configured only.
Backed(c, d, m) ==
  Backup(c) /\ (Waits(m, "DS_READY") \/ c.state \in {"WaitingOnOperate", "Port_Active"}) =>
    d.valid /\ d.id = "configured"

StorageOK(c, d, m) ==
  /\ Phase(c, d, m)
  /\ HoldsSet(d.state, "NONE") => d.valid
  /\ Prepared(c, d, m)
  /\ Backed(c, d, m)

LEMMA StorageAlike ==
  ASSUME NEW c, NEW d, NEW m, StorageOK(c, d, m),
         NEW e, e.state = c.state, e.config = c.config, NEW n, Alike(m, n)
  PROVE  StorageOK(e, d, n)
<1>1. {"DS_READY", "DS_DELETE"} \subseteq StorageJobs
  BY DEF StorageJobs
<1>2. Phase(e, d, n)
  BY DEF StorageOK, Phase, Alike
<1>3. Backup(e) <=> Backup(c)
  BY DEF Backup
<1>4. Prepared(e, d, n)
  BY <1>1, <1>3 DEF StorageOK, Prepared, Alike
<1>5. Backed(e, d, n)
  BY <1>1, <1>3 DEF StorageOK, Backed, Alike
<1> QED
  BY <1>2, <1>4, <1>5 DEF StorageOK

\* While no job for or by data storage waits, what is stored is of the device configured.
LEMMA BareStorage ==
  ASSUME NEW c, NEW d, NEW m, StorageOK(c, d, m), Bare(m)
  PROVE  /\ Backup(c) => d.pending = "configured" /\ d.state # "Off"
         /\ Backup(c) /\ d.valid => d.id = "configured"
         /\ NoOrders(m) /\ \A type \in StorageJobs : ~Waits(m, type)
<1>1. "DS_INIT" \in StorageJobs /\ "DS_DELETE" \in StorageJobs /\ Orders \subseteq StorageJobs
  BY DEF StorageJobs, Orders
<1>2. NoOrders(m) /\ \A type \in StorageJobs : ~Waits(m, type)
  BY <1>1 DEF Bare, NoOrders, Waits
<1>3. ~Renewed(m, c.config)
  <2> SUFFICES ASSUME Renewed(m, c.config) PROVE FALSE
    OBVIOUS
  <2>1. PICK k \in 1..Len(m) : m[k] = [type |-> "DS_INIT", config |-> c.config]
    BY DEF Renewed
  <2>2. m[k].type = "DS_INIT"
    BY <2>1
  <2> QED
    BY <1>1, <2>2 DEF Bare
<1> QED
  BY <1>1, <1>2, <1>3 DEF StorageOK, Prepared

\* One job more, of data storage or for it
LEMMA OneMoreAlone ==
  ASSUME NEW m \in Seq(JobSet), NEW n \in Seq(JobSet), Kept(m, n), NEW type \in StorageJobs,
         OneMore(m, n, type)
  PROVE  /\ Bare(m) /\ type \in {"DS_READY", "DS_FAULT"} => ReportAlone(n)
         /\ OnlyOrders(m) /\ type = "DS_STARTUP" => StartupLast(n)
         /\ type \notin Orders /\ NoOrders(m) => NoOrders(n)
         /\ type \notin Orders => \A config : Renewed(m, config) => Renewed(n, config)
         /\ Waits(m, "DS_DELETE") => Waits(n, "DS_DELETE")
         /\ type # "DS_READY" /\ ~Waits(m, "DS_READY") => ~Waits(n, "DS_READY")
<1>1. PICK k \in Len(m) + 1 .. Len(n) :
         /\ n[k].type = type
         /\ \A i \in Len(m) + 1 .. Len(n) : i # k => n[i].type \notin StorageJobs
  BY DEF OneMore
<1>2. /\ Len(m) \in Nat /\ Len(n) \in Nat /\ k \in 1..Len(n)
      /\ \A i \in 1..Len(m) : i \in 1..Len(n) /\ n[i] = m[i] /\ i < k
      /\ \A i \in 1..Len(n) : i # k => i \in 1..Len(m) \/ n[i].type \notin StorageJobs
  BY <1>1 DEF Kept
<1>3. Orders \subseteq StorageJobs /\ "DS_READY" \in StorageJobs
  BY DEF Orders, StorageJobs
<1>4. ASSUME Bare(m), type \in {"DS_READY", "DS_FAULT"} PROVE ReportAlone(n)
  <2>1. \A i \in 1..Len(n) : i # k => n[i].type \notin StorageJobs
    BY <1>2, <1>4 DEF Bare
  <2> QED
    BY <1>1, <1>2, <1>4, <2>1 DEF ReportAlone
<1>5. ASSUME OnlyOrders(m), type = "DS_STARTUP" PROVE StartupLast(n)
  <2>1. \A i \in 1..Len(n) : i # k /\ n[i].type \in StorageJobs => i < k /\ n[i].type \in Orders
    BY <1>2, <1>5 DEF OnlyOrders
  <2> QED
    BY <1>1, <1>2, <1>5, <2>1 DEF StartupLast
<1>6. ASSUME type \notin Orders, NoOrders(m) PROVE NoOrders(n)
  BY <1>1, <1>2, <1>3, <1>6 DEF NoOrders
<1>7. ASSUME type \notin Orders, NEW config, Renewed(m, config) PROVE Renewed(n, config)
  <2>1. PICK h \in 1..Len(m) :
           /\ m[h] = [type |-> "DS_INIT", config |-> config]
           /\ \A i \in 1..Len(m) : i > h => m[i].type \notin Orders
    BY <1>7 DEF Renewed
  <2>2. h \in 1..Len(n) /\ n[h] = [type |-> "DS_INIT", config |-> config]
    BY <1>2, <2>1
  <2>3. \A i \in 1..Len(n) : i > h => n[i].type \notin Orders
    BY <1>1, <1>2, <1>3, <1>7, <2>1
  <2> QED
    BY <2>2, <2>3 DEF Renewed
<1>8. Waits(m, "DS_DELETE") => Waits(n, "DS_DELETE")
  BY <1>2 DEF Waits
<1>9. type # "DS_READY" /\ ~Waits(m, "DS_READY") => ~Waits(n, "DS_READY")
  BY <1>1, <1>2, <1>3 DEF Waits
<1> QED
  BY <1>4, <1>5, <1>6, <1>7, <1>8, <1>9

\* Data storage is started, or works.
LEMMA StorageWorks ==
  ASSUME NEW p, PortOK(p), StorageOK(p.cm, p.ds, p.mbox),
         p.cm.state = "DS_ParamManager", Bare(p.mbox),
         NEW q, Works(p, q), q.ds.event = "NONE"
  PROVE  StorageOK(q.cm, q.ds, q.mbox)
<1> DEFINE c == p.cm
           m == p.mbox
           n == q.mbox
<1>1. /\ q.cm = c /\ m \in Seq(JobSet) /\ n \in Seq(JobSet) /\ Kept(m, n)
      /\ q.ds.pending = p.ds.pending
      /\ q.ds.state = "Off" => p.ds.state = "Off"
      /\ HoldsSet(q.ds.state, "NONE") => q.ds.valid
      /\ \/ q.ds.id = p.ds.id /\ q.ds.valid = p.ds.valid
         \/ q.ds.id = p.ds.pending /\ q.ds.valid
  BY DEF Works, PortOK
<1>2. /\ Backup(c) => p.ds.pending = "configured" /\ p.ds.state # "Off"
      /\ Backup(c) /\ p.ds.valid => p.ds.id = "configured"
      /\ NoOrders(m) /\ \A type \in StorageJobs : ~Waits(m, type)
  BY BareStorage
<1>3. /\ Backup(c) => q.ds.pending = "configured" /\ q.ds.state # "Off"
      /\ Backup(c) /\ q.ds.valid => q.ds.id = "configured"
  BY <1>1, <1>2
<1>4. c.state = "DS_ParamManager" /\ Bare(m)
  OBVIOUS
<1>5. "DS_READY" \in StorageJobs /\ "DS_FAULT" \in StorageJobs
      /\ "DS_READY" \notin Orders /\ "DS_FAULT" \notin Orders
  BY DEF StorageJobs, Orders
<1>6. \/ Apart(m, n)
      \/ /\ AtRest(q.ds)
         /\ \/ OneMore(m, n, "DS_FAULT")
            \/ OneMore(m, n, "DS_READY") /\ (q.ds.valid \/ q.ds.state = "Off")
  BY DEF Works, AtRest, Idle
<1> HIDE DEF c, m, n
<1>7. CASE Apart(m, n)
  <2>1. Bare(n) /\ NoOrders(n) /\ ~Waits(n, "DS_READY")
    BY <1>1, <1>2, <1>4, <1>5, <1>7, AlikeApart DEF Alike
  <2>2. Phase(c, q.ds, n)
    BY <1>4, <2>1 DEF Phase
  <2>3. Prepared(c, q.ds, n)
    BY <1>3, <2>1 DEF Prepared
  <2>4. Backed(c, q.ds, n)
    BY <1>4, <2>1 DEF Backed
  <2> QED
    BY <1>1, <2>2, <2>3, <2>4 DEF StorageOK, n
<1>8. CASE AtRest(q.ds) /\ OneMore(m, n, "DS_FAULT")
  <2>1. ReportAlone(n) /\ NoOrders(n) /\ ~Waits(n, "DS_READY")
    BY <1>1, <1>2, <1>4, <1>5, <1>8, OneMoreAlone
  <2>2. Phase(c, q.ds, n)
    BY <1>4, <1>8, <2>1 DEF Phase
  <2>3. Prepared(c, q.ds, n)
    BY <1>3, <2>1 DEF Prepared
  <2>4. Backed(c, q.ds, n)
    BY <1>4, <2>1 DEF Backed
  <2> QED
    BY <1>1, <2>2, <2>3, <2>4 DEF StorageOK, n
<1>9. CASE AtRest(q.ds) /\ OneMore(m, n, "DS_READY") /\ (q.ds.valid \/ q.ds.state = "Off")
  <2>1. ReportAlone(n) /\ NoOrders(n)
    BY <1>1, <1>2, <1>4, <1>5, <1>9, OneMoreAlone
  <2>2. Phase(c, q.ds, n)
    BY <1>4, <1>9, <2>1 DEF Phase
  <2>3. Prepared(c, q.ds, n)
    BY <1>3, <2>1 DEF Prepared
  <2>4. Backed(c, q.ds, n)
    BY <1>3, <1>9 DEF Backed
  <2> QED
    BY <1>1, <2>2, <2>3, <2>4 DEF StorageOK, n
<1> QED
  BY <1>6, <1>7, <1>8, <1>9

\* An answer of the device comes, whatever data storage is doing.
LEMMA StorageAnswered ==
  ASSUME NEW p, PortOK(p), StorageOK(p.cm, p.ds, p.mbox), NEW q, Worked(p, q)
  PROVE  StorageOK(q.cm, q.ds, q.mbox)
<1>1. CASE p.cm.state = "DS_ParamManager" /\ Bare(p.mbox)
  BY <1>1, StorageWorks DEF Worked
<1>2. CASE ~(p.cm.state = "DS_ParamManager" /\ Bare(p.mbox))
  <2>1. AtRest(p.ds)
    BY <1>2 DEF StorageOK, Phase
  <2>2. /\ q.cm = p.cm /\ q.ds.pending = p.ds.pending /\ AtRest(q.ds)
        /\ q.ds.valid => p.ds.valid /\ q.ds.id = p.ds.id
        /\ Alike(p.mbox, q.mbox)
    <3>1. p.mbox \in Seq(JobSet) /\ q.mbox \in Seq(JobSet)
      BY DEF Worked, Works, PortOK
    <3> QED
      BY <2>1, <3>1, AlikeApart DEF Worked, Rested, AtRest, Idle
  <2>3. /\ q.ds.state = "Off" => p.ds.state = "Off"
        /\ HoldsSet(q.ds.state, "NONE") => q.ds.valid
        /\ \/ q.ds.id = p.ds.id /\ q.ds.valid = p.ds.valid
           \/ q.ds.id = p.ds.pending /\ q.ds.valid
    BY DEF Worked, Works
  <2>4. StorageOK(p.cm, q.ds, p.mbox)
    <3>1. Phase(p.cm, q.ds, p.mbox)
      BY <2>2 DEF StorageOK, Phase
    <3>2. Prepared(p.cm, q.ds, p.mbox)
      BY <2>2, <2>3 DEF StorageOK, Prepared
    <3>3. p.ds.valid => q.ds.valid
      BY <2>3
    <3>4. Backed(p.cm, q.ds, p.mbox)
      BY <2>2, <3>3 DEF StorageOK, Backed
    <3> QED
      BY <2>3, <3>1, <3>2, <3>4 DEF StorageOK
  <2> QED
    BY <2>2, <2>4, StorageAlike
<1> QED
  BY <1>1, <1>2

\* The job taken is one of data storage, and not an order: it is the only one.
LEMMA StorageAlone ==
  ASSUME NEW c, NEW d, NEW m \in Seq(JobSet), m # <<>>, StorageOK(c, d, m),
         Head(m).type \in StorageJobs \ Orders
  PROVE  /\ Head(m).type \in {"DS_STARTUP", "DS_READY", "DS_FAULT"}
         /\ c.state = "DS_ParamManager" /\ AtRest(d) /\ Bare(Tail(m))
         /\ StorageOK(c, d, Tail(m))
         /\ Head(m).type = "DS_READY" /\ Backup(c) => d.valid /\ d.id = "configured"
<1> DEFINE n == Tail(m)
<1>1. /\ Len(n) \in Nat /\ Len(m) = Len(n) + 1 /\ m[1] = Head(m) /\ 1 \in 1..Len(m)
      /\ \A i \in 1..Len(n) : i + 1 \in 1..Len(m) /\ n[i] = m[i + 1] /\ i + 1 # 1
      /\ \A i \in 1..Len(m) : i = 1 \/ \E j \in 1..Len(n) : i = j + 1
  BY TailJobs
<1> HIDE DEF n
<1>2. ~Bare(m) /\ ~OnlyOrders(m)
  BY <1>1 DEF Bare, OnlyOrders
<1>3. /\ c.state = "DS_ParamManager" /\ AtRest(d)
      /\ StartupLast(m) \/ ReportAlone(m)
  BY <1>2 DEF StorageOK, Phase
<1>4. Head(m).type \in {"DS_STARTUP", "DS_READY", "DS_FAULT"} /\ Bare(n)
  <2>1. CASE StartupLast(m)
    <3>1. PICK k \in 1..Len(m) :
             /\ m[k].type = "DS_STARTUP"
             /\ \A i \in 1..Len(m) :
                  i # k /\ m[i].type \in StorageJobs => i < k /\ m[i].type \in Orders
      BY <2>1 DEF StartupLast
    <3>2. k = 1
      BY <1>1, <3>1
    <3>3. \A i \in 1..Len(n) : n[i].type \notin StorageJobs
      BY <1>1, <3>1, <3>2
    <3> QED
      BY <1>1, <3>1, <3>2, <3>3 DEF Bare
  <2>2. CASE ReportAlone(m)
    <3>1. PICK k \in 1..Len(m) :
             /\ m[k].type \in {"DS_READY", "DS_FAULT"}
             /\ \A i \in 1..Len(m) : i # k => m[i].type \notin StorageJobs
      BY <2>2 DEF ReportAlone
    <3>2. k = 1
      BY <1>1, <3>1
    <3>3. \A i \in 1..Len(n) : n[i].type \notin StorageJobs
      BY <1>1, <3>1, <3>2
    <3> QED
      BY <1>1, <3>1, <3>2, <3>3 DEF Bare
  <2> QED
    BY <1>3, <2>1, <2>2
<1>5. "DS_READY" \in StorageJobs /\ "DS_DELETE" \in StorageJobs /\ "DS_INIT" \in StorageJobs
      /\ Orders \subseteq StorageJobs /\ "DS_DELETE" \in Orders /\ "DS_INIT" \in Orders
  BY DEF StorageJobs, Orders
<1>6. \A i \in 1..Len(m) : m[i].type \in StorageJobs => i = 1
  BY <1>1, <1>4 DEF Bare
<1>7. ~Waits(m, "DS_DELETE") /\ ~Waits(n, "DS_READY") /\ NoOrders(n)
  BY <1>1, <1>4, <1>5, <1>6 DEF Waits, Bare, NoOrders
<1>8. ~Renewed(m, c.config)
  <2> SUFFICES ASSUME Renewed(m, c.config) PROVE FALSE
    OBVIOUS
  <2>1. PICK k \in 1..Len(m) : m[k] = [type |-> "DS_INIT", config |-> c.config]
    BY DEF Renewed
  <2>2. m[k].type = "DS_INIT"
    BY <2>1
  <2> QED
    BY <1>1, <1>5, <1>6, <2>2
<1>9. Phase(c, d, n)
  BY <1>3, <1>4 DEF Phase
<1>10. Prepared(c, d, n)
  BY <1>7, <1>8 DEF StorageOK, Prepared
<1>11. Backed(c, d, n)
  BY <1>3, <1>7 DEF Backed
<1>12. Head(m).type = "DS_READY" => Waits(m, "DS_READY")
  BY <1>1 DEF Waits
<1> QED
  BY <1>3, <1>4, <1>9, <1>10, <1>11, <1>12 DEF n, StorageOK, Backed

\* Something happens to the configuration manager.
LEMMA StorageManaged ==
  ASSUME NEW p, PortOK(p), StorageOK(p.cm, p.ds, p.mbox), NEW q, PortOK(q), NEW event,
         Manages(p, q, event),
         event \in {"DS_Ready", "DS_Fault"} => AtRest(p.ds) /\ Bare(p.mbox),
         event = "DS_Ready" /\ Backup(p.cm) => p.ds.valid /\ p.ds.id = "configured"
  PROVE  StorageOK(q.cm, q.ds, q.mbox)
<1> DEFINE c == p.cm
           e == q.cm
           d == p.ds
           m == p.mbox
           n == q.mbox
<1>1. /\ m \in Seq(JobSet) /\ n \in Seq(JobSet) /\ Kept(m, n) /\ q.ds = d
  BY DEF Manages, PortOK
<1>2. Apart(m, n) => Alike(m, n)
  BY <1>1, AlikeApart
<1>3. StorageOK(c, d, m)
  OBVIOUS
<1>4. "DS_STARTUP" \in StorageJobs /\ "DS_READY" \in StorageJobs /\ "DS_STARTUP" \notin Orders
      /\ "DS_READY" \notin Orders /\ Orders \subseteq StorageJobs
      /\ "DS_DELETE" \in StorageJobs
  BY DEF StorageJobs, Orders
<1>0. HoldsSet(d.state, "NONE") => d.valid
  BY <1>3 DEF StorageOK
<1>5. CASE e.state = c.state /\ e.config = c.config /\ Apart(m, n)
  BY <1>1, <1>2, <1>3, <1>5, StorageAlike
<1>6. CASE /\ e.state \in {"CheckPortMode", "PortFault"} /\ Apart(m, n)
           /\ c.state = "DS_ParamManager" => event = "DS_Fault"
  <2>1. AtRest(d) /\ OnlyOrders(m)
    <3>1. CASE c.state = "DS_ParamManager"
      BY <1>6, <3>1 DEF Bare, OnlyOrders
    <3>2. CASE c.state # "DS_ParamManager"
      BY <1>3, <3>2 DEF StorageOK, Phase
    <3> QED
      BY <3>1, <3>2
  <2>2. Phase(e, d, n)
    BY <1>2, <1>6, <2>1 DEF Phase, Alike
  <2>3. ~Backup(e)
    BY <1>6 DEF Backup
  <2> QED
    BY <1>0, <1>1, <2>2, <2>3 DEF StorageOK, Prepared, Backed
<1>7. CASE /\ c.state = "SM_Startup" /\ e.state = "DS_ParamManager" /\ e.config = c.config
           /\ OneMore(m, n, "DS_STARTUP")
  <2>1. AtRest(d) /\ OnlyOrders(m)
    BY <1>3, <1>7 DEF StorageOK, Phase
  <2>2. ~Waits(m, "DS_READY")
    BY <1>4, <2>1 DEF Waits, OnlyOrders
  <2>3. /\ StartupLast(n)
        /\ NoOrders(m) => NoOrders(n)
        /\ \A config : Renewed(m, config) => Renewed(n, config)
        /\ Waits(m, "DS_DELETE") => Waits(n, "DS_DELETE")
        /\ ~Waits(n, "DS_READY")
    BY <1>1, <1>4, <1>7, <2>1, <2>2, OneMoreAlone
  <2>4. Phase(e, d, n)
    BY <1>7, <2>1, <2>3 DEF Phase
  <2>5. Backup(e) <=> Backup(c)
    BY <1>7 DEF Backup
  <2>6. Prepared(e, d, n)
    BY <1>3, <1>7, <2>3, <2>5 DEF StorageOK, Prepared
  <2>7. Backed(e, d, n)
    BY <1>7, <2>3 DEF Backed
  <2> QED
    BY <1>0, <1>1, <2>4, <2>6, <2>7 DEF StorageOK
<1>8. CASE /\ c.state = "DS_ParamManager" /\ event = "DS_Ready"
           /\ e.state = "WaitingOnOperate" /\ e.config = c.config /\ Apart(m, n)
  <2>1. AtRest(d) /\ Bare(m)
    BY <1>8
  <2>2. Bare(n) /\ OnlyOrders(n)
    BY <1>2, <1>8, <2>1 DEF Alike, Bare, OnlyOrders
  <2>3. Phase(e, d, n)
    BY <1>8, <2>1, <2>2 DEF Phase
  <2>4. Backup(e) <=> Backup(c)
    BY <1>8 DEF Backup
  <2>5. Prepared(e, d, n)
    BY <1>2, <1>3, <1>4, <1>8, <2>4 DEF StorageOK, Prepared, Alike
  <2>6. Backed(e, d, n)
    BY <1>8, <2>4 DEF Backed
  <2> QED
    BY <1>0, <1>1, <2>3, <2>5, <2>6 DEF StorageOK
<1>9. CASE /\ c.state = "WaitingOnOperate" /\ e.state = "Port_Active"
           /\ e.config = c.config /\ Apart(m, n)
  <2>1. AtRest(d) /\ Bare(m)
    BY <1>3, <1>9 DEF StorageOK, Phase
  <2>2. Bare(n) /\ OnlyOrders(n)
    BY <1>2, <1>9, <2>1 DEF Alike, Bare, OnlyOrders
  <2>3. Phase(e, d, n)
    BY <1>9, <2>1, <2>2 DEF Phase
  <2>4. Backup(e) <=> Backup(c)
    BY <1>9 DEF Backup
  <2>5. Prepared(e, d, n)
    BY <1>2, <1>3, <1>4, <1>9, <2>4 DEF StorageOK, Prepared, Alike
  <2>6. Backed(e, d, n)
    BY <1>3, <1>9, <2>4 DEF StorageOK, Backed
  <2> QED
    BY <1>0, <1>1, <2>3, <2>5, <2>6 DEF StorageOK
<1>10. CASE /\ c.state # "DS_ParamManager"
            /\ e.state \in {"SM_Startup", "Port_DIDO", "Port_Deactivated"}
            /\ \A i \in Len(m) + 1 .. Len(n) : n[i].type \in StorageJobs => n[i].type \in Orders
            /\ e.state = "SM_Startup" => Ordered(m, n, e.config, d.id)
  <2>1. AtRest(d) /\ OnlyOrders(m)
    BY <1>3, <1>10 DEF StorageOK, Phase
  <2>2. /\ Len(m) \in Nat /\ Len(n) \in Nat
        /\ \A i \in 1..Len(n) : i \in Len(m) + 1 .. Len(n) \/ (i \in 1..Len(m) /\ n[i] = m[i])
        /\ \A i \in Len(m) + 1 .. Len(n) : i \in 1..Len(n)
    BY <1>1 DEF Kept
  <2>3. OnlyOrders(n)
    BY <1>10, <2>1, <2>2 DEF OnlyOrders
  <2>4. Phase(e, d, n)
    BY <1>10, <2>1, <2>3 DEF Phase
  <2>5. ~Waits(n, "DS_READY")
    BY <1>4, <2>3 DEF Waits, OnlyOrders
  <2>6. Backed(e, d, n)
    BY <1>10, <2>5 DEF Backed
  <2>7. ASSUME e.state = "SM_Startup" PROVE Prepared(e, d, n)
    <3>1. PICK k \in Len(m) + 1 .. Len(n) :
             /\ n[k] = [type |-> "DS_INIT", config |-> e.config]
             /\ \A i \in k + 1 .. Len(n) : n[i].type \notin Orders
      BY <1>10, <2>7 DEF Ordered
    <3>2. k \in 1..Len(n) /\ \A i \in 1..Len(n) : i > k => n[i].type \notin Orders
      BY <2>2, <3>1
    <3>3. Renewed(n, e.config)
      BY <3>1, <3>2 DEF Renewed
    <3>4. d.id # "configured" => Waits(n, "DS_DELETE")
      BY <1>10, <2>2, <2>7 DEF Ordered, Waits
    <3> QED
      BY <3>3, <3>4 DEF Prepared
  <2>8. e.state # "SM_Startup" => Prepared(e, d, n)
    BY <1>10 DEF Prepared, Backup
  <2> QED
    BY <1>0, <1>1, <2>4, <2>6, <2>7, <2>8 DEF StorageOK
<1> QED
  BY <1>5, <1>6, <1>7, <1>8, <1>9, <1>10 DEF Manages

\* The job taken tells data storage of a configuration, or to delete its set.
LEMMA OrdersAtRest ==
  ASSUME NEW c, NEW d, NEW m \in Seq(JobSet), m # <<>>, StorageOK(c, d, m),
         Head(m).type \in Orders
  PROVE  AtRest(d) /\ ~Bare(m) /\ ~ReportAlone(m)
<1>1. /\ m[1] = Head(m) /\ 1 \in 1..Len(m)
  BY TailJobs
<1>2. /\ Orders \subseteq StorageJobs
      /\ "DS_READY" \notin Orders /\ "DS_FAULT" \notin Orders
  BY DEF Orders, StorageJobs
<1>3. ~Bare(m)
  BY <1>1, <1>2 DEF Bare
<1>4. ~ReportAlone(m)
  BY <1>1, <1>2 DEF ReportAlone
<1> QED
  BY <1>3, <1>4 DEF StorageOK, Phase

LEMMA StorageTold ==
  ASSUME NEW c, NEW d, NEW m \in Seq(JobSet), m # <<>>, StorageOK(c, d, m),
         Head(m).type \in Orders,
         NEW e, AtRest(e), e.valid => d.valid /\ e.id = d.id,
         Head(m).type = "DS_DELETE" => ~e.valid,
         Head(m).type = "DS_INIT" =>
           (Head(m).config.mode = "CFGCOM" /\ Head(m).config.check = "V11_BAK_RESTORE" =>
              e.pending = "configured" /\ e.state # "Off")
  PROVE  StorageOK(c, e, Tail(m))
<1> DEFINE n == Tail(m)
<1>1. /\ Len(n) \in Nat /\ Len(m) = Len(n) + 1 /\ m[1] = Head(m) /\ 1 \in 1..Len(m)
      /\ \A i \in 1..Len(n) : i + 1 \in 1..Len(m) /\ n[i] = m[i + 1] /\ i + 1 # 1
      /\ \A i \in 1..Len(m) : i = 1 \/ \E j \in 1..Len(n) : i = j + 1
  BY TailJobs
<1> HIDE DEF n
<1>2. /\ Orders \subseteq StorageJobs /\ Orders = {"DS_INIT", "DS_DELETE"}
      /\ "DS_READY" \notin Orders /\ "DS_STARTUP" \notin Orders
      /\ {"DS_READY", "DS_STARTUP"} \subseteq StorageJobs
  BY DEF Orders, StorageJobs
<1>3. ~Bare(m) /\ ~ReportAlone(m)
  BY OrdersAtRest
<1>4. \/ c.state = "DS_ParamManager" /\ StartupLast(m)
      \/ /\ c.state # "DS_ParamManager" /\ OnlyOrders(m)
         /\ c.state \notin {"WaitingOnOperate", "Port_Active"}
  BY <1>3 DEF StorageOK, Phase
<1>5. ASSUME StartupLast(m) PROVE StartupLast(n) /\ ~Waits(m, "DS_READY")
  <2>1. PICK k \in 1..Len(m) :
           /\ m[k].type = "DS_STARTUP"
           /\ \A i \in 1..Len(m) :
                i # k /\ m[i].type \in StorageJobs => i < k /\ m[i].type \in Orders
    BY <1>5 DEF StartupLast
  <2>2. k # 1
    BY <1>1, <1>2, <2>1
  <2>3. PICK h \in 1..Len(n) : k = h + 1
    BY <1>1, <2>2
  <2>4. n[h].type = "DS_STARTUP"
    BY <1>1, <2>1, <2>3
  <2>5. ASSUME NEW i \in 1..Len(n), i # h, n[i].type \in StorageJobs
        PROVE  i < h /\ n[i].type \in Orders
    <3>1. i + 1 \in 1..Len(m) /\ n[i] = m[i + 1] /\ i + 1 # k
      BY <1>1, <2>3, <2>5
    <3>2. i + 1 < k /\ m[i + 1].type \in Orders
      BY <2>1, <2>5, <3>1
    <3> QED
      BY <2>3, <3>1, <3>2
  <2>6. ~Waits(m, "DS_READY")
    BY <1>2, <2>1 DEF Waits
  <2> QED
    BY <2>4, <2>5, <2>6 DEF StartupLast
<1>6. OnlyOrders(m) => OnlyOrders(n) /\ ~Waits(m, "DS_READY")
  BY <1>1, <1>2 DEF OnlyOrders, Waits
<1>7. Phase(c, e, n)
  BY <1>4, <1>5, <1>6 DEF Phase
<1>8. ~Waits(n, "DS_READY")
  <2>1. ~Waits(m, "DS_READY")
    BY <1>4, <1>5, <1>6
  <2> QED
    BY <1>1, <2>1 DEF Waits
<1>9. Backed(c, e, n)
  BY <1>4, <1>8 DEF Backed
<1>10. ~HoldsSet(e.state, "NONE")
  BY DEF AtRest, HoldsSet
<1>11. ASSUME Backup(c) PROVE e.valid /\ e.id # "configured" => Waits(n, "DS_DELETE")
  <2>1. SUFFICES ASSUME e.valid, e.id # "configured" PROVE Waits(n, "DS_DELETE")
    OBVIOUS
  <2>2. Waits(m, "DS_DELETE") /\ Head(m).type # "DS_DELETE"
    BY <1>11, <2>1 DEF StorageOK, Prepared
  <2> QED
    BY <2>2, WaitsTail DEF n
<1>12. ASSUME Backup(c)
       PROVE  \/ Renewed(n, c.config)
              \/ NoOrders(n) /\ e.pending = "configured" /\ e.state # "Off"
  <2>1. Renewed(m, c.config)
    <3>1. ~NoOrders(m)
      BY <1>1 DEF NoOrders
    <3> QED
      BY <1>12, <3>1 DEF StorageOK, Prepared
  <2>2. PICK k \in 1..Len(m) :
           /\ m[k] = [type |-> "DS_INIT", config |-> c.config]
           /\ \A i \in 1..Len(m) : i > k => m[i].type \notin Orders
    BY <2>1 DEF Renewed
  <2>3. CASE k = 1
    <3>1. Head(m).type = "DS_INIT" /\ Head(m).config = c.config
      BY <1>1, <2>2, <2>3
    <3>2. e.pending = "configured" /\ e.state # "Off"
      BY <1>12, <3>1 DEF Backup
    <3>3. \A i \in 1..Len(n) : i + 1 > k
      BY <1>1, <2>3
    <3>4. NoOrders(n)
      BY <1>1, <2>2, <3>3 DEF NoOrders
    <3> QED
      BY <3>2, <3>4
  <2>4. CASE k # 1
    <3>1. PICK h \in 1..Len(n) : k = h + 1
      BY <1>1, <2>4
    <3>2. n[h] = [type |-> "DS_INIT", config |-> c.config]
      BY <1>1, <2>2, <3>1
    <3>3. \A i \in 1..Len(n) : i > h => n[i].type \notin Orders
      BY <1>1, <2>2, <3>1
    <3> QED
      BY <3>2, <3>3 DEF Renewed
  <2> QED
    BY <2>3, <2>4
<1>13. Prepared(c, e, n)
  BY <1>11, <1>12 DEF Prepared
<1> QED
  BY <1>7, <1>9, <1>10, <1>13 DEF StorageOK, n

-----------------------------------------------------------------------------
(* Steps of the configuration manager and of data storage *)

\* What becomes of the port becomes of the configuration manager and data storage.
LEMMA StorageBecomes ==
  ASSUME NEW q, PortOK(q), Becomes(q), StorageOK(q.cm, q.ds, q.mbox)
  PROVE  StorageOK(Port'.cm, Port'.ds, Port'.mbox)
  BY Becoming

\* A job is taken that has nothing to do with data storage.
LEMMA StorageJobTaken ==
  ASSUME NEW p, PortOK(p), StorageOK(p.cm, p.ds, p.mbox), p.mbox # <<>>,
         Head(p.mbox).type \notin StorageJobs
  PROVE  /\ PortOK(Taken(p)) /\ StorageOK(Taken(p).cm, Taken(p).ds, Taken(p).mbox)
         /\ StorageOK(p.cm, p.ds, Tail(p.mbox))
<1>1. p.mbox \in Seq(JobSet)
  BY DEF PortOK
<1>2. StorageOK(p.cm, p.ds, Tail(p.mbox))
  BY <1>1, AlikeTail, StorageAlike
<1> QED
  BY <1>2, TakenOK

LEMMA StorageTaken ==
  ASSUME StackOK, StorageOK(cm, ds, mbox), mbox # <<>>, Head(mbox).type \notin StorageJobs
  PROVE  LET t == Taken(Port) IN PortOK(t) /\ StorageOK(t.cm, t.ds, t.mbox)
  BY StorageJobTaken, PortVariables DEF StackOK

\* Other jobs are posted.
LEMMA StorageAside ==
  ASSUME NEW p, PortOK(p), StorageOK(p.cm, p.ds, p.mbox),
         NEW q, PortOK(q), q.cm = p.cm, q.ds = p.ds, Kept(p.mbox, q.mbox), Apart(p.mbox, q.mbox)
  PROVE  StorageOK(q.cm, q.ds, q.mbox)
<1>1. p.mbox \in Seq(JobSet) /\ q.mbox \in Seq(JobSet)
  BY DEF PortOK
<1> QED
  BY <1>1, AlikeApart, StorageAlike

\* The jobs of the configuration manager
LEMMA StorageCmJobs ==
  ASSUME StackOK, StorageOK(cm, ds, mbox),
         MainPortConfiguration \/ MainPortModeInd \/ MainDsReady \/ MainDsFault
  PROVE  StorageOK(Port'.cm, Port'.ds, Port'.mbox)
<1> DEFINE t == Taken(Port)
           job == Head(mbox)
<1>1. mbox # <<>>
  BY DEF MainPortConfiguration, MainPortModeInd, MainDsReady, MainDsFault, Executes
<1>2. /\ PortOK(t) /\ t = [Port EXCEPT !.mbox = Tail(@)] /\ job \in JobSet
      /\ mbox \in Seq(JobSet)
      /\ t.cm = cm /\ t.ds = ds /\ t.mbox = Tail(mbox)
  BY <1>1, FirstJob, TakenOK, PortVariables DEF StackOK, PortOK
<1>3. job.type \notin StorageJobs => StorageOK(t.cm, t.ds, t.mbox)
  BY <1>1, StorageTaken
<1>0. job.type \in StorageJobs \ Orders =>
        /\ AtRest(ds) /\ Bare(Tail(mbox)) /\ StorageOK(cm, ds, Tail(mbox))
        /\ job.type = "DS_READY" /\ Backup(cm) => ds.valid /\ ds.id = "configured"
  <2>1. mbox \in Seq(JobSet)
    BY <1>2
  <2> QED
    BY ONLY <1>1, <2>1, StorageOK(cm, ds, mbox), StorageAlone
<1> HIDE DEF t, job
<1>4. job.type \in StorageJobs \ Orders =>
        /\ AtRest(t.ds) /\ Bare(t.mbox) /\ StorageOK(t.cm, t.ds, t.mbox)
        /\ job.type = "DS_READY" /\ Backup(t.cm) => t.ds.valid /\ t.ds.id = "configured"
  BY <1>0, <1>2
<1>5. /\ "DS_READY" \in StorageJobs \ Orders /\ "DS_FAULT" \in StorageJobs \ Orders
      /\ "SMI_PORTCONFIGURATION" \notin StorageJobs /\ "SM_PORT_MODE_IND" \notin StorageJobs
  BY DEF StorageJobs, Orders
<1>6. CASE MainPortConfiguration
  <2> DEFINE q == CmPortConfiguration(t, job)
  <2>1. job.type = "SMI_PORTCONFIGURATION" /\ Becomes(q)
    BY <1>2, <1>6 DEF MainPortConfiguration, Executes, job
  <2>2. PortOK(q) /\ Manages(t, q, "CFG_CHANGE")
    BY <1>2, <2>1, JobFields, CmCallbacksStep, CmCallbacksManage, StillPortOK
  <2> HIDE DEF q
  <2>3. StorageOK(q.cm, q.ds, q.mbox)
    BY <1>2, <1>3, <1>5, <2>1, <2>2, StorageManaged
  <2> QED
    BY <2>1, <2>2, <2>3, StorageBecomes
<1>7. CASE MainPortModeInd
  <2> DEFINE q == CmPortModeInd(t, job)
  <2>1. job.type = "SM_PORT_MODE_IND" /\ Becomes(q)
    BY <1>2, <1>7 DEF MainPortModeInd, Executes, job
  <2>2. job.mode \in PortModes
    BY <1>2, <2>1, JobFields
  <2>3. PortOK(q)
    BY <1>2, <2>2, CmPortModeIndStep, StillPortOK
  <2>4. \E event : event \notin {"DS_Ready", "DS_Fault"} /\ Manages(t, q, event)
    BY <1>2, <2>2, CmCallbacksManage
  <2> HIDE DEF q
  <2>5. PICK event : event \notin {"DS_Ready", "DS_Fault"} /\ Manages(t, q, event)
    BY <2>4
  <2>6. StorageOK(q.cm, q.ds, q.mbox)
    BY <1>2, <1>3, <1>5, <2>1, <2>3, <2>5, StorageManaged
  <2> QED
    BY <2>1, <2>3, <2>6, StorageBecomes
<1>8. CASE MainDsReady
  <2> DEFINE q == CmDsReady(t, job)
  <2>1. job.type = "DS_READY" /\ Becomes(q)
    BY <1>2, <1>8 DEF MainDsReady, Executes, job
  <2>2. PortOK(q) /\ Manages(t, q, "DS_Ready")
    BY <1>2, CmCallbacksStep, CmCallbacksManage, StillPortOK
  <2> HIDE DEF q
  <2>3. StorageOK(q.cm, q.ds, q.mbox)
    BY <1>2, <1>4, <1>5, <2>1, <2>2, StorageManaged
  <2> QED
    BY <2>1, <2>2, <2>3, StorageBecomes
<1>9. CASE MainDsFault
  <2> DEFINE q == CmDsFault(t, job)
  <2>1. job.type = "DS_FAULT" /\ Becomes(q)
    BY <1>2, <1>9 DEF MainDsFault, Executes, job
  <2>2. PortOK(q) /\ Manages(t, q, "DS_Fault")
    BY <1>2, CmCallbacksStep, CmCallbacksManage, StillPortOK
  <2> HIDE DEF q
  <2>3. StorageOK(q.cm, q.ds, q.mbox)
    BY <1>2, <1>4, <1>5, <2>1, <2>2, StorageManaged
  <2> QED
    BY <2>1, <2>2, <2>3, StorageBecomes
<1> QED
  BY <1>6, <1>7, <1>8, <1>9

\* The jobs of data storage.  Of an upload there is none.
LEMMA StorageDsJobs ==
  ASSUME StackOK, StorageOK(cm, ds, mbox),
         MainDsStartup \/ MainDsInit \/ MainDsDelete \/ MainDsUpload \/ MainDsReadCnf
            \/ MainDsWriteCnf
  PROVE  StorageOK(Port'.cm, Port'.ds, Port'.mbox)
<1> DEFINE t == Taken(Port)
           job == Head(mbox)
<1>1. mbox # <<>>
  BY DEF MainDsStartup, MainDsInit, MainDsDelete, MainDsUpload, MainDsReadCnf,
         MainDsWriteCnf, Executes
<1>2. /\ PortOK(t) /\ t = [Port EXCEPT !.mbox = Tail(@)] /\ t.ds.event = "NONE"
      /\ mbox \in Seq(JobSet)
      /\ t.cm = cm /\ t.ds = ds /\ t.mbox = Tail(mbox)
  BY <1>1, FirstJob, TakenOK, PortVariables DEF StackOK, PortOK
<1>3. job.type \notin StorageJobs => StorageOK(t.cm, t.ds, t.mbox)
  BY <1>1, StorageTaken
<1>0. job.type \in StorageJobs \ Orders =>
        /\ job.type # "DS_UPLOAD"
        /\ cm.state = "DS_ParamManager" /\ AtRest(ds) /\ Bare(Tail(mbox))
        /\ StorageOK(cm, ds, Tail(mbox))
  <2>1. mbox \in Seq(JobSet)
    BY <1>2
  <2> QED
    BY ONLY <1>1, <2>1, StorageOK(cm, ds, mbox), StorageAlone
<1>5. job.type \in Orders => AtRest(t.ds)
  BY <1>1, <1>2, OrdersAtRest
<1>6. HoldsSet(t.ds.state, "NONE") => t.ds.valid
  BY <1>2 DEF StorageOK
<1>7. /\ "DS_STARTUP" \in StorageJobs \ Orders /\ "DS_UPLOAD" \in StorageJobs \ Orders
      /\ "DS_INIT" \in Orders /\ "DS_DELETE" \in Orders
      /\ "DS_READ_CNF" \notin StorageJobs /\ "DS_WRITE_CNF" \notin StorageJobs
  BY DEF StorageJobs, Orders
<1>8. ASSUME NEW q, PortOK(q), Becomes(q), job.type \in Orders, q.cm = t.cm, AtRest(q.ds),
             q.ds.valid => t.ds.valid /\ q.ds.id = t.ds.id,
             Kept(t.mbox, q.mbox), Apart(t.mbox, q.mbox),
             job.type = "DS_DELETE" => ~q.ds.valid,
             job.type = "DS_INIT" =>
               (job.config.mode = "CFGCOM" /\ job.config.check = "V11_BAK_RESTORE" =>
                  q.ds.pending = "configured" /\ q.ds.state # "Off")
      PROVE  StorageOK(Port'.cm, Port'.ds, Port'.mbox)
  <2>1. StorageOK(t.cm, q.ds, t.mbox)
    BY <1>1, <1>2, <1>8, StorageTold
  <2>2. t.mbox \in Seq(JobSet) /\ q.mbox \in Seq(JobSet)
    BY <1>2, <1>8 DEF PortOK
  <2>3. StorageOK(q.cm, q.ds, q.mbox)
    BY <1>8, <2>1, <2>2, AlikeApart, StorageAlike
  <2> QED
    BY <1>8, <2>3, StorageBecomes
<1> HIDE DEF t, job
<1>4. job.type \in StorageJobs \ Orders =>
        /\ job.type # "DS_UPLOAD"
        /\ t.cm.state = "DS_ParamManager" /\ AtRest(t.ds) /\ Bare(t.mbox)
        /\ StorageOK(t.cm, t.ds, t.mbox)
  BY <1>0, <1>2
<1>9. CASE MainDsStartup
  <2> DEFINE q == DsStartup(t, job)
  <2>1. job.type = "DS_STARTUP" /\ Becomes(q)
    BY <1>2, <1>9 DEF MainDsStartup, Executes, job
  <2>2. Works(t, q) /\ q.ds.event = "NONE"
    BY <1>2, <1>4, <1>7, <2>1, DsStartupWorks
  <2> HIDE DEF q
  <2>3. StorageOK(q.cm, q.ds, q.mbox) /\ PortOK(q)
    BY <1>2, <1>4, <1>7, <2>1, <2>2, StorageWorks DEF Works
  <2> QED
    BY <2>1, <2>3, StorageBecomes
<1>10. CASE MainDsInit
  <2> DEFINE q == DsInit(t, job)
  <2>1. job.type = "DS_INIT" /\ Becomes(q)
    BY <1>2, <1>10 DEF MainDsInit, Executes, job
  <2>2. /\ PortOK(q) /\ q.cm = t.cm /\ AtRest(q.ds)
        /\ q.ds.valid => t.ds.valid /\ q.ds.id = t.ds.id
        /\ Kept(t.mbox, q.mbox) /\ Apart(t.mbox, q.mbox)
        /\ job.config.mode = "CFGCOM" /\ job.config.check = "V11_BAK_RESTORE" =>
             q.ds.pending = "configured" /\ q.ds.state # "Off"
    <3>1. PortOK(t) /\ AtRest(t.ds)
      BY <1>2, <1>5, <1>7, <2>1
    <3> QED
      BY ONLY <3>1, DsInitRests
  <2> HIDE DEF q
  <2> QED
    BY <1>7, <1>8, <2>1, <2>2
<1>11. CASE MainDsDelete
  <2> DEFINE q == DsDelete(t, job)
  <2>1. job.type = "DS_DELETE" /\ Becomes(q)
    BY <1>2, <1>11 DEF MainDsDelete, Executes, job
  <2>2. Rested(t, q) /\ ~q.ds.valid
    BY <1>2, <1>5, <1>7, <2>1, DsDeleteRests
  <2> HIDE DEF q
  <2>3. /\ PortOK(q) /\ q.cm = t.cm /\ AtRest(q.ds)
        /\ Kept(t.mbox, q.mbox) /\ Apart(t.mbox, q.mbox)
    BY <2>2 DEF Rested, AtRest, Idle
  <2> QED
    BY <1>7, <1>8, <2>1, <2>2, <2>3
<1>12. CASE MainDsUpload
  <2>1. job.type = "DS_UPLOAD"
    BY <1>12 DEF MainDsUpload, Executes, job
  <2> QED
    BY <1>4, <1>7, <2>1
<1>13. CASE MainDsReadCnf
  <2>1. PICK answer \in DsAnswers :
           job.type = "DS_READ_CNF" /\ Becomes(DsReadCnf(t, job, answer))
    BY <1>2, <1>13 DEF MainDsReadCnf, Executes, job
  <2> DEFINE q == DsReadCnf(t, job, answer)
  <2>2. Worked(t, q)
    BY <1>2, <1>6, DsReadCnfWorked
  <2>3. Becomes(q)
    BY <2>1
  <2> HIDE DEF q
  <2>4. StorageOK(q.cm, q.ds, q.mbox) /\ PortOK(q)
    BY <1>2, <1>3, <1>7, <2>1, <2>2, StorageAnswered DEF Worked, Works
  <2> QED
    BY <2>3, <2>4, StorageBecomes
<1>14. CASE MainDsWriteCnf
  <2>1. PICK answer \in DsAnswers :
           job.type = "DS_WRITE_CNF" /\ Becomes(DsWriteCnf(t, job, answer))
    BY <1>2, <1>14 DEF MainDsWriteCnf, Executes, job
  <2> DEFINE q == DsWriteCnf(t, job, answer)
  <2>2. Worked(t, q)
    BY <1>2, <1>6, DsWriteCnfWorked
  <2>3. Becomes(q)
    BY <2>1
  <2> HIDE DEF q
  <2>4. StorageOK(q.cm, q.ds, q.mbox) /\ PortOK(q)
    BY <1>2, <1>3, <1>7, <2>1, <2>2, StorageAnswered DEF Worked, Works
  <2> QED
    BY <2>3, <2>4, StorageBecomes
<1> QED
  BY <1>9, <1>10, <1>11, <1>12, <1>13, <1>14

-----------------------------------------------------------------------------
(* Devices that do not ask for an upload *)

\* No event asks data storage to upload the parameters.
NoUploads == \A S \in EventSets : "upload" \notin Range(S)

\* None that waits does.
Unasked(m) == \A i \in 1..Len(m) : m[i].type = "DL_EVENT_IND" => m[i].event # "upload"

\* Nor one that has been collected
Unloaded(p) == "upload" \notin Range(p.al.ev.set) /\ Unasked(p.mbox)

LEMMA UnaskedGrows ==
  ASSUME NoUploads, NEW m \in Seq(JobSet), NEW n \in Seq(JobSet), Lengthens(m, n), Unasked(m)
  PROVE  Unasked(n)
<1>1. /\ Len(m) \in Nat /\ Len(n) \in Nat /\ Whole(n, Len(m) + 1)
      /\ \A i \in 1..Len(m) : n[i] = m[i]
  BY DEF Lengthens
<1>2. SUFFICES ASSUME NEW i \in 1..Len(n), n[i].type = "DL_EVENT_IND"
               PROVE  n[i].event # "upload"
  BY DEF Unasked
<1>3. CASE i \in 1..Len(m)
  BY <1>1, <1>2, <1>3 DEF Unasked
<1>4. CASE i \in Len(m) + 1 .. Len(n)
  <2>1. PICK a \in Len(m) + 1 .. i, S \in EventSets :
           i <= a + Len(S) - 1 /\ BlockAt(n, a, S)
    BY <1>1, <1>2, <1>4 DEF Whole
  <2>2. S \in Seq(Kinds) /\ Len(S) \in Nat /\ DOMAIN S = 1..Len(S)
    BY ReportedSet DEF ReportedSets
  <2> DEFINE j == i - a + 1
  <2>3. j \in 1..Len(S) /\ a + j - 1 = i
    BY <1>1, <1>4, <2>1, <2>2
  <2> HIDE DEF j
  <2>4. n[i] = DL_Event_ind(S[j], Len(S) - j)
    BY <2>1, <2>3 DEF BlockAt
  <2>5. n[i].event = S[j]
    BY <2>4 DEF DL_Event_ind
  <2>6. S[j] \in Range(S)
    BY <2>2, <2>3 DEF Range
  <2> QED
    BY <2>1, <2>5, <2>6 DEF NoUploads
<1> QED
  BY <1>1, <1>3, <1>4

LEMMA UnaskedTail ==
  ASSUME NEW m \in Seq(JobSet), m # <<>>, Unasked(m)
  PROVE  /\ Unasked(Tail(m))
         /\ Head(m).type = "DL_EVENT_IND" => Head(m).event # "upload"
<1> DEFINE n == Tail(m)
<1>1. /\ m[1] = Head(m) /\ 1 \in 1..Len(m)
      /\ \A i \in 1..Len(n) : i + 1 \in 1..Len(m) /\ n[i] = m[i + 1]
  BY TailJobs
<1> HIDE DEF n
<1>2. Unasked(n)
  BY <1>1 DEF Unasked
<1> QED
  BY <1>1, <1>2 DEF Unasked, n

LEMMA UnaskedAppend ==
  ASSUME NEW m \in Seq(JobSet), Unasked(m), NEW job \in JobSet, job.type # "DL_EVENT_IND"
  PROVE  Unasked(Append(m, job)) /\ Append(m, job) \in Seq(JobSet)
<1> DEFINE n == Append(m, job)
<1>1. /\ n \in Seq(JobSet) /\ Len(m) \in Nat /\ Len(n) = Len(m) + 1
      /\ \A i \in 1..Len(m) : n[i] = m[i]
      /\ n[Len(m) + 1] = job
  OBVIOUS
<1> HIDE DEF n
<1>2. Unasked(n)
  BY <1>1 DEF Unasked
<1> QED
  BY <1>1, <1>2 DEF n

\* What is collected is one event more.
LEMMA CollectedUnasked ==
  ASSUME NEW p, PortOK(p), p.al.ev.cnt < MaxEvents, "upload" \notin Range(p.al.ev.set),
         NEW job, job.event # "upload"
  PROVE  "upload" \notin Range(Collected(p, job).set)
<1> DEFINE c == Collected(p, job)
           k == p.al.ev.cnt
           old == p.al.ev.set
<1>1. /\ DOMAIN p.al.ev = {"state", "cnt", "set"} /\ MaxEvents \in Nat
      /\ k \in 0..MaxEvents
      /\ old \in [1..MaxEvents -> Kinds \union {"none"}]
  BY DEF PortOK, AlOK, MaxEvents
<1>2. c.set = [old EXCEPT ![k + 1] = job.event]
  BY <1>1 DEF Collected
<1>3. k + 1 \in 1..MaxEvents
  BY <1>1
<1> HIDE DEF c, k
<1>4. \A j \in 1..MaxEvents : c.set[j] = (IF j = k + 1 THEN job.event ELSE old[j])
  BY <1>1, <1>2, <1>3
<1>5. DOMAIN c.set = 1..MaxEvents /\ DOMAIN old = 1..MaxEvents
  BY <1>1, <1>2
<1>6. \A j \in 1..MaxEvents : old[j] # "upload"
  BY <1>5 DEF Range
<1>7. \A j \in DOMAIN c.set : c.set[j] # "upload"
  BY <1>4, <1>5, <1>6
<1> QED
  BY <1>7 DEF Range, c

LEMMA UnloadedStep ==
  ASSUME NoUploads, NEW p, PortOK(p), Unloaded(p),
         NEW q, \/ Calm(p, q) \/ Executed(p, q) \/ Asks(p, q)
                \/ Talks(p, q) \/ Collects(p, q) \/ Responds(p, q)
  PROVE  Unloaded(q)
<1>1. p.mbox \in Seq(JobSet)
  BY DEF PortOK
<1>2. CASE Calm(p, q)
  <2>1. q.mbox \in Seq(JobSet) /\ Lengthens(p.mbox, q.mbox) /\ q.al.ev = p.al.ev
    BY <1>2 DEF Calm, PortOK
  <2> QED
    BY <1>1, <2>1, UnaskedGrows DEF Unloaded
<1>3. CASE Asks(p, q)
  <2>1. PICK job \in JobSet : job.type = "SMI_DEVICE_RW" /\ q.mbox = Append(p.mbox, job)
    BY <1>3 DEF Asks
  <2>2. q.al = p.al
    BY <1>3 DEF Asks
  <2> QED
    BY <1>1, <2>1, <2>2, UnaskedAppend DEF Unloaded
<1>4. CASE Executed(p, q) \/ Talks(p, q)
  <2> DEFINE t == Taken(p)
  <2>1. p.mbox # <<>> /\ (Calm(t, q) \/ OdStep(t, q))
    BY <1>4 DEF Executed, Talks, Looks, Answers, Starts, Stops
  <2>2. t.mbox = Tail(p.mbox) /\ t.al = p.al
    BY <2>1, TakenOK
  <2>3. t.mbox \in Seq(JobSet)
    BY <1>1, <2>1, <2>2
  <2> HIDE DEF t
  <2>4. q.mbox \in Seq(JobSet) /\ Lengthens(t.mbox, q.mbox) /\ q.al.ev = t.al.ev
    BY <2>1 DEF Calm, OdStep, PortOK
  <2>5. Unasked(t.mbox)
    BY <1>1, <2>1, <2>2, UnaskedTail DEF Unloaded
  <2> QED
    BY <2>2, <2>3, <2>4, <2>5, UnaskedGrows DEF Unloaded
<1>5. CASE Responds(p, q)
  BY <1>1, <1>5, UnaskedTail DEF Responds, Unloaded
<1>6. CASE Collects(p, q)
  <2> DEFINE rest == Tail(p.mbox)
             response == [type |-> "AL_EVENT_RSP"]
             upload == [type |-> "DS_UPLOAD"]
  <2>1. p.mbox # <<>> /\ Head(p.mbox).type = "DL_EVENT_IND"
    BY <1>6 DEF Collects
  <2>2. rest \in Seq(JobSet) /\ Unasked(rest) /\ Head(p.mbox).event # "upload"
    BY <1>1, <2>1, UnaskedTail DEF Unloaded
  <2>3. /\ q.mbox \in {rest, Append(rest, response), Append(Append(rest, response), upload)}
        /\ \/ q.al.ev = p.al.ev
           \/ p.al.ev.cnt < MaxEvents /\ q.al.ev.set = Collected(p, Head(p.mbox)).set
    BY <1>6 DEF Collects
  <2>4. /\ response \in JobSet /\ response.type = "AL_EVENT_RSP"
        /\ upload \in JobSet /\ upload.type = "DS_UPLOAD"
    BY DEF JobSet, UserJobs, QuietJobs
  <2> HIDE DEF rest, response, upload
  <2>5. /\ Unasked(Append(rest, response)) /\ Append(rest, response) \in Seq(JobSet)
    BY <2>2, <2>4, UnaskedAppend
  <2>6. Unasked(Append(Append(rest, response), upload))
    BY <2>4, <2>5, UnaskedAppend
  <2>7. "upload" \notin Range(q.al.ev.set)
    BY <2>2, <2>3, CollectedUnasked DEF Unloaded
  <2> QED
    BY <2>2, <2>3, <2>5, <2>6, <2>7 DEF Unloaded
<1> QED
  BY <1>2, <1>3, <1>4, <1>5, <1>6

-----------------------------------------------------------------------------
(* The other steps leave data storage alone. *)

LEMMA StorageOthers ==
  ASSUME NEW p, PortOK(p), StorageOK(p.cm, p.ds, p.mbox),
         NEW q, Aside(p, q) \/ Asks(p, q)
  PROVE  StorageOK(q.cm, q.ds, q.mbox)
<1>1. p.mbox \in Seq(JobSet)
  BY DEF PortOK
<1>2. CASE Aside(p, q)
  <2>1. /\ PortOK(q) /\ q.cm = p.cm /\ q.ds = p.ds
        /\ Kept(p.mbox, q.mbox) /\ Apart(p.mbox, q.mbox)
    BY <1>2, ClearApart DEF Aside, Calm, Lengthens, Kept
  <2> QED
    BY <2>1, StorageAside
<1>3. CASE Asks(p, q)
  <2>1. PICK job \in JobSet : job.type = "SMI_DEVICE_RW" /\ q.mbox = Append(p.mbox, job)
    BY <1>3 DEF Asks
  <2>2. job.type \notin StorageJobs
    BY <2>1 DEF StorageJobs
  <2>3. Kept(p.mbox, q.mbox) /\ Apart(p.mbox, q.mbox)
    BY <1>1, <2>1, <2>2, AppendedOne
  <2>4. PortOK(q) /\ q.cm = p.cm /\ q.ds = p.ds
    BY <1>3 DEF Asks
  <2> QED
    BY <2>3, <2>4, StorageAside
<1> QED
  BY <1>2, <1>3

\* Jobs that have nothing to do with it are taken.
LEMMA StorageOtherJobs ==
  ASSUME NEW p, PortOK(p), StorageOK(p.cm, p.ds, p.mbox),
         NEW q, Passes(p, q) \/ Talks(p, q)
  PROVE  StorageOK(q.cm, q.ds, q.mbox)
<1> DEFINE t == Taken(p)
<1>1. p.mbox # <<>> /\ Head(p.mbox).type \notin StorageJobs
  BY DEF Passes, Talks, Looks, Answers, Starts, Stops, StorageJobs
<1>2. Aside(t, q) \/ OdStep(t, q)
  BY DEF Passes, Talks, Looks, Answers, Starts, Stops
<1>3. PortOK(t) /\ StorageOK(t.cm, t.ds, t.mbox)
  BY <1>1, StorageJobTaken
<1> HIDE DEF t
<1>4. CASE Aside(t, q)
  BY <1>3, <1>4, StorageOthers
<1>5. CASE OdStep(t, q)
  <2>1. /\ PortOK(q) /\ q.cm = t.cm /\ q.ds = t.ds
        /\ Kept(t.mbox, q.mbox) /\ Apart(t.mbox, q.mbox)
    BY <1>5, ClearApart DEF OdStep, Lengthens, Kept
  <2> QED
    BY <1>3, <2>1, StorageAside
<1> QED
  BY <1>2, <1>4, <1>5

\* Events are collected, and none of them asks for an upload.
LEMMA StorageEvents ==
  ASSUME NEW p, PortOK(p), StorageOK(p.cm, p.ds, p.mbox), Unloaded(p),
         NEW q, Collects(p, q) \/ Responds(p, q)
  PROVE  StorageOK(q.cm, q.ds, q.mbox)
<1> DEFINE rest == Tail(p.mbox)
           response == [type |-> "AL_EVENT_RSP"]
           job == Head(p.mbox)
<1>1. /\ p.mbox \in Seq(JobSet) /\ p.mbox # <<>>
      /\ job.type \in {"DL_EVENT_IND", "AL_EVENT_RSP"}
      /\ q.cm = p.cm /\ q.ds = p.ds
  BY DEF Collects, Responds, PortOK
<1>2. /\ rest \in Seq(JobSet) /\ job.type \notin StorageJobs
      /\ job.type = "DL_EVENT_IND" => job.event # "upload"
  BY <1>1, UnaskedTail DEF Unloaded, StorageJobs
<1>3. StorageOK(p.cm, p.ds, rest)
  BY <1>1, <1>2, StorageJobTaken
<1>4. q.mbox \in {rest, Append(rest, response)}
  <2>1. CASE Responds(p, q)
    BY <2>1 DEF Responds
  <2>2. CASE Collects(p, q)
    <3>1. job.type = "DL_EVENT_IND"
      BY <2>2 DEF Collects
    <3>2. \/ q.mbox \in {rest, Append(rest, response)}
          \/ p.al.ev.cnt < MaxEvents /\ "upload" \in Range(Collected(p, job).set)
      BY <2>2 DEF Collects
    <3> HIDE DEF job
    <3>3. p.al.ev.cnt < MaxEvents => "upload" \notin Range(Collected(p, job).set)
      BY <1>2, <3>1, CollectedUnasked DEF Unloaded
    <3> QED
      BY <3>2, <3>3
  <2> QED
    BY <2>1, <2>2
<1>5. response \in JobSet /\ response.type \notin StorageJobs
  BY DEF JobSet, UserJobs, StorageJobs
<1> HIDE DEF rest, response
<1>6. StorageOK(p.cm, p.ds, Append(rest, response))
  <2>1. /\ Append(rest, response) \in Seq(JobSet)
        /\ Kept(rest, Append(rest, response)) /\ Apart(rest, Append(rest, response))
    BY <1>2, <1>5, AppendedOne
  <2> QED
    BY <1>2, <1>3, <2>1, AlikeApart, StorageAlike
<1> QED
  BY <1>1, <1>3, <1>4, <1>6

-----------------------------------------------------------------------------
(* Data storage has the port only while the port waits for it. *)

StorageInv == StorageOK(Port.cm, Port.ds, Port.mbox) /\ Unloaded(Port)

LEMMA StorageStart == Init => StorageInv
<1> SUFFICES ASSUME Init PROVE StorageInv
  OBVIOUS
<1>1. cm.state = "Port_Deactivated" /\ ds.state = "CheckActivationState" /\ mbox = <<>>
  BY DEF Init, InitConfigurationManager, InitDataStorage
<1>2. Phase(cm, ds, mbox)
  BY <1>1 DEF Phase, AtRest, OnlyOrders
<1>3. ~Backup(cm) /\ ~HoldsSet(ds.state, "NONE")
  BY <1>1 DEF Backup, HoldsSet
<1>4. StorageOK(cm, ds, mbox)
  BY <1>2, <1>3 DEF StorageOK, Prepared, Backed
<1>5. Unasked(mbox)
  BY <1>1 DEF Unasked
<1>6. "upload" \notin Range(al.ev.set)
  BY DEF Init, InitApplicationLayer, Range
<1> QED
  BY <1>4, <1>5, <1>6, PortVariables DEF StorageInv, Unloaded

LEMMA StorageStep ==
  ASSUME NoUploads, StackOK, StorageInv, Next
  PROVE  StorageOK(Port'.cm, Port'.ds, Port'.mbox)
<1>1. PortOK(Port) /\ StorageOK(Port.cm, Port.ds, Port.mbox) /\ Unloaded(Port)
  BY DEF StackOK, StorageInv
<1>2. StorageOK(cm, ds, mbox)
  BY <1>1, PortVariables
<1>3. CASE DlWait \/ DlThread \/ Around
  BY <1>1, <1>3, DlThreadStep, AroundStep, StorageOthers
<1>4. CASE Above
  BY <1>1, <1>4, AccessStep, ConfigureStep, RestartStep, ControlStep, StorageOthers DEF Above
<1>5. CASE \/ MainPortConfiguration \/ MainPortModeInd \/ MainDsReady \/ MainDsFault
  BY <1>2, <1>5, StorageCmJobs
<1>6. CASE \/ MainDsStartup \/ MainDsInit \/ MainDsDelete \/ MainDsUpload
           \/ MainDsReadCnf \/ MainDsWriteCnf
  BY <1>2, <1>6, StorageDsJobs
<1>7. CASE \/ MainSetPortConfig \/ MainOperate \/ MainModeInd \/ MainReadCnf
           \/ MainWriteCnf \/ MainDevmodeCnf \/ MainAlCnf
           \/ MainAlRequest \/ MainReadParamCnf \/ MainWriteParamCnf \/ MainIsduCnf
  <2>1. Passes(Port, Port')
    BY <1>7, SmJobs, AlJobs
  <2> QED
    BY <1>1, <2>1, StorageOtherJobs
<1>8. CASE MainSmiRequest \/ MainUserCnf \/ MainOdStart \/ MainOdStop
  <2>1. Talks(Port, Port')
    BY <1>8, OdJobs DEF Talks
  <2> QED
    BY <1>1, <2>1, StorageOtherJobs
<1>9. CASE MainEventInd \/ MainEventRsp
  BY <1>1, <1>9, EventJobs, StorageEvents
<1> QED
  BY <1>3, <1>4, <1>5, <1>6, <1>7, <1>8, <1>9 DEF Next, MainThread

LEMMA StorageInvariant == ASSUME NoUploads PROVE Spec => []StorageInv
<1>1. ASSUME StackInv, StorageInv, [Next]_vars PROVE StorageInv'
  <2>1. StackOK /\ PortOK(Port)
    BY <1>1 DEF StackInv, StackOK
  <2>2. CASE Next
    <3>1. StorageOK(Port'.cm, Port'.ds, Port'.mbox)
      BY <1>1, <2>1, <2>2, StorageStep
    <3>2. \/ Calm(Port, Port') \/ Executed(Port, Port') \/ Asks(Port, Port')
          \/ Talks(Port, Port') \/ Collects(Port, Port') \/ Responds(Port, Port')
      BY <2>1, <2>2, Steps
    <3>3. Unloaded(Port')
      BY <1>1, <2>1, <3>2, UnloadedStep DEF StorageInv
    <3> QED
      BY <3>1, <3>3 DEF StorageInv
  <2>3. CASE UNCHANGED vars
    <3>1. Port' = Port
      BY <2>3 DEF vars, Port
    <3> QED
      BY <1>1, <3>1 DEF StorageInv
  <2> QED
    BY <1>1, <2>2, <2>3
<1> QED
  BY <1>1, StorageStart, StackInvariant, PTL DEF Spec

\* While a device does not ask for uploads, data storage transfers parameters only as long
\* as the configuration manager waits for it, in any interleaving of the threads: the
\* application and data storage do not have the device at the same time.
THEOREM StackStorage == ASSUME NoUploads PROVE Spec => []StorageHasThePort
<1>1. ASSUME StorageInv PROVE StorageHasThePort
  <2>1. Phase(cm, ds, mbox)
    BY <1>1, PortVariables DEF StorageInv, StorageOK
  <2> QED
    BY <2>1 DEF Phase, AtRest, Stores, StorageHasThePort
<1> QED
  BY <1>1, StorageInvariant, PTL

\* A port with backup becomes active only when the parameters of the device configured are
\* stored in the master, whatever was stored before, however often it is reconfigured,
\* restarted or disturbed, and whatever the device answers to data storage.
THEOREM StackBackup == ASSUME NoUploads PROVE Spec => []StoredWhenActive
<1>1. ASSUME StorageInv PROVE StoredWhenActive
  <2>1. Backed(cm, ds, mbox)
    BY <1>1, PortVariables DEF StorageInv, StorageOK
  <2> QED
    BY <2>1 DEF Backed, Backup, StoredWhenActive
<1> QED
  BY <1>1, StorageInvariant, PTL

-----------------------------------------------------------------------------
(* The exchange of the application is shut while data storage has the device. *)

\* Every start of the exchange that waits is followed by a stop, and so is one that has
\* been executed.
Shut(o, m) ==
  /\ \A i \in 1..Len(m) :
       m[i].type = "OD_START" => \E j \in 1..Len(m) : j > i /\ m[j].type = "OD_STOP"
  /\ o # "Inactive" => \E j \in 1..Len(m) : m[j].type = "OD_STOP"

\* The exchange has stopped for good.
Entered(o, m) == o = "Inactive" /\ \A i \in 1..Len(m) : m[i].type \notin GateJobs

\* It has, or will have when data storage is started.
Locked(o, m) ==
  \/ Entered(o, m)
  \/ \E k \in 1..Len(m) : /\ m[k].type = "DS_STARTUP"
                          /\ \A i \in 1..Len(m) : i > k => m[i].type \notin GateJobs

\* What the configuration manager c, the exchange o and the mailbox m have to do with
\* one another.
GateOK(o, c, m) ==
  /\ c.state \notin {"Port_Active", "PortFault", "CheckPortMode"} => Shut(o, m)
  /\ c.state = "DS_ParamManager" => Locked(o, m) /\ c.status \in {"PREOP", "DEACTIVATED"}

\* Other jobs are posted.
LEMMA GateGrows ==
  ASSUME NEW m \in Seq(JobSet), NEW n \in Seq(JobSet), Kept(m, n),
         \A i \in Len(m) + 1 .. Len(n) : n[i].type \notin GateJobs,
         NEW o, NEW u, u = "Inactive" <=> o = "Inactive"
  PROVE  /\ Shut(o, m) => Shut(u, n)
         /\ Locked(o, m) => Locked(u, n)
<1>1. /\ Len(m) \in Nat /\ Len(n) \in Nat /\ Len(m) <= Len(n)
      /\ \A i \in 1..Len(m) : i \in 1..Len(n) /\ n[i] = m[i]
      /\ \A i \in 1..Len(n) : i \in 1..Len(m) \/ n[i].type \notin GateJobs
  BY DEF Kept
<1>2. "OD_START" \in GateJobs
  BY DEF GateJobs
<1>3. ASSUME Shut(o, m) PROVE Shut(u, n)
  <2>1. ASSUME NEW i \in 1..Len(n), n[i].type = "OD_START"
        PROVE  \E j \in 1..Len(n) : j > i /\ n[j].type = "OD_STOP"
    <3>1. i \in 1..Len(m) /\ m[i].type = "OD_START"
      BY <1>1, <1>2, <2>1
    <3>2. PICK j \in 1..Len(m) : j > i /\ m[j].type = "OD_STOP"
      BY <1>3, <3>1 DEF Shut
    <3> QED
      BY <1>1, <3>2
  <2>2. ASSUME u # "Inactive" PROVE \E j \in 1..Len(n) : n[j].type = "OD_STOP"
    <3>1. PICK j \in 1..Len(m) : m[j].type = "OD_STOP"
      BY <1>3, <2>2 DEF Shut
    <3> QED
      BY <1>1, <3>1
  <2> QED
    BY <2>1, <2>2 DEF Shut
<1>4. ASSUME Entered(o, m) PROVE Entered(u, n)
  BY <1>1, <1>4 DEF Entered
<1>5. ASSUME NEW k \in 1..Len(m), m[k].type = "DS_STARTUP",
             \A i \in 1..Len(m) : i > k => m[i].type \notin GateJobs
      PROVE  Locked(u, n)
  <2>1. k \in 1..Len(n) /\ n[k].type = "DS_STARTUP"
    BY <1>1, <1>5
  <2>2. \A i \in 1..Len(n) : i > k => n[i].type \notin GateJobs
    BY <1>1, <1>5
  <2> QED
    BY <2>1, <2>2 DEF Locked
<1> QED
  BY <1>3, <1>4, <1>5 DEF Locked

LEMMA GateOKGrows ==
  ASSUME NEW m \in Seq(JobSet), NEW n \in Seq(JobSet), Kept(m, n),
         \A i \in Len(m) + 1 .. Len(n) : n[i].type \notin GateJobs,
         NEW o, NEW u, u = "Inactive" <=> o = "Inactive", NEW c, GateOK(o, c, m)
  PROVE  GateOK(u, c, n)
  BY GateGrows DEF GateOK

\* The first job is taken: the exchange is started, or stopped, or it is another one.
LEMMA GateTail ==
  ASSUME NEW m \in Seq(JobSet), m # <<>>, NEW o, NEW u,
         Head(m).type = "OD_STOP" => u = "Inactive",
         Head(m).type \notin GateJobs => (u = "Inactive" <=> o = "Inactive")
  PROVE  /\ Shut(o, m) => Shut(u, Tail(m))
         /\ Head(m).type # "DS_STARTUP" /\ Locked(o, m) => Locked(u, Tail(m))
<1> DEFINE n == Tail(m)
<1>1. /\ Len(n) \in Nat /\ Len(m) = Len(n) + 1 /\ m[1] = Head(m) /\ 1 \in 1..Len(m)
      /\ \A i \in 1..Len(n) : i + 1 \in 1..Len(m) /\ n[i] = m[i + 1] /\ i + 1 # 1
      /\ \A i \in 1..Len(m) : i = 1 \/ \E j \in 1..Len(n) : i = j + 1
  BY TailJobs
<1> HIDE DEF n
<1>2. GateJobs = {"OD_START", "OD_STOP"}
  BY DEF GateJobs
<1>3. ASSUME Shut(o, m) PROVE Shut(u, n)
  <2>1. ASSUME NEW i \in 1..Len(n), n[i].type = "OD_START"
        PROVE  \E j \in 1..Len(n) : j > i /\ n[j].type = "OD_STOP"
    <3>1. i + 1 \in 1..Len(m) /\ m[i + 1].type = "OD_START"
      BY <1>1, <2>1
    <3>2. PICK j \in 1..Len(m) : j > i + 1 /\ m[j].type = "OD_STOP"
      BY <1>3, <3>1 DEF Shut
    <3>3. PICK h \in 1..Len(n) : j = h + 1
      BY <1>1, <3>2
    <3>4. h > i /\ n[h].type = "OD_STOP"
      BY <1>1, <3>2, <3>3
    <3> QED
      BY <3>4
  <2>2. ASSUME u # "Inactive" PROVE \E j \in 1..Len(n) : n[j].type = "OD_STOP"
    <3>1. Head(m).type # "OD_STOP"
      BY <2>2
    <3>2. \E j \in 1..Len(m) : m[j].type = "OD_STOP"
      <4>1. CASE Head(m).type = "OD_START"
        BY <1>1, <1>3, <4>1 DEF Shut
      <4>2. CASE Head(m).type # "OD_START"
        BY <1>2, <1>3, <2>2, <3>1, <4>2 DEF Shut
      <4> QED
        BY <4>1, <4>2
    <3>3. PICK j \in 1..Len(m) : m[j].type = "OD_STOP"
      BY <3>2
    <3>4. PICK h \in 1..Len(n) : j = h + 1
      BY <1>1, <3>1, <3>3
    <3> QED
      BY <1>1, <3>3, <3>4
  <2> QED
    BY <2>1, <2>2 DEF Shut
<1>4. ASSUME Entered(o, m) PROVE Entered(u, n)
  BY <1>1, <1>4 DEF Entered
<1>5. ASSUME Head(m).type # "DS_STARTUP", NEW k \in 1..Len(m), m[k].type = "DS_STARTUP",
             \A i \in 1..Len(m) : i > k => m[i].type \notin GateJobs
      PROVE  Locked(u, n)
  <2>1. PICK h \in 1..Len(n) : k = h + 1
    BY <1>1, <1>5
  <2>2. n[h].type = "DS_STARTUP"
    BY <1>1, <1>5, <2>1
  <2>3. ASSUME NEW i \in 1..Len(n), i > h PROVE n[i].type \notin GateJobs
    <3>1. i + 1 \in 1..Len(m) /\ i + 1 > k /\ n[i] = m[i + 1]
      BY <1>1, <2>1, <2>3
    <3> QED
      BY <1>5, <3>1
  <2> QED
    BY <2>2, <2>3 DEF Locked
<1> QED
  BY <1>3, <1>4, <1>5 DEF Locked, n

LEMMA GateOKTail ==
  ASSUME NEW m \in Seq(JobSet), m # <<>>, NEW o, NEW u,
         Head(m).type = "OD_STOP" => u = "Inactive",
         Head(m).type \notin GateJobs => (u = "Inactive" <=> o = "Inactive"),
         Head(m).type # "DS_STARTUP", NEW c, GateOK(o, c, m)
  PROVE  GateOK(u, c, Tail(m))
  BY GateTail DEF GateOK

\* Data storage is started: the exchange has stopped for good.
LEMMA GateOKStartup ==
  ASSUME NEW m \in Seq(JobSet), m # <<>>, NEW o, NEW c, NEW d, GateOK(o, c, m),
         StorageOK(c, d, m), Head(m).type = "DS_STARTUP"
  PROVE  GateOK(o, c, Tail(m))
<1> DEFINE n == Tail(m)
<1>1. /\ Len(n) \in Nat /\ Len(m) = Len(n) + 1 /\ m[1] = Head(m) /\ 1 \in 1..Len(m)
      /\ \A i \in 1..Len(n) : i + 1 \in 1..Len(m) /\ n[i] = m[i + 1] /\ i + 1 # 1
      /\ \A i \in 1..Len(m) : i = 1 \/ \E j \in 1..Len(n) : i = j + 1
  BY TailJobs
<1>2. "DS_STARTUP" \in StorageJobs \ Orders /\ "DS_STARTUP" \in StorageJobs
      /\ "OD_STOP" \in GateJobs /\ "OD_STOP" # "DS_STARTUP"
  BY DEF StorageJobs, Orders, GateJobs
<1>3. c.state = "DS_ParamManager" /\ Bare(n)
  BY ONLY m \in Seq(JobSet), m # <<>>, StorageOK(c, d, m), Head(m).type = "DS_STARTUP", <1>2,
     StorageAlone
<1> HIDE DEF n
<1>4. Shut(o, m) /\ Locked(o, m) /\ c.status \in {"PREOP", "DEACTIVATED"}
  BY <1>3 DEF GateOK
<1>5. Entered(o, n)
  <2>1. CASE Entered(o, m)
    BY <1>1, <2>1 DEF Entered
  <2>2. ASSUME NEW k \in 1..Len(m), m[k].type = "DS_STARTUP",
               \A i \in 1..Len(m) : i > k => m[i].type \notin GateJobs
        PROVE  Entered(o, n)
    <3>1. k = 1
      BY <1>1, <1>2, <1>3, <2>2 DEF Bare
    <3>2. \A i \in 1..Len(m) : i # 1 => m[i].type \notin GateJobs
      BY <1>1, <2>2, <3>1
    <3>3. \A i \in 1..Len(n) : n[i].type \notin GateJobs
      BY <1>1, <3>2
    <3>4. \A i \in 1..Len(m) : m[i].type # "OD_STOP"
      BY <1>1, <1>2, <3>2
    <3>5. o = "Inactive"
      BY <1>4, <3>4 DEF Shut
    <3> QED
      BY <3>3, <3>5 DEF Entered
  <2> QED
    BY <1>4, <2>1, <2>2 DEF Locked
<1>6. Shut(o, n) /\ Locked(o, n)
  BY <1>2, <1>5 DEF Entered, Shut, Locked, GateJobs
<1> QED
  BY <1>3, <1>4, <1>6 DEF GateOK, n

-----------------------------------------------------------------------------
(* What each step does to the exchange *)

GateIs(p) == GateOK(p.od, p.cm, p.mbox)

\* Something happens to the configuration manager.
LEMMA GateManaged ==
  ASSUME NEW p, PortOK(p), GateIs(p), NEW q, NEW event, NEW config, Directs(p, q, event, config)
  PROVE  GateIs(q)
<1> DEFINE m == p.mbox
           n == q.mbox
           open == {"Port_Active", "PortFault", "CheckPortMode"}
<1>1. m \in Seq(JobSet) /\ Shaped(p)
  BY OKShaped DEF PortOK
<1>2. "OD_START" \in GateJobs /\ "OD_STOP" \in GateJobs
  BY DEF GateJobs
<1>3. ASSUME NEW F, NEW T, Touches(p, q, F, T), "od" \notin F
      PROVE  /\ n \in Seq(JobSet) /\ Kept(m, n) /\ q.od = p.od
             /\ \A i \in Len(m) + 1 .. Len(n) : n[i].type \in T
  <2>1. "od" \in PortFields \ (F \union {"mbox"})
    BY <1>3 DEF PortFields
  <2> QED
    BY <1>3, <2>1 DEF Touches, Shaped
<1>4. GateOK(p.od, p.cm, m)
  BY DEF GateIs
<1>5. ASSUME NEW F, NEW T, Touches(p, q, F, T), "od" \notin F, T \intersect GateJobs = {}
      PROVE  /\ n \in Seq(JobSet) /\ Kept(m, n) /\ q.od = p.od
             /\ Shut(p.od, m) => Shut(q.od, n)
             /\ Locked(p.od, m) => Locked(q.od, n)
  <2>1. /\ n \in Seq(JobSet) /\ Kept(m, n) /\ q.od = p.od
        /\ \A i \in Len(m) + 1 .. Len(n) : n[i].type \notin GateJobs
    BY <1>3, <1>5
  <2> HIDE DEF m, n
  <2> QED
    BY <1>1, <2>1, GateGrows
<1> HIDE DEF m, n
<1>6. CASE /\ Touches(p, q, {"cm"}, {})
           /\ q.cm.state = p.cm.state /\ q.cm.config = p.cm.config /\ q.cm.status = p.cm.status
  BY <1>4, <1>5, <1>6 DEF GateIs, GateOK, n
<1>7. CASE /\ Touches(p, q, {"cm", "lost"}, {}) /\ q.lost = TRUE
           /\ q.cm.state = "CheckPortMode" /\ q.cm.status = "NO_DEV"
  BY <1>7 DEF GateIs, GateOK
<1>8. CASE /\ Touches(p, q, {"cm"}, {})
           /\ q.cm.state = "PortFault" /\ q.cm.status = "PORT_DIAG"
  BY <1>8 DEF GateIs, GateOK
<1>9. CASE /\ Touches(p, q, {"cm"}, {"DS_STARTUP"})
           /\ Posts(p.mbox, q.mbox, "DS_STARTUP")
           /\ p.cm.state = "SM_Startup" /\ q.cm.state = "DS_ParamManager"
           /\ q.cm.status = "PREOP"
  <2>1. /\ n \in Seq(JobSet) /\ Kept(m, n) /\ q.od = p.od
        /\ Shut(p.od, m) => Shut(q.od, n)
        /\ \A i \in Len(m) + 1 .. Len(n) : n[i].type \in {"DS_STARTUP"}
    BY <1>3, <1>5, <1>9 DEF GateJobs
  <2>2. Shut(p.od, m)
    BY <1>4, <1>9 DEF GateOK
  <2>3. PICK k \in Len(m) + 1 .. Len(n) : n[k].type = "DS_STARTUP"
    BY <1>9 DEF Posts, m, n
  <2>4. Len(m) \in Nat /\ Len(n) \in Nat
    BY <1>1, <2>1
  <2>5. /\ k \in 1..Len(n)
        /\ \A i \in 1..Len(n) : i > k => i \in Len(m) + 1 .. Len(n)
    BY <2>3, <2>4
  <2>6. Locked(q.od, n)
    BY <2>1, <2>3, <2>5 DEF Locked, GateJobs
  <2> QED
    BY <1>9, <2>1, <2>2, <2>6 DEF GateIs, GateOK, n
<1>10. CASE /\ Touches(p, q, {"cm"}, {"SM_OPERATE_REQ"}) /\ event = "DS_Ready"
            /\ p.cm.state = "DS_ParamManager" /\ q.cm.state = "WaitingOnOperate"
  <2>1. Shut(q.od, n)
    BY <1>4, <1>5, <1>10 DEF GateOK, GateJobs
  <2> QED
    BY <1>10, <2>1 DEF GateIs, GateOK, n
<1>11. CASE q.cm.state = "Port_Active"
  BY <1>11 DEF GateIs, GateOK
<1>12. CASE /\ Touches(p, q, {"cm"}, Handed) /\ Posts(p.mbox, q.mbox, "OD_STOP")
            /\ q.cm.state \in {"SM_Startup", "Port_DIDO", "Port_Deactivated"}
  <2>1. /\ n \in Seq(JobSet) /\ Kept(m, n)
        /\ \A i \in Len(m) + 1 .. Len(n) : n[i].type \in Handed
    BY <1>3, <1>12
  <2>2. PICK k \in Len(m) + 1 .. Len(n) : n[k].type = "OD_STOP"
    BY <1>12 DEF Posts, m, n
  <2>3. Len(m) \in Nat /\ Len(n) \in Nat
    BY <1>1, <2>1
  <2>4. "OD_START" \notin Handed
    BY DEF Handed
  <2>5. k \in 1..Len(n) /\ \A i \in 1..Len(n) : n[i].type = "OD_START" => k > i
    BY <2>1, <2>2, <2>3, <2>4
  <2>6. Shut(q.od, n)
    BY <2>2, <2>5 DEF Shut
  <2> QED
    BY <1>12, <2>6 DEF GateIs, GateOK, n
<1> QED
  BY <1>6, <1>7, <1>8, <1>9, <1>10, <1>11, <1>12 DEF Directs

\* What becomes of the port
LEMMA GateBecomes ==
  ASSUME NEW q, PortOK(q), Becomes(q), GateIs(q)
  PROVE  GateIs(Port')
  BY Becoming DEF GateIs

\* Another job is posted, or a request of the user.
LEMMA GateOthers ==
  ASSUME NEW p, PortOK(p), GateIs(p), NEW q, Aside(p, q) \/ Asks(p, q)
  PROVE  GateIs(q)
<1>1. p.mbox \in Seq(JobSet)
  BY DEF PortOK
<1>2. q.mbox \in Seq(JobSet) /\ q.cm = p.cm /\ q.od = p.od
  BY DEF Aside, Calm, Asks, PortOK
<1>3. Kept(p.mbox, q.mbox)
      /\ \A i \in Len(p.mbox) + 1 .. Len(q.mbox) : q.mbox[i].type \notin GateJobs
  <2>1. CASE Aside(p, q)
    BY <2>1 DEF Aside, Calm, Lengthens, Kept, Clear
  <2>2. CASE Asks(p, q)
    <3>1. PICK job \in JobSet : job.type = "SMI_DEVICE_RW" /\ q.mbox = Append(p.mbox, job)
      BY <2>2 DEF Asks
    <3>2. /\ Len(q.mbox) = Len(p.mbox) + 1 /\ Len(p.mbox) \in Nat
          /\ \A i \in 1..Len(p.mbox) : q.mbox[i] = p.mbox[i]
          /\ q.mbox[Len(p.mbox) + 1] = job
      BY <1>1, <3>1
    <3>3. \A i \in Len(p.mbox) + 1 .. Len(q.mbox) : i = Len(p.mbox) + 1
      BY <3>2
    <3> QED
      BY <3>1, <3>2, <3>3 DEF Kept, GateJobs
  <2> QED
    BY <2>1, <2>2
<1> QED
  BY <1>1, <1>2, <1>3, GateOKGrows DEF GateIs

\* A job is taken that has nothing to do with the exchange.
LEMMA GateTaken ==
  ASSUME NEW p, PortOK(p), GateIs(p), p.mbox # <<>>,
         Head(p.mbox).type \notin GateJobs \union {"DS_STARTUP"}
  PROVE  PortOK(Taken(p)) /\ GateIs(Taken(p))
<1>1. p.mbox \in Seq(JobSet)
  BY DEF PortOK
<1>2. Head(p.mbox).type # "OD_STOP"
  BY DEF GateJobs
<1>3. GateOK(p.od, p.cm, Tail(p.mbox))
  BY <1>1, <1>2, GateOKTail DEF GateIs
<1> QED
  BY <1>3, TakenOK DEF GateIs

LEMMA GateOtherJobs ==
  ASSUME NEW p, PortOK(p), GateIs(p), NEW q,
         Passes(p, q) \/ Talks(p, q)
  PROVE  GateIs(q)
<1> DEFINE t == Taken(p)
<1>1. p.mbox # <<>> /\ p.mbox \in Seq(JobSet)
  BY DEF Passes, Talks, Looks, Answers, Starts, Stops, PortOK
<1>2. PortOK(t) /\ t.mbox = Tail(p.mbox) /\ t.od = p.od /\ t.cm = p.cm
  BY <1>1, TakenOK
<1> HIDE DEF t
<1>3. CASE Passes(p, q)
  <2>1. Head(p.mbox).type \notin GateJobs \union StorageJobs /\ Aside(Taken(p), q)
    BY <1>3 DEF Passes, Spoken, GateJobs
  <2>2. GateIs(Taken(p)) /\ PortOK(Taken(p))
    BY <1>1, <2>1, GateTaken DEF StorageJobs
  <2> QED
    BY <2>1, <2>2, GateOthers
<1>4. CASE Talks(p, q)
  <2>1. /\ OdStep(t, q)
        /\ Head(p.mbox).type \in {"SMI_DEVICE_RW", "AL_USER_CNF", "OD_START", "OD_STOP"}
        /\ Head(p.mbox).type = "OD_STOP" => q.od = "Inactive"
        /\ Head(p.mbox).type \notin GateJobs => (q.od = "Inactive" <=> p.od = "Inactive")
    BY <1>4 DEF Talks, Looks, Answers, Starts, Stops, t, GateJobs
  <2>2. GateOK(q.od, p.cm, t.mbox)
    BY <1>1, <1>2, <2>1, GateOKTail DEF GateIs
  <2>3. /\ t.mbox \in Seq(JobSet) /\ q.mbox \in Seq(JobSet) /\ Kept(t.mbox, q.mbox)
        /\ \A i \in Len(t.mbox) + 1 .. Len(q.mbox) : q.mbox[i].type \notin GateJobs
        /\ q.cm = p.cm
    BY <1>2, <2>1 DEF OdStep, PortOK, Lengthens, Kept, Clear
  <2> QED
    BY <2>2, <2>3, GateOKGrows DEF GateIs
<1> QED
  BY <1>3, <1>4

\* Events are collected, or acknowledged.
LEMMA GateEvents ==
  ASSUME NEW p, PortOK(p), GateIs(p), NEW q, Collects(p, q) \/ Responds(p, q)
  PROVE  GateIs(q)
<1> DEFINE rest == Tail(p.mbox)
           response == [type |-> "AL_EVENT_RSP"]
           upload == [type |-> "DS_UPLOAD"]
<1>1. /\ p.mbox \in Seq(JobSet) /\ p.mbox # <<>>
      /\ Head(p.mbox).type \in {"DL_EVENT_IND", "AL_EVENT_RSP"}
      /\ q.cm = p.cm /\ q.od = p.od
  BY DEF Collects, Responds, PortOK
<1>2. q.mbox \in {rest, Append(rest, response), Append(Append(rest, response), upload)}
  BY DEF Collects, Responds
<1>3. GateOK(p.od, p.cm, rest) /\ rest \in Seq(JobSet)
  <2>1. GateIs(Taken(p)) /\ Taken(p).mbox = rest
    BY <1>1, GateTaken, TakenOK DEF GateJobs
  <2> QED
    BY <1>1, <2>1, TakenOK DEF GateIs
<1>4. /\ response \in JobSet /\ response.type \notin GateJobs
      /\ upload \in JobSet /\ upload.type \notin GateJobs
  BY DEF JobSet, UserJobs, QuietJobs, GateJobs
<1>5. ASSUME NEW m \in Seq(JobSet), GateOK(p.od, p.cm, m),
             NEW job \in JobSet, job.type \notin GateJobs
      PROVE  Append(m, job) \in Seq(JobSet) /\ GateOK(p.od, p.cm, Append(m, job))
  <2> DEFINE n == Append(m, job)
  <2>1. /\ n \in Seq(JobSet) /\ Len(n) = Len(m) + 1 /\ Len(m) \in Nat
        /\ \A i \in 1..Len(m) : n[i] = m[i]
        /\ n[Len(m) + 1] = job
    BY <1>5
  <2> HIDE DEF n
  <2>2. \A i \in Len(m) + 1 .. Len(n) : i = Len(m) + 1
    BY <2>1
  <2>3. Kept(m, n) /\ \A i \in Len(m) + 1 .. Len(n) : n[i].type \notin GateJobs
    BY <1>5, <2>1, <2>2 DEF Kept
  <2>4. GateOK(p.od, p.cm, n)
    BY <1>5, <2>1, <2>3, GateOKGrows
  <2> QED
    BY <2>1, <2>4 DEF n
<1> HIDE DEF rest, response, upload
<1>6. /\ GateOK(p.od, p.cm, Append(rest, response))
      /\ Append(rest, response) \in Seq(JobSet)
  BY <1>3, <1>4, <1>5
<1>7. GateOK(p.od, p.cm, Append(Append(rest, response), upload))
  BY <1>4, <1>5, <1>6
<1> QED
  BY <1>1, <1>2, <1>3, <1>6, <1>7 DEF GateIs

\* The jobs of the configuration manager
LEMMA GateCmJobs ==
  ASSUME StackOK, GateIs(Port),
         MainPortConfiguration \/ MainPortModeInd \/ MainDsReady \/ MainDsFault
  PROVE  GateIs(Port')
<1> DEFINE t == Taken(Port)
           job == Head(mbox)
<1>1. /\ mbox # <<>>
      /\ job.type \in {"SMI_PORTCONFIGURATION", "SM_PORT_MODE_IND", "DS_READY", "DS_FAULT"}
  BY DEF MainPortConfiguration, MainPortModeInd, MainDsReady, MainDsFault, Executes
<1>2. PortOK(t) /\ t = [Port EXCEPT !.mbox = Tail(@)] /\ job \in JobSet
  BY <1>1, FirstJob
<1>3. GateIs(t)
  BY <1>1, GateTaken, PortVariables DEF StackOK, GateJobs
<1> HIDE DEF t, job
<1>4. CASE MainPortConfiguration
  <2> DEFINE q == CmPortConfiguration(t, job)
  <2>1. job.type = "SMI_PORTCONFIGURATION" /\ Becomes(q)
    BY <1>2, <1>4 DEF MainPortConfiguration, Executes, job
  <2>2. PortOK(q) /\ Directs(t, q, "CFG_CHANGE", job.config)
    BY <1>2, <2>1, JobFields, CmCallbacksStep, CmCallbacksDirect, StillPortOK
  <2> HIDE DEF q
  <2> QED
    BY <1>2, <1>3, <2>1, <2>2, GateManaged, GateBecomes
<1>5. CASE MainPortModeInd
  <2>1. job.type = "SM_PORT_MODE_IND" /\ Becomes(CmPortModeInd(t, job))
    BY <1>2, <1>5 DEF MainPortModeInd, Executes, job
  <2>2. job.mode \in PortModes
    BY <1>2, <2>1, JobFields
  <2>3. PortOK(CmPortModeInd(t, job))
    BY <1>2, <2>2, CmPortModeIndStep, StillPortOK
  <2>4. CASE \E event : Directs(t, CmPortModeInd(t, job), event, job.config)
    BY <1>2, <1>3, <2>1, <2>3, <2>4, GateManaged, GateBecomes
  <2>5. CASE /\ Touches(t, CmPortModeInd(t, job), {"cm"}, {})
             /\ CmPortModeInd(t, job).cm.state = t.cm.state
             /\ CmPortModeInd(t, job).cm.status = "DEACTIVATED"
    <3>1. /\ "od" \in PortFields \ ({"cm"} \union {"mbox"})
          /\ Shaped(t)
      BY <1>2, OKShaped DEF PortFields
    <3>2. /\ CmPortModeInd(t, job).mbox = t.mbox
          /\ CmPortModeInd(t, job).od = t.od
      BY <2>5, <3>1, TouchesNone DEF Touches
    <3>3. GateIs(CmPortModeInd(t, job))
      BY <1>3, <2>5, <3>2 DEF GateIs, GateOK
    <3> QED
      BY <2>1, <2>3, <3>3, GateBecomes
  <2> QED
    BY <1>2, <2>2, <2>4, <2>5, CmCallbacksDirect
<1>6. CASE MainDsReady
  <2> DEFINE q == CmDsReady(t, job)
  <2>1. job.type = "DS_READY" /\ Becomes(q)
    BY <1>2, <1>6 DEF MainDsReady, Executes, job
  <2>2. PortOK(q) /\ Directs(t, q, "DS_Ready", job.config)
    BY <1>2, CmCallbacksStep, CmCallbacksDirect, StillPortOK
  <2> HIDE DEF q
  <2> QED
    BY <1>2, <1>3, <2>1, <2>2, GateManaged, GateBecomes
<1>7. CASE MainDsFault
  <2> DEFINE q == CmDsFault(t, job)
  <2>1. job.type = "DS_FAULT" /\ Becomes(q)
    BY <1>2, <1>7 DEF MainDsFault, Executes, job
  <2>2. PortOK(q) /\ Directs(t, q, "DS_Fault", job.config)
    BY <1>2, CmCallbacksStep, CmCallbacksDirect, StillPortOK
  <2> HIDE DEF q
  <2> QED
    BY <1>2, <1>3, <2>1, <2>2, GateManaged, GateBecomes
<1> QED
  BY <1>4, <1>5, <1>6, <1>7

\* What data storage does leaves the exchange alone.
LEMMA GateWorks ==
  ASSUME NEW p, PortOK(p), GateIs(p), NEW q, DsTouches(p, q)
  PROVE  GateIs(q)
<1>1. /\ "od" \in PortFields \ ({"ds"} \union {"mbox"})
      /\ "cm" \in PortFields \ ({"ds"} \union {"mbox"})
      /\ DsPosted \intersect GateJobs = {}
  BY DEF PortFields, DsPosted, GateJobs
<1>2. /\ q.mbox \in Seq(JobSet) /\ Kept(p.mbox, q.mbox) /\ q.od = p.od /\ q.cm = p.cm
      /\ \A i \in Len(p.mbox) + 1 .. Len(q.mbox) : q.mbox[i].type \notin GateJobs
  BY <1>1 DEF DsTouches, Touches, Shaped
<1>3. p.mbox \in Seq(JobSet)
  BY DEF PortOK
<1> QED
  BY <1>2, <1>3, GateOKGrows DEF GateIs

\* The jobs of data storage.  Of an upload there is none.
LEMMA GateDsJobs ==
  ASSUME StackOK, GateIs(Port), StorageOK(cm, ds, mbox),
         MainDsStartup \/ MainDsInit \/ MainDsDelete \/ MainDsUpload \/ MainDsReadCnf
            \/ MainDsWriteCnf
  PROVE  GateIs(Port')
<1> DEFINE t == Taken(Port)
           job == Head(mbox)
<1>1. /\ mbox # <<>>
      /\ job.type \in {"DS_STARTUP", "DS_INIT", "DS_DELETE", "DS_UPLOAD", "DS_READ_CNF",
                       "DS_WRITE_CNF"}
  BY DEF MainDsStartup, MainDsInit, MainDsDelete, MainDsUpload, MainDsReadCnf,
         MainDsWriteCnf, Executes
<1>2. /\ PortOK(t) /\ t = [Port EXCEPT !.mbox = Tail(@)] /\ job \in JobSet
      /\ mbox \in Seq(JobSet) /\ t.ds.event = "NONE"
      /\ t.cm = cm /\ t.od = od /\ t.mbox = Tail(mbox)
  BY <1>1, FirstJob, TakenOK, PortVariables DEF StackOK, PortOK
<1>3. GateIs(t)
  <2>1. CASE job.type = "DS_STARTUP"
    <3>1. GateOK(od, cm, mbox)
      BY PortVariables DEF GateIs
    <3>2. GateOK(od, cm, Tail(mbox))
      BY <1>1, <1>2, <2>1, <3>1, GateOKStartup
    <3> QED
      BY <1>2, <3>2 DEF GateIs
  <2>2. CASE job.type # "DS_STARTUP"
    BY <1>1, <2>2, GateTaken, PortVariables DEF StackOK, GateJobs
  <2> QED
    BY <2>1, <2>2
<1>4. job.type # "DS_UPLOAD"
  <2>1. "DS_UPLOAD" \in StorageJobs \ Orders
    BY DEF StorageJobs, Orders
  <2> QED
    BY <1>1, <1>2, <2>1, StorageAlone
<1>0. PortOK(t)
  BY <1>2
<1> HIDE DEF t, job
<1>5. ASSUME NEW q, DsTouches(t, q), PortOK(q), Becomes(q) PROVE GateIs(Port')
  BY <1>2, <1>3, <1>5, GateWorks, GateBecomes
<1>6. CASE MainDsStartup
  <2>1. job.type = "DS_STARTUP" /\ Becomes(DsStartup(t, job))
    BY <1>2, <1>6 DEF MainDsStartup, Executes, job
  <2>2. PortOK(DsStartup(t, job))
    BY <1>2, <2>1, JobFields, DsCallbacksStep, StillPortOK
  <2>3. DsTouches(t, DsStartup(t, job))
    BY ONLY <1>0, DsCallbacksTouch
  <2> QED
    BY <1>5, <2>1, <2>2, <2>3
<1>10. CASE MainDsInit
  <2>1. job.type = "DS_INIT" /\ Becomes(DsInit(t, job))
    BY <1>2, <1>10 DEF MainDsInit, Executes, job
  <2>2. PortOK(DsInit(t, job))
    BY <1>2, <2>1, JobFields, DsCallbacksStep, StillPortOK
  <2>3. DsTouches(t, DsInit(t, job))
    BY ONLY <1>0, DsCallbacksTouch
  <2> QED
    BY <1>5, <2>1, <2>2, <2>3
<1>11. CASE MainDsDelete
  <2>1. job.type = "DS_DELETE" /\ Becomes(DsDelete(t, job))
    BY <1>2, <1>11 DEF MainDsDelete, Executes, job
  <2>2. PortOK(DsDelete(t, job))
    BY <1>2, <2>1, JobFields, DsCallbacksStep, StillPortOK
  <2>3. DsTouches(t, DsDelete(t, job))
    BY ONLY <1>0, DsCallbacksTouch
  <2> QED
    BY <1>5, <2>1, <2>2, <2>3
<1>7. CASE MainDsUpload
  BY <1>4, <1>7 DEF MainDsUpload, Executes, job
<1>8. CASE MainDsReadCnf
  <2>1. PICK answer \in DsAnswers :
           job.type = "DS_READ_CNF" /\ Becomes(DsReadCnf(t, job, answer))
    BY <1>2, <1>8 DEF MainDsReadCnf, Executes, job
  <2> DEFINE q == DsReadCnf(t, job, answer)
  <2>2. DsTouches(t, q)
    BY ONLY <1>0, DsCallbacksTouch
  <2>3. Still(t, q)
    BY <1>2, <2>1, JobFields, DsReadCnfStep
  <2>4. Becomes(q)
    BY <2>1
  <2> HIDE DEF q
  <2> QED
    BY <1>2, <1>5, <2>2, <2>3, <2>4, StillPortOK
<1>9. CASE MainDsWriteCnf
  <2>1. PICK answer \in DsAnswers :
           job.type = "DS_WRITE_CNF" /\ Becomes(DsWriteCnf(t, job, answer))
    BY <1>2, <1>9 DEF MainDsWriteCnf, Executes, job
  <2> DEFINE q == DsWriteCnf(t, job, answer)
  <2>2. DsTouches(t, q)
    BY ONLY <1>0, DsCallbacksTouch
  <2>3. Still(t, q)
    BY <1>2, <2>1, JobFields, DsWriteCnfStep
  <2>4. Becomes(q)
    BY <2>1
  <2> HIDE DEF q
  <2> QED
    BY <1>2, <1>5, <2>2, <2>3, <2>4, StillPortOK
<1> QED
  BY <1>6, <1>7, <1>8, <1>9, <1>10, <1>11

LEMMA GateStep ==
  ASSUME StackOK, StorageInv, GateIs(Port), Next
  PROVE  GateIs(Port')
<1>1. PortOK(Port) /\ StorageOK(cm, ds, mbox)
  BY PortVariables DEF StackOK, StorageInv
<1>3. CASE DlWait \/ DlThread \/ Around
  BY <1>1, <1>3, DlThreadStep, AroundStep, GateOthers
<1>4. CASE Above
  BY <1>1, <1>4, AccessStep, ConfigureStep, RestartStep, ControlStep, GateOthers DEF Above
<1>5. CASE \/ MainPortConfiguration \/ MainPortModeInd \/ MainDsReady \/ MainDsFault
  BY <1>5, GateCmJobs
<1>6. CASE \/ MainDsStartup \/ MainDsInit \/ MainDsDelete \/ MainDsUpload
           \/ MainDsReadCnf \/ MainDsWriteCnf
  BY <1>1, <1>6, GateDsJobs
<1>7. CASE \/ MainSetPortConfig \/ MainOperate \/ MainModeInd \/ MainReadCnf
           \/ MainWriteCnf \/ MainDevmodeCnf \/ MainAlCnf
           \/ MainAlRequest \/ MainReadParamCnf \/ MainWriteParamCnf \/ MainIsduCnf
  <2>1. Passes(Port, Port')
    BY <1>7, SmJobs, AlJobs
  <2> QED
    BY <1>1, <2>1, GateOtherJobs
<1>8. CASE MainSmiRequest \/ MainUserCnf \/ MainOdStart \/ MainOdStop
  <2>1. Talks(Port, Port')
    BY <1>8, OdJobs DEF Talks
  <2> QED
    BY <1>1, <2>1, GateOtherJobs
<1>9. CASE MainEventInd \/ MainEventRsp
  BY <1>1, <1>9, EventJobs, GateEvents
<1> QED
  BY <1>3, <1>4, <1>5, <1>6, <1>7, <1>8, <1>9 DEF Next, MainThread

LEMMA GateStart == Init => GateIs(Port)
<1> SUFFICES ASSUME Init PROVE GateIs(Port)
  OBVIOUS
<1>1. cm.state = "Port_Deactivated" /\ od = "Inactive" /\ mbox = <<>>
  BY DEF Init, InitConfigurationManager
<1> QED
  BY <1>1, PortVariables DEF GateIs, GateOK, Shut

LEMMA GateInvariant == ASSUME NoUploads PROVE Spec => []GateIs(Port)
<1>1. ASSUME StackInv, StorageInv, GateIs(Port), [Next]_vars PROVE GateIs(Port)'
  <2>1. StackOK
    BY <1>1 DEF StackInv, StackOK
  <2>2. CASE Next
    BY <1>1, <2>1, <2>2, GateStep
  <2>3. CASE UNCHANGED vars
    <3>1. Port' = Port
      BY <2>3 DEF vars, Port
    <3> QED
      BY <1>1, <3>1
  <2> QED
    BY <1>1, <2>2, <2>3
<1> QED
  BY <1>1, GateStart, StackInvariant, StorageInvariant, PTL DEF Spec

\* While a device does not ask for uploads, data storage and the application never have the
\* device at the same time, and while data storage has it the port is neither operational
\* nor reported faulty: in any interleaving of the threads, however often the port is
\* reconfigured, restarted or disturbed (iolink_cm.c, iolink_ds.c and iolink_ode.c).
THEOREM StackExclusive == ASSUME NoUploads PROVE Spec => []Lifecycle!Exclusive
<1>1. ASSUME StorageInv, GateIs(Port) PROVE Lifecycle!Exclusive
  <2>1. Phase(cm, ds, mbox) /\ GateOK(od, cm, mbox)
    BY <1>1, PortVariables DEF StorageInv, StorageOK, GateIs
  <2>2. SUFFICES ASSUME Stores PROVE od = "Inactive" /\ cm.status \notin {"OP", "PORT_DIAG"}
    BY DEF Lifecycle!Exclusive
  <2>3. cm.state = "DS_ParamManager" /\ Bare(mbox)
    BY <2>1, <2>2 DEF Phase, AtRest, Stores
  <2>4. Locked(od, mbox) /\ cm.status \in {"PREOP", "DEACTIVATED"}
    BY <2>1, <2>3 DEF GateOK
  <2>5. \A k \in 1..Len(mbox) : mbox[k].type # "DS_STARTUP"
    BY <2>3 DEF Bare, StorageJobs
  <2> QED
    BY <2>4, <2>5 DEF Locked, Entered
<1> QED
  BY <1>1, GateInvariant, StorageInvariant, PTL

-----------------------------------------------------------------------------
(* The life of the port as PortLifecycle promises it *)

\* While the port is prepared and made operational its status says so, or a late report
\* has said that it is off.
InStep(c) ==
  c.state \in {"DS_ParamManager", "WaitingOnOperate"} => c.status \in {"PREOP", "DEACTIVATED"}

Fits(p) == InStep(p.cm)

\* Data storage and the exchange do not have the device at the same time.
NeverBoth(p) == p.od # "Inactive" => AtRest(p.ds)

\* The late steps of PortLifecycle, or none: from the status s, with data storage at work
\* (a) or not and the exchange open (o) or not, to t, b and u.
Promised(s, a, o, t, b, u) ==
  \/ t = s /\ (b <=> a) /\ (u <=> o)
  \/ ~a /\ t = "PREOP" /\ (b <=> a) /\ (u <=> o)
  \/ s \in {"PREOP", "DEACTIVATED"} /\ ~o /\ b /\ t = s /\ (u <=> o)
  \/ a /\ ~b /\ t = s /\ (u <=> o)
  \/ s \in {"PREOP", "DEACTIVATED"} /\ ~a /\ t = "OP" /\ (b <=> a) /\ (u <=> o)
  \/ ~a /\ u /\ t = s /\ (b <=> a)
  \/ ~u /\ t = s /\ (b <=> a)
  \/ ~a /\ t = "PORT_DIAG" /\ (b <=> a) /\ (u <=> o)
  \/ t \in {"NO_DEV", "DEACTIVATED", "DIDO"} /\ (b <=> a) /\ (u <=> o)

Carries(p, q) ==
  Promised(p.cm.status, ~AtRest(p.ds), p.od # "Inactive",
           q.cm.status, ~AtRest(q.ds), q.od # "Inactive")

\* What a step does that leaves the configuration manager alone
Tame(p, q) ==
  /\ q.cm = p.cm
  /\ AtRest(p.ds) => AtRest(q.ds) \/ p.cm.state = "DS_ParamManager"
  /\ q.ds = p.ds \/ q.od = p.od

LEMMA TameCarries ==
  ASSUME NEW p, NEW q, Tame(p, q), Fits(p), NeverBoth(q)
  PROVE  Carries(p, q) /\ Fits(q)
<1>1. Fits(q) /\ q.cm.status = p.cm.status
  BY DEF Tame, Fits
<1>2. SUFFICES ASSUME NEW s, s = p.cm.status, s = q.cm.status,
                      NEW a \in BOOLEAN, a = (~AtRest(p.ds)), NEW b \in BOOLEAN, b = (~AtRest(q.ds)),
                      NEW o \in BOOLEAN, o = (p.od # "Inactive"),
                      NEW u \in BOOLEAN, u = (q.od # "Inactive")
               PROVE  Promised(s, a, o, s, b, u)
  BY <1>1 DEF Carries
<1>3. /\ b /\ ~a => s \in {"PREOP", "DEACTIVATED"}
      /\ u => ~b
      /\ b = a \/ u = o
  <2>1. b /\ ~a => s \in {"PREOP", "DEACTIVATED"}
    BY <1>2 DEF Tame, Fits, InStep
  <2>2. u => ~b
    BY <1>2 DEF NeverBoth
  <2>3. b = a \/ u = o
    BY <1>2 DEF Tame
  <2> QED
    BY <2>1, <2>2, <2>3
<1> QED
  BY <1>3 DEF Promised

\* Something happens to the configuration manager.
LEMMA LifeManaged ==
  ASSUME NEW p, Fits(p), NEW q, NEW event, NEW config,
         Directs(p, q, event, config),
         AtRest(p.ds) \/ p.cm.state = "DS_ParamManager",
         event = "DS_Fault" => AtRest(p.ds)
  PROVE  Carries(p, q) /\ Fits(q)
<1>1. p.cm.state \in {"DS_ParamManager", "WaitingOnOperate"} =>
        p.cm.status \in {"PREOP", "DEACTIVATED"}
  BY DEF Fits, InStep
<1>2. q.od = p.od /\ q.ds = p.ds
  <2>1. /\ "od" \in PortFields \ ({"cm", "lost"} \union {"mbox"})
        /\ "ds" \in PortFields \ ({"cm", "lost"} \union {"mbox"})
        /\ "od" \in PortFields \ ({"cm"} \union {"mbox"})
        /\ "ds" \in PortFields \ ({"cm"} \union {"mbox"})
    BY DEF PortFields
  <2> QED
    BY <2>1 DEF Directs, Touches
<1>3. CASE q.cm.state = p.cm.state /\ q.cm.status = p.cm.status
  BY <1>1, <1>2, <1>3 DEF Carries, Promised, Fits, InStep
<1>4. CASE q.cm.state = "CheckPortMode" /\ q.cm.status = "NO_DEV"
  BY <1>2, <1>4 DEF Carries, Promised, Fits, InStep
<1>5. CASE /\ q.cm.state = "PortFault" /\ q.cm.status = "PORT_DIAG"
           /\ p.cm.state = "DS_ParamManager" => event = "DS_Fault"
  BY <1>2, <1>5 DEF Carries, Promised, Fits, InStep
<1>6. CASE /\ p.cm.state = "SM_Startup" /\ q.cm.state = "DS_ParamManager"
           /\ q.cm.status = "PREOP"
  BY <1>2, <1>6 DEF Carries, Promised, Fits, InStep
<1>7. CASE /\ p.cm.state = "DS_ParamManager" /\ q.cm.state = "WaitingOnOperate"
           /\ q.cm.status = p.cm.status
  BY <1>1, <1>2, <1>7 DEF Carries, Promised, Fits, InStep
<1>8. CASE /\ p.cm.state = "WaitingOnOperate" /\ q.cm.state = "Port_Active"
           /\ q.cm.status = "OP"
  BY <1>1, <1>2, <1>8 DEF Carries, Promised, Fits, InStep
<1>9. CASE /\ q.cm.state \in {"SM_Startup", "Port_DIDO", "Port_Deactivated"}
           /\ q.cm.status \in {p.cm.status, "DIDO", "DEACTIVATED"}
  BY <1>2, <1>9 DEF Carries, Promised, Fits, InStep
<1> QED
  BY <1>3, <1>4, <1>5, <1>6, <1>7, <1>8, <1>9 DEF Directs

-----------------------------------------------------------------------------
(* Each step *)

\* Another job is posted, or a request of the user.
LEMMA TameOthers ==
  ASSUME NEW p, NEW q, Aside(p, q) \/ Asks(p, q)
  PROVE  Tame(p, q)
<1>1. q.cm = p.cm /\ q.od = p.od /\ q.ds = p.ds
  BY DEF Aside, Calm, Asks
<1> QED
  BY <1>1 DEF Tame

\* A job is taken from the mailbox, and something is done that is tame.
LEMMA TameTaken ==
  ASSUME NEW p, PortOK(p), p.mbox # <<>>, NEW q, Tame(Taken(p), q)
  PROVE  Tame(p, q)
BY TakenOK DEF Tame

LEMMA TameOtherJobs ==
  ASSUME NEW p, PortOK(p), NEW q, Passes(p, q) \/ Talks(p, q)
  PROVE  Tame(p, q)
<1> DEFINE t == Taken(p)
<1>1. p.mbox # <<>>
  BY DEF Passes, Talks, Looks, Answers, Starts, Stops
<1>2. t.od = p.od /\ t.cm = p.cm /\ t.ds = p.ds
  BY <1>1, TakenOK
<1>3. CASE Passes(p, q)
  BY <1>1, <1>3, TameOthers, TameTaken DEF Passes
<1> HIDE DEF t
<1>4. CASE Talks(p, q)
  <2>1. OdStep(t, q)
    BY <1>4 DEF Talks, Looks, Answers, Starts, Stops, t
  <2>2. q.cm = p.cm /\ q.ds = p.ds
    BY <1>2, <2>1 DEF OdStep
  <2> QED
    BY <2>2 DEF Tame
<1> QED
  BY <1>3, <1>4

\* Events are collected, or acknowledged.
LEMMA TameEvents ==
  ASSUME NEW p, NEW q, Collects(p, q) \/ Responds(p, q)
  PROVE  Tame(p, q)
<1>1. q.cm = p.cm /\ q.od = p.od /\ q.ds = p.ds
  BY DEF Collects, Responds
<1> QED
  BY <1>1 DEF Tame

\* Data storage goes to work only when it is started.
LEMMA TameDsJobs ==
  ASSUME StackOK, StorageOK(cm, ds, mbox),
         MainDsStartup \/ MainDsInit \/ MainDsDelete \/ MainDsUpload \/ MainDsReadCnf
            \/ MainDsWriteCnf
  PROVE  Tame(Port, Port')
<1> DEFINE t == Taken(Port)
           job == Head(mbox)
<1>1. /\ mbox # <<>>
      /\ job.type \in {"DS_STARTUP", "DS_INIT", "DS_DELETE", "DS_UPLOAD", "DS_READ_CNF",
                       "DS_WRITE_CNF"}
  BY DEF MainDsStartup, MainDsInit, MainDsDelete, MainDsUpload, MainDsReadCnf,
         MainDsWriteCnf, Executes
<1>2. /\ PortOK(t) /\ t = [Port EXCEPT !.mbox = Tail(@)] /\ job \in JobSet
      /\ mbox \in Seq(JobSet) /\ t.ds.event = "NONE"
      /\ t.cm = cm /\ t.ds = ds /\ t.od = od /\ t.mbox = Tail(mbox)
  BY <1>1, FirstJob, TakenOK, PortVariables DEF StackOK, PortOK
<1>3. /\ job.type = "DS_STARTUP" => cm.state = "DS_ParamManager" /\ AtRest(ds)
      /\ job.type # "DS_UPLOAD"
  <2>1. {"DS_STARTUP", "DS_UPLOAD"} \subseteq StorageJobs \ Orders
    BY DEF StorageJobs, Orders
  <2> QED
    BY <1>1, <1>2, <2>1, StorageAlone
<1>4. job.type \in {"DS_INIT", "DS_DELETE"} => AtRest(t.ds)
  BY <1>1, <1>2, OrdersAtRest DEF Orders
<1>5. HoldsSet(t.ds.state, "NONE") => t.ds.valid
  BY <1>2 DEF StorageOK
<1>0. PortOK(t)
  BY <1>2
<1>6. ASSUME NEW q, PortOK(q), DsTouches(t, q), Becomes(q),
             AtRest(t.ds) => AtRest(q.ds) \/ t.cm.state = "DS_ParamManager"
      PROVE  Tame(Port, Port')
  <2>1. /\ "od" \in PortFields \ ({"ds"} \union {"mbox"})
        /\ "cm" \in PortFields \ ({"ds"} \union {"mbox"})
    BY DEF PortFields
  <2>2. q.od = t.od /\ q.cm = t.cm
    BY <1>6, <2>1 DEF DsTouches, Touches
  <2>4. Tame(t, q)
    BY <1>6, <2>2 DEF Tame
  <2>5. PortOK(Port) /\ Port.mbox # <<>>
    BY <1>1, PortVariables DEF StackOK
  <2>6. Tame(Port, q)
    BY <2>4, <2>5, TameTaken
  <2> QED
    BY <1>6, <2>6, Becoming DEF Tame
<1> HIDE DEF t, job
<1>7. CASE MainDsStartup
  <2>1. job.type = "DS_STARTUP" /\ Becomes(DsStartup(t, job))
    BY <1>2, <1>7 DEF MainDsStartup, Executes, job
  <2>2. PortOK(DsStartup(t, job))
    BY <1>2, <2>1, JobFields, DsCallbacksStep, StillPortOK
  <2>3. DsTouches(t, DsStartup(t, job))
    BY ONLY <1>0, DsCallbacksTouch
  <2> QED
    BY <1>2, <1>3, <1>6, <2>1, <2>2, <2>3
<1>8. CASE MainDsInit
  <2> DEFINE q == DsInit(t, job)
  <2>1. job.type = "DS_INIT" /\ Becomes(q)
    BY <1>2, <1>8 DEF MainDsInit, Executes, job
  <2>2. AtRest(t.ds)
    BY <1>4, <2>1
  <2>3. PortOK(q) /\ AtRest(q.ds)
    BY ONLY <1>0, <2>2, DsInitRests
  <2>4. DsTouches(t, q)
    BY ONLY <1>0, DsCallbacksTouch
  <2>5. Becomes(q)
    BY <2>1
  <2> HIDE DEF q
  <2> QED
    BY <1>6, <2>3, <2>4, <2>5
<1>9. CASE MainDsDelete
  <2> DEFINE q == DsDelete(t, job)
  <2>1. job.type = "DS_DELETE" /\ Becomes(q)
    BY <1>2, <1>9 DEF MainDsDelete, Executes, job
  <2>2. AtRest(t.ds)
    BY <1>4, <2>1
  <2>3. Rested(t, q)
    BY ONLY <1>0, <2>2, DsDeleteRests
  <2>4. DsTouches(t, q)
    BY ONLY <1>0, DsCallbacksTouch
  <2>5. Becomes(q)
    BY <2>1
  <2> HIDE DEF q
  <2>6. PortOK(q) /\ AtRest(q.ds)
    BY <2>3 DEF Rested, Idle, AtRest
  <2> QED
    BY <1>6, <2>4, <2>5, <2>6
<1>10. CASE MainDsUpload
  BY <1>3, <1>10 DEF MainDsUpload, Executes, job
<1>11. CASE MainDsReadCnf
  <2>1. PICK answer \in DsAnswers :
           job.type = "DS_READ_CNF" /\ Becomes(DsReadCnf(t, job, answer))
    BY <1>2, <1>11 DEF MainDsReadCnf, Executes, job
  <2> DEFINE q == DsReadCnf(t, job, answer)
  <2>2. Worked(t, q)
    BY <1>2, <1>5, DsReadCnfWorked
  <2>3. DsTouches(t, q)
    BY ONLY <1>0, DsCallbacksTouch
  <2>4. Becomes(q)
    BY <2>1
  <2> HIDE DEF q
  <2>5. PortOK(q) /\ (AtRest(t.ds) => AtRest(q.ds))
    BY <2>2 DEF Worked, Works, Rested, Idle, AtRest
  <2> QED
    BY <1>6, <2>3, <2>4, <2>5
<1>12. CASE MainDsWriteCnf
  <2>1. PICK answer \in DsAnswers :
           job.type = "DS_WRITE_CNF" /\ Becomes(DsWriteCnf(t, job, answer))
    BY <1>2, <1>12 DEF MainDsWriteCnf, Executes, job
  <2> DEFINE q == DsWriteCnf(t, job, answer)
  <2>2. Worked(t, q)
    BY <1>2, <1>5, DsWriteCnfWorked
  <2>3. DsTouches(t, q)
    BY ONLY <1>0, DsCallbacksTouch
  <2>4. Becomes(q)
    BY <2>1
  <2> HIDE DEF q
  <2>5. PortOK(q) /\ (AtRest(t.ds) => AtRest(q.ds))
    BY <2>2 DEF Worked, Works, Rested, Idle, AtRest
  <2> QED
    BY <1>6, <2>3, <2>4, <2>5
<1> QED
  BY <1>7, <1>8, <1>9, <1>10, <1>11, <1>12

-----------------------------------------------------------------------------
(* The life of the port is kept *)

\* What becomes of the port is all that counts.
LEMMA LifeBecomes ==
  ASSUME StackOK, mbox # <<>>, NEW q, PortOK(q), Becomes(q), Carries(Taken(Port), q), Fits(q)
  PROVE  Carries(Port, Port') /\ Fits(Port')
<1>1. /\ Taken(Port).cm = Port.cm /\ Taken(Port).ds = Port.ds /\ Taken(Port).od = Port.od
  BY TakenOK, PortVariables DEF StackOK
<1>2. /\ Port'.cm = q.cm /\ Port'.ds = q.ds /\ Port'.od = q.od /\ Port'.mbox = q.mbox
  BY Becoming
<1> QED
  BY <1>1, <1>2 DEF Carries, Fits

\* A report is handled: it is an event of the configuration manager, or switches it off.
Directed(p, q, job) ==
  \E event : /\ event \notin {"DS_Ready", "DS_Fault", "CFG_CHANGE"}
             /\ event = "SM_COMREADY" => job.mode = "COMREADY"
             /\ Directs(p, q, event, job.config)

SwitchesOff(p, q, job) ==
  /\ job.mode = "INACTIVE"
  /\ Touches(p, q, {"cm"}, {})
  /\ q.cm.state = p.cm.state /\ q.cm.status = "DEACTIVATED"

LEMMA LifeCmJobs ==
  ASSUME StackOK, StorageOK(cm, ds, mbox), Fits(Port),
         MainPortConfiguration \/ MainPortModeInd \/ MainDsReady \/ MainDsFault
  PROVE  Carries(Port, Port') /\ Fits(Port')
<1> DEFINE t == Taken(Port)
           job == Head(mbox)
<1>1. /\ mbox # <<>>
      /\ job.type \in {"SMI_PORTCONFIGURATION", "SM_PORT_MODE_IND", "DS_READY", "DS_FAULT"}
  BY DEF MainPortConfiguration, MainPortModeInd, MainDsReady, MainDsFault, Executes
<1>2. PortOK(t) /\ t = [Port EXCEPT !.mbox = Tail(@)] /\ job \in JobSet
  BY <1>1, FirstJob
<1>4. /\ mbox \in Seq(JobSet) /\ t.mbox = Tail(mbox)
      /\ t.cm = cm /\ t.ds = ds /\ t.od = od
  BY <1>1, TakenOK, PortVariables DEF StackOK, PortOK
<1>6. Fits(t)
  BY <1>4, PortVariables DEF Fits
<1>7. AtRest(t.ds) \/ t.cm.state = "DS_ParamManager"
  BY <1>4 DEF StorageOK, Phase
<1>8. ASSUME NEW q, PortOK(q), Becomes(q), NEW event, NEW config, Directs(t, q, event, config),
             event = "DS_Fault" => AtRest(t.ds)
      PROVE  Carries(Port, Port') /\ Fits(Port')
  <2>1. Carries(t, q) /\ Fits(q)
    BY <1>6, <1>7, <1>8, LifeManaged
  <2> QED
    BY <1>1, <1>8, <2>1, LifeBecomes
<1>9. job.type = "DS_FAULT" => AtRest(t.ds)
  <2>1. "DS_FAULT" \in StorageJobs \ Orders
    BY DEF StorageJobs, Orders
  <2> QED
    BY <1>1, <1>4, <2>1, StorageAlone
<1> HIDE DEF t, job
<1>11. CASE MainPortConfiguration
  <2> DEFINE q == CmPortConfiguration(t, job)
  <2>1. job.type = "SMI_PORTCONFIGURATION" /\ Becomes(q)
    BY <1>2, <1>11 DEF MainPortConfiguration, Executes, job
  <2>2. PortOK(q) /\ Directs(t, q, "CFG_CHANGE", job.config)
    BY <1>2, <2>1, JobFields, CmCallbacksStep, CmCallbacksDirect, StillPortOK
  <2> HIDE DEF q
  <2> QED
    BY <1>8, <2>1, <2>2
<1>12. CASE MainPortModeInd
  <2> DEFINE q == CmPortModeInd(t, job)
  <2>1. job.type = "SM_PORT_MODE_IND" /\ Becomes(q)
    BY <1>2, <1>12 DEF MainPortModeInd, Executes, job
  <2>2. job.mode \in PortModes
    BY <1>2, <2>1, JobFields
  <2>3. PortOK(q)
    BY <1>2, <2>2, CmPortModeIndStep, StillPortOK
  <2>4. Directed(t, q, job) \/ SwitchesOff(t, q, job)
    BY <1>2, <2>2, CmCallbacksDirect DEF Directed, SwitchesOff
  <2>5. Becomes(q)
    BY <2>1
  <2> HIDE DEF q
  <2>6. CASE Directed(t, q, job)
    <3>1. PICK event : /\ event \notin {"DS_Ready", "DS_Fault", "CFG_CHANGE"}
                       /\ event = "SM_COMREADY" => job.mode = "COMREADY"
                       /\ Directs(t, q, event, job.config)
      BY <2>6 DEF Directed
    <3> QED
      BY <1>8, <2>3, <2>5, <3>1
  <2>7. CASE SwitchesOff(t, q, job)
    <3>1. /\ "od" \in PortFields \ ({"cm"} \union {"mbox"})
          /\ "ds" \in PortFields \ ({"cm"} \union {"mbox"})
          /\ Shaped(t)
      BY <1>2, OKShaped DEF PortFields
    <3>2. q.mbox = t.mbox /\ q.od = t.od /\ q.ds = t.ds
      BY <2>7, <3>1, TouchesNone DEF SwitchesOff, Touches
    <3>4. Carries(t, q)
      BY <2>7, <3>2 DEF SwitchesOff, Carries, Promised
    <3>5. Fits(q)
      BY <2>7 DEF SwitchesOff, Fits, InStep
    <3> QED
      BY <1>1, <2>3, <2>5, <3>4, <3>5, LifeBecomes DEF t
  <2> QED
    BY <2>4, <2>6, <2>7
<1>13. CASE MainDsReady
  <2> DEFINE q == CmDsReady(t, job)
  <2>1. job.type = "DS_READY" /\ Becomes(q)
    BY <1>2, <1>13 DEF MainDsReady, Executes, job
  <2>2. PortOK(q) /\ Directs(t, q, "DS_Ready", job.config)
    BY <1>2, CmCallbacksStep, CmCallbacksDirect, StillPortOK
  <2> HIDE DEF q
  <2> QED
    BY <1>8, <2>1, <2>2
<1>14. CASE MainDsFault
  <2> DEFINE q == CmDsFault(t, job)
  <2>1. job.type = "DS_FAULT" /\ Becomes(q)
    BY <1>2, <1>14 DEF MainDsFault, Executes, job
  <2>2. PortOK(q) /\ Directs(t, q, "DS_Fault", job.config)
    BY <1>2, CmCallbacksStep, CmCallbacksDirect, StillPortOK
  <2> HIDE DEF q
  <2> QED
    BY <1>8, <1>9, <2>1, <2>2
<1> QED
  BY <1>11, <1>12, <1>13, <1>14

LEMMA LifeStep ==
  ASSUME StackOK, StorageInv, Fits(Port), NeverBoth(Port'), Next
  PROVE  Carries(Port, Port') /\ Fits(Port')
<1>1. PortOK(Port) /\ StorageOK(cm, ds, mbox)
  BY PortVariables DEF StackOK, StorageInv
<1>2. CASE \/ MainPortConfiguration \/ MainPortModeInd \/ MainDsReady \/ MainDsFault
  BY <1>1, <1>2, LifeCmJobs
<1>3. CASE Tame(Port, Port')
  BY <1>1, <1>3, TameCarries
<1>4. CASE DlWait \/ DlThread \/ Around
  BY <1>1, <1>3, <1>4, DlThreadStep, AroundStep, TameOthers
<1>5. CASE Above
  BY <1>1, <1>3, <1>5, AccessStep, ConfigureStep, RestartStep, ControlStep, TameOthers
     DEF Above
<1>6. CASE \/ MainDsStartup \/ MainDsInit \/ MainDsDelete \/ MainDsUpload
           \/ MainDsReadCnf \/ MainDsWriteCnf
  BY <1>1, <1>3, <1>6, TameDsJobs
<1>7. CASE \/ MainSetPortConfig \/ MainOperate \/ MainModeInd \/ MainReadCnf
           \/ MainWriteCnf \/ MainDevmodeCnf \/ MainAlCnf
           \/ MainAlRequest \/ MainReadParamCnf \/ MainWriteParamCnf \/ MainIsduCnf
  <2>1. Passes(Port, Port')
    BY <1>7, SmJobs, AlJobs
  <2> QED
    BY <1>1, <1>3, <2>1, TameOtherJobs
<1>8. CASE MainSmiRequest \/ MainUserCnf \/ MainOdStart \/ MainOdStop
  <2>1. Talks(Port, Port')
    BY <1>8, OdJobs DEF Talks
  <2> QED
    BY <1>1, <1>3, <2>1, TameOtherJobs
<1>9. CASE MainEventInd \/ MainEventRsp
  BY <1>1, <1>3, <1>9, EventJobs, TameEvents
<1> QED
  BY <1>2, <1>4, <1>5, <1>6, <1>7, <1>8, <1>9 DEF Next, MainThread

\* What the port is carried through is a late step of PortLifecycle, or none.
LEMMA LifeCarried ==
  ASSUME Carries(Port, Port') PROVE [Lifecycle!LateNext]_(Lifecycle!vars)
<1>1. /\ Port.cm = cm /\ Port.ds = ds /\ Port.od = od
      /\ Port'.cm = cm' /\ Port'.ds = ds' /\ Port'.od = od'
  BY DEF Port
<1>2. /\ Stores <=> ~AtRest(ds)
      /\ Stores' <=> ~AtRest(ds')
  BY DEF Stores, AtRest
<1>3. Promised(cm.status, Stores, od # "Inactive", cm'.status, Stores', od' # "Inactive")
  BY <1>1, <1>2 DEF Carries, Promised
<1> QED
  BY <1>3 DEF Promised, Lifecycle!LateNext, Lifecycle!vars, Lifecycle!LateReady,
     Lifecycle!LateStores, Lifecycle!Stored, Lifecycle!LateOperates, Lifecycle!LateOpens,
     Lifecycle!Closes, Lifecycle!Faulty, Lifecycle!Lost, Lifecycle!Off, Stores

\* The status of the port changes, and the device is accessed, in the order PortLifecycle
\* says, late reports of the system management included, however often the port is
\* reconfigured, restarted or disturbed, as long as the device does not ask for uploads
\* (iolink_cm.c, iolink_ds.c, iolink_ode.c).
THEOREM StackLifecycle == ASSUME NoUploads PROVE Spec => Lifecycle!LateSpec
<1>1. Init => Lifecycle!Init /\ Fits(Port)
  <2>1. SUFFICES ASSUME Init PROVE Lifecycle!Init /\ Fits(Port)
    OBVIOUS
  <2>2. /\ cm.status = "DEACTIVATED" /\ od = "Inactive"
        /\ cm.state = "Port_Deactivated" /\ ds.state = "CheckActivationState"
    BY <2>1 DEF Init, InitConfigurationManager, InitDataStorage
  <2> QED
    BY <2>2, PortVariables DEF Lifecycle!Init, Stores, Fits, InStep
<1>2. ASSUME StackInv, StorageInv, Fits(Port), (Lifecycle!Exclusive)', [Next]_vars
      PROVE  Fits(Port)' /\ [Lifecycle!LateNext]_(Lifecycle!vars)
  <2>1. CASE Next
    <3>1. NeverBoth(Port')
      <4>1. Port'.ds = ds' /\ Port'.od = od'
        BY DEF Port
      <4>2. od' # "Inactive" => ~Stores'
        BY <1>2 DEF Lifecycle!Exclusive
      <4> QED
        BY <4>1, <4>2 DEF NeverBoth, AtRest, Stores
    <3> QED
      BY <1>2, <2>1, <3>1, LifeStep, LifeCarried DEF StackInv
  <2>2. CASE UNCHANGED vars
    <3>1. Port' = Port /\ cm' = cm /\ ds' = ds /\ od' = od
      BY <2>2 DEF vars, Port
    <3> QED
      BY <1>2, <3>1 DEF Lifecycle!vars, Stores
  <2> QED
    BY <1>2, <2>1, <2>2
<1> QED
  BY <1>1, <1>2, StackInvariant, StorageInvariant, StackExclusive, PTL
     DEF Spec, Lifecycle!LateSpec

=============================================================================
