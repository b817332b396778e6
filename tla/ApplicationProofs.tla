-------------------------- MODULE ApplicationProofs --------------------------
(***************************************************************************)
(* Theorems about the application, for any number of losses and requests.  *)
(*                                                                         *)
(* A port goes round: it is configured, starts, runs, is lost, and waits   *)
(* to be configured again.  Recovery says where in this round the flags of *)
(* the three threads can be set; Status adds, while no wait of the handler *)
(* has ended without a confirmation, whose port status it looks at.        *)
(***************************************************************************)
EXTENDS Application, TLAPS

Flag(e) == e \in app_event \cup todo

\* The job is in the mailbox.
Has(q, j) == \E i \in 1 .. Len(q) : q[i] = j
Queued(j) == Has(mbox, j)

\* It is there once.
Once(q, j) == \A i, k \in 1 .. Len(q) : q[i] = j /\ q[k] = j => i = k

JobType == {"PORTCFG_CNF", "PORTSTATUS_CNF", "READ_CNF", "WRITE_CNF", "COMLOST"}

\* The port has been configured, and the handler has not looked at its status since.
Starting ==
    /\ app_port_state = "STARTING"
    /\ ~Flag("PORTE")
    /\ pc["handler"] \in {"PORTCFG_CNF", "idle"}

\* One of the threads is about to start the port again.
Recovering ==
    \/ Flag("COMLOST") \/ Queued("COMLOST")
    \/ timer = "started" \/ callback
    \/ Flag("RETRY_ESTCOM") \/ app_port_state = "WU_RETRY_WAIT_TSD"

Recovery ==
    /\ pc["handler"] = "config" =>
          /\ stack = "DEACTIVATED" /\ app_port_state = "INACTIVE"
          /\ app_event = {} /\ todo = {} /\ ~Queued("PORTCFG_CNF")
    /\ stack = "DEACTIVATED" => pc["handler"] = "config" \/ Queued("PORTCFG_CNF")
    /\ app_port_state = "INACTIVE" => pc["handler"] = "config"
    /\ Recovering => stack = "NO_DEV" /\ ~Queued("PORTCFG_CNF")
    /\ Queued("PORTCFG_CNF") => stack \in {"DEACTIVATED", "NO_DEV"} /\ Starting
    /\ Once(mbox, "PORTCFG_CNF")
    /\ stack = "CONFIGURED" => Starting
    /\ Queued("COMLOST") => Starting
    /\ timer = "started" => Starting /\ pc["handler"] = "idle"
    /\ app_port_state = "WU_RETRY_WAIT_TSD" =>
          /\ pc["handler"] = "idle" /\ timer = "stopped"
          /\ ~Flag("COMLOST") /\ ~Queued("COMLOST") /\ ~Flag("PORTE")
          /\ callback <=> ~Flag("RETRY_ESTCOM")
    /\ callback \/ Flag("RETRY_ESTCOM") => app_port_state = "WU_RETRY_WAIT_TSD"
    /\ "COMLOST" \in app_event /\ "COMLOST" \in todo => Starting
    /\ "RETRY_ESTCOM" \notin app_event \cap todo
    /\ "PORTE" \in app_event => stack \in {"OP", "PORT_DIAG"} \/ "COMLOST" \in app_event
    /\ "PORTE" \in todo \/ pc["handler"] \in {"PORTSTATUS_CNF", "verify"} =>
          stack \in {"OP", "PORT_DIAG"} \/ Flag("COMLOST")
    /\ stack = "NO_DEV" =>
          \/ Flag("COMLOST") \/ timer = "started" \/ callback \/ Flag("RETRY_ESTCOM")
          \/ Queued("PORTCFG_CNF")
-----------------------------------------------------------------------------
LEMMA AppendedJob ==
    ASSUME NEW q \in Seq(JobType), NEW x \in JobType
    PROVE  /\ Append(q, x) \in Seq(JobType)
           /\ \A j : Has(Append(q, x), j) <=> Has(q, j) \/ j = x
           /\ \A j : Once(q, j) /\ ~(Has(q, j) /\ j = x) => Once(Append(q, x), j)
  <1> DEFINE p == Append(q, x)
  <1>1. /\ p \in Seq(JobType) /\ Len(q) \in Nat /\ Len(p) = Len(q) + 1
        /\ \A i \in 1 .. Len(q) : p[i] = q[i]
        /\ p[Len(q) + 1] = x
    OBVIOUS
  <1> HIDE DEF p
  <1>2. ASSUME NEW j PROVE Has(p, j) <=> Has(q, j) \/ j = x
    <2>1. ASSUME Has(q, j) PROVE Has(p, j)
      BY <1>1, <2>1 DEF Has
    <2>2. Has(p, x)
      BY <1>1 DEF Has
    <2>3. ASSUME Has(p, j), j # x PROVE Has(q, j)
      BY <1>1, <2>3 DEF Has
    <2> QED
      BY <2>1, <2>2, <2>3
  <1>3. ASSUME NEW j, Once(q, j), ~(Has(q, j) /\ j = x) PROVE Once(p, j)
    BY <1>1, <1>3 DEF Once, Has
  <1> QED
    BY <1>1, <1>2, <1>3 DEF p

LEMMA TakenJob ==
    ASSUME NEW q \in Seq(JobType), q # << >>
    PROVE  /\ Tail(q) \in Seq(JobType)
           /\ Has(q, Head(q))
           /\ \A j : Has(Tail(q), j) => Has(q, j)
           /\ \A j : Has(q, j) /\ j # Head(q) => Has(Tail(q), j)
           /\ \A j : Once(q, j) => Once(Tail(q), j) /\ ~(Has(Tail(q), j) /\ j = Head(q))
  <1> DEFINE p == Tail(q)
  <1>1. /\ p \in Seq(JobType) /\ Len(q) \in Nat \ {0} /\ Len(p) = Len(q) - 1
        /\ \A i \in 1 .. Len(p) : p[i] = q[i + 1]
        /\ q[1] = Head(q)
    OBVIOUS
  <1> HIDE DEF p
  <1>2. Has(q, Head(q))
    BY <1>1 DEF Has
  <1>3. ASSUME NEW j, Has(p, j) PROVE Has(q, j)
    BY <1>1, <1>3 DEF Has
  <1>4. ASSUME NEW j, Has(q, j), j # Head(q) PROVE Has(p, j)
    <2>1. PICK i \in 1 .. Len(q) : q[i] = j
      BY <1>4 DEF Has
    <2>2. i - 1 \in 1 .. Len(p) /\ p[i - 1] = j
      BY <1>1, <1>4, <2>1
    <2> QED
      BY <2>2 DEF Has
  <1>5. ASSUME NEW j, Once(q, j) PROVE Once(p, j) /\ ~(Has(p, j) /\ j = Head(q))
    <2>1. Once(p, j)
      <3> SUFFICES ASSUME NEW i \in 1 .. Len(p), NEW k \in 1 .. Len(p), p[i] = j, p[k] = j
                   PROVE  i = k
        BY DEF Once
      <3>1. i + 1 \in 1 .. Len(q) /\ k + 1 \in 1 .. Len(q) /\ q[i + 1] = j /\ q[k + 1] = j
        BY <1>1
      <3>2. i + 1 = k + 1
        BY <1>5, <3>1 DEF Once
      <3> QED
        BY <1>1, <3>2
    <2>2. ASSUME NEW i \in 1 .. Len(p), p[i] = j, j = Head(q) PROVE FALSE
      <3>1. i + 1 \in 1 .. Len(q) /\ 1 \in 1 .. Len(q) /\ q[i + 1] = j /\ q[1] = j
        BY <1>1, <2>2
      <3>2. i + 1 = 1
        BY <1>5, <3>1 DEF Once
      <3> QED
        BY <1>1, <3>2
    <2> QED
      BY <2>1, <2>2 DEF Has
  <1> QED
    BY <1>1, <1>2, <1>3, <1>4, <1>5 DEF p
-----------------------------------------------------------------------------
LEMMA TypeStart == Init => TypeOK
  <1> SUFFICES ASSUME Init
               PROVE  TypeOK
    OBVIOUS
  <1>1. pc = [t \in Waiter |-> IF t = "handler" THEN "config" ELSE "idle"]
    BY DEF Init, Waiter
  <1>2. /\ pc["handler"] = "config" /\ pc["server"] = "idle"
        /\ pc \in [Waiter -> {"idle", "config", "PORTCFG_CNF", "PORTSTATUS_CNF", "verify",
                              "READ_CNF", "WRITE_CNF"}]
    BY <1>1 DEF Waiter
  <1>3. /\ app_port_state = "INACTIVE" /\ app_event = {} /\ todo = {}
        /\ timer = "stopped" /\ callback \in BOOLEAN
        /\ event = {} /\ asleep = {} /\ mbox = << >>
        /\ stack = "DEACTIVATED" /\ od = "closed"
    BY DEF Init
  <1> QED
    BY <1>2, <1>3 DEF TypeOK

LEMMA TypeStep == TypeOK /\ [Next]_vars => TypeOK'
  <1> SUFFICES ASSUME TypeOK, [Next]_vars
               PROVE  TypeOK'
    OBVIOUS
  <1> USE DEF TypeOK, Waiter, Goto
  <1>0. ASSUME NEW x \in JobType
        PROVE  Append(mbox, x) \in Seq(JobType)
    BY AppendedJob DEF JobType
  <1>1. mbox # << >> => Tail(mbox) \in Seq(JobType)
    BY TakenJob DEF JobType
  <1>2. CASE HandlerNext
    <2>1. CASE HandlerWait
      BY <2>1 DEF HandlerWait, timerVars, stackVars, bounds
    <2>2. CASE HandlePd
      BY <2>2 DEF HandlePd, Takes, timerVars, stackVars, bounds
    <2>3. CASE HandlerConfigures
      BY <2>3, <1>0 DEF HandlerConfigures, ConfigPort, timerVars, JobType
    <2>4. CASE HandleRetry
      BY <2>4, <1>0 DEF HandleRetry, Takes, ConfigPort, timerVars, stackVars, JobType
    <2>5. CASE HandlePortEvent
      BY <2>5, <1>0 DEF HandlePortEvent, Takes, timerVars, JobType
    <2>6. CASE HandlerWaitEnds
      BY <2>6 DEF HandlerWaitEnds, WaitEnds, os_event_clr, Signal, handlerVars, timerVars, stackVars
    <2>7. CASE Sleep("handler") \/ HandlerTimeout
      BY <2>7 DEF Sleep, HandlerTimeout, Timeout, handlerVars, timerVars, stackVars
    <2>8. CASE StartPort \/ HandleComlost
      BY <2>8 DEF StartPort, HandleComlost, Takes, timerVars, stackVars
    <2> QED
      BY <1>2, <2>1, <2>2, <2>3, <2>4, <2>5, <2>6, <2>7, <2>8 DEF HandlerNext
  <1>3. CASE TimerNext
    BY <1>3 DEF TimerNext, TimerExpires, TimerSetsEvent, stackVars
  <1>4. CASE ServerRequest
    BY <1>4, <1>0 DEF ServerRequest, handlerVars, timerVars, JobType
  <1>5. CASE ServerNext
    BY <1>5 DEF ServerNext, ServerWaitEnds, WaitEnds, os_event_clr, Signal, Sleep, ServerTimeout,
                Timeout, handlerVars, timerVars, stackVars
  <1>6. CASE MainNext
    <2>1. CASE MainConfigures
      BY <2>1, <1>1 DEF MainConfigures, Job, os_event_set, Signal, handlerVars, timerVars, JobType
    <2>2. CASE MainPortStatus
      <3>1. asleep' \subseteq asleep /\ event' = event \cup {"PORTSTATUS_CNF"}
        BY <2>2 DEF MainPortStatus, os_event_set, Signal
      <3>2. mbox' \in Seq(JobType) /\ UNCHANGED <<handlerVars, pc, stack, od>>
        BY <2>2, <1>1 DEF MainPortStatus, Job
      <3> QED
        BY <3>1, <3>2 DEF handlerVars, timerVars, JobType
    <2>3. CASE MainRequest
      BY <2>3, <1>1 DEF MainRequest, Job, os_event_set, Signal, handlerVars, timerVars, JobType
    <2>4. CASE MainComlost
      BY <2>4, <1>1 DEF MainComlost, Reports, timerVars, JobType
    <2> QED
      BY <1>6, <2>1, <2>2, <2>3, <2>4 DEF MainNext
  <1>7. CASE StackNext
    BY <1>7, <1>0 DEF StackNext, StackOperates, StackFindsFault, StackLost, Reports, timerVars, JobType
  <1>8. CASE StackInput \/ StackAnswers
    BY <1>8 DEF StackInput, StackAnswers, Reports, os_event_set, Signal, handlerVars, timerVars
  <1>9. CASE UNCHANGED vars
    BY <1>9 DEF vars, timerVars
  <1> QED
    BY <1>2, <1>3, <1>4, <1>5, <1>6, <1>7, <1>8, <1>9 DEF Next
-----------------------------------------------------------------------------
LEMMA RecoveryStart == Init => Recovery
  BY DEF Init, Recovery, Recovering, Starting, Flag, Queued, Has, Once

\* Whatever the server does is nothing to Recovery.
LEMMA RecoveryFrame ==
    ASSUME Recovery, UNCHANGED <<handlerVars, mbox, stack>>, pc'["handler"] = pc["handler"]
    PROVE  Recovery'
  BY DEF Recovery, Recovering, Starting, Flag, Queued, handlerVars, timerVars

LEMMA HandlerRecovery == TypeOK /\ Recovery /\ HandlerNext => Recovery'
  <1> SUFFICES ASSUME TypeOK, Recovery, HandlerNext
               PROVE  Recovery'
    OBVIOUS
  <1>0. /\ pc \in [Waiter -> {"idle", "config", "PORTCFG_CNF", "PORTSTATUS_CNF", "verify",
                              "READ_CNF", "WRITE_CNF"}]
        /\ timer \in {"stopped", "started"} /\ callback \in BOOLEAN
        /\ mbox \in Seq(JobType)
    BY DEF TypeOK, JobType
  <1> USE <1>0 DEF Recovery, Recovering, Starting, Flag, Waiter, Goto, Waits
  <1>1. ASSUME ConfigPort, todo' \subseteq todo, "RETRY_ESTCOM" \notin todo',
               ~Queued("PORTCFG_CNF"), stack \in {"DEACTIVATED", "NO_DEV"},
               ~Flag("PORTE"), ~Flag("COMLOST"), ~Queued("COMLOST"), timer = "stopped", ~callback,
               "RETRY_ESTCOM" \notin app_event
        PROVE  Recovery'
    <2>1. /\ app_port_state' = "STARTING" /\ mbox' = Append(mbox, "PORTCFG_CNF")
          /\ pc'["handler"] = "PORTCFG_CNF"
          /\ UNCHANGED <<app_event, timer, callback, stack>>
      BY <1>1 DEF ConfigPort, timerVars
    <2>2. /\ Queued("PORTCFG_CNF")' /\ ~Queued("COMLOST")'
          /\ Once(mbox, "PORTCFG_CNF")'
      BY <1>1, <2>1, AppendedJob DEF Queued, JobType
    <2> QED
      BY <1>1, <2>1, <2>2
  <1>2. ASSUME UNCHANGED mbox
        PROVE  /\ \A j : Queued(j)' <=> Queued(j)
               /\ Once(mbox, "PORTCFG_CNF")' <=> Once(mbox, "PORTCFG_CNF")
    BY <1>2 DEF Queued
  <1>3. CASE HandlerWait
    BY <1>2, <1>3 DEF HandlerWait, timerVars, stackVars
  <1>4. CASE HandlePd
    BY <1>2, <1>4 DEF HandlePd, Takes, timerVars, stackVars
  <1>5. CASE HandlerConfigures
    BY <1>1, <1>5 DEF HandlerConfigures
  <1>6. CASE HandleRetry
    <2>1. app_port_state = "WU_RETRY_WAIT_TSD"
      BY <1>6 DEF HandleRetry, Takes
    <2> QED
      BY <1>1, <1>6, <2>1 DEF HandleRetry, Takes
  <1>7. CASE HandlePortEvent
    <2>1. CASE app_port_state = "STARTING"
      <3>1. /\ mbox' = Append(mbox, "PORTSTATUS_CNF") /\ pc'["handler"] = "PORTSTATUS_CNF"
            /\ pc["handler"] = "idle" /\ "PORTE" \in todo /\ todo' = todo \ {"PORTE"}
            /\ UNCHANGED <<app_port_state, app_event, timer, callback, stack>>
        BY <1>7, <2>1 DEF HandlePortEvent, Takes, timerVars
      <3>2. /\ \A j \in {"PORTCFG_CNF", "COMLOST"} : Queued(j)' <=> Queued(j)
            /\ Once(mbox, "PORTCFG_CNF")'
        BY <3>1, AppendedJob DEF Queued, JobType
      <3> QED
        BY <3>1, <3>2
    <2>2. CASE app_port_state # "STARTING"
      BY <1>2, <1>7, <2>2 DEF HandlePortEvent, Takes, timerVars
    <2> QED
      BY <2>1, <2>2
  <1>8. CASE HandlerWaitEnds
    <2>1. /\ \/ pc["handler"] = "PORTCFG_CNF" /\ pc'["handler"] = "idle"
             \/ pc["handler"] = "PORTSTATUS_CNF" /\ pc'["handler"] = "verify"
          /\ UNCHANGED <<app_port_state, app_event, timer, callback, todo, mbox, stack>>
      BY <1>8 DEF TypeOK, HandlerWaitEnds, WaitEnds, handlerVars, timerVars, stackVars
    <2> QED
      BY <1>2, <2>1
  <1>9. CASE Sleep("handler")
    BY <1>9, RecoveryFrame DEF Sleep, stackVars
  <1>10. CASE HandlerTimeout
    <2>1. \A j : ~Queued(j)
      BY <1>10 DEF HandlerTimeout, Timeout, Queued, Has
    <2> QED
      BY <1>2, <1>10, <2>1 DEF HandlerTimeout, Timeout, handlerVars, timerVars, stackVars
  <1>11. CASE StartPort
    BY <1>2, <1>11 DEF StartPort, timerVars, stackVars
  <1>12. CASE HandleComlost
    <2>1. CASE app_port_state = "STARTING"
      BY <1>2, <1>12, <2>1 DEF HandleComlost, Takes, stackVars
    <2>2. CASE app_port_state # "STARTING"
      BY <1>2, <1>12, <2>2 DEF HandleComlost, Takes, stackVars
    <2> QED
      BY <2>1, <2>2
  <1> QED
    BY <1>3, <1>4, <1>5, <1>6, <1>7, <1>8, <1>9, <1>10, <1>11, <1>12 DEF HandlerNext

LEMMA OtherRecovery ==
    TypeOK /\ Recovery /\ (TimerNext \/ ServerRequest \/ ServerNext) => Recovery'
  <1> SUFFICES ASSUME TypeOK, Recovery, TimerNext \/ ServerRequest \/ ServerNext
               PROVE  Recovery'
    OBVIOUS
  <1> USE DEF TypeOK, Waiter, Goto
  <1>1. CASE TimerExpires
    <2>1. /\ \A j : ~Queued(j)
          /\ Once(mbox, "PORTCFG_CNF")'
      BY <1>1 DEF TimerExpires, Queued, Has, Once, stackVars
    <2>2. \A j : ~Queued(j)'
      BY <1>1 DEF TimerExpires, Queued, Has, stackVars
    <2> QED
      BY <1>1, <2>1, <2>2 DEF TimerExpires, Recovery, Recovering, Starting, Flag, stackVars
  <1>2. CASE TimerSetsEvent
    <2>1. /\ \A j : Queued(j)' <=> Queued(j)
          /\ Once(mbox, "PORTCFG_CNF")' <=> Once(mbox, "PORTCFG_CNF")
      BY <1>2 DEF TimerSetsEvent, Queued, stackVars
    <2> QED
      BY <1>2, <2>1 DEF TimerSetsEvent, Recovery, Recovering, Starting, Flag, stackVars
  <1>3. CASE ServerRequest
    <2>1. PICK cnf \in {"READ_CNF", "WRITE_CNF"} : mbox' = Append(mbox, cnf)
      BY <1>3 DEF ServerRequest
    <2>2. /\ \A j \in {"PORTCFG_CNF", "COMLOST"} : Queued(j)' <=> Queued(j)
          /\ Once(mbox, "PORTCFG_CNF") => Once(mbox, "PORTCFG_CNF")'
      BY <2>1, AppendedJob DEF Queued, JobType
    <2>3. /\ pc'["handler"] = pc["handler"]
          /\ UNCHANGED <<app_port_state, app_event, timer, callback, todo, stack>>
      BY <1>3 DEF ServerRequest, handlerVars, timerVars
    <2> QED
      BY <2>2, <2>3 DEF Recovery, Recovering, Starting, Flag
  <1>4. CASE ServerNext
    BY <1>4, RecoveryFrame DEF ServerNext, ServerWaitEnds, WaitEnds, Sleep, ServerTimeout, Timeout, stackVars
  <1> QED
    BY <1>1, <1>2, <1>3, <1>4 DEF TimerNext

LEMMA MainRecovery == TypeOK /\ Recovery /\ MainNext => Recovery'
  <1> SUFFICES ASSUME TypeOK, Recovery, MainNext
               PROVE  Recovery'
    OBVIOUS
  <1> USE DEF TypeOK
  <1>1. /\ mbox \in Seq(JobType) /\ mbox # << >> /\ mbox' = Tail(mbox)
        /\ UNCHANGED <<app_port_state, timer, callback, pc, todo>>
    BY DEF MainNext, MainConfigures, MainPortStatus, MainRequest, MainComlost, Job, Reports,
           handlerVars, timerVars, JobType
  <1>2. /\ Queued(Head(mbox))
        /\ \A j : Queued(j)' => Queued(j)
        /\ \A j : Queued(j) /\ j # Head(mbox) => Queued(j)'
        /\ \A j : Once(mbox, j) => Once(mbox, j)' /\ ~(Queued(j)' /\ j = Head(mbox))
    BY <1>1, TakenJob DEF Queued
  <1>3. CASE MainConfigures
    <2>1. /\ Head(mbox) = "PORTCFG_CNF" /\ stack' = "CONFIGURED" /\ UNCHANGED app_event
      BY <1>3 DEF MainConfigures, Job, handlerVars
    <2> QED
      BY <1>1, <1>2, <2>1 DEF Recovery, Recovering, Starting, Flag
  <1>4. CASE MainPortStatus \/ MainRequest
    <2>1. Head(mbox) \notin {"PORTCFG_CNF", "COMLOST"} /\ UNCHANGED <<stack, app_event>>
      BY <1>4 DEF MainPortStatus, MainRequest, Job, handlerVars
    <2> QED
      BY <1>1, <1>2, <2>1 DEF Recovery, Recovering, Starting, Flag
  <1>5. CASE MainComlost
    <2>1. /\ Head(mbox) = "COMLOST" /\ app_event' = app_event \cup {"COMLOST"} /\ UNCHANGED stack
      BY <1>5 DEF MainComlost, Reports
    <2> QED
      BY <1>1, <1>2, <2>1 DEF Recovery, Recovering, Starting, Flag
  <1> QED
    BY <1>3, <1>4, <1>5 DEF MainNext

LEMMA StackRecovery ==
    TypeOK /\ Recovery /\ (StackNext \/ StackInput \/ StackAnswers) => Recovery'
  <1> SUFFICES ASSUME TypeOK, Recovery, StackNext \/ StackInput \/ StackAnswers
               PROVE  Recovery'
    OBVIOUS
  <1> USE DEF TypeOK, Reports, timerVars
  <1>1. ASSUME UNCHANGED mbox
        PROVE  /\ \A j : Queued(j)' <=> Queued(j)
               /\ Once(mbox, "PORTCFG_CNF")' <=> Once(mbox, "PORTCFG_CNF")
    BY <1>1 DEF Queued
  <1>2. CASE StackOperates \/ StackFindsFault
    BY <1>1, <1>2 DEF StackOperates, StackFindsFault, Recovery, Recovering, Starting, Flag
  <1>3. CASE StackLost
    <2>1. /\ stack \in {"CONFIGURED", "OP", "PORT_DIAG"} /\ stack' = "NO_DEV"
          /\ app_event' = app_event \cup {"COMLOST"}
          /\ UNCHANGED <<app_port_state, timer, callback, pc, todo>>
      BY <1>3 DEF StackLost
    <2>2. /\ Queued("PORTCFG_CNF")' <=> Queued("PORTCFG_CNF")
          /\ Queued("COMLOST")' => Queued("COMLOST") \/ stack = "CONFIGURED"
          /\ Once(mbox, "PORTCFG_CNF") => Once(mbox, "PORTCFG_CNF")'
      <3>1. CASE UNCHANGED mbox
        BY <1>1, <3>1
      <3>2. CASE stack = "CONFIGURED" /\ mbox' = Append(mbox, "COMLOST")
        BY <3>2, AppendedJob DEF Queued, JobType
      <3> QED
        BY <1>3, <3>1, <3>2 DEF StackLost
    <2> QED
      BY <2>1, <2>2 DEF Recovery, Recovering, Starting, Flag
  <1>4. CASE StackInput
    BY <1>1, <1>4 DEF StackInput, Recovery, Recovering, Starting, Flag
  <1>5. CASE StackAnswers
    BY <1>5, RecoveryFrame DEF StackAnswers
  <1> QED
    BY <1>2, <1>3, <1>4, <1>5 DEF StackNext

LEMMA RecoveryStep == TypeOK /\ Recovery /\ [Next]_vars => Recovery'
  <1> SUFFICES ASSUME TypeOK, Recovery, [Next]_vars
               PROVE  Recovery'
    OBVIOUS
  <1>1. CASE UNCHANGED vars
    BY <1>1, RecoveryFrame DEF vars, handlerVars
  <1> QED
    BY <1>1, HandlerRecovery, OtherRecovery, MainRecovery, StackRecovery DEF Next

LEMMA RecoveryHolds == Spec => [](TypeOK /\ Recovery)
  <1>1. Init => TypeOK /\ Recovery
    BY TypeStart, RecoveryStart
  <1>2. (TypeOK /\ Recovery) /\ [Next]_vars => (TypeOK /\ Recovery)'
    BY TypeStep, RecoveryStep
  <1> QED
    BY <1>1, <1>2, PTL DEF Spec

\* A loss is never forgotten between the main thread, the handler and the timer
\* (iolink_handler.cc).
THEOREM LossesArePending == Spec => []LossIsPending
  <1>1. Recovery => LossIsPending
    BY DEF Recovery, LossIsPending, Flag, Queued, Has
  <1> QED
    BY RecoveryHolds, <1>1, PTL

\* A port that has started up is not torn down by a late or second retry
\* (iolink_retry_estcom, dl_reset).
THEOREM OnlyTheLostAreRestarted == Spec => []OnlyLostPortsAreRestarted
  <1>1. Recovery => OnlyLostPortsAreRestarted
    BY DEF Recovery, OnlyLostPortsAreRestarted, Queued, Has
  <1> QED
    BY RecoveryHolds, <1>1, PTL
-----------------------------------------------------------------------------
(* The port status the handler looks at is that of the port it has started,  *)
(* as long as it has never given up waiting for one.                         *)

Fresh == stack = "OP" \/ Flag("COMLOST")

Status ==
    "PORTSTATUS_CNF" \notin gaveUp =>
       /\ Once(mbox, "PORTSTATUS_CNF")
       /\ Queued("PORTSTATUS_CNF") =>
             pc["handler"] = "PORTSTATUS_CNF" /\ "PORTSTATUS_CNF" \notin event
       /\ "PORTSTATUS_CNF" \in event => pc["handler"] = "PORTSTATUS_CNF"
       /\ ("PORTSTATUS_CNF" \in event \/ pc["handler"] = "verify") /\ port_status = "OP" => Fresh
       /\ app_port_state = "RUNNING" => Fresh

LEMMA StatusStart == Init => Status
  BY DEF Init, Status, Queued, Has, Once

LEMMA StatusFrame ==
    ASSUME Status, UNCHANGED <<app_port_state, port_status>>,
           pc'["handler"] = pc["handler"], gaveUp \subseteq gaveUp',
           "PORTSTATUS_CNF" \in event' <=> "PORTSTATUS_CNF" \in event,
           Once(mbox, "PORTSTATUS_CNF") => Once(mbox, "PORTSTATUS_CNF")',
           Queued("PORTSTATUS_CNF")' => Queued("PORTSTATUS_CNF"),
           Fresh => Fresh'
    PROVE  Status'
  BY DEF Status

LEMMA HandlerStatus == TypeOK /\ Recovery /\ Status /\ HandlerNext => Status'
  <1> SUFFICES ASSUME TypeOK, Recovery, Status, HandlerNext
               PROVE  Status'
    OBVIOUS
  <1>0. /\ pc \in [Waiter -> {"idle", "config", "PORTCFG_CNF", "PORTSTATUS_CNF", "verify",
                              "READ_CNF", "WRITE_CNF"}]
        /\ mbox \in Seq(JobType)
    BY DEF TypeOK, JobType
  <1> USE <1>0 DEF Waiter, Goto
  <1>1. ASSUME UNCHANGED mbox
        PROVE  /\ Queued("PORTSTATUS_CNF")' <=> Queued("PORTSTATUS_CNF")
               /\ Once(mbox, "PORTSTATUS_CNF")' <=> Once(mbox, "PORTSTATUS_CNF")
    BY <1>1 DEF Queued
  <1>2. CASE HandlerWait \/ HandlePd
    <2>1. /\ UNCHANGED <<app_port_state, port_status, pc, gaveUp, event, mbox, stack>>
          /\ Flag("COMLOST") => Flag("COMLOST")'
      BY <1>2 DEF HandlerWait, HandlePd, Takes, Flag, timerVars, stackVars
    <2> QED
      BY <1>1, <2>1, StatusFrame DEF Fresh
  <1>3. ASSUME ConfigPort, UNCHANGED stack, pc["handler"] \in {"config", "idle"}
        PROVE  Status'
    <2>1. /\ app_port_state' = "STARTING" /\ mbox' = Append(mbox, "PORTCFG_CNF")
          /\ pc'["handler"] = "PORTCFG_CNF" /\ UNCHANGED <<event, port_status, gaveUp>>
      BY <1>3 DEF ConfigPort
    <2>2. /\ Queued("PORTSTATUS_CNF")' <=> Queued("PORTSTATUS_CNF")
          /\ Once(mbox, "PORTSTATUS_CNF") => Once(mbox, "PORTSTATUS_CNF")'
      BY <2>1, AppendedJob DEF Queued, JobType
    <2> QED
      BY <1>3, <2>1, <2>2 DEF Status
  <1>4. CASE HandlerConfigures
    BY <1>3, <1>4 DEF HandlerConfigures, ConfigPort
  <1>5. CASE HandleRetry
    <2>1. app_port_state = "WU_RETRY_WAIT_TSD" /\ pc["handler"] = "idle"
      BY <1>5 DEF HandleRetry, Takes, Recovery, Flag
    <2> QED
      BY <1>3, <1>5, <2>1 DEF HandleRetry, ConfigPort
  <1>6. CASE HandlePortEvent
    <2>1. CASE app_port_state = "STARTING"
      <3>1. /\ mbox' = Append(mbox, "PORTSTATUS_CNF") /\ pc'["handler"] = "PORTSTATUS_CNF"
            /\ pc["handler"] = "idle"
            /\ UNCHANGED <<app_port_state, event, port_status, gaveUp>>
        BY <1>6, <2>1 DEF HandlePortEvent, Takes
      <3>2. ~Queued("PORTSTATUS_CNF") /\ Once(mbox, "PORTSTATUS_CNF")
               => Once(mbox, "PORTSTATUS_CNF")'
        BY <3>1, AppendedJob DEF Queued, JobType
      <3> QED
        BY <2>1, <3>1, <3>2 DEF Status
    <2>2. CASE app_port_state # "STARTING"
      <3>1. /\ UNCHANGED <<app_port_state, port_status, pc, gaveUp, event, mbox, stack>>
            /\ Flag("COMLOST") => Flag("COMLOST")'
        BY <1>6, <2>2 DEF HandlePortEvent, Takes, Flag
      <3> QED
        BY <1>1, <3>1, StatusFrame DEF Fresh
    <2> QED
      BY <2>1, <2>2
  <1>7. CASE HandlerWaitEnds
    <2>1. /\ \/ pc["handler"] = "PORTCFG_CNF" /\ pc'["handler"] = "idle"
             \/ pc["handler"] = "PORTSTATUS_CNF" /\ pc'["handler"] = "verify"
          /\ pc["handler"] \in event /\ event' = event \ {pc["handler"]}
          /\ UNCHANGED <<app_port_state, app_event, todo, port_status, mbox, stack, gaveUp>>
      BY <1>7 DEF TypeOK, HandlerWaitEnds, WaitEnds, Waits, os_event_clr, handlerVars, timerVars,
                  stackVars
    <2>2. Fresh' <=> Fresh
      BY <2>1 DEF Fresh, Flag
    <2> QED
      BY <1>1, <2>1, <2>2 DEF Status
  <1>8. CASE Sleep("handler")
    <2>1. UNCHANGED <<app_port_state, app_event, todo, port_status, pc, gaveUp, event, mbox, stack>>
      BY <1>8 DEF Sleep, handlerVars, timerVars, stackVars
    <2> QED
      BY <1>1, <2>1, StatusFrame DEF Fresh, Flag
  <1>9. CASE HandlerTimeout
    <2>1. /\ \/ pc["handler"] # "PORTSTATUS_CNF" /\ pc'["handler"] = "idle"
             \/ pc["handler"] = "PORTSTATUS_CNF" /\ gaveUp' = gaveUp \cup {"PORTSTATUS_CNF"}
          /\ gaveUp \subseteq gaveUp'
          /\ UNCHANGED <<app_port_state, app_event, todo, port_status, event, mbox, stack>>
      BY <1>9 DEF HandlerTimeout, Timeout, handlerVars, timerVars, stackVars
    <2>2. Fresh' <=> Fresh
      BY <2>1 DEF Fresh, Flag
    <2> QED
      BY <1>1, <2>1, <2>2 DEF Status
  <1>10. CASE StartPort
    <2>1. /\ pc["handler"] = "verify" /\ pc'["handler"] = "idle"
          /\ app_port_state' = "RUNNING" => app_port_state = "RUNNING" \/ port_status = "OP"
          /\ UNCHANGED <<app_event, todo, port_status, gaveUp, event, mbox, stack>>
      BY <1>10 DEF StartPort, timerVars, stackVars
    <2>2. Fresh' <=> Fresh
      BY <2>1 DEF Fresh, Flag
    <2> QED
      BY <1>1, <2>1, <2>2 DEF Status
  <1>11. CASE HandleComlost
    <2>1. /\ pc["handler"] = "idle"
          /\ app_port_state' = "RUNNING" => FALSE
          /\ UNCHANGED <<pc, port_status, gaveUp, event, mbox>>
      BY <1>11 DEF HandleComlost, Takes, stackVars
    <2> QED
      BY <1>1, <2>1 DEF Status
  <1> QED
    BY <1>2, <1>4, <1>5, <1>6, <1>7, <1>8, <1>9, <1>10, <1>11 DEF HandlerNext

LEMMA OtherStatus == TypeOK /\ Status /\ (TimerNext \/ ServerRequest \/ ServerNext) => Status'
  <1> SUFFICES ASSUME TypeOK, Status, TimerNext \/ ServerRequest \/ ServerNext
               PROVE  Status'
    OBVIOUS
  <1> USE DEF TypeOK, Waiter, Goto
  <1>1. ASSUME UNCHANGED mbox
        PROVE  /\ Queued("PORTSTATUS_CNF")' <=> Queued("PORTSTATUS_CNF")
               /\ Once(mbox, "PORTSTATUS_CNF")' <=> Once(mbox, "PORTSTATUS_CNF")
    BY <1>1 DEF Queued
  <1>2. CASE TimerNext
    <2>1. /\ app_port_state' = "RUNNING" => app_port_state = "RUNNING"
          /\ UNCHANGED <<port_status, pc, gaveUp, event, mbox, stack>>
          /\ Flag("COMLOST") => Flag("COMLOST")'
      BY <1>2 DEF TimerNext, TimerExpires, TimerSetsEvent, Flag, stackVars
    <2> QED
      BY <1>1, <2>1 DEF Status, Fresh
  <1>3. CASE ServerRequest
    <2>1. PICK cnf \in {"READ_CNF", "WRITE_CNF"} : mbox' = Append(mbox, cnf)
      BY <1>3 DEF ServerRequest
    <2>2. /\ Queued("PORTSTATUS_CNF")' <=> Queued("PORTSTATUS_CNF")
          /\ Once(mbox, "PORTSTATUS_CNF") => Once(mbox, "PORTSTATUS_CNF")'
      BY <2>1, AppendedJob DEF Queued, JobType
    <2>3. /\ pc'["handler"] = pc["handler"]
          /\ UNCHANGED <<app_port_state, app_event, todo, stack, port_status, event, gaveUp>>
      BY <1>3 DEF ServerRequest, handlerVars
    <2> QED
      BY <2>2, <2>3, StatusFrame DEF Fresh, Flag
  <1>4. CASE ServerNext
    <2>1. /\ pc'["handler"] = pc["handler"] /\ gaveUp \subseteq gaveUp'
          /\ "PORTSTATUS_CNF" \in event' <=> "PORTSTATUS_CNF" \in event
          /\ UNCHANGED <<app_port_state, app_event, todo, stack, port_status, mbox>>
      BY <1>4 DEF ServerNext, ServerWaitEnds, WaitEnds, os_event_clr, Sleep, ServerTimeout, Timeout,
                  handlerVars, stackVars
    <2> QED
      BY <1>1, <2>1, StatusFrame DEF Fresh, Flag
  <1> QED
    BY <1>2, <1>3, <1>4

LEMMA MainStatus == TypeOK /\ Recovery /\ Status /\ MainNext => Status'
  <1> SUFFICES ASSUME TypeOK, Recovery, Status, MainNext
               PROVE  Status'
    OBVIOUS
  <1> USE DEF TypeOK
  <1>1. /\ mbox \in Seq(JobType) /\ mbox # << >> /\ mbox' = Tail(mbox)
        /\ UNCHANGED <<app_port_state, pc, todo, gaveUp>>
    BY DEF MainNext, MainConfigures, MainPortStatus, MainRequest, MainComlost, Job, Reports,
           handlerVars, JobType
  <1>2. /\ Queued(Head(mbox))
        /\ \A j : Queued(j)' => Queued(j)
        /\ \A j : Once(mbox, j) => Once(mbox, j)' /\ ~(Queued(j)' /\ j = Head(mbox))
    BY <1>1, TakenJob DEF Queued
  <1>3. CASE MainConfigures
    <2>1. /\ Head(mbox) = "PORTCFG_CNF" /\ event' = event \cup {"PORTCFG_CNF"}
          /\ UNCHANGED port_status
      BY <1>3 DEF MainConfigures, Job, os_event_set
    <2>2. Starting
      BY <1>2, <2>1 DEF Recovery
    <2> QED
      BY <1>1, <1>2, <2>1, <2>2 DEF Status, Starting
  <1>4. CASE MainPortStatus
    <2>1. /\ Head(mbox) = "PORTSTATUS_CNF" /\ event' = event \cup {"PORTSTATUS_CNF"}
          /\ port_status' = stack /\ UNCHANGED <<stack, app_event>>
      BY <1>4 DEF MainPortStatus, Job, os_event_set, handlerVars
    <2>2. Fresh' <=> Fresh
      BY <1>1, <2>1 DEF Fresh, Flag
    <2>3. stack = "OP" => Fresh
      BY DEF Fresh
    <2> QED
      BY <1>1, <1>2, <2>1, <2>2, <2>3 DEF Status
  <1>5. CASE MainRequest
    <2>1. /\ "PORTSTATUS_CNF" \in event' <=> "PORTSTATUS_CNF" \in event
          /\ UNCHANGED <<stack, app_event, port_status>>
      BY <1>5 DEF MainRequest, Job, os_event_set, handlerVars
    <2> QED
      BY <1>1, <1>2, <2>1, StatusFrame DEF Fresh, Flag
  <1>6. CASE MainComlost
    <2>1. app_event' = app_event \cup {"COMLOST"} /\ UNCHANGED <<event, stack, port_status>>
      BY <1>6 DEF MainComlost, Reports
    <2> QED
      BY <1>1, <1>2, <2>1, StatusFrame DEF Fresh, Flag
  <1> QED
    BY <1>3, <1>4, <1>5, <1>6 DEF MainNext

LEMMA StackStatus ==
    TypeOK /\ Recovery /\ Status /\ (StackNext \/ StackInput \/ StackAnswers) => Status'
  <1> SUFFICES ASSUME TypeOK, Recovery, Status, StackNext \/ StackInput \/ StackAnswers
               PROVE  Status'
    OBVIOUS
  <1> USE DEF TypeOK
  <1>1. /\ pc'["handler"] = pc["handler"]
        /\ "PORTSTATUS_CNF" \in event' <=> "PORTSTATUS_CNF" \in event
        /\ UNCHANGED <<app_port_state, port_status, gaveUp>>
    BY DEF StackNext, StackOperates, StackFindsFault, StackLost, StackInput, StackAnswers, Reports,
           os_event_set, handlerVars
  <1>2. /\ Queued("PORTSTATUS_CNF")' => Queued("PORTSTATUS_CNF")
        /\ Once(mbox, "PORTSTATUS_CNF") => Once(mbox, "PORTSTATUS_CNF")'
    <2>1. CASE UNCHANGED mbox
      BY <2>1 DEF Queued
    <2>2. CASE mbox' = Append(mbox, "COMLOST")
      BY <2>2, AppendedJob DEF Queued, JobType
    <2> QED
      BY <2>1, <2>2 DEF StackNext, StackOperates, StackFindsFault, StackLost, StackInput, StackAnswers
  <1>3. Fresh => Fresh'
    BY DEF StackNext, StackOperates, StackFindsFault, StackLost, StackInput, StackAnswers, Reports,
           Fresh, Flag, handlerVars
  <1> QED
    BY <1>1, <1>2, <1>3, StatusFrame

LEMMA StatusStep == TypeOK /\ Recovery /\ Status /\ [Next]_vars => Status'
  <1>1. Status /\ UNCHANGED vars => Status'
    BY StatusFrame DEF vars, Queued, Fresh, Flag
  <1> QED
    BY <1>1, HandlerStatus, OtherStatus, MainStatus, StackStatus DEF Next

\* The application runs only a port that is operational, or whose loss it is
\* still to be told of, as long as the handler has not given up waiting for the
\* status of a port (iolink_start_port).
THEOREM RunningPortsOperate == Spec => []RunningMeansOperating
  <1>1. Status => RunningMeansOperating
    BY DEF Status, RunningMeansOperating, Fresh, Flag
  <1> QED
    BY RecoveryHolds, StatusStart, StatusStep, <1>1, PTL DEF Spec
=============================================================================
