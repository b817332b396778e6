---------------------------- MODULE Application ----------------------------
(***************************************************************************)
(* The application above the stack, for one port: the handler thread that  *)
(* starts the port and starts it again after a loss (iolink_handler.cc),   *)
(* the thread of its retry timer, and the server thread that reads and     *)
(* writes parameters for a client (iolink_smi.cc, server.cc).  Both the    *)
(* handler and the server wait for confirmations at one event object with  *)
(* one condition variable (osal.c), each for flags of its own.             *)
(*                                                                         *)
(* The stack is what it promises to be (PortLifecycle, PortStack): a port  *)
(* that is configured becomes operational, is found faulty or is reported  *)
(* lost, and then stays so until it is configured again.  A loss during    *)
(* the start-up may be reported twice (iolink_sm.c: sm_comlost switches    *)
(* the data link layer off, which is taken for a wake-up that has failed). *)
(***************************************************************************)
EXTENDS Integers, Sequences

CONSTANTS MaxLoss,     \* bound: losses of communication, or start-ups without a device
          MaxRequest   \* bound: requests of the client

ASSUME ApplicationAssumption == MaxLoss \in Nat /\ MaxRequest \in Nat

Waiter == {"handler", "server"}

VARIABLES
    app_port_state, app_event,         \* of handler, timer and main thread
    timer, callback,                   \* retry timer, and its callback under way
    pc, todo,                          \* of handler and server; events the handler has taken
    event, asleep,                     \* event object of the port: flags, threads it has to wake
    port_status,                       \* as last confirmed to the application
    mbox, stack, od,                   \* jobs, port status and on-request data of the stack
    losses, requests, gaveUp           \* gaveUp: confirmations whose wait has ended without them

timerVars == <<timer, callback>>
vars == <<app_port_state, app_event, timerVars, pc, todo, event, asleep, port_status,
          mbox, stack, od, losses, requests, gaveUp>>

handlerVars == <<app_port_state, app_event, timerVars, todo>>
stackVars == <<mbox, stack, od>>
bounds == <<losses, requests>>

TypeOK ==
    /\ app_port_state \in {"INACTIVE", "STARTING", "RUNNING", "WU_RETRY_WAIT_TSD"}
    /\ app_event \subseteq {"PD", "PORTE", "RETRY_ESTCOM", "COMLOST"}
    /\ todo \subseteq {"PD", "PORTE", "RETRY_ESTCOM", "COMLOST"}
    /\ timer \in {"stopped", "started"} /\ callback \in BOOLEAN
    /\ pc \in [Waiter -> {"idle", "config", "PORTCFG_CNF", "PORTSTATUS_CNF", "verify",
                         "READ_CNF", "WRITE_CNF"}]
    /\ pc["handler"] \in {"idle", "config", "PORTCFG_CNF", "PORTSTATUS_CNF", "verify"}
    /\ pc["server"] \in {"idle", "READ_CNF", "WRITE_CNF"}
    /\ event \subseteq {"PORTCFG_CNF", "PORTSTATUS_CNF", "READ_CNF", "WRITE_CNF"}
    /\ asleep \subseteq Waiter
    /\ mbox \in Seq({"PORTCFG_CNF", "PORTSTATUS_CNF", "READ_CNF", "WRITE_CNF", "COMLOST"})
    /\ stack \in {"DEACTIVATED", "CONFIGURED", "OP", "PORT_DIAG", "NO_DEV"}
    /\ od \in {"closed", "open", "READ_CNF", "WRITE_CNF"}

Init ==
    /\ app_port_state = "INACTIVE" /\ app_event = {}
    /\ timer = "stopped" /\ callback = FALSE
    /\ pc = [handler |-> "config", server |-> "idle"] /\ todo = {}
    /\ event = {} /\ asleep = {}
    /\ port_status = "DEACTIVATED"
    /\ mbox = <<>> /\ stack = "DEACTIVATED" /\ od = "closed"
    /\ losses = 0 /\ requests = 0 /\ gaveUp = {}

Goto(t, l) == pc' = [pc EXCEPT ![t] = l]
-----------------------------------------------------------------------------
(***************************************************************************)
(* os_event_set, os_event_clr and os_event_wait: setting and clearing flags*)
(* wakes one of the threads that sleep, whichever flags it waits for; a    *)
(* thread that does not find its flag sleeps again.                        *)
(***************************************************************************)
Signal ==
    IF asleep = {} THEN UNCHANGED asleep
    ELSE \E t \in asleep : asleep' = asleep \ {t}

os_event_set(flag) == event' = event \cup {flag} /\ Signal

os_event_clr(flag) == event' = event \ {flag} /\ Signal

Waits(t) == pc[t] \in {"PORTCFG_CNF", "PORTSTATUS_CNF", "READ_CNF", "WRITE_CNF"}

\* The flag is there: the wait is over.
WaitEnds(t, next) ==
    /\ Waits(t) /\ t \notin asleep /\ pc[t] \in event
    /\ os_event_clr(pc[t])
    /\ Goto(t, next)
    /\ UNCHANGED gaveUp

Sleep(t) ==
    /\ Waits(t) /\ t \notin asleep /\ pc[t] \notin event
    /\ asleep' = asleep \cup {t}
    /\ UNCHANGED <<handlerVars, pc, event, port_status, stackVars, bounds, gaveUp>>

\* Mutant: the handler waits without a time limit.
Timeout_NotHandler(t, next) ==
    /\ t = "server" /\ Waits(t) /\ t \in asleep
    /\ mbox = <<>> /\ \A u \in Waiter : Waits(u) => u \in asleep
    /\ asleep' = asleep \ {t}
    /\ gaveUp' = gaveUp \cup {pc[t]}
    /\ Goto(t, next)
    /\ UNCHANGED event

\* The time is over, one second of the handler or ten of the server: long enough
\* for every thread that is awake.  The flag is not looked at: one that was set
\* while another thread was woken stays set.
Timeout(t, next) ==
    /\ Waits(t) /\ t \in asleep
    /\ mbox = <<>> /\ \A u \in Waiter : Waits(u) => u \in asleep
    /\ asleep' = asleep \ {t}
    /\ gaveUp' = gaveUp \cup {pc[t]}
    /\ Goto(t, next)
    /\ UNCHANGED event
-----------------------------------------------------------------------------
(***************************************************************************)
(* The handler thread.  The events it has taken are worked off in order:   *)
(* process data, port event, retry, loss.                                  *)
(***************************************************************************)
HandlerWait ==
    /\ pc["handler"] = "idle" /\ todo = {} /\ app_event # {}
    /\ todo' = app_event /\ app_event' = {}
    /\ UNCHANGED <<app_port_state, timerVars, pc, event, asleep, port_status, stackVars, bounds, gaveUp>>

Takes(e, earlier) ==
    /\ pc["handler"] = "idle" /\ e \in todo /\ todo \cap earlier = {}
    /\ todo' = todo \ {e}

\* Process data are passed on: ProcessData.
HandlePd ==
    /\ Takes("PD", {})
    /\ UNCHANGED <<app_port_state, app_event, timerVars, pc, event, asleep, port_status,
                   stackVars, bounds, gaveUp>>

\* iolink_config_port, at first and after dl_reset; what it returns is only logged.
ConfigPort ==
    /\ app_port_state' = "STARTING"
    /\ mbox' = Append(mbox, "PORTCFG_CNF")
    /\ Goto("handler", "PORTCFG_CNF")
    /\ UNCHANGED <<app_event, timerVars, event, asleep, port_status, stack, od, bounds, gaveUp>>

HandlerConfigures ==
    /\ pc["handler"] = "config"
    /\ ConfigPort
    /\ UNCHANGED todo

\* Mutant: only a running port is started again.
HandleRetry_Starting ==
    /\ Takes("RETRY_ESTCOM", {"PD", "PORTE"})
    /\ IF app_port_state = "RUNNING" THEN ConfigPort
       ELSE UNCHANGED <<app_port_state, app_event, timerVars, pc, event, asleep, port_status,
                        stackVars, bounds, gaveUp>>

HandleRetry ==
    /\ Takes("RETRY_ESTCOM", {"PD", "PORTE"})
    /\ IF app_port_state = "WU_RETRY_WAIT_TSD" THEN ConfigPort
       ELSE UNCHANGED <<app_port_state, app_event, timerVars, pc, event, asleep, port_status,
                        stackVars, bounds, gaveUp>>

\* Mutant: a port event of a port that waits for its retry takes the retry with it.
HandlePortEvent_Waits ==
    /\ pc["handler"] = "idle" /\ "PORTE" \in todo /\ "PD" \notin todo
    /\ todo' = todo \ {"PORTE", "RETRY_ESTCOM", "COMLOST"}
    /\ IF app_port_state = "STARTING"
       THEN mbox' = Append(mbox, "PORTSTATUS_CNF") /\ Goto("handler", "PORTSTATUS_CNF")
       ELSE UNCHANGED <<mbox, pc>>
    /\ UNCHANGED <<app_port_state, app_event, timerVars, event, asleep, port_status,
                   stack, od, bounds, gaveUp>>

\* get_port_status, for a port that is starting
HandlePortEvent ==
    /\ Takes("PORTE", {"PD"})
    /\ IF app_port_state = "STARTING"
       THEN mbox' = Append(mbox, "PORTSTATUS_CNF") /\ Goto("handler", "PORTSTATUS_CNF")
       ELSE UNCHANGED <<mbox, pc>>
    /\ UNCHANGED <<app_port_state, app_event, timerVars, event, asleep, port_status,
                   stack, od, bounds, gaveUp>>

HandlerWaitEnds ==
    /\ WaitEnds("handler", IF pc["handler"] = "PORTCFG_CNF" THEN "idle" ELSE "verify")
    /\ UNCHANGED <<handlerVars, port_status, stackVars, bounds>>

\* Configured or not, with the port status or without it, the handler goes on.
HandlerTimeout ==
    /\ Timeout("handler", "idle")
    /\ UNCHANGED <<handlerVars, port_status, stackVars, bounds>>

\* Mutant: the status is not verified.
StartPort_Unverified ==
    /\ pc["handler"] = "verify"
    /\ app_port_state' = "RUNNING"
    /\ Goto("handler", "idle")
    /\ UNCHANGED <<app_event, timerVars, todo, event, asleep, port_status, stackVars, bounds, gaveUp>>

\* iolink_start_port verifies the status it has been given; generic_setup.
StartPort ==
    /\ pc["handler"] = "verify"
    /\ app_port_state' = IF port_status = "OP" THEN "RUNNING" ELSE app_port_state
    /\ Goto("handler", "idle")
    /\ UNCHANGED <<app_event, timerVars, todo, event, asleep, port_status, stackVars, bounds, gaveUp>>

\* Mutant: every port is started again at once.
HandleComlost_AtOnce ==
    /\ Takes("COMLOST", {"PD", "PORTE", "RETRY_ESTCOM"})
    /\ timer' = "stopped"
    /\ app_port_state' = "WU_RETRY_WAIT_TSD"
    /\ app_event' = app_event \cup {"RETRY_ESTCOM"}
    /\ UNCHANGED <<callback, pc, event, asleep, port_status, stackVars, bounds, gaveUp>>

\* A port that was starting is given half a second, another is started at once.
HandleComlost ==
    /\ Takes("COMLOST", {"PD", "PORTE", "RETRY_ESTCOM"})
    /\ IF app_port_state = "STARTING"
       THEN timer' = "started" /\ UNCHANGED <<app_port_state, app_event>>
       ELSE /\ timer' = "stopped"
            /\ app_port_state' = "WU_RETRY_WAIT_TSD"
            /\ app_event' = app_event \cup {"RETRY_ESTCOM"}
    /\ UNCHANGED <<callback, pc, event, asleep, port_status, stackVars, bounds, gaveUp>>

\* iolink_retry_estcom on the thread of the timer: the state, and then the event.
\* Half a second is longer than the main and the handler thread take for a second report.
TimerExpires ==
    /\ timer = "started" /\ mbox = <<>> /\ "COMLOST" \notin app_event \cup todo
    /\ timer' = "stopped" /\ callback' = TRUE
    /\ app_port_state' = "WU_RETRY_WAIT_TSD"
    /\ UNCHANGED <<app_event, pc, todo, event, asleep, port_status, stackVars, bounds, gaveUp>>

TimerSetsEvent ==
    /\ callback /\ callback' = FALSE
    /\ app_event' = app_event \cup {"RETRY_ESTCOM"}
    /\ UNCHANGED <<app_port_state, timer, pc, todo, event, asleep, port_status, stackVars, bounds, gaveUp>>
-----------------------------------------------------------------------------
(***************************************************************************)
(* The server thread: CMD_READ and CMD_WRITE, in any state of the port.    *)
(***************************************************************************)
ServerRequest ==
    /\ pc["server"] = "idle" /\ requests < MaxRequest
    /\ requests' = requests + 1
    /\ \E cnf \in {"READ_CNF", "WRITE_CNF"} :
          mbox' = Append(mbox, cnf) /\ Goto("server", cnf)
    /\ UNCHANGED <<handlerVars, event, asleep, port_status, stack, od, losses, gaveUp>>

ServerWaitEnds ==
    /\ WaitEnds("server", "idle")
    /\ UNCHANGED <<handlerVars, port_status, stackVars, bounds>>

ServerTimeout ==
    /\ Timeout("server", "idle")
    /\ UNCHANGED <<handlerVars, port_status, stackVars, bounds>>
-----------------------------------------------------------------------------
(***************************************************************************)
(* The main thread: jobs of the application, confirmed by SMI_cnf_cb ...   *)
(***************************************************************************)
Job(cnf) ==
    /\ mbox # <<>> /\ Head(mbox) = cnf /\ mbox' = Tail(mbox)
    /\ UNCHANGED <<handlerVars, pc, bounds, gaveUp>>

MainConfigures ==
    /\ Job("PORTCFG_CNF")
    /\ stack' = "CONFIGURED" /\ od' = "closed"
    /\ os_event_set("PORTCFG_CNF")
    /\ UNCHANGED port_status

MainPortStatus ==
    /\ Job("PORTSTATUS_CNF")
    /\ port_status' = stack
    /\ os_event_set("PORTSTATUS_CNF")
    /\ UNCHANGED <<stack, od>>

\* A request is passed on, or refused with a job error, which sets the flag too.
MainRequest ==
    \E cnf \in {"READ_CNF", "WRITE_CNF"} :
       /\ Job(cnf)
       /\ IF od = "open" THEN od' = cnf /\ UNCHANGED <<event, asleep>>
          ELSE os_event_set(cnf) /\ UNCHANGED od
       /\ UNCHANGED <<stack, port_status>>

(***************************************************************************)
(* ... and what the stack reports by itself.                               *)
(***************************************************************************)
Reports(e) ==
    /\ app_event' = app_event \cup {e}
    /\ UNCHANGED <<app_port_state, timerVars, pc, todo, port_status, requests, gaveUp>>

\* Mutant: the port becomes operational without an event.
StackOperates_Silent ==
    /\ stack = "CONFIGURED" /\ stack' = "OP" /\ od' = "open"
    /\ UNCHANGED <<handlerVars, pc, port_status, mbox, event, asleep, bounds, gaveUp>>

StackOperates ==
    /\ stack = "CONFIGURED" /\ stack' = "OP" /\ od' = "open"
    /\ Reports("PORTE")
    /\ UNCHANGED <<mbox, event, asleep, losses>>

StackFindsFault ==
    /\ stack = "CONFIGURED" /\ stack' = "PORT_DIAG"
    /\ Reports("PORTE")
    /\ UNCHANGED <<mbox, event, asleep, od, losses>>

StackInput ==
    /\ stack = "OP"
    /\ Reports("PD")
    /\ UNCHANGED <<mbox, event, asleep, stack, od, losses>>

\* On-request data stop: a request under way is confirmed before, or never.  The
\* second report is a job of its own.
StackLost ==
    /\ stack \in {"CONFIGURED", "OP", "PORT_DIAG"} /\ losses < MaxLoss
    /\ losses' = losses + 1
    /\ stack' = "NO_DEV" /\ od' = "closed"
    /\ Reports("COMLOST")
    /\ \/ UNCHANGED mbox
       \/ stack = "CONFIGURED" /\ mbox' = Append(mbox, "COMLOST")
    /\ UNCHANGED <<event, asleep>>

MainComlost ==
    /\ mbox # <<>> /\ Head(mbox) = "COMLOST" /\ mbox' = Tail(mbox)
    /\ Reports("COMLOST")
    /\ UNCHANGED <<event, asleep, stack, od, losses>>

\* The device answers, or refuses to; late, if it likes.
StackAnswers ==
    /\ od \in {"READ_CNF", "WRITE_CNF"} /\ od' = "open"
    /\ os_event_set(od)
    /\ UNCHANGED <<handlerVars, pc, port_status, mbox, stack, bounds, gaveUp>>
-----------------------------------------------------------------------------
HandlerNext ==
    \/ HandlerWait \/ HandlePd \/ HandlerConfigures \/ HandleRetry \/ HandlePortEvent
    \/ HandlerWaitEnds \/ Sleep("handler") \/ HandlerTimeout \/ StartPort \/ HandleComlost

TimerNext == TimerExpires \/ TimerSetsEvent

ServerNext == ServerWaitEnds \/ Sleep("server") \/ ServerTimeout

MainNext == MainConfigures \/ MainPortStatus \/ MainRequest \/ MainComlost

StackNext == StackOperates \/ StackFindsFault \/ StackLost

Next ==
    \/ HandlerNext \/ TimerNext \/ ServerRequest \/ ServerNext
    \/ MainNext \/ StackNext \/ StackInput \/ StackAnswers

Spec == Init /\ [][Next]_vars

\* The threads run, time passes, and a configured port ends its start-up in some way.
\* The client need not ask and the device need not answer.
FairSpec ==
    /\ Spec
    /\ WF_vars(HandlerNext) /\ WF_vars(TimerNext) /\ WF_vars(ServerNext) /\ WF_vars(MainNext)
    /\ WF_vars(StackNext)
-----------------------------------------------------------------------------
(***************************************************************************)
(* A lost port is never forgotten: the loss has still to be looked at, the *)
(* timer runs, a retry is due that the handler will accept, or the port is *)
(* being configured.  The flags that say so are written by three threads.  *)
(***************************************************************************)
LossIsPending ==
    stack = "NO_DEV" =>
       \/ "COMLOST" \in app_event \cup todo
       \/ timer = "started" \/ callback
       \/ app_port_state = "WU_RETRY_WAIT_TSD" /\ "RETRY_ESTCOM" \in app_event \cup todo
       \/ \E i \in 1..Len(mbox) : mbox[i] = "PORTCFG_CNF"

(***************************************************************************)
(* The application runs a port only if it is operational, or if it is not  *)
(* yet told of its loss.  One case is exempt: the handler has once given   *)
(* up waiting for the status of the port (not: for the confirmation of a   *)
(* configuration), and takes the late one for that of the next start.      *)
(***************************************************************************)
RunningMeansOperating ==
    app_port_state = "RUNNING" /\ "PORTSTATUS_CNF" \notin gaveUp =>
       stack = "OP" \/ "COMLOST" \in app_event \cup todo

(***************************************************************************)
(* Only a port that has been lost is configured again: a retry that comes  *)
(* too late, or twice, would tear down a port that has started up since.   *)
(***************************************************************************)
OnlyLostPortsAreRestarted ==
    \A i \in 1..Len(mbox) : mbox[i] = "PORTCFG_CNF" => stack \in {"DEACTIVATED", "NO_DEV"}

(***************************************************************************)
(* A port that is operational for good is run, unless the handler has once *)
(* given up waiting for the status of the port: nothing asks for it again. *)
(***************************************************************************)
PortRuns ==
    <>[](stack = "OP" /\ "PORTSTATUS_CNF" \notin gaveUp => app_port_state = "RUNNING")

(***************************************************************************)
(* The handler never waits for good: its confirmations all come, but the   *)
(* wake-up may be given to the server, which does not pass it on           *)
(* (os_event_set, os_event_clr); then the time limit ends the wait.        *)
(***************************************************************************)
HandlerGoesOn == Waits("handler") ~> ~Waits("handler")

(***************************************************************************)
(* The handler tries again after every loss, however often the device goes *)
(* away, in whatever state the port is then.                               *)
(***************************************************************************)
LostPortIsTriedAgain == stack = "NO_DEV" ~> stack = "CONFIGURED"
=============================================================================
