---------------------------- MODULE ProcessData ----------------------------
(***************************************************************************)
(* The process data of one operating port, octet by octet: from the reply  *)
(* of the device through the data link layer (iolink_dl.c), the process    *)
(* data exchange (iolink_pde.c) and the handler of the application         *)
(* (iolink_port.cc, iolink_smi.cc) to the client of the TCP server         *)
(* (server.cc), and back.  Four threads pass the data on, each buffer has  *)
(* a lock of its own or none, and a lost device is started again.          *)
(*                                                                         *)
(* Two octets stand for the up to 32 of a message: enough for a copy to be *)
(* interrupted.  An octet is the number of the input of the device, or of  *)
(* the request of the client, that it comes from.                          *)
(***************************************************************************)
EXTENDS Integers, Sequences

CONSTANTS MaxInput,      \* bound: the device changes its input that often
          MaxRequest,    \* bound: requests of the client
          Lengths,       \* lengths of output and input the client may ask for
          MaxLoss,       \* bound: losses of communication
          Jobs           \* jobs of the pool this port may use at once

ASSUME ProcessDataAssumption ==
    /\ MaxInput \in Nat /\ MaxRequest \in Nat /\ MaxLoss \in Nat
    /\ Lengths \subseteq {0, 2} \X {0, 2}
    /\ Jobs \in Nat \ {0}

Thread == {"dl", "main", "handler", "server"}
Lock == {"mtx_pdin", "mtx", "mtx_cmd"}

\* What is found behind the octets an argument block has been given.
Garbage == -1

Data(n) == <<n, n>>

VARIABLES
    pc, lock,                                   \* of the threads
    mbox,                                       \* jobs under way to the main thread
    link, rxbuffer, pdoutdata, txbuffer,        \* data link layer
    pdin_data, pdin_data_len, pde, port_status, \* application layer and process data exchange
    app_state, app_event, todo, pdin, block,    \* handler thread and its port
    cmd,                                        \* the command the server shares with it
    sample, device, requests, losses,           \* device and client
    cleared                                     \* history: the last request was answered with input
                                                \* alone, and its output cleared

dlVars == <<link, rxbuffer, pdoutdata, txbuffer>>
pdeVars == <<pdin_data, pdin_data_len, pde, port_status>>
appVars == <<app_state, app_event, todo>>
ioVars == <<sample, device, requests, losses, cleared>>
vars == <<pc, lock, mbox, dlVars, pdeVars, appVars, pdin, block, cmd, ioVars>>

Goto(t, l) == pc' = [pc EXCEPT ![t] = l]

Acquire(t, m) ==
    /\ lock[m] = "free"
    /\ lock' = [lock EXCEPT ![m] = t]

Release(m) == lock' = [lock EXCEPT ![m] = "free"]

\* The main thread holds the job it executes until it is done.
JobsInUse == Len(mbox) + (IF pc["main"] = "idle" THEN 0 ELSE 1)

PostJob(type) ==
    /\ JobsInUse < Jobs
    /\ mbox' = Append(mbox, type)

Octets == [1..2 -> Int]

\* Where a thread is.
Label ==
    {"idle", "receive", "transport", "transport2", "pd_req", "pd_req2", "copy", "copy2", "sio",
     "sio2", "pdout", "pdout2", "pdin", "pdin2", "cnf", "cnf2", "take", "take2",
     "pdinout", "pdinout2", "pdinout3"}

TypeOK ==
    /\ pc \in [Thread -> Label]
    /\ lock \in [Lock -> Thread \cup {"free"}]
    /\ link \in {"configured", "up", "lost"}
    /\ pde \in {"Inactive", "PDactive"} /\ port_status \in {"OP", "NO_DEV"}
    /\ app_state \in {"STARTING", "RUNNING"}
    /\ rxbuffer \in Octets /\ pdoutdata \in Octets /\ txbuffer \in Octets
    /\ pdin_data \in Octets /\ pdin \in Octets /\ block \in Octets /\ device \in Octets
    /\ cmd \in [lenOut : {0, 2}, lenIn : {0, 2}, dataOut : Octets, dataIn : Octets]
    /\ sample \in Nat /\ requests \in Nat /\ cleared \in BOOLEAN

Init ==
    /\ pc = [t \in Thread |-> "idle"] /\ lock = [m \in Lock |-> "free"]
    /\ mbox = <<>>
    /\ link = "configured"
    /\ rxbuffer = Data(0) /\ pdoutdata = Data(0) /\ txbuffer = Data(0)
    /\ pdin_data = Data(0) /\ pdin_data_len = 0
    /\ pde = "Inactive" /\ port_status = "NO_DEV"
    /\ app_state = "STARTING" /\ app_event = {} /\ todo = {}
    /\ pdin = Data(0) /\ block = Data(0)
    /\ cmd = [lenOut |-> 0, lenIn |-> 0, dataOut |-> Data(0), dataIn |-> Data(0)]
    /\ sample = 0 /\ device = Data(0) /\ requests = 0 /\ losses = 0 /\ cleared = FALSE
-----------------------------------------------------------------------------
(***************************************************************************)
(* The data link thread.  A reply: its octets are read into rxbuffer, the  *)
(* input is handed to the application layer and announced by a job, the    *)
(* output is put into the next message, and the message is sent.           *)
(***************************************************************************)
Receive ==
    /\ pc["dl"] = "idle" /\ link = "up"
    /\ \E s \in {sample, sample + 1} :
          /\ s <= MaxInput
          /\ sample' = s
          /\ rxbuffer' = [rxbuffer EXCEPT ![1] = s]
    /\ Goto("dl", "receive")
    /\ UNCHANGED <<lock, mbox, link, pdoutdata, txbuffer, pdeVars, appVars, pdin, block, cmd,
                   device, requests, losses, cleared>>

ReceiveRest ==
    /\ pc["dl"] = "receive"
    /\ rxbuffer' = [rxbuffer EXCEPT ![2] = sample]
    /\ Goto("dl", "transport")
    /\ UNCHANGED <<lock, mbox, link, pdoutdata, txbuffer, pdeVars, appVars, pdin, block, cmd, ioVars>>

InputTransport ==
    /\ pc["dl"] = "transport"
    /\ Acquire("dl", "mtx_pdin")
    /\ pdin_data' = [pdin_data EXCEPT ![1] = rxbuffer[1]]
    /\ Goto("dl", "transport2")
    /\ UNCHANGED <<mbox, dlVars, pdin_data_len, pde, port_status, appVars, pdin, block, cmd, ioVars>>

\* The lock is held while a job is waited for.
InputTransportRest ==
    /\ pc["dl"] = "transport2"
    /\ PostJob("PD_EVENT")
    /\ pdin_data' = [pdin_data EXCEPT ![2] = rxbuffer[2]]
    /\ pdin_data_len' = 2
    /\ Release("mtx_pdin")
    /\ Goto("dl", "pd_req")
    /\ UNCHANGED <<dlVars, pde, port_status, appVars, pdin, block, cmd, ioVars>>

\* Mutant: the output is copied without the lock.
PD_req_Unlocked ==
    /\ pc["dl"] = "pd_req"
    /\ txbuffer' = [txbuffer EXCEPT ![1] = pdoutdata[1]]
    /\ Goto("dl", "pd_req2")
    /\ UNCHANGED <<lock, mbox, link, rxbuffer, pdoutdata, pdeVars, appVars, pdin, block, cmd, ioVars>>

PD_req ==
    /\ pc["dl"] = "pd_req"
    /\ Acquire("dl", "mtx")
    /\ txbuffer' = [txbuffer EXCEPT ![1] = pdoutdata[1]]
    /\ Goto("dl", "pd_req2")
    /\ UNCHANGED <<mbox, link, rxbuffer, pdoutdata, pdeVars, appVars, pdin, block, cmd, ioVars>>

\* The message is sent: nobody but this thread writes the octets of txbuffer in between.
PD_reqRest ==
    /\ pc["dl"] = "pd_req2"
    /\ txbuffer' = [txbuffer EXCEPT ![2] = pdoutdata[2]]
    /\ device' = txbuffer'
    /\ Release("mtx")
    /\ Goto("dl", "idle")
    /\ UNCHANGED <<mbox, link, rxbuffer, pdoutdata, pdeVars, appVars, pdin, block, cmd,
                   sample, requests, losses, cleared>>

\* Communication lost: the process data handler becomes inactive, the main thread is told.
Lose ==
    /\ pc["dl"] = "idle" /\ link = "up"
    /\ losses < MaxLoss /\ losses' = losses + 1
    /\ link' = "lost"
    /\ PostJob("COMLOST")
    /\ UNCHANGED <<pc, lock, rxbuffer, pdoutdata, txbuffer, pdeVars, appVars, pdin, block, cmd,
                   sample, device, requests, cleared>>

\* The start-up of a configured port reaches OPERATE.
Operate ==
    /\ pc["dl"] = "idle" /\ link = "configured"
    /\ link' = "up"
    /\ PostJob("OPERATE")
    /\ UNCHANGED <<pc, lock, rxbuffer, pdoutdata, txbuffer, pdeVars, appVars, pdin, block, cmd, ioVars>>
-----------------------------------------------------------------------------
(***************************************************************************)
(* The main thread.  PD_cb announces the input before it copies it, from   *)
(* rxbuffer and without a lock.                                            *)
(***************************************************************************)
\* Mutant: the callback takes the lock of the input.
MainPdEvent_Locked ==
    /\ pc["main"] = "idle" /\ mbox # <<>> /\ Head(mbox) = "PD_EVENT"
    /\ lock["mtx_pdin"] = "free"
    /\ mbox' = Tail(mbox)
    /\ app_event' = app_event \cup {"PD"}
    /\ pdin' = [pdin EXCEPT ![1] = rxbuffer[1]]
    /\ Goto("main", "copy")
    /\ UNCHANGED <<lock, dlVars, pdeVars, app_state, todo, block, cmd, ioVars>>

MainPdEvent ==
    /\ pc["main"] = "idle" /\ mbox # <<>> /\ Head(mbox) = "PD_EVENT"
    /\ mbox' = Tail(mbox)
    /\ app_event' = app_event \cup {"PD"}
    /\ pdin' = [pdin EXCEPT ![1] = rxbuffer[1]]
    /\ Goto("main", "copy")
    /\ UNCHANGED <<lock, dlVars, pdeVars, app_state, todo, block, cmd, ioVars>>

MainPdEventRest ==
    /\ pc["main"] = "copy"
    /\ pdin' = [pdin EXCEPT ![2] = rxbuffer[2]]
    /\ Goto("main", "idle")
    /\ UNCHANGED <<lock, mbox, dlVars, pdeVars, appVars, block, cmd, ioVars>>

PortEvent(type, status, state, event) ==
    /\ pc["main"] = "idle" /\ mbox # <<>> /\ Head(mbox) = type
    /\ mbox' = Tail(mbox)
    /\ port_status' = status /\ pde' = state
    /\ app_event' = app_event \cup {event}
    /\ UNCHANGED <<pc, lock, dlVars, pdin_data, pdin_data_len, app_state, todo, pdin, block, cmd, ioVars>>

MainOperate == PortEvent("OPERATE", "OP", "PDactive", "PORTE")
MainComlost == PortEvent("COMLOST", "NO_DEV", "Inactive", "COMLOST")
-----------------------------------------------------------------------------
(***************************************************************************)
(* The handler thread: process data of a running port, then the start of   *)
(* one that is starting, then the restart of one that was lost.            *)
(***************************************************************************)
\* Mutant: the events are cleared before one of them is taken.
HandlerWait_Clears ==
    /\ pc["handler"] = "idle" /\ todo = {} /\ app_event # {}
    /\ \E e \in app_event : todo' = {e}
    /\ app_event' = {}
    /\ UNCHANGED <<pc, lock, mbox, dlVars, pdeVars, app_state, pdin, block, cmd, ioVars>>

HandlerWait ==
    /\ pc["handler"] = "idle" /\ todo = {} /\ app_event # {}
    /\ todo' = app_event /\ app_event' = {}
    /\ UNCHANGED <<pc, lock, mbox, dlVars, pdeVars, app_state, pdin, block, cmd, ioVars>>

Finish(event) == todo' = todo \ {event}

\* Mutant: what comes with process data is forgotten.
HandlePd_Only ==
    /\ pc["handler"] = "idle" /\ "PD" \in todo
    /\ todo' = {}
    /\ IF app_state = "RUNNING"
       THEN Acquire("handler", "mtx_cmd") /\ Goto("handler", "pdout")
       ELSE UNCHANGED <<lock, pc>>
    /\ UNCHANGED <<mbox, dlVars, pdeVars, app_state, app_event, pdin, block, cmd, ioVars>>

HandlePd ==
    /\ pc["handler"] = "idle" /\ "PD" \in todo
    /\ Finish("PD")
    /\ IF app_state = "RUNNING"
       THEN Acquire("handler", "mtx_cmd") /\ Goto("handler", "pdout")
       ELSE UNCHANGED <<lock, pc>>
    /\ UNCHANGED <<mbox, dlVars, pdeVars, app_state, app_event, pdin, block, cmd, ioVars>>

\* generic_setup writes no output: an argument block without data is refused.
HandlePortEvent ==
    /\ pc["handler"] = "idle" /\ "PORTE" \in todo /\ "PD" \notin todo
    /\ Finish("PORTE")
    /\ app_state' = IF port_status = "OP" THEN "RUNNING" ELSE app_state
    /\ UNCHANGED <<pc, lock, mbox, dlVars, pdeVars, app_event, pdin, block, cmd, ioVars>>

\* The reset of the data link (iolink_dl_reset) clears the output, without the lock.
HandleComlost ==
    /\ pc["handler"] = "idle" /\ todo = {"COMLOST"}
    /\ Finish("COMLOST")
    /\ app_state' = "STARTING" /\ link' = "configured" /\ pdoutdata' = Data(0)
    /\ UNCHANGED <<pc, lock, mbox, rxbuffer, txbuffer, pdeVars, app_event, pdin, block, cmd, ioVars>>

\* Mutant: once there has been an output, the data link layer takes no other.
TakesOutput_Once == pde = "PDactive" /\ link = "up" /\ pdoutdata = Data(0)

\* generic_run: the output of the command, if there is one and the port takes it.
TakesOutput == pde = "PDactive" /\ link = "up"

RunPdOut ==
    /\ pc["handler"] = "pdout"
    /\ IF cmd.lenOut > 0 /\ TakesOutput
       THEN /\ Acquire("handler", "mtx")
            /\ pdoutdata' = [pdoutdata EXCEPT ![1] = cmd.dataOut[1]]
            /\ Goto("handler", "pdout2")
       ELSE /\ Goto("handler", "pdin")
            /\ UNCHANGED <<lock, pdoutdata>>
    /\ UNCHANGED <<mbox, link, rxbuffer, txbuffer, pdeVars, appVars, pdin, block, cmd, ioVars>>

RunPdOutRest ==
    /\ pc["handler"] = "pdout2"
    /\ pdoutdata' = [pdoutdata EXCEPT ![2] = cmd.dataOut[2]]
    /\ Release("mtx")
    /\ Goto("handler", "pdin")
    /\ UNCHANGED <<mbox, link, rxbuffer, txbuffer, pdeVars, appVars, pdin, block, cmd, ioVars>>

\* The input, first into an argument block ...
RunPdIn ==
    /\ pc["handler"] = "pdin"
    /\ IF cmd.lenIn > 0 /\ pde = "PDactive"
       THEN /\ Acquire("handler", "mtx_pdin")
            /\ block' = [block EXCEPT ![1] = pdin_data[1]]
            /\ Goto("handler", "pdin2")
       ELSE /\ Goto("handler", "pdinout")
            /\ UNCHANGED <<lock, block>>
    /\ UNCHANGED <<mbox, dlVars, pdeVars, appVars, pdin, cmd, ioVars>>

RunPdInRest ==
    /\ pc["handler"] = "pdin2"
    /\ block' = [block EXCEPT ![2] = pdin_data[2]]
    /\ Release("mtx_pdin")
    /\ Goto("handler", "cnf")
    /\ UNCHANGED <<mbox, dlVars, pdeVars, appVars, pdin, cmd, ioVars>>

\* ... from there into the input of the port, which PD_cb writes too, and on to the command.
Confirm(at, octet, next) ==
    /\ pc["handler"] = at
    /\ pdin' = [pdin EXCEPT ![octet] = block[octet]]
    /\ Goto("handler", next)
    /\ UNCHANGED <<lock, mbox, dlVars, pdeVars, appVars, block, cmd, ioVars>>

RunTake(at, octet, next) ==
    /\ pc["handler"] = at
    /\ cmd' = [cmd EXCEPT !.dataIn[octet] = pdin[octet]]
    /\ Goto("handler", next)
    /\ UNCHANGED <<lock, mbox, dlVars, pdeVars, appVars, pdin, block, ioVars>>

\* Input and output once more, as a check that both are there: two locks at a time.
RunPdInOut ==
    /\ pc["handler"] = "pdinout"
    /\ IF pde = "PDactive"
       THEN Acquire("handler", "mtx_pdin") /\ Goto("handler", "pdinout2")
       ELSE Release("mtx_cmd") /\ Goto("handler", "idle")
    /\ UNCHANGED <<mbox, dlVars, pdeVars, appVars, pdin, block, cmd, ioVars>>

RunPdOutputGet ==
    /\ pc["handler"] = "pdinout2"
    /\ Acquire("handler", "mtx")
    /\ Goto("handler", "pdinout3")
    /\ UNCHANGED <<mbox, dlVars, pdeVars, appVars, pdin, block, cmd, ioVars>>

RunDone ==
    /\ pc["handler"] = "pdinout3"
    /\ lock' = [m \in Lock |-> IF lock[m] = "handler" THEN "free" ELSE lock[m]]
    /\ Goto("handler", "idle")
    /\ UNCHANGED <<mbox, dlVars, pdeVars, appVars, pdin, block, cmd, ioVars>>
-----------------------------------------------------------------------------
(***************************************************************************)
(* The server: a request of the client with or without output and input.   *)
(* The output is cleared, and set if the port runs; otherwise the server   *)
(* takes the port for one in SIO mode and accesses it itself, with the     *)
(* first octet only.                                                       *)
(***************************************************************************)
ServerRequest ==
    /\ pc["server"] = "idle" /\ requests < MaxRequest
    /\ Acquire("server", "mtx_cmd")
    /\ requests' = requests + 1 /\ cleared' = FALSE
    /\ \E l \in Lengths :
          cmd' = [cmd EXCEPT !.lenOut = l[1], !.lenIn = l[2], !.dataOut = Data(0)]
    /\ Goto("server", IF app_state = "RUNNING" THEN "copy" ELSE "sio")
    /\ UNCHANGED <<mbox, dlVars, pdeVars, appVars, pdin, block, sample, device, losses>>

Given(octet) == IF cmd.lenOut > 0 THEN requests ELSE cmd.dataOut[octet]

ServerCopy ==
    /\ pc["server"] = "copy"
    /\ cmd' = [cmd EXCEPT !.dataOut[1] = Given(1)]
    /\ Goto("server", "copy2")
    /\ UNCHANGED <<lock, mbox, dlVars, pdeVars, appVars, pdin, block, ioVars>>

ServerCopyRest ==
    /\ pc["server"] = "copy2"
    /\ cmd' = [cmd EXCEPT !.dataOut[2] = Given(2)]
    /\ Release("mtx_cmd")
    /\ Goto("server", "idle")
    /\ UNCHANGED <<mbox, dlVars, pdeVars, appVars, pdin, block, ioVars>>

\* do_smi_pdin: the input goes through that of the port, which PD_cb writes too.
ServerSioIn ==
    /\ pc["server"] = "sio" /\ pde = "PDactive" /\ pdin_data_len > 0
    /\ lock["mtx_pdin"] = "free"
    /\ pdin' = pdin_data
    /\ cleared' = (cmd.lenOut > 0)
    /\ Goto("server", "sio2")
    /\ UNCHANGED <<lock, mbox, dlVars, pdeVars, appVars, block, cmd, sample, device, requests, losses>>

ServerSioInRest ==
    /\ pc["server"] = "sio2"
    /\ cmd' = [cmd EXCEPT !.dataIn = pdin]
    /\ Release("mtx_cmd")
    /\ Goto("server", "idle")
    /\ UNCHANGED <<mbox, dlVars, pdeVars, appVars, pdin, block, ioVars>>

ServerSioOut ==
    /\ pc["server"] = "sio" /\ ~(pde = "PDactive" /\ pdin_data_len > 0)
    /\ lock["mtx"] = "free"
    /\ cmd' = [cmd EXCEPT !.dataOut = <<Given(1), Given(2)>>]
    /\ pdoutdata' = IF cmd.lenOut > 0 /\ TakesOutput THEN <<requests, Garbage>> ELSE pdoutdata
    /\ Release("mtx_cmd")
    /\ Goto("server", "idle")
    /\ UNCHANGED <<mbox, link, rxbuffer, txbuffer, pdeVars, appVars, pdin, block, ioVars>>
-----------------------------------------------------------------------------
DlNext ==
    \/ ReceiveRest \/ InputTransport \/ InputTransportRest
    \/ PD_req \/ PD_reqRest

MainNext == MainPdEvent \/ MainPdEventRest \/ MainOperate \/ MainComlost

HandlerNext ==
    \/ HandlerWait \/ HandlePd \/ HandlePortEvent \/ HandleComlost
    \/ RunPdOut \/ RunPdOutRest \/ RunPdIn \/ RunPdInRest
    \/ Confirm("cnf", 1, "cnf2") \/ Confirm("cnf2", 2, "take")
    \/ RunTake("take", 1, "take2") \/ RunTake("take2", 2, "pdinout")
    \/ RunPdInOut \/ RunPdOutputGet \/ RunDone

ServerNext ==
    \/ ServerCopy \/ ServerCopyRest
    \/ ServerSioIn \/ ServerSioInRest \/ ServerSioOut

Next == Receive \/ Lose \/ Operate \/ DlNext \/ MainNext \/ HandlerNext \/ ServerRequest \/ ServerNext

Spec == Init /\ [][Next]_vars

\* The device answers, a configured port starts, the threads run; the client need not ask.
\* A lock is handed to a thread that keeps asking for it.
FairSpec ==
    /\ Spec
    /\ WF_vars(Receive) /\ WF_vars(Operate)
    /\ SF_vars(DlNext) /\ WF_vars(MainNext) /\ SF_vars(HandlerNext) /\ SF_vars(ServerNext)
-----------------------------------------------------------------------------
(***************************************************************************)
(* No message mixes the outputs of two requests.  (An octet the server has *)
(* not given, in a request it takes for one in SIO mode, is no request's.) *)
(***************************************************************************)
OutputsNeverMix == device[2] \in {device[1], Garbage}

(***************************************************************************)
(* What AL_GetInput_req returns is the input of one reply, not a mixture   *)
(* of two.                                                                 *)
(***************************************************************************)
InputBlocksAreWhole == pc["handler"] = "cnf" => block[1] = block[2]

(***************************************************************************)
(* The output of the client's last request is what the device has in the   *)
(* end, through losses, restarts that clear the output and interleavings   *)
(* of the threads.  One request loses its output: one the server answers   *)
(* with input alone, taking a port that is still starting for one in SIO   *)
(* mode; then the device has no output in the end, and never an older one. *)
(***************************************************************************)
OutputsSettle ==
    <>[](cmd.lenOut > 0 => device = IF cleared THEN Data(0) ELSE Data(requests))

(***************************************************************************)
(* What the device sends last is what a client that reads input is given   *)
(* in the end.                                                             *)
(***************************************************************************)
InputsSettle == <>[](cmd.lenIn > 0 => cmd.dataIn = Data(sample))

(***************************************************************************)
(* After a loss the port runs again: the handler, the process data         *)
(* exchange and the data link layer agree in the end that it does, though  *)
(* each learns of loss and restart from another thread.                    *)
(***************************************************************************)
PortRecovers == <>[](app_state = "RUNNING" /\ TakesOutput)

(***************************************************************************)
(* mtx_pdin always comes back, though the data link thread waits for a job *)
(* and the handler thread for another lock while they hold it.             *)
(***************************************************************************)
LockComesBack == []<>(lock["mtx_pdin"] = "free")
=============================================================================
