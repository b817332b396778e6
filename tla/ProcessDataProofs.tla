-------------------------- MODULE ProcessDataProofs --------------------------
(***************************************************************************)
(* Theorems about process data, for any number of inputs, requests, losses *)
(* and jobs: whoever is in the middle of a copy holds the lock of what it  *)
(* copies, and a half copied buffer agrees with its source as far as it    *)
(* has come.                                                               *)
(***************************************************************************)
EXTENDS ProcessData, TLAPS

\* Who holds which lock, and where
Locking ==
    /\ pc["dl"] = "transport2" => lock["mtx_pdin"] = "dl"
    /\ pc["dl"] = "pd_req2" => lock["mtx"] = "dl"
    /\ pc["handler"] \in {"pdin2", "pdinout2", "pdinout3"} => lock["mtx_pdin"] = "handler"
    /\ pc["handler"] \in {"pdout2", "pdinout3"} => lock["mtx"] = "handler"
    /\ pc["handler"] # "idle" => lock["mtx_cmd"] = "handler"
    /\ pc["server"] # "idle" => lock["mtx_cmd"] = "server"

\* An octet of the output the command has
Wanted == IF cmd.lenOut > 0 THEN requests ELSE 0

\* The way of the output, from the command to the device
Output ==
    /\ pc["server"] \in {"copy", "sio"} => cmd.dataOut[1] = 0 /\ cmd.dataOut[2] = 0
    /\ pc["server"] = "copy2" => cmd.dataOut[1] = Wanted /\ cmd.dataOut[2] = 0
    /\ pc["server"] # "copy2" => cmd.dataOut[2] = cmd.dataOut[1]
    /\ pc["handler"] = "pdout2" => pdoutdata[1] = cmd.dataOut[1]
    /\ pc["handler"] # "pdout2" => pdoutdata[2] \in {pdoutdata[1], Garbage}
    /\ pc["dl"] = "pd_req2" => txbuffer[1] = pdoutdata[1]
    /\ OutputsNeverMix

\* The way of the input, from the reply to the argument block
Input ==
    /\ pc["dl"] = "receive" => rxbuffer[1] = sample
    /\ pc["dl"] # "receive" => rxbuffer[1] = rxbuffer[2]
    /\ pc["dl"] = "transport2" => pdin_data[1] = rxbuffer[1]
    /\ pc["dl"] # "transport2" => pdin_data[1] = pdin_data[2]
    /\ pc["handler"] = "pdin2" => block[1] = pdin_data[1]
    /\ InputBlocksAreWhole

\* Of a loss the main thread, the port or the handler still has to hear, and of
\* one only; until the port is configured again its data link thread is idle.
Loss ==
    /\ mbox \in Seq({"PD_EVENT", "COMLOST", "OPERATE"})
    /\ link # "up" => pc["dl"] = "idle"
    /\ \A i \in 1..Len(mbox) :
          mbox[i] = "COMLOST" =>
             /\ link = "lost" /\ "COMLOST" \notin app_event /\ "COMLOST" \notin todo
             /\ \A j \in 1..Len(mbox) : mbox[j] = "COMLOST" => j = i
    /\ "COMLOST" \in app_event => link = "lost" /\ "COMLOST" \notin todo
    /\ "COMLOST" \in todo => link = "lost"

\* The parts of the type invariant
Commands == [lenOut : {0, 2}, lenIn : {0, 2}, dataOut : Octets, dataIn : Octets]
Places == [Thread -> Label]
Holders == [Lock -> Thread \cup {"free"}]

LEMMA Pairs ==
    ASSUME NEW x \in Int, NEW y \in Int
    PROVE  <<x, y>> \in Octets /\ <<x, y>>[1] = x /\ <<x, y>>[2] = y
  BY DEF Octets

\* One thread moves on.
LEMMA Moved ==
    ASSUME pc \in Places, NEW t \in Thread, NEW l \in Label, Goto(t, l)
    PROVE  /\ pc' \in Places
           /\ pc'[t] = l
           /\ \A u \in Thread \ {t} : pc'[u] = pc[u]
  BY DEF Places, Goto

\* One lock is taken, or given back.
LEMMA Taken ==
    ASSUME lock \in Holders, NEW t \in Thread, NEW m \in Lock, Acquire(t, m)
    PROVE  /\ lock' \in Holders
           /\ lock[m] = "free" /\ lock'[m] = t
           /\ \A n \in Lock \ {m} : lock'[n] = lock[n]
  BY DEF Holders, Acquire

LEMMA Returned ==
    ASSUME lock \in Holders, NEW m \in Lock, Release(m)
    PROVE  /\ lock' \in Holders
           /\ lock'[m] = "free"
           /\ \A n \in Lock \ {m} : lock'[n] = lock[n]
  BY DEF Holders, Release

LEMMA Start == Init => TypeOK /\ Locking /\ Output /\ Input
  <1> SUFFICES ASSUME Init
               PROVE  TypeOK /\ Locking /\ Output /\ Input
    OBVIOUS
  <1>1. Data(0) \in Octets /\ Data(0)[1] = 0 /\ Data(0)[2] = 0
    BY Pairs DEF Data
  <1>2. TypeOK
    <2>1. pc \in [Thread -> Label] /\ lock \in [Lock -> Thread \cup {"free"}]
      <3>1. pc = [t \in Thread |-> "idle"] /\ lock = [m \in Lock |-> "free"]
        BY DEF Init
      <3>2. [t \in Thread |-> "idle"] \in [Thread -> Label]
        BY DEF Label
      <3>3. [m \in Lock |-> "free"] \in [Lock -> Thread \cup {"free"}]
        OBVIOUS
      <3> QED
        BY <3>1, <3>2, <3>3
    <2>2. cmd \in [lenOut : {0, 2}, lenIn : {0, 2}, dataOut : Octets, dataIn : Octets]
      BY <1>1 DEF Init
    <2>3. /\ link = "configured" /\ pde = "Inactive" /\ port_status = "NO_DEV"
          /\ app_state = "STARTING" /\ sample = 0 /\ requests = 0 /\ cleared = FALSE
          /\ rxbuffer = Data(0) /\ pdoutdata = Data(0) /\ txbuffer = Data(0)
          /\ pdin_data = Data(0) /\ pdin = Data(0) /\ block = Data(0) /\ device = Data(0)
      BY DEF Init
    <2> QED
      BY <1>1, <2>1, <2>2, <2>3 DEF TypeOK
  <1>3. \A t \in Thread : pc[t] = "idle"
    BY DEF Init
  <1>4. /\ cmd.dataOut = Data(0) /\ pdoutdata = Data(0) /\ device = Data(0)
        /\ rxbuffer = Data(0) /\ pdin_data = Data(0)
    BY DEF Init
  <1> QED
    BY <1>1, <1>2, <1>3, <1>4
    DEF Locking, Output, OutputsNeverMix, Input, InputBlocksAreWhole, Thread

IInv == TypeOK /\ Locking /\ Output /\ Input

\* The data link thread keeps the invariant.
LEMMA DlStep == IInv /\ (Receive \/ DlNext \/ Lose \/ Operate) => IInv'
  <1> SUFFICES ASSUME IInv, Receive \/ DlNext \/ Lose \/ Operate
               PROVE  IInv'
    OBVIOUS
  <1>0. /\ TypeOK /\ Locking /\ Output /\ Input
        /\ pc \in Places /\ lock \in Holders
        /\ rxbuffer \in Octets /\ pdoutdata \in Octets /\ txbuffer \in Octets
        /\ pdin_data \in Octets /\ pdin \in Octets /\ block \in Octets
        /\ sample \in Int /\ requests \in Int /\ cmd \in Commands
        /\ cmd.dataOut \in Octets /\ cmd.dataIn \in Octets
    BY DEF IInv, TypeOK, Places, Holders, Commands
  <1>1. CASE Receive
    <2>1. pc' \in Places /\ pc'["dl"] = "receive" /\ \A u \in Thread \ {"dl"} : pc'[u] = pc[u]
      BY <1>1, <1>0, Moved DEF Receive, Thread, Label
    <2>2. lock' = lock
      BY <1>1 DEF Receive
    <2>3. UNCHANGED <<link, pde, port_status, app_state, pdoutdata, txbuffer, pdin_data, pdin,
                    block, device, cmd, requests, cleared>>
      BY <1>1 DEF Receive, dlVars, pdeVars, appVars, ioVars
    <2>4. \E s \in {sample, sample + 1} : sample' = s /\ rxbuffer' = [rxbuffer EXCEPT ![1] = s]
      BY <1>1 DEF Receive
    <2>5. sample' \in Nat /\ rxbuffer' \in Octets /\ rxbuffer'[1] = sample'
      BY <2>4, <1>0 DEF TypeOK, Octets
    <2>6. pc["dl"] = "idle"
      BY <1>1 DEF Receive
    <2> QED
      BY <2>1, <2>2, <2>3, <2>4, <2>5, <2>6, <1>0
      DEF IInv, TypeOK, Places, Holders, Commands, Locking, Output, OutputsNeverMix,
          Wanted, Input, InputBlocksAreWhole, Thread, Lock
  <1>2. CASE ReceiveRest
    <2>1. pc' \in Places /\ pc'["dl"] = "transport" /\ \A u \in Thread \ {"dl"} : pc'[u] = pc[u]
      BY <1>2, <1>0, Moved DEF ReceiveRest, Thread, Label
    <2>2. lock' = lock
      BY <1>2 DEF ReceiveRest
    <2>3. UNCHANGED <<link, pde, port_status, app_state, pdoutdata, txbuffer, pdin_data, pdin,
                    block, device, cmd, sample, requests, cleared>>
      BY <1>2 DEF ReceiveRest, dlVars, pdeVars, appVars, ioVars
    <2>4. rxbuffer' \in Octets /\ rxbuffer'[2] = sample /\ rxbuffer'[1] = rxbuffer[1]
      BY <1>2, <1>0 DEF ReceiveRest, Octets
    <2>5. pc["dl"] = "receive"
      BY <1>2 DEF ReceiveRest
    <2> QED
      BY <2>1, <2>2, <2>3, <2>4, <2>5, <1>0
      DEF IInv, TypeOK, Places, Holders, Commands, Locking, Output, OutputsNeverMix,
          Wanted, Input, InputBlocksAreWhole, Thread, Lock
  <1>3. CASE InputTransport
    <2>1. pc' \in Places /\ pc'["dl"] = "transport2" /\ \A u \in Thread \ {"dl"} : pc'[u] = pc[u]
      BY <1>3, <1>0, Moved DEF InputTransport, Thread, Label
    <2>2. lock' \in Holders /\ lock["mtx_pdin"] = "free" /\ lock'["mtx_pdin"] = "dl"
          /\ \A m \in Lock \ {"mtx_pdin"} : lock'[m] = lock[m]
      BY <1>3, <1>0, Taken DEF InputTransport, Thread, Lock
    <2>3. UNCHANGED <<link, pde, port_status, app_state, rxbuffer, pdoutdata, txbuffer, pdin,
                    block, device, cmd, sample, requests, cleared>>
      BY <1>3 DEF InputTransport, dlVars, pdeVars, appVars, ioVars
    <2>4. pdin_data' \in Octets /\ pdin_data'[1] = rxbuffer[1] /\ pdin_data'[2] = pdin_data[2]
      BY <1>3, <1>0 DEF InputTransport, Octets
    <2>5. pc["dl"] = "transport"
      BY <1>3 DEF InputTransport
    <2> QED
      BY <2>1, <2>2, <2>3, <2>4, <2>5, <1>0
      DEF IInv, TypeOK, Places, Holders, Commands, Locking, Output, OutputsNeverMix,
          Wanted, Input, InputBlocksAreWhole, Thread, Lock
  <1>4. CASE InputTransportRest
    <2>1. pc' \in Places /\ pc'["dl"] = "pd_req" /\ \A u \in Thread \ {"dl"} : pc'[u] = pc[u]
      BY <1>4, <1>0, Moved DEF InputTransportRest, Thread, Label
    <2>2. lock' \in Holders /\ lock'["mtx_pdin"] = "free"
          /\ \A m \in Lock \ {"mtx_pdin"} : lock'[m] = lock[m]
      BY <1>4, <1>0, Returned DEF InputTransportRest, Lock
    <2>3. UNCHANGED <<link, pde, port_status, app_state, rxbuffer, pdoutdata, txbuffer, pdin,
                    block, device, cmd, sample, requests, cleared>>
      BY <1>4 DEF InputTransportRest, dlVars, pdeVars, appVars, ioVars
    <2>4. pdin_data' \in Octets /\ pdin_data'[2] = rxbuffer[2] /\ pdin_data'[1] = pdin_data[1]
      BY <1>4, <1>0 DEF InputTransportRest, Octets
    <2>5. pc["dl"] = "transport2"
      BY <1>4 DEF InputTransportRest
    <2> QED
      BY <2>1, <2>2, <2>3, <2>4, <2>5, <1>0
      DEF IInv, TypeOK, Places, Holders, Commands, Locking, Output, OutputsNeverMix,
          Wanted, Input, InputBlocksAreWhole, Thread, Lock
  <1>5. CASE PD_req
    <2>1. pc' \in Places /\ pc'["dl"] = "pd_req2" /\ \A u \in Thread \ {"dl"} : pc'[u] = pc[u]
      BY <1>5, <1>0, Moved DEF PD_req, Thread, Label
    <2>2. lock' \in Holders /\ lock["mtx"] = "free" /\ lock'["mtx"] = "dl"
          /\ \A m \in Lock \ {"mtx"} : lock'[m] = lock[m]
      BY <1>5, <1>0, Taken DEF PD_req, Thread, Lock
    <2>3. UNCHANGED <<link, pde, port_status, app_state, rxbuffer, pdoutdata, pdin_data, pdin,
                    block, device, cmd, sample, requests, cleared>>
      BY <1>5 DEF PD_req, dlVars, pdeVars, appVars, ioVars
    <2>4. txbuffer' \in Octets /\ txbuffer'[1] = pdoutdata[1] /\ txbuffer'[2] = txbuffer[2]
      BY <1>5, <1>0 DEF PD_req, Octets
    <2>5. pc["dl"] = "pd_req"
      BY <1>5 DEF PD_req
    <2> QED
      BY <2>1, <2>2, <2>3, <2>4, <2>5, <1>0
      DEF IInv, TypeOK, Places, Holders, Commands, Locking, Output, OutputsNeverMix,
          Wanted, Input, InputBlocksAreWhole, Thread, Lock
  <1>6. CASE PD_reqRest
    <2>1. pc' \in Places /\ pc'["dl"] = "idle" /\ \A u \in Thread \ {"dl"} : pc'[u] = pc[u]
      BY <1>6, <1>0, Moved DEF PD_reqRest, Thread, Label
    <2>2. lock' \in Holders /\ lock'["mtx"] = "free"
          /\ \A m \in Lock \ {"mtx"} : lock'[m] = lock[m]
      BY <1>6, <1>0, Returned DEF PD_reqRest, Lock
    <2>3. UNCHANGED <<link, pde, port_status, app_state, rxbuffer, pdoutdata, pdin_data, pdin,
                    block, cmd, sample, requests, cleared>>
      BY <1>6 DEF PD_reqRest, dlVars, pdeVars, appVars, ioVars
    <2>4. txbuffer' \in Octets /\ txbuffer'[2] = pdoutdata[2] /\ txbuffer'[1] = txbuffer[1]
      BY <1>6, <1>0 DEF PD_reqRest, Octets
    <2>5. device' = txbuffer'
      BY <1>6 DEF PD_reqRest
    <2>6. pc["dl"] = "pd_req2"
      BY <1>6 DEF PD_reqRest
    <2> QED
      BY <2>1, <2>2, <2>3, <2>4, <2>5, <2>6, <1>0
      DEF IInv, TypeOK, Places, Holders, Commands, Locking, Output, OutputsNeverMix,
          Wanted, Input, InputBlocksAreWhole, Thread, Lock
  <1>7. CASE Lose
    <2>1. pc' = pc
      BY <1>7 DEF Lose
    <2>2. lock' = lock
      BY <1>7 DEF Lose
    <2>3. UNCHANGED <<pde, port_status, app_state, rxbuffer, pdoutdata, txbuffer, pdin_data,
                    pdin, block, device, cmd, sample, requests, cleared>>
      BY <1>7 DEF Lose, dlVars, pdeVars, appVars, ioVars
    <2>4. link' = "lost"
      BY <1>7 DEF Lose
    <2> QED
      BY <2>1, <2>2, <2>3, <2>4, <1>0
      DEF IInv, TypeOK, Places, Holders, Commands, Locking, Output, OutputsNeverMix,
          Wanted, Input, InputBlocksAreWhole, Thread, Lock
  <1>8. CASE Operate
    <2>1. pc' = pc
      BY <1>8 DEF Operate
    <2>2. lock' = lock
      BY <1>8 DEF Operate
    <2>3. UNCHANGED <<pde, port_status, app_state, rxbuffer, pdoutdata, txbuffer, pdin_data,
                    pdin, block, device, cmd, sample, requests, cleared>>
      BY <1>8 DEF Operate, dlVars, pdeVars, appVars, ioVars
    <2>4. link' = "up"
      BY <1>8 DEF Operate
    <2> QED
      BY <2>1, <2>2, <2>3, <2>4, <1>0
      DEF IInv, TypeOK, Places, Holders, Commands, Locking, Output, OutputsNeverMix,
          Wanted, Input, InputBlocksAreWhole, Thread, Lock
  <1> QED
    BY <1>1, <1>2, <1>3, <1>4, <1>5, <1>6, <1>7, <1>8 DEF DlNext

\* The main thread keeps the invariant.
LEMMA MainStep == IInv /\ (MainNext) => IInv'
  <1> SUFFICES ASSUME IInv, MainNext
               PROVE  IInv'
    OBVIOUS
  <1>0. /\ TypeOK /\ Locking /\ Output /\ Input
        /\ pc \in Places /\ lock \in Holders
        /\ rxbuffer \in Octets /\ pdoutdata \in Octets /\ txbuffer \in Octets
        /\ pdin_data \in Octets /\ pdin \in Octets /\ block \in Octets
        /\ sample \in Int /\ requests \in Int /\ cmd \in Commands
        /\ cmd.dataOut \in Octets /\ cmd.dataIn \in Octets
    BY DEF IInv, TypeOK, Places, Holders, Commands
  <1>1. CASE MainPdEvent
    <2>1. pc' \in Places /\ pc'["main"] = "copy" /\ \A u \in Thread \ {"main"} : pc'[u] = pc[u]
      BY <1>1, <1>0, Moved DEF MainPdEvent, Thread, Label
    <2>2. lock' = lock
      BY <1>1 DEF MainPdEvent
    <2>3. UNCHANGED <<link, pde, port_status, app_state, rxbuffer, pdoutdata, txbuffer,
                    pdin_data, block, device, cmd, sample, requests, cleared>>
      BY <1>1 DEF MainPdEvent, dlVars, pdeVars, appVars, ioVars
    <2>4. pdin' \in Octets /\ pdin'[1] = rxbuffer[1] /\ pdin'[2] = pdin[2]
      BY <1>1, <1>0 DEF MainPdEvent, Octets
    <2> QED
      BY <2>1, <2>2, <2>3, <2>4, <1>0
      DEF IInv, TypeOK, Places, Holders, Commands, Locking, Output, OutputsNeverMix,
          Wanted, Input, InputBlocksAreWhole, Thread, Lock
  <1>2. CASE MainPdEventRest
    <2>1. pc' \in Places /\ pc'["main"] = "idle" /\ \A u \in Thread \ {"main"} : pc'[u] = pc[u]
      BY <1>2, <1>0, Moved DEF MainPdEventRest, Thread, Label
    <2>2. lock' = lock
      BY <1>2 DEF MainPdEventRest
    <2>3. UNCHANGED <<link, pde, port_status, app_state, rxbuffer, pdoutdata, txbuffer,
                    pdin_data, block, device, cmd, sample, requests, cleared>>
      BY <1>2 DEF MainPdEventRest, dlVars, pdeVars, appVars, ioVars
    <2>4. pdin' \in Octets /\ pdin'[2] = rxbuffer[2] /\ pdin'[1] = pdin[1]
      BY <1>2, <1>0 DEF MainPdEventRest, Octets
    <2> QED
      BY <2>1, <2>2, <2>3, <2>4, <1>0
      DEF IInv, TypeOK, Places, Holders, Commands, Locking, Output, OutputsNeverMix,
          Wanted, Input, InputBlocksAreWhole, Thread, Lock
  <1>3. CASE MainOperate
    <2>1. pc' = pc
      BY <1>3 DEF MainOperate, PortEvent
    <2>2. lock' = lock
      BY <1>3 DEF MainOperate, PortEvent
    <2>3. UNCHANGED <<link, app_state, rxbuffer, pdoutdata, txbuffer, pdin_data, pdin, block,
                    device, cmd, sample, requests, cleared>>
      BY <1>3 DEF MainOperate, PortEvent, dlVars, pdeVars, appVars, ioVars
    <2>4. port_status' = "OP" /\ pde' = "PDactive"
      BY <1>3 DEF MainOperate, PortEvent
    <2> QED
      BY <2>1, <2>2, <2>3, <2>4, <1>0
      DEF IInv, TypeOK, Places, Holders, Commands, Locking, Output, OutputsNeverMix,
          Wanted, Input, InputBlocksAreWhole, Thread, Lock
  <1>4. CASE MainComlost
    <2>1. pc' = pc
      BY <1>4 DEF MainComlost, PortEvent
    <2>2. lock' = lock
      BY <1>4 DEF MainComlost, PortEvent
    <2>3. UNCHANGED <<link, app_state, rxbuffer, pdoutdata, txbuffer, pdin_data, pdin, block,
                    device, cmd, sample, requests, cleared>>
      BY <1>4 DEF MainComlost, PortEvent, dlVars, pdeVars, appVars, ioVars
    <2>4. port_status' = "NO_DEV" /\ pde' = "Inactive"
      BY <1>4 DEF MainComlost, PortEvent
    <2> QED
      BY <2>1, <2>2, <2>3, <2>4, <1>0
      DEF IInv, TypeOK, Places, Holders, Commands, Locking, Output, OutputsNeverMix,
          Wanted, Input, InputBlocksAreWhole, Thread, Lock
  <1> QED
    BY <1>1, <1>2, <1>3, <1>4 DEF MainNext

\* The handler thread keeps the invariant.
LEMMA HandlerStep == IInv /\ Loss /\ HandlerNext => IInv'
  <1> SUFFICES ASSUME IInv, Loss, HandlerNext
               PROVE  IInv'
    OBVIOUS
  <1>0. /\ TypeOK /\ Locking /\ Output /\ Input
        /\ pc \in Places /\ lock \in Holders
        /\ rxbuffer \in Octets /\ pdoutdata \in Octets /\ txbuffer \in Octets
        /\ pdin_data \in Octets /\ pdin \in Octets /\ block \in Octets
        /\ sample \in Int /\ requests \in Int /\ cmd \in Commands
        /\ cmd.dataOut \in Octets /\ cmd.dataIn \in Octets
    BY DEF IInv, TypeOK, Places, Holders, Commands
  <1>1. CASE HandlerWait
    <2>1. pc' = pc
      BY <1>1 DEF HandlerWait
    <2>2. lock' = lock
      BY <1>1 DEF HandlerWait
    <2>3. UNCHANGED <<link, pde, port_status, app_state, rxbuffer, pdoutdata, txbuffer,
                    pdin_data, pdin, block, device, cmd, sample, requests, cleared>>
      BY <1>1 DEF HandlerWait, dlVars, pdeVars, appVars, ioVars
    <2> QED
      BY <2>1, <2>2, <2>3, <1>0
      DEF IInv, TypeOK, Places, Holders, Commands, Locking, Output, OutputsNeverMix,
          Wanted, Input, InputBlocksAreWhole, Thread, Lock
  <1>2. CASE HandlePd /\ app_state = "RUNNING"
    <2>1. pc' \in Places /\ pc'["handler"] = "pdout"
          /\ \A u \in Thread \ {"handler"} : pc'[u] = pc[u]
      BY <1>2, <1>0, Moved DEF HandlePd, Thread, Label
    <2>2. lock' \in Holders /\ lock["mtx_cmd"] = "free" /\ lock'["mtx_cmd"] = "handler"
          /\ \A m \in Lock \ {"mtx_cmd"} : lock'[m] = lock[m]
      BY <1>2, <1>0, Taken DEF HandlePd, Thread, Lock
    <2>3. UNCHANGED <<link, pde, port_status, app_state, rxbuffer, pdoutdata, txbuffer,
                    pdin_data, pdin, block, device, cmd, sample, requests, cleared>>
      BY <1>2 DEF HandlePd, dlVars, pdeVars, appVars, ioVars
    <2>4. pc["handler"] = "idle"
      BY <1>2 DEF HandlePd
    <2> QED
      BY <2>1, <2>2, <2>3, <2>4, <1>0
      DEF IInv, TypeOK, Places, Holders, Commands, Locking, Output, OutputsNeverMix,
          Wanted, Input, InputBlocksAreWhole, Thread, Lock
  <1>3. CASE HandlePd /\ app_state # "RUNNING"
    <2>1. pc' = pc
      BY <1>3 DEF HandlePd
    <2>2. lock' = lock
      BY <1>3 DEF HandlePd
    <2>3. UNCHANGED <<link, pde, port_status, app_state, rxbuffer, pdoutdata, txbuffer,
                    pdin_data, pdin, block, device, cmd, sample, requests, cleared>>
      BY <1>3 DEF HandlePd, dlVars, pdeVars, appVars, ioVars
    <2> QED
      BY <2>1, <2>2, <2>3, <1>0
      DEF IInv, TypeOK, Places, Holders, Commands, Locking, Output, OutputsNeverMix,
          Wanted, Input, InputBlocksAreWhole, Thread, Lock
  <1>4. CASE HandlePortEvent
    <2>1. pc' = pc
      BY <1>4 DEF HandlePortEvent
    <2>2. lock' = lock
      BY <1>4 DEF HandlePortEvent
    <2>3. UNCHANGED <<link, pde, port_status, rxbuffer, pdoutdata, txbuffer, pdin_data, pdin,
                    block, device, cmd, sample, requests, cleared>>
      BY <1>4 DEF HandlePortEvent, dlVars, pdeVars, appVars, ioVars
    <2>4. app_state' \in {app_state, "RUNNING"}
      BY <1>4 DEF HandlePortEvent
    <2> QED
      BY <2>1, <2>2, <2>3, <2>4, <1>0
      DEF IInv, TypeOK, Places, Holders, Commands, Locking, Output, OutputsNeverMix,
          Wanted, Input, InputBlocksAreWhole, Thread, Lock
  <1>5. CASE HandleComlost
    <2>1. pc' = pc
      BY <1>5 DEF HandleComlost
    <2>2. lock' = lock
      BY <1>5 DEF HandleComlost
    <2>3. UNCHANGED <<pde, port_status, rxbuffer, txbuffer, pdin_data, pdin, block,
                    device, cmd, sample, requests, cleared>>
      BY <1>5 DEF HandleComlost, pdeVars, appVars, ioVars
    <2>4. app_state' = "STARTING" /\ link' = "configured"
      BY <1>5 DEF HandleComlost
    <2>5. pdoutdata' \in Octets /\ pdoutdata'[1] = 0 /\ pdoutdata'[2] = 0
      BY <1>5, Pairs DEF HandleComlost, Data
    <2>6. pc["handler"] = "idle" /\ pc["dl"] = "idle"
      BY <1>5 DEF HandleComlost, Loss
    <2> QED
      BY <2>1, <2>2, <2>3, <2>4, <2>5, <2>6, <1>0
      DEF IInv, TypeOK, Places, Holders, Commands, Locking, Output, OutputsNeverMix,
          Wanted, Input, InputBlocksAreWhole, Thread, Lock
  <1>6. CASE RunPdOut /\ cmd.lenOut > 0 /\ TakesOutput
    <2>1. pc' \in Places /\ pc'["handler"] = "pdout2"
          /\ \A u \in Thread \ {"handler"} : pc'[u] = pc[u]
      BY <1>6, <1>0, Moved DEF RunPdOut, Thread, Label
    <2>2. lock' \in Holders /\ lock["mtx"] = "free" /\ lock'["mtx"] = "handler"
          /\ \A m \in Lock \ {"mtx"} : lock'[m] = lock[m]
      BY <1>6, <1>0, Taken DEF RunPdOut, Thread, Lock
    <2>3. UNCHANGED <<link, pde, port_status, app_state, rxbuffer, txbuffer, pdin_data, pdin,
                    block, device, cmd, sample, requests, cleared>>
      BY <1>6 DEF RunPdOut, dlVars, pdeVars, appVars, ioVars
    <2>4. pdoutdata' \in Octets /\ pdoutdata'[1] = cmd.dataOut[1] /\ pdoutdata'[2] = pdoutdata[2]
      BY <1>6, <1>0 DEF RunPdOut, Octets
    <2>5. pc["handler"] = "pdout"
      BY <1>6 DEF RunPdOut
    <2> QED
      BY <2>1, <2>2, <2>3, <2>4, <2>5, <1>0
      DEF IInv, TypeOK, Places, Holders, Commands, Locking, Output, OutputsNeverMix,
          Wanted, Input, InputBlocksAreWhole, Thread, Lock
  <1>7. CASE RunPdOut /\ ~(cmd.lenOut > 0 /\ TakesOutput)
    <2>1. pc' \in Places /\ pc'["handler"] = "pdin"
          /\ \A u \in Thread \ {"handler"} : pc'[u] = pc[u]
      BY <1>7, <1>0, Moved DEF RunPdOut, Thread, Label
    <2>2. lock' = lock
      BY <1>7 DEF RunPdOut
    <2>3. UNCHANGED <<link, pde, port_status, app_state, rxbuffer, pdoutdata, txbuffer,
                    pdin_data, pdin, block, device, cmd, sample, requests, cleared>>
      BY <1>7 DEF RunPdOut, dlVars, pdeVars, appVars, ioVars
    <2>4. pc["handler"] = "pdout"
      BY <1>7 DEF RunPdOut
    <2> QED
      BY <2>1, <2>2, <2>3, <2>4, <1>0
      DEF IInv, TypeOK, Places, Holders, Commands, Locking, Output, OutputsNeverMix,
          Wanted, Input, InputBlocksAreWhole, Thread, Lock
  <1>8. CASE RunPdOutRest
    <2>1. pc' \in Places /\ pc'["handler"] = "pdin"
          /\ \A u \in Thread \ {"handler"} : pc'[u] = pc[u]
      BY <1>8, <1>0, Moved DEF RunPdOutRest, Thread, Label
    <2>2. lock' \in Holders /\ lock'["mtx"] = "free"
          /\ \A m \in Lock \ {"mtx"} : lock'[m] = lock[m]
      BY <1>8, <1>0, Returned DEF RunPdOutRest, Lock
    <2>3. UNCHANGED <<link, pde, port_status, app_state, rxbuffer, txbuffer, pdin_data, pdin,
                    block, device, cmd, sample, requests, cleared>>
      BY <1>8 DEF RunPdOutRest, dlVars, pdeVars, appVars, ioVars
    <2>4. pdoutdata' \in Octets /\ pdoutdata'[2] = cmd.dataOut[2] /\ pdoutdata'[1] = pdoutdata[1]
      BY <1>8, <1>0 DEF RunPdOutRest, Octets
    <2>5. pc["handler"] = "pdout2"
      BY <1>8 DEF RunPdOutRest
    <2> QED
      BY <2>1, <2>2, <2>3, <2>4, <2>5, <1>0
      DEF IInv, TypeOK, Places, Holders, Commands, Locking, Output, OutputsNeverMix,
          Wanted, Input, InputBlocksAreWhole, Thread, Lock
  <1>9. CASE RunPdIn /\ cmd.lenIn > 0 /\ pde = "PDactive"
    <2>1. pc' \in Places /\ pc'["handler"] = "pdin2"
          /\ \A u \in Thread \ {"handler"} : pc'[u] = pc[u]
      BY <1>9, <1>0, Moved DEF RunPdIn, Thread, Label
    <2>2. lock' \in Holders /\ lock["mtx_pdin"] = "free" /\ lock'["mtx_pdin"] = "handler"
          /\ \A m \in Lock \ {"mtx_pdin"} : lock'[m] = lock[m]
      BY <1>9, <1>0, Taken DEF RunPdIn, Thread, Lock
    <2>3. UNCHANGED <<link, pde, port_status, app_state, rxbuffer, pdoutdata, txbuffer,
                    pdin_data, pdin, device, cmd, sample, requests, cleared>>
      BY <1>9 DEF RunPdIn, dlVars, pdeVars, appVars, ioVars
    <2>4. block' \in Octets /\ block'[1] = pdin_data[1] /\ block'[2] = block[2]
      BY <1>9, <1>0 DEF RunPdIn, Octets
    <2>5. pc["handler"] = "pdin"
      BY <1>9 DEF RunPdIn
    <2> QED
      BY <2>1, <2>2, <2>3, <2>4, <2>5, <1>0
      DEF IInv, TypeOK, Places, Holders, Commands, Locking, Output, OutputsNeverMix,
          Wanted, Input, InputBlocksAreWhole, Thread, Lock
  <1>10. CASE RunPdIn /\ ~(cmd.lenIn > 0 /\ pde = "PDactive")
    <2>1. pc' \in Places /\ pc'["handler"] = "pdinout"
          /\ \A u \in Thread \ {"handler"} : pc'[u] = pc[u]
      BY <1>10, <1>0, Moved DEF RunPdIn, Thread, Label
    <2>2. lock' = lock
      BY <1>10 DEF RunPdIn
    <2>3. UNCHANGED <<link, pde, port_status, app_state, rxbuffer, pdoutdata, txbuffer,
                    pdin_data, pdin, block, device, cmd, sample, requests, cleared>>
      BY <1>10 DEF RunPdIn, dlVars, pdeVars, appVars, ioVars
    <2>4. pc["handler"] = "pdin"
      BY <1>10 DEF RunPdIn
    <2> QED
      BY <2>1, <2>2, <2>3, <2>4, <1>0
      DEF IInv, TypeOK, Places, Holders, Commands, Locking, Output, OutputsNeverMix,
          Wanted, Input, InputBlocksAreWhole, Thread, Lock
  <1>11. CASE RunPdInRest
    <2>1. pc' \in Places /\ pc'["handler"] = "cnf"
          /\ \A u \in Thread \ {"handler"} : pc'[u] = pc[u]
      BY <1>11, <1>0, Moved DEF RunPdInRest, Thread, Label
    <2>2. lock' \in Holders /\ lock'["mtx_pdin"] = "free"
          /\ \A m \in Lock \ {"mtx_pdin"} : lock'[m] = lock[m]
      BY <1>11, <1>0, Returned DEF RunPdInRest, Lock
    <2>3. UNCHANGED <<link, pde, port_status, app_state, rxbuffer, pdoutdata, txbuffer,
                    pdin_data, pdin, device, cmd, sample, requests, cleared>>
      BY <1>11 DEF RunPdInRest, dlVars, pdeVars, appVars, ioVars
    <2>4. block' \in Octets /\ block'[2] = pdin_data[2] /\ block'[1] = block[1]
      BY <1>11, <1>0 DEF RunPdInRest, Octets
    <2>5. pc["handler"] = "pdin2"
      BY <1>11 DEF RunPdInRest
    <2> QED
      BY <2>1, <2>2, <2>3, <2>4, <2>5, <1>0
      DEF IInv, TypeOK, Places, Holders, Commands, Locking, Output, OutputsNeverMix,
          Wanted, Input, InputBlocksAreWhole, Thread, Lock
  <1>12. CASE Confirm("cnf", 1, "cnf2")
    <2>1. pc' \in Places /\ pc'["handler"] = "cnf2"
          /\ \A u \in Thread \ {"handler"} : pc'[u] = pc[u]
      BY <1>12, <1>0, Moved DEF Confirm, Thread, Label
    <2>2. lock' = lock
      BY <1>12 DEF Confirm
    <2>3. UNCHANGED <<link, pde, port_status, app_state, rxbuffer, pdoutdata, txbuffer,
                    pdin_data, block, device, cmd, sample, requests, cleared>>
      BY <1>12 DEF Confirm, dlVars, pdeVars, appVars, ioVars
    <2>4. pdin' \in Octets /\ pdin'[1] = block[1] /\ pdin'[2] = pdin[2]
      BY <1>12, <1>0 DEF Confirm, Octets
    <2>5. pc["handler"] = "cnf"
      BY <1>12 DEF Confirm
    <2> QED
      BY <2>1, <2>2, <2>3, <2>4, <2>5, <1>0
      DEF IInv, TypeOK, Places, Holders, Commands, Locking, Output, OutputsNeverMix,
          Wanted, Input, InputBlocksAreWhole, Thread, Lock
  <1>13. CASE Confirm("cnf2", 2, "take")
    <2>1. pc' \in Places /\ pc'["handler"] = "take"
          /\ \A u \in Thread \ {"handler"} : pc'[u] = pc[u]
      BY <1>13, <1>0, Moved DEF Confirm, Thread, Label
    <2>2. lock' = lock
      BY <1>13 DEF Confirm
    <2>3. UNCHANGED <<link, pde, port_status, app_state, rxbuffer, pdoutdata, txbuffer,
                    pdin_data, block, device, cmd, sample, requests, cleared>>
      BY <1>13 DEF Confirm, dlVars, pdeVars, appVars, ioVars
    <2>4. pdin' \in Octets /\ pdin'[2] = block[2] /\ pdin'[1] = pdin[1]
      BY <1>13, <1>0 DEF Confirm, Octets
    <2>5. pc["handler"] = "cnf2"
      BY <1>13 DEF Confirm
    <2> QED
      BY <2>1, <2>2, <2>3, <2>4, <2>5, <1>0
      DEF IInv, TypeOK, Places, Holders, Commands, Locking, Output, OutputsNeverMix,
          Wanted, Input, InputBlocksAreWhole, Thread, Lock
  <1>14. CASE RunTake("take", 1, "take2")
    <2>1. pc' \in Places /\ pc'["handler"] = "take2"
          /\ \A u \in Thread \ {"handler"} : pc'[u] = pc[u]
      BY <1>14, <1>0, Moved DEF RunTake, Thread, Label
    <2>2. lock' = lock
      BY <1>14 DEF RunTake
    <2>3. UNCHANGED <<link, pde, port_status, app_state, rxbuffer, pdoutdata, txbuffer,
                    pdin_data, pdin, block, device, sample, requests, cleared>>
      BY <1>14 DEF RunTake, dlVars, pdeVars, appVars, ioVars
    <2>4. cmd' = [cmd EXCEPT !.dataIn = [cmd.dataIn EXCEPT ![1] = pdin[1]]]
      BY <1>14 DEF RunTake
    <2>5. [cmd.dataIn EXCEPT ![1] = pdin[1]] \in Octets
      BY <1>0 DEF Octets
    <2>6. cmd' \in Commands /\ cmd'.lenOut = cmd.lenOut /\ cmd'.dataOut = cmd.dataOut
      BY <2>4, <2>5, <1>0 DEF Commands
    <2>7. pc["handler"] = "take"
      BY <1>14 DEF RunTake
    <2> QED
      BY <2>1, <2>2, <2>3, <2>4, <2>5, <2>6, <2>7, <1>0
      DEF IInv, TypeOK, Places, Holders, Commands, Locking, Output, OutputsNeverMix,
          Wanted, Input, InputBlocksAreWhole, Thread, Lock
  <1>15. CASE RunTake("take2", 2, "pdinout")
    <2>1. pc' \in Places /\ pc'["handler"] = "pdinout"
          /\ \A u \in Thread \ {"handler"} : pc'[u] = pc[u]
      BY <1>15, <1>0, Moved DEF RunTake, Thread, Label
    <2>2. lock' = lock
      BY <1>15 DEF RunTake
    <2>3. UNCHANGED <<link, pde, port_status, app_state, rxbuffer, pdoutdata, txbuffer,
                    pdin_data, pdin, block, device, sample, requests, cleared>>
      BY <1>15 DEF RunTake, dlVars, pdeVars, appVars, ioVars
    <2>4. cmd' = [cmd EXCEPT !.dataIn = [cmd.dataIn EXCEPT ![2] = pdin[2]]]
      BY <1>15 DEF RunTake
    <2>5. [cmd.dataIn EXCEPT ![2] = pdin[2]] \in Octets
      BY <1>0 DEF Octets
    <2>6. cmd' \in Commands /\ cmd'.lenOut = cmd.lenOut /\ cmd'.dataOut = cmd.dataOut
      BY <2>4, <2>5, <1>0 DEF Commands
    <2>7. pc["handler"] = "take2"
      BY <1>15 DEF RunTake
    <2> QED
      BY <2>1, <2>2, <2>3, <2>4, <2>5, <2>6, <2>7, <1>0
      DEF IInv, TypeOK, Places, Holders, Commands, Locking, Output, OutputsNeverMix,
          Wanted, Input, InputBlocksAreWhole, Thread, Lock
  <1>16. CASE RunPdInOut /\ pde = "PDactive"
    <2>1. pc' \in Places /\ pc'["handler"] = "pdinout2"
          /\ \A u \in Thread \ {"handler"} : pc'[u] = pc[u]
      BY <1>16, <1>0, Moved DEF RunPdInOut, Thread, Label
    <2>2. lock' \in Holders /\ lock["mtx_pdin"] = "free" /\ lock'["mtx_pdin"] = "handler"
          /\ \A m \in Lock \ {"mtx_pdin"} : lock'[m] = lock[m]
      BY <1>16, <1>0, Taken DEF RunPdInOut, Thread, Lock
    <2>3. UNCHANGED <<link, pde, port_status, app_state, rxbuffer, pdoutdata, txbuffer,
                    pdin_data, pdin, block, device, cmd, sample, requests, cleared>>
      BY <1>16 DEF RunPdInOut, dlVars, pdeVars, appVars, ioVars
    <2>4. pc["handler"] = "pdinout"
      BY <1>16 DEF RunPdInOut
    <2> QED
      BY <2>1, <2>2, <2>3, <2>4, <1>0
      DEF IInv, TypeOK, Places, Holders, Commands, Locking, Output, OutputsNeverMix,
          Wanted, Input, InputBlocksAreWhole, Thread, Lock
  <1>17. CASE RunPdInOut /\ pde # "PDactive"
    <2>1. pc' \in Places /\ pc'["handler"] = "idle"
          /\ \A u \in Thread \ {"handler"} : pc'[u] = pc[u]
      BY <1>17, <1>0, Moved DEF RunPdInOut, Thread, Label
    <2>2. lock' \in Holders /\ lock'["mtx_cmd"] = "free"
          /\ \A m \in Lock \ {"mtx_cmd"} : lock'[m] = lock[m]
      BY <1>17, <1>0, Returned DEF RunPdInOut, Lock
    <2>3. UNCHANGED <<link, pde, port_status, app_state, rxbuffer, pdoutdata, txbuffer,
                    pdin_data, pdin, block, device, cmd, sample, requests, cleared>>
      BY <1>17 DEF RunPdInOut, dlVars, pdeVars, appVars, ioVars
    <2>4. pc["handler"] = "pdinout"
      BY <1>17 DEF RunPdInOut
    <2> QED
      BY <2>1, <2>2, <2>3, <2>4, <1>0
      DEF IInv, TypeOK, Places, Holders, Commands, Locking, Output, OutputsNeverMix,
          Wanted, Input, InputBlocksAreWhole, Thread, Lock
  <1>18. CASE RunPdOutputGet
    <2>1. pc' \in Places /\ pc'["handler"] = "pdinout3"
          /\ \A u \in Thread \ {"handler"} : pc'[u] = pc[u]
      BY <1>18, <1>0, Moved DEF RunPdOutputGet, Thread, Label
    <2>2. lock' \in Holders /\ lock["mtx"] = "free" /\ lock'["mtx"] = "handler"
          /\ \A m \in Lock \ {"mtx"} : lock'[m] = lock[m]
      BY <1>18, <1>0, Taken DEF RunPdOutputGet, Thread, Lock
    <2>3. UNCHANGED <<link, pde, port_status, app_state, rxbuffer, pdoutdata, txbuffer,
                    pdin_data, pdin, block, device, cmd, sample, requests, cleared>>
      BY <1>18 DEF RunPdOutputGet, dlVars, pdeVars, appVars, ioVars
    <2>4. pc["handler"] = "pdinout2"
      BY <1>18 DEF RunPdOutputGet
    <2> QED
      BY <2>1, <2>2, <2>3, <2>4, <1>0
      DEF IInv, TypeOK, Places, Holders, Commands, Locking, Output, OutputsNeverMix,
          Wanted, Input, InputBlocksAreWhole, Thread, Lock
  <1>19. CASE RunDone
    <2>1. pc' \in Places /\ pc'["handler"] = "idle"
          /\ \A u \in Thread \ {"handler"} : pc'[u] = pc[u]
      BY <1>19, <1>0, Moved DEF RunDone, Thread, Label
    <2>2. UNCHANGED <<link, pde, port_status, app_state, rxbuffer, pdoutdata, txbuffer,
                    pdin_data, pdin, block, device, cmd, sample, requests, cleared>>
      BY <1>19 DEF RunDone, dlVars, pdeVars, appVars, ioVars
    <2>3. lock' \in Holders
          /\ \A m \in Lock : lock'[m] = IF lock[m] = "handler" THEN "free" ELSE lock[m]
      BY <1>19, <1>0 DEF RunDone, Holders
    <2>4. pc["handler"] = "pdinout3"
      BY <1>19 DEF RunDone
    <2> QED
      BY <2>1, <2>2, <2>3, <2>4, <1>0
      DEF IInv, TypeOK, Places, Holders, Commands, Locking, Output, OutputsNeverMix,
          Wanted, Input, InputBlocksAreWhole, Thread, Lock
  <1> QED
    BY <1>1, <1>2, <1>3, <1>4, <1>5, <1>6, <1>7, <1>8, <1>9, <1>10, <1>11, <1>12, <1>13, <1>14,
       <1>15, <1>16, <1>17, <1>18, <1>19
       DEF HandlerNext

\* The server keeps the invariant.
LEMMA ServerStep == IInv /\ (ServerRequest \/ ServerNext) => IInv'
  <1> SUFFICES ASSUME IInv, ServerRequest \/ ServerNext
               PROVE  IInv'
    OBVIOUS
  <1>0. /\ TypeOK /\ Locking /\ Output /\ Input
        /\ pc \in Places /\ lock \in Holders
        /\ rxbuffer \in Octets /\ pdoutdata \in Octets /\ txbuffer \in Octets
        /\ pdin_data \in Octets /\ pdin \in Octets /\ block \in Octets
        /\ sample \in Int /\ requests \in Int /\ cmd \in Commands
        /\ cmd.dataOut \in Octets /\ cmd.dataIn \in Octets
    BY DEF IInv, TypeOK, Places, Holders, Commands
  <1>1. CASE ServerRequest
    <2>1. pc' \in Places /\ pc'["server"] \in {"copy", "sio"}
          /\ \A u \in Thread \ {"server"} : pc'[u] = pc[u]
      BY <1>1, <1>0, Moved DEF ServerRequest, Thread, Label
    <2>2. lock' \in Holders /\ lock["mtx_cmd"] = "free" /\ lock'["mtx_cmd"] = "server"
          /\ \A m \in Lock \ {"mtx_cmd"} : lock'[m] = lock[m]
      BY <1>1, <1>0, Taken DEF ServerRequest, Thread, Lock
    <2>3. UNCHANGED <<link, pde, port_status, app_state, rxbuffer, pdoutdata, txbuffer,
                    pdin_data, pdin, block, device, sample>>
      BY <1>1 DEF ServerRequest, dlVars, pdeVars, appVars, ioVars
    <2>4. \E l \in Lengths : 
             cmd' = [cmd EXCEPT !.lenOut = l[1], !.lenIn = l[2], !.dataOut = Data(0)]
      BY <1>1 DEF ServerRequest
    <2>5. Data(0) \in Octets /\ Data(0)[1] = 0 /\ Data(0)[2] = 0
      BY Pairs DEF Data
    <2>6. \A l \in Lengths : l[1] \in {0, 2} /\ l[2] \in {0, 2}
      BY ProcessDataAssumption
    <2>7. cmd' \in Commands /\ cmd'.dataOut = Data(0)
      BY <2>4, <2>5, <2>6, <1>0 DEF Commands
    <2>8. requests' = requests + 1
      BY <1>1 DEF ServerRequest
    <2>9. requests' \in Nat
      BY <2>8, <1>0 DEF TypeOK
    <2>10. pc["server"] = "idle"
      BY <1>1 DEF ServerRequest
    <2>11. cleared' \in BOOLEAN
      BY <1>1 DEF ServerRequest
    <2> QED
      BY <2>1, <2>2, <2>3, <2>4, <2>5, <2>6, <2>7, <2>8, <2>9, <2>10, <2>11, <1>0
      DEF IInv, TypeOK, Places, Holders, Commands, Locking, Output, OutputsNeverMix,
          Wanted, Input, InputBlocksAreWhole, Thread, Lock
  <1>2. CASE ServerCopy
    <2>1. pc' \in Places /\ pc'["server"] = "copy2"
          /\ \A u \in Thread \ {"server"} : pc'[u] = pc[u]
      BY <1>2, <1>0, Moved DEF ServerCopy, Thread, Label
    <2>2. lock' = lock
      BY <1>2 DEF ServerCopy
    <2>3. UNCHANGED <<link, pde, port_status, app_state, rxbuffer, pdoutdata, txbuffer,
                    pdin_data, pdin, block, device, sample, requests, cleared>>
      BY <1>2 DEF ServerCopy, dlVars, pdeVars, appVars, ioVars
    <2>4. cmd' = [cmd EXCEPT !.dataOut = [cmd.dataOut EXCEPT ![1] = Given(1)]]
      BY <1>2 DEF ServerCopy
    <2>5. Given(1) \in Int /\ (cmd.lenOut > 0 => Given(1) = requests)
          /\ (~(cmd.lenOut > 0) => Given(1) = cmd.dataOut[1])
      BY <1>0 DEF Given, Octets, Commands
    <2>6. [cmd.dataOut EXCEPT ![1] = Given(1)] \in Octets
      BY <2>5, <1>0 DEF Octets, Commands
    <2>7. cmd' \in Commands /\ cmd'.lenOut = cmd.lenOut
          /\ cmd'.dataOut = [cmd.dataOut EXCEPT ![1] = Given(1)]
      BY <2>4, <2>6, <1>0 DEF Commands
    <2>8. cmd'.dataOut[1] = Given(1) /\ cmd'.dataOut[2] = cmd.dataOut[2]
      BY <2>7, <1>0 DEF Octets, Commands
    <2>9. pc["server"] = "copy"
      BY <1>2 DEF ServerCopy
    <2> QED
      BY <2>1, <2>2, <2>3, <2>4, <2>5, <2>6, <2>7, <2>8, <2>9, <1>0
      DEF IInv, TypeOK, Places, Holders, Commands, Locking, Output, OutputsNeverMix,
          Wanted, Input, InputBlocksAreWhole, Thread, Lock
  <1>3. CASE ServerCopyRest
    <2>1. pc' \in Places /\ pc'["server"] = "idle"
          /\ \A u \in Thread \ {"server"} : pc'[u] = pc[u]
      BY <1>3, <1>0, Moved DEF ServerCopyRest, Thread, Label
    <2>2. lock' \in Holders /\ lock'["mtx_cmd"] = "free"
          /\ \A m \in Lock \ {"mtx_cmd"} : lock'[m] = lock[m]
      BY <1>3, <1>0, Returned DEF ServerCopyRest, Lock
    <2>3. UNCHANGED <<link, pde, port_status, app_state, rxbuffer, pdoutdata, txbuffer,
                    pdin_data, pdin, block, device, sample, requests, cleared>>
      BY <1>3 DEF ServerCopyRest, dlVars, pdeVars, appVars, ioVars
    <2>4. cmd' = [cmd EXCEPT !.dataOut = [cmd.dataOut EXCEPT ![2] = Given(2)]]
      BY <1>3 DEF ServerCopyRest
    <2>5. Given(2) \in Int /\ (cmd.lenOut > 0 => Given(2) = requests)
          /\ (~(cmd.lenOut > 0) => Given(2) = cmd.dataOut[2])
      BY <1>0 DEF Given, Octets, Commands
    <2>6. [cmd.dataOut EXCEPT ![2] = Given(2)] \in Octets
      BY <2>5, <1>0 DEF Octets, Commands
    <2>7. cmd' \in Commands /\ cmd'.lenOut = cmd.lenOut
          /\ cmd'.dataOut = [cmd.dataOut EXCEPT ![2] = Given(2)]
      BY <2>4, <2>6, <1>0 DEF Commands
    <2>8. cmd'.dataOut[2] = Given(2) /\ cmd'.dataOut[1] = cmd.dataOut[1]
      BY <2>7, <1>0 DEF Octets, Commands
    <2>9. pc["server"] = "copy2"
      BY <1>3 DEF ServerCopyRest
    <2> QED
      BY <2>1, <2>2, <2>3, <2>4, <2>5, <2>6, <2>7, <2>8, <2>9, <1>0
      DEF IInv, TypeOK, Places, Holders, Commands, Locking, Output, OutputsNeverMix,
          Wanted, Input, InputBlocksAreWhole, Thread, Lock
  <1>4. CASE ServerSioIn
    <2>1. pc' \in Places /\ pc'["server"] = "sio2"
          /\ \A u \in Thread \ {"server"} : pc'[u] = pc[u]
      BY <1>4, <1>0, Moved DEF ServerSioIn, Thread, Label
    <2>2. lock' = lock
      BY <1>4 DEF ServerSioIn
    <2>3. UNCHANGED <<link, pde, port_status, app_state, rxbuffer, pdoutdata, txbuffer,
                    pdin_data, block, device, cmd, sample, requests>>
      BY <1>4 DEF ServerSioIn, dlVars, pdeVars, appVars, ioVars
    <2>4. pdin' = pdin_data /\ cleared' \in BOOLEAN
      BY <1>4 DEF ServerSioIn
    <2>5. pc["server"] = "sio"
      BY <1>4 DEF ServerSioIn
    <2> QED
      BY <2>1, <2>2, <2>3, <2>4, <2>5, <1>0
      DEF IInv, TypeOK, Places, Holders, Commands, Locking, Output, OutputsNeverMix,
          Wanted, Input, InputBlocksAreWhole, Thread, Lock
  <1>6. CASE ServerSioInRest
    <2>1. pc' \in Places /\ pc'["server"] = "idle"
          /\ \A u \in Thread \ {"server"} : pc'[u] = pc[u]
      BY <1>6, <1>0, Moved DEF ServerSioInRest, Thread, Label
    <2>2. lock' \in Holders /\ lock'["mtx_cmd"] = "free"
          /\ \A m \in Lock \ {"mtx_cmd"} : lock'[m] = lock[m]
      BY <1>6, <1>0, Returned DEF ServerSioInRest, Lock
    <2>3. UNCHANGED <<link, pde, port_status, app_state, rxbuffer, pdoutdata, txbuffer,
                    pdin_data, pdin, block, device, sample, requests, cleared>>
      BY <1>6 DEF ServerSioInRest, dlVars, pdeVars, appVars, ioVars
    <2>4. cmd' = [cmd EXCEPT !.dataIn = pdin]
      BY <1>6 DEF ServerSioInRest
    <2>5. cmd' \in Commands /\ cmd'.lenOut = cmd.lenOut /\ cmd'.dataOut = cmd.dataOut
      BY <2>4, <1>0 DEF Commands
    <2>6. pc["server"] = "sio2"
      BY <1>6 DEF ServerSioInRest
    <2> QED
      BY <2>1, <2>2, <2>3, <2>4, <2>5, <2>6, <1>0
      DEF IInv, TypeOK, Places, Holders, Commands, Locking, Output, OutputsNeverMix,
          Wanted, Input, InputBlocksAreWhole, Thread, Lock
  <1>5. CASE ServerSioOut
    <2>1. pc' \in Places /\ pc'["server"] = "idle"
          /\ \A u \in Thread \ {"server"} : pc'[u] = pc[u]
      BY <1>5, <1>0, Moved DEF ServerSioOut, Thread, Label
    <2>2. lock' \in Holders /\ lock'["mtx_cmd"] = "free"
          /\ \A m \in Lock \ {"mtx_cmd"} : lock'[m] = lock[m]
      BY <1>5, <1>0, Returned DEF ServerSioOut, Lock
    <2>3. UNCHANGED <<link, pde, port_status, app_state, rxbuffer, txbuffer, pdin_data, pdin,
                    block, device, sample, requests, cleared>>
      BY <1>5 DEF ServerSioOut, dlVars, pdeVars, appVars, ioVars
    <2>4. pc["server"] = "sio"
      BY <1>5 DEF ServerSioOut
    <2>5. cmd' = [cmd EXCEPT !.dataOut = <<Given(1), Given(2)>>]
      BY <1>5 DEF ServerSioOut
    <2>6. Given(1) \in Int /\ Given(2) = Given(1)
      BY <2>4, <1>0 DEF Given, Octets, Commands, Output
    <2>7. cmd' \in Commands /\ cmd'.dataOut[2] = cmd'.dataOut[1]
      BY <2>5, <2>6, <1>0, Pairs DEF Commands
    <2>8. pdoutdata' = pdoutdata \/ pdoutdata' = <<requests, Garbage>>
      BY <1>5 DEF ServerSioOut
    <2>9. pdoutdata' \in Octets /\ (pdoutdata'[2] \in {pdoutdata'[1], Garbage}
          \/ pdoutdata' = pdoutdata)
      BY <2>8, <1>0, Pairs DEF Garbage
    <2>10. lock["mtx"] = "free" /\ pc["dl"] # "pd_req2" /\ pc'["dl"] # "pd_req2"
      BY <1>5, <2>1, <1>0 DEF ServerSioOut, Locking, Thread
    <2>11. pc["handler"] = "idle" /\ pc'["handler"] = "idle"
      BY <2>1, <2>4, <1>0 DEF Locking, Thread
    <2> QED
      BY <2>1, <2>2, <2>3, <2>4, <2>5, <2>6, <2>7, <2>8, <2>9, <2>10, <2>11, <1>0
      DEF IInv, TypeOK, Places, Holders, Commands, Locking, Output, OutputsNeverMix,
          Wanted, Input, InputBlocksAreWhole, Thread, Lock
  <1> QED
    BY <1>1, <1>2, <1>3, <1>4, <1>5, <1>6 DEF ServerNext

LEMMA Step == IInv /\ Loss /\ [Next]_vars => IInv'
  <1>1. IInv /\ UNCHANGED vars => IInv'
    BY DEF IInv, TypeOK, Locking, Output, OutputsNeverMix, Input, InputBlocksAreWhole, Wanted,
           vars, dlVars, pdeVars, appVars, ioVars
  <1> QED
    BY <1>1, DlStep, MainStep, HandlerStep, ServerStep DEF Next

LEMMA LossStart == Init => Loss
  BY DEF Init, Loss, Thread

LEMMA LossStep == TypeOK /\ Loss /\ [Next]_vars => Loss'
  <1> SUFFICES ASSUME TypeOK, Loss, [Next]_vars
               PROVE  Loss'
    OBVIOUS
  <1> DEFINE Kind == {"PD_EVENT", "COMLOST", "OPERATE"}
  <1>0. pc \in Places /\ mbox \in Seq(Kind)
    BY DEF TypeOK, Places, Loss
  <1>1. CASE UNCHANGED <<mbox, link, app_event, todo>> /\ (pc'["dl"] = pc["dl"] \/ link = "up")
    BY <1>1 DEF Loss
  <1>2. ASSUME NEW k \in {"PD_EVENT", "OPERATE"}, mbox' = Append(mbox, k), link # "lost",
               link' \in {link, "up"}, UNCHANGED <<app_event, todo>>,
               link' = "up" \/ pc'["dl"] = "idle"
        PROVE  Loss'
    <2>1. \A i \in 1..Len(mbox) : mbox[i] # "COMLOST"
      BY <1>2 DEF Loss
    <2>2. /\ mbox' \in Seq(Kind) /\ Len(mbox') = Len(mbox) + 1
          /\ \A i \in 1..Len(mbox') : mbox'[i] = IF i = Len(mbox) + 1 THEN k ELSE mbox[i]
      BY <1>0, <1>2
    <2> QED
      BY <1>2, <2>1, <2>2 DEF Loss
  <1>3. CASE Lose
    <2>1. /\ mbox' = Append(mbox, "COMLOST") /\ link = "up" /\ link' = "lost"
          /\ pc["dl"] = "idle" /\ UNCHANGED <<pc, app_event, todo>>
      BY <1>3 DEF Lose, PostJob, appVars
    <2>2. /\ \A i \in 1..Len(mbox) : mbox[i] # "COMLOST"
          /\ "COMLOST" \notin app_event /\ "COMLOST" \notin todo
      BY <2>1 DEF Loss
    <2>3. /\ mbox' \in Seq(Kind) /\ Len(mbox') = Len(mbox) + 1
          /\ \A i \in 1..Len(mbox') : mbox'[i] = IF i = Len(mbox) + 1 THEN "COMLOST" ELSE mbox[i]
      BY <1>0, <2>1
    <2> QED
      BY <2>1, <2>2, <2>3 DEF Loss
  <1>4. ASSUME mbox # <<>>, mbox' = Tail(mbox), UNCHANGED <<link, todo>>, pc'["dl"] = pc["dl"],
               NEW e, app_event' = app_event \cup {e},
               e = "COMLOST" <=> Head(mbox) = "COMLOST"
        PROVE  Loss'
    <2>1. /\ mbox' \in Seq(Kind) /\ Len(mbox') = Len(mbox) - 1 /\ Len(mbox) \in Nat
          /\ \A i \in 1..Len(mbox') : mbox'[i] = mbox[i + 1] /\ i + 1 \in 1..Len(mbox)
          /\ 1 \in 1..Len(mbox) /\ Head(mbox) = mbox[1]
      BY <1>0, <1>4
    <2>2. CASE Head(mbox) = "COMLOST"
      <3>1. /\ link = "lost" /\ "COMLOST" \notin todo
            /\ \A j \in 1..Len(mbox) : mbox[j] = "COMLOST" => j = 1
        BY <2>1, <2>2 DEF Loss
      <3>2. \A i \in 1..Len(mbox') : mbox'[i] # "COMLOST"
        BY <2>1, <3>1
      <3> QED
        BY <1>4, <2>1, <3>1, <3>2 DEF Loss
    <2>3. CASE Head(mbox) # "COMLOST"
      <3>1. "COMLOST" \in app_event' <=> "COMLOST" \in app_event
        BY <1>4, <2>3
      <3>2. ASSUME NEW i \in 1..Len(mbox'), mbox'[i] = "COMLOST"
            PROVE  /\ link = "lost" /\ "COMLOST" \notin app_event /\ "COMLOST" \notin todo
                   /\ \A j \in 1..Len(mbox') : mbox'[j] = "COMLOST" => j = i
        <4>1. i + 1 \in 1..Len(mbox) /\ mbox[i + 1] = "COMLOST"
          BY <2>1, <3>2
        <4>2. \A j \in 1..Len(mbox) : mbox[j] = "COMLOST" => j = i + 1
          BY <4>1 DEF Loss
        <4>3. link = "lost" /\ "COMLOST" \notin app_event /\ "COMLOST" \notin todo
          BY <4>1 DEF Loss
        <4>4. ASSUME NEW j \in 1..Len(mbox'), mbox'[j] = "COMLOST"
              PROVE  j = i
          <5>1. j + 1 = i + 1
            BY <2>1, <4>2, <4>4
          <5> QED
            BY <5>1
        <4> QED
          BY <4>3, <4>4
      <3> QED
        BY <1>4, <2>1, <3>1, <3>2 DEF Loss
    <2> QED
      BY <2>2, <2>3
  <1>5. CASE Receive \/ DlNext \/ Operate
    <2>1. CASE Receive \/ ReceiveRest \/ InputTransport \/ PD_req \/ PD_reqRest
      <3>1. UNCHANGED <<mbox, link, app_event, todo>> /\ link = "up"
        BY <2>1 DEF Receive, ReceiveRest, InputTransport, PD_req, PD_reqRest, Loss, dlVars, appVars
      <3> QED
        BY <1>1, <3>1
    <2>2. CASE InputTransportRest
      <3>1. /\ mbox' = Append(mbox, "PD_EVENT") /\ link = "up"
            /\ UNCHANGED <<link, app_event, todo>>
        BY <2>2 DEF InputTransportRest, PostJob, Loss, dlVars, appVars
      <3> QED
        BY <1>2, <3>1
    <2>3. CASE Operate
      <3>1. /\ mbox' = Append(mbox, "OPERATE") /\ link = "configured" /\ link' = "up"
            /\ UNCHANGED <<app_event, todo>>
        BY <2>3 DEF Operate, PostJob, appVars
      <3> QED
        BY <1>2, <3>1
    <2> QED
      BY <1>5, <2>1, <2>2, <2>3 DEF DlNext
  <1>6. CASE MainNext
    <2>1. CASE MainPdEvent
      <3>1. /\ mbox # <<>> /\ mbox' = Tail(mbox) /\ Head(mbox) = "PD_EVENT"
            /\ app_event' = app_event \cup {"PD"} /\ UNCHANGED <<link, todo>>
            /\ pc'["dl"] = pc["dl"]
        BY <2>1, <1>0 DEF MainPdEvent, dlVars, Goto, Places, Thread
      <3> QED
        BY <1>4, <3>1
    <2>2. CASE MainPdEventRest
      <3>1. UNCHANGED <<mbox, link, app_event, todo>> /\ pc'["dl"] = pc["dl"]
        BY <2>2, <1>0 DEF MainPdEventRest, dlVars, appVars, Goto, Places, Thread
      <3> QED
        BY <1>1, <3>1
    <2>3. CASE MainOperate
      <3>1. /\ mbox # <<>> /\ mbox' = Tail(mbox) /\ Head(mbox) = "OPERATE"
            /\ app_event' = app_event \cup {"PORTE"} /\ UNCHANGED <<link, todo, pc>>
        BY <2>3 DEF MainOperate, PortEvent, dlVars
      <3> QED
        BY <1>4, <3>1
    <2>4. CASE MainComlost
      <3>1. /\ mbox # <<>> /\ mbox' = Tail(mbox) /\ Head(mbox) = "COMLOST"
            /\ app_event' = app_event \cup {"COMLOST"} /\ UNCHANGED <<link, todo, pc>>
        BY <2>4 DEF MainComlost, PortEvent, dlVars
      <3> QED
        BY <1>4, <3>1
    <2> QED
      BY <1>6, <2>1, <2>2, <2>3, <2>4 DEF MainNext
  <1>7. CASE HandlerNext
    <2>1. CASE HandlerWait
      <3>1. /\ todo = {} /\ todo' = app_event /\ app_event' = {} /\ UNCHANGED <<mbox, link, pc>>
        BY <2>1 DEF HandlerWait, dlVars
      <3> QED
        BY <3>1 DEF Loss
    <2>2. CASE HandlePd \/ HandlePortEvent
      <3>1. todo' \subseteq todo /\ UNCHANGED <<mbox, link, app_event>> /\ pc'["dl"] = pc["dl"]
        BY <2>2, <1>0 DEF HandlePd, HandlePortEvent, Finish, dlVars, Goto, Places, Thread
      <3> QED
        BY <3>1 DEF Loss
    <2>3. CASE HandleComlost
      <3>1. /\ todo = {"COMLOST"} /\ todo' = {} /\ link' = "configured"
            /\ UNCHANGED <<mbox, pc, app_event>>
        BY <2>3 DEF HandleComlost, Finish
      <3>2. /\ pc["dl"] = "idle" /\ "COMLOST" \notin app_event
            /\ \A i \in 1..Len(mbox) : mbox[i] # "COMLOST"
        BY <3>1 DEF Loss
      <3> QED
        BY <3>1, <3>2 DEF Loss
    <2>4. CASE \/ RunPdOut \/ RunPdOutRest \/ RunPdIn \/ RunPdInRest
               \/ Confirm("cnf", 1, "cnf2") \/ Confirm("cnf2", 2, "take")
               \/ RunTake("take", 1, "take2") \/ RunTake("take2", 2, "pdinout")
               \/ RunPdInOut \/ RunPdOutputGet \/ RunDone
      <3>1. /\ UNCHANGED <<mbox, link, app_event, todo>>
            /\ \E l : pc' = [pc EXCEPT !["handler"] = l]
        BY <2>4 DEF RunPdOut, RunPdOutRest, RunPdIn, RunPdInRest, Confirm, RunTake, RunPdInOut,
                    RunPdOutputGet, RunDone, Goto, dlVars, appVars
      <3> QED
        BY <1>0, <1>1, <3>1 DEF Places
    <2> QED
      BY <1>7, <2>1, <2>2, <2>3, <2>4 DEF HandlerNext
  <1>8. CASE ServerRequest \/ ServerNext
    <2>1. /\ UNCHANGED <<mbox, link, app_event, todo>>
          /\ \E l : pc' = [pc EXCEPT !["server"] = l]
      BY <1>8 DEF ServerNext, ServerRequest, ServerCopy, ServerCopyRest, ServerSioIn,
                  ServerSioInRest, ServerSioOut, Goto, dlVars, appVars
    <2> QED
      BY <1>0, <1>1, <2>1 DEF Places
  <1>9. CASE UNCHANGED vars
    BY <1>1, <1>9 DEF vars, dlVars, appVars
  <1> QED
    BY <1>3, <1>5, <1>6, <1>7, <1>8, <1>9 DEF Next

LEMMA Inductive == Spec => [](IInv /\ Loss)
  <1>1. Init => IInv /\ Loss
    BY Start, LossStart DEF IInv
  <1>2. (IInv /\ Loss) /\ [Next]_vars => (IInv /\ Loss)'
    BY Step, LossStep DEF IInv
  <1> QED
    BY <1>1, <1>2, PTL DEF Spec

\* No message to the device mixes the outputs of two requests: mtx_cmd and mtx
\* cover the whole way from the client to the message (iolink_port.cc, iolink_dl.c).
THEOREM OutputsAreWhole == Spec => []OutputsNeverMix
  <1>1. IInv => OutputsNeverMix
    BY DEF IInv, Output
  <1> QED
    BY Inductive, <1>1, PTL

\* AL_GetInput_req returns the input of one reply (iolink_al.c): mtx_pdin covers
\* the copy into the application layer and the one out of it.
THEOREM InputsAreWhole == Spec => []InputBlocksAreWhole
  <1>1. IInv => InputBlocksAreWhole
    BY DEF IInv, Input
  <1> QED
    BY Inductive, <1>1, PTL
=============================================================================
