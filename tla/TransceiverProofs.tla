-------------------------- MODULE TransceiverProofs --------------------------
(***************************************************************************)
(* Theorems about the transceiver, for any number of channels.             *)
(*                                                                         *)
(* The argument goes in stages, each resting on the ones before: types; a  *)
(* thread inside the driver holds its mutex, so at most one reading of the *)
(* interrupts is not dispatched yet, and what was read of the register     *)
(* that enables them is still what is there; from that the replies; and,   *)
(* for the wake-ups, one invariant of a channel (WakeUp) that ties the     *)
(* driver, the mode handler and the main thread together.                  *)
(***************************************************************************)
EXTENDS Transceiver, TLAPS

LEMMA Bits ==
    ASSUME NEW c \in Channels, NEW d \in Channels
    PROVE  /\ RxDataRdy(c) = RxDataRdy(d) <=> c = d
           /\ RxErr(c) = RxErr(d) <=> c = d
           /\ RxDataRdy(c) # RxErr(d) /\ RxDataRdy(c) # WURQ /\ RxErr(c) # WURQ
  BY DEF RxDataRdy, RxErr, WURQ

LEMMA BitTypes ==
    ASSUME NEW c \in Channels
    PROVE  RxDataRdy(c) \in Interrupts /\ RxErr(c) \in Interrupts /\ WURQ \in Interrupts
  <1>1. RxDataRdy(c) \in Enables(c) /\ RxErr(c) \in Enables(c)
    BY DEF Enables
  <1>2. ASSUME NEW b \in Enables(c)
        PROVE  b \in Interrupts
    BY DEF Interrupts
  <1>3. WURQ \in Interrupts
    BY DEF Interrupts
  <1> QED
    BY <1>1, <1>2, <1>3

LEMMA TypeStart == Init => TypeOK
  BY DEF Init, TypeOK, Thread

LEMMA TypeStep == TypeOK /\ [Next]_vars => TypeOK'
  <1> SUFFICES ASSUME TypeOK, [Next]_vars
               PROVE  TypeOK'
    OBVIOUS
  <1> USE DEF TypeOK, Thread, At, Goto, os_event_set, Spend, Lock, Unlock,
              Takes, TakesMode
  <1>1. ASSUME NEW ch \in Channels, DlThread(ch)
        PROVE  TypeOK'
    <2> dropped' = dropped
      BY <1>1 DEF DlThread
    <2>1. CASE DlWait(ch)
      BY <2>1 DEF DlWait, chipVars, drvVars, mainVars
    <2>2. CASE ReadInterrupt(ch)
      BY <2>2 DEF ReadInterrupt, drvVars, mainVars
    <2>3. CASE LeaveInterrupt(ch)
      BY <2>3 DEF LeaveInterrupt, chipVars, drvVars, mainVars
    <2>4. CASE Dispatch(ch)
      <3>1. \A c \in Channels : Announced(reg[ch], c) \subseteq {"RXERR", "RXRDY", "WURQ"}
        BY DEF Announced
      <3>2. \A c \in Channels :
               /\ (data_ready[c] \/ "RXRDY" \in Announced(reg[ch], c)) \in BOOLEAN
               /\ (wurq_request[c] /\ "WURQ" \notin Announced(reg[ch], c)) \in BOOLEAN
        OBVIOUS
      <3>3. events' \in [Channels -> SUBSET {"PL", "RXRDY", "RXERR", "WURQ", "MDH"}]
        BY <2>4, <3>1 DEF Dispatch
      <3>4. data_ready' \in [Channels -> BOOLEAN]
        BY <2>4, <3>2 DEF Dispatch
      <3>5. wurq_request' \in [Channels -> BOOLEAN]
        BY <2>4, <3>2 DEF Dispatch
      <3> QED
        BY <2>4, <3>3, <3>4, <3>5, <3>2 DEF Dispatch, chipVars, mainVars
    <2>5. CASE ReadLength(ch)
      BY <2>5, BitTypes DEF ReadLength, chipVars, drvVars, mainVars
    <2>6. CASE ReadLevel(ch)
      <3>1. CASE Agrees(ch) /\ fifo[ch] = "one"
        BY <2>6, <3>1 DEF ReadLevel, dlVars, mainVars
      <3>2. CASE ~(Agrees(ch) /\ fifo[ch] = "one")
        <4>1. data_ready' = [data_ready EXCEPT ![ch] = FALSE]
          BY <2>6, <3>2 DEF ReadLevel
        <4>2. data_ready' \in [Channels -> BOOLEAN]
          BY <4>1
        <4> QED
          BY <2>6, <3>2, <4>2 DEF ReadLevel, dlVars, mainVars
      <3> QED
        BY <3>1, <3>2
    <2>7. CASE ReadBurst(ch)
      BY <2>7 DEF ReadBurst, mainVars
    <2>8. CASE HandleError(ch)
      BY <2>8 DEF HandleError, chipVars, drvVars, mainVars
    <2>9. CASE WurqRecv(ch)
      BY <2>9 DEF WurqRecv, chipVars, drvVars
    <2>10. CASE InitSdci(ch)
      <3>1. CASE wurq_request[ch]
        BY <2>10, <3>1 DEF InitSdci, drvVars, mainVars
      <3>2. CASE ~wurq_request[ch]
        <4>1. estcom' = [estcom EXCEPT ![ch] = FALSE]
          BY <2>10, <3>2 DEF InitSdci
        <4>2. estcom' \in [Channels -> BOOLEAN]
          BY <4>1
        <4> QED
          BY <2>10, <3>2, <4>2 DEF InitSdci, drvVars, mainVars
      <3> QED
        BY <3>1, <3>2
    <2>11. CASE OtherMode(ch)
      BY <2>11 DEF OtherMode, chipVars, drvVars, mainVars
    <2>12. CASE EstCom(ch)
      BY <2>12, BitTypes DEF EstCom, mainVars
    <2>13. CASE ComLost(ch)
      BY <2>13 DEF ComLost, chipVars, drvVars
    <2> QED
      BY <1>1, <2>1, <2>2, <2>3, <2>4, <2>5, <2>6, <2>7, <2>8, <2>9, <2>10, <2>11, <2>12,
         <2>13 DEF DlThread
  <1>2. ASSUME NEW ch \in Channels, dropped' = dropped,
               PortIsLost(ch) \/ SetMode(ch) \/ SetModeRest(ch) \/ DL_SetMode_req(ch)
        PROVE  TypeOK'
    <2> dropped' = dropped
      BY <1>2
    <2>1. CASE PortIsLost(ch)
      BY <2>1 DEF PortIsLost, chipVars, drvVars
    <2>2. CASE SetMode(ch)
      BY <2>2 DEF SetMode, dlVars
    <2>3. CASE SetModeRest(ch)
      BY <2>3, BitTypes DEF SetModeRest, dlVars, mainVars, Enables
    <2>4. CASE DL_SetMode_req(ch)
      BY <2>4 DEF DL_SetMode_req, chipVars, drvVars
    <2> QED
      BY <1>2, <2>1, <2>2, <2>3, <2>4
  <1>3. CASE IrqThread
    BY <1>3 DEF IrqThread, chipVars, drvVars, mainVars
  <1>4. CASE ServerCalls \/ ServerReturns
    BY <1>4 DEF ServerCalls, ServerReturns, chipVars, drvVars, dlVars, mainVars
  <1>5. ASSUME NEW ch \in Channels, WakeUpEnds(ch) \/ Reply(ch) \/ ReceiveError(ch)
        PROVE  TypeOK'
    <2>1. CASE WakeUpEnds(ch)
      BY <2>1, BitTypes DEF WakeUpEnds, drvVars, dlVars, mainVars
    <2>2. CASE Reply(ch)
      BY <2>2, BitTypes DEF Reply, drvVars, dlVars, mainVars
    <2>3. CASE ReceiveError(ch)
      BY <2>3, BitTypes DEF ReceiveError, drvVars, dlVars, mainVars
    <2> QED
      BY <1>5, <2>1, <2>2, <2>3
  <1>6. CASE UNCHANGED vars
    BY <1>6 DEF vars, chipVars, drvVars, dlVars, mainVars
  <1>7. ASSUME NEW ch \in Channels, ResetHandlers(ch) \/ ResetEvents(ch)
        PROVE  TypeOK'
    BY <1>7 DEF ResetHandlers, ResetEvents, chipVars, drvVars
  <1> QED
    BY <1>1, <1>2, <1>3, <1>4, <1>5, <1>6, <1>7 DEF Next, MainThread, Chip, iolink_dl_reset

THEOREM TypeCorrect == Spec => []TypeOK
  BY TypeStart, TypeStep, PTL DEF Spec
-----------------------------------------------------------------------------
(* Whoever is inside a call of the driver holds the mutex. *)

Mutex ==
    /\ \A ch \in Channels : /\ pc[ch] \in {"serve", "dispatch", "level", "burst", "est_com"}
                            /\ pc[ch] # "serve" <=> exclusive = ch
    /\ pc["main"] \in {"serve", "enable", "start"}
    /\ pc["main"] = "enable" <=> exclusive = "main"

LEMMA MutexStart == Init => Mutex
  BY TransceiverAssumption DEF Init, Mutex, Thread

LEMMA MutexStep == TypeOK /\ Mutex /\ [Next]_vars => Mutex'
  <1> SUFFICES ASSUME TypeOK, Mutex, [Next]_vars
               PROVE  Mutex'
    OBVIOUS
  <1>0. pc \in [Thread -> {"serve", "dispatch", "level", "burst", "est_com", "enable", "start"}]
    BY DEF TypeOK
  <1> USE <1>0, TransceiverAssumption DEF Mutex, Thread, Goto, Lock, Unlock
  <1>1. CASE UNCHANGED <<exclusive, pc>>
    BY <1>1
  <1>2. ASSUME NEW ch \in Channels, DlThread(ch)
        PROVE  Mutex'
    <2>1. CASE ReadInterrupt(ch)
      BY <2>1 DEF ReadInterrupt, Takes
    <2>2. CASE Dispatch(ch)
      BY <2>2 DEF Dispatch
    <2>3. CASE ReadLength(ch)
      BY <2>3 DEF ReadLength, Takes
    <2>4. CASE ReadLevel(ch)
      <3>1. CASE Agrees(ch) /\ fifo[ch] = "one"
        BY <2>4, <3>1 DEF ReadLevel
      <3>2. CASE ~(Agrees(ch) /\ fifo[ch] = "one")
        <4>1. /\ pc[ch] = "level"
              /\ pc' = [pc EXCEPT ![ch] = "serve"]
              /\ exclusive' = "free"
          BY <2>4, <3>2 DEF ReadLevel
        <4> QED
          BY <4>1
      <3> QED
        BY <3>1, <3>2
    <2>5. CASE ReadBurst(ch)
      BY <2>5 DEF ReadBurst
    <2>6. CASE InitSdci(ch)
      <3>1. \/ UNCHANGED <<exclusive, pc>>
            \/ /\ exclusive = "free" /\ exclusive' = ch
               /\ pc' = [pc EXCEPT ![ch] = "est_com"]
        BY <2>6 DEF InitSdci
      <3> QED
        BY <1>1, <3>1
    <2>7. CASE EstCom(ch)
      BY <2>7 DEF EstCom
    <2>8. CASE DlWait(ch) \/ LeaveInterrupt(ch) \/ HandleError(ch) \/ WurqRecv(ch) \/ ComLost(ch)
               \/ OtherMode(ch)
      BY <1>1, <2>8 DEF DlWait, LeaveInterrupt, HandleError, WurqRecv, ComLost, OtherMode
    <2> QED
      BY <1>2, <2>1, <2>2, <2>3, <2>4, <2>5, <2>6, <2>7, <2>8 DEF DlThread
  <1>3. ASSUME NEW ch \in Channels,
               PortIsLost(ch) \/ SetMode(ch) \/ SetModeRest(ch) \/ DL_SetMode_req(ch)
        PROVE  Mutex'
    <2>1. CASE PortIsLost(ch)
      BY <1>1, <2>1 DEF PortIsLost
    <2>2. CASE SetMode(ch)
      BY <2>2 DEF SetMode
    <2>3. CASE SetModeRest(ch)
      BY <2>3 DEF SetModeRest
    <2>4. CASE DL_SetMode_req(ch)
      BY <2>4 DEF DL_SetMode_req
    <2> QED
      BY <1>3, <2>1, <2>2, <2>3, <2>4
  <1>4. CASE ServerCalls \/ ServerReturns
    BY <1>4 DEF ServerCalls, ServerReturns
  <1>5. CASE iolink_dl_reset \/ IrqThread \/ Chip \/ UNCHANGED vars
    BY <1>1, <1>5 DEF iolink_dl_reset, ResetHandlers, ResetEvents, IrqThread, Chip, WakeUpEnds,
                      Reply, ReceiveError, vars
  <1> QED
    BY <1>2, <1>3, <1>4, <1>5 DEF Next, MainThread

\* No two threads are inside the driver at a time.
LEMMA MutexHolds == Spec => [](TypeOK /\ Mutex)
  <1>1. Init => TypeOK /\ Mutex
    BY TypeStart, MutexStart
  <1>2. (TypeOK /\ Mutex) /\ [Next]_vars => (TypeOK /\ Mutex)'
    BY TypeStep, MutexStep
  <1> QED
    BY <1>1, <1>2, PTL DEF Spec
-----------------------------------------------------------------------------
(* The register that enables interrupts, read and then written *)

Enabled ==
    /\ \A ch \in Channels :
          /\ pc[ch] = "est_com" => reg[ch] = enabled
          /\ enabled \cap Enables(ch) = IF is_iolink[ch] THEN Enables(ch) ELSE {}
          /\ wurq_request[ch] => WURQ \in enabled
    /\ pc["main"] = "enable" => reg["main"] = enabled

LEMMA EnabledStart == Init => Enabled
  BY TransceiverAssumption DEF Init, Enabled, Thread

LEMMA EnabledStep == TypeOK /\ Mutex /\ Enabled /\ [Next]_vars => Enabled'
  <1> SUFFICES ASSUME TypeOK, Mutex, Enabled, [Next]_vars
               PROVE  Enabled'
    OBVIOUS
  <1> USE TransceiverAssumption DEF TypeOK, Mutex, Enabled, Thread, Goto, Lock, Unlock, At
  <1>1. CASE UNCHANGED <<enabled, is_iolink, wurq_request, pc, reg>>
    BY <1>1
  <1>2. ASSUME NEW ch \in Channels, DlThread(ch)
        PROVE  Enabled'
    <2>1. CASE ReadInterrupt(ch)
      BY <2>1 DEF ReadInterrupt, Takes, drvVars
    <2>2. CASE Dispatch(ch)
      BY <2>2 DEF Dispatch, chipVars
    <2>3. CASE ReadLength(ch)
      BY <2>3 DEF ReadLength, Takes, chipVars, drvVars
    <2>4. CASE ReadLevel(ch)
      BY <2>4 DEF ReadLevel
    <2>5. CASE ReadBurst(ch)
      BY <2>5 DEF ReadBurst
    <2>6. CASE InitSdci(ch)
      BY <2>6 DEF InitSdci, TakesMode, Takes, drvVars
    <2>7. CASE EstCom(ch)
      <3>1. /\ enabled' = enabled \cup {WURQ}
            /\ UNCHANGED is_iolink
            /\ exclusive = ch
            /\ \A c \in Channels : WURQ \notin Enables(c)
        BY <2>7, Bits DEF EstCom, Enables
      <3>2. \A c \in Channels : enabled' \cap Enables(c) = enabled \cap Enables(c)
        BY <3>1
      <3>3. \A c \in Channels : pc'[c] # "est_com"
        BY <2>7, <3>1 DEF EstCom
      <3>4. pc'["main"] # "enable"
        BY <2>7, <3>1 DEF EstCom
      <3> QED
        BY <2>7, <3>1, <3>2, <3>3, <3>4 DEF EstCom
    <2>8. CASE DlWait(ch) \/ LeaveInterrupt(ch) \/ HandleError(ch) \/ WurqRecv(ch) \/ ComLost(ch)
               \/ OtherMode(ch)
      BY <1>1, <2>8 DEF DlWait, LeaveInterrupt, HandleError, WurqRecv, ComLost, OtherMode, chipVars, drvVars
    <2> QED
      BY <1>2, <2>1, <2>2, <2>3, <2>4, <2>5, <2>6, <2>7, <2>8 DEF DlThread
  <1>3. ASSUME NEW ch \in Channels,
               PortIsLost(ch) \/ SetMode(ch) \/ SetModeRest(ch) \/ DL_SetMode_req(ch)
        PROVE  Enabled'
    <2>1. CASE PortIsLost(ch)
      BY <1>1, <2>1 DEF PortIsLost, chipVars, drvVars
    <2>2. CASE SetMode(ch)
      BY <2>2 DEF SetMode
    <2>3. CASE SetModeRest(ch)
      <3>1. /\ enabled' = IF mode_ch[ch] = "SDCI" THEN enabled \cup Enables(ch)
                                                  ELSE enabled \ Enables(ch)
            /\ is_iolink' = [is_iolink EXCEPT ![ch] = mode_ch[ch] = "SDCI"]
            /\ UNCHANGED wurq_request
            /\ exclusive = "main"
        BY <2>3 DEF SetModeRest
      <3>2. ASSUME NEW c \in Channels
            PROVE  /\ WURQ \notin Enables(c)
                   /\ c # ch => Enables(c) \cap Enables(ch) = {}
        BY Bits DEF Enables
      <3>3. \A c \in Channels : /\ pc'[c] # "est_com"
                                /\ wurq_request'[c] => WURQ \in enabled'
        BY <2>3, <3>1, <3>2 DEF SetModeRest
      <3>4. pc'["main"] # "enable"
        BY <2>3 DEF SetModeRest
      <3>5. ASSUME NEW c \in Channels
            PROVE  enabled' \cap Enables(c) = IF is_iolink'[c] THEN Enables(c) ELSE {}
        <4>1. CASE c = ch /\ mode_ch[ch] = "SDCI"
          <5>1. is_iolink'[c] /\ enabled' = enabled \cup Enables(c)
            BY <3>1, <4>1
          <5> QED
            BY <5>1
        <4>2. CASE c = ch /\ mode_ch[ch] # "SDCI"
          <5>1. (mode_ch[ch] = "SDCI") = FALSE
            BY <4>2
          <5>2. is_iolink' = [is_iolink EXCEPT ![ch] = FALSE]
            BY <3>1, <5>1
          <5>3. enabled' = enabled \ Enables(c)
            BY <3>1, <4>2
          <5> QED
            BY <4>2, <5>2, <5>3
        <4>3. CASE c # ch
          <5>1. enabled' \cap Enables(c) = enabled \cap Enables(c) /\ is_iolink'[c] = is_iolink[c]
            BY <3>1, <3>2, <4>3
          <5> QED
            BY <5>1
        <4> QED
          BY <4>1, <4>2, <4>3
      <3> QED
        BY <3>3, <3>4, <3>5
    <2>4. CASE DL_SetMode_req(ch)
      BY <2>4 DEF DL_SetMode_req, chipVars, drvVars
    <2> QED
      BY <1>3, <2>1, <2>2, <2>3, <2>4
  <1>4. CASE iolink_dl_reset \/ ServerCalls \/ ServerReturns \/ IrqThread \/ Chip \/ UNCHANGED vars
    BY <1>1, <1>4 DEF iolink_dl_reset, ResetHandlers, ResetEvents, ServerCalls, ServerReturns,
                      IrqThread, Chip, WakeUpEnds, Reply, ReceiveError, vars, chipVars, drvVars
  <1> QED
    BY <1>2, <1>3, <1>4 DEF Next, MainThread

\* Whatever the channels and the main thread write to the register they share
\* (iolink_max14819_pl.c), the interrupts of a channel are enabled exactly in
\* SDCI, and that of the wake-up while one is under way.
THEOREM EnablesHold == Spec => []EnablesMatchMode
  <1>1. Enabled => EnablesMatchMode
    BY DEF Enabled, EnablesMatchMode
  <1> QED
    BY MutexHolds, EnabledStart, EnabledStep, <1>1, PTL DEF Spec
-----------------------------------------------------------------------------
(* Replies: the FIFO of the chip, its interrupt, and data_ready *)

\* A reply that came after the level of the FIFO was read has its own interrupt.
Noticed ==
    /\ WholeReplyIsNoticed
    /\ \A ch \in Channels :
          pc[ch] = "burst" /\ fifo[ch] = "mixed" => RxDataRdy(ch) \in interrupt

LEMMA NoticedStart == Init => Noticed
  BY DEF Init, Noticed, WholeReplyIsNoticed, Thread

LEMMA NoticedStep == TypeOK /\ Mutex /\ Noticed /\ [Next]_vars => Noticed'
  <1> SUFFICES ASSUME TypeOK, Mutex, Noticed, [Next]_vars
               PROVE  Noticed'
    OBVIOUS
  <1> USE TransceiverAssumption
      DEF TypeOK, Mutex, Noticed, WholeReplyIsNoticed, Held, Thread, Goto, Lock, Unlock, At
  <1>1. CASE UNCHANGED <<fifo, interrupt, data_ready, pc, reg>>
    BY <1>1
  <1>2. ASSUME NEW ch \in Channels, DlThread(ch)
        PROVE  Noticed'
    <2>1. CASE ReadInterrupt(ch)
      <3>1. /\ pc' = [pc EXCEPT ![ch] = "dispatch"] /\ reg' = [reg EXCEPT ![ch] = interrupt]
            /\ pc[ch] = "serve" /\ exclusive = "free" /\ UNCHANGED <<fifo, data_ready>>
        BY <2>1 DEF ReadInterrupt, Takes, drvVars
      <3>2. \A c \in Channels : pc[c] = "serve"
        BY <3>1
      <3> QED
        BY <3>1, <3>2
    <2>2. CASE Dispatch(ch)
      <3>1. /\ pc' = [pc EXCEPT ![ch] = "serve"] /\ reg' = [reg EXCEPT ![ch] = {}]
            /\ exclusive = ch /\ UNCHANGED <<fifo, interrupt>>
        BY <2>2 DEF Dispatch, chipVars
      <3>2. ASSUME NEW c \in Channels, data_ready[c] \/ RxDataRdy(c) \in reg[ch]
            PROVE  data_ready'[c]
        BY <2>2, <3>2 DEF Dispatch, Announced
      <3>3. \A t \in Channels : pc[t] = "dispatch" => t = ch
        BY <3>1
      <3> QED
        BY <3>1, <3>2, <3>3
    <2>3. CASE ReadLength(ch)
      BY <2>3 DEF ReadLength, Takes, chipVars, drvVars
    <2>4. CASE ReadLevel(ch)
      <3>1. CASE Agrees(ch) /\ fifo[ch] = "one"
        BY <2>4, <3>1 DEF ReadLevel
      <3>2. CASE ~(Agrees(ch) /\ fifo[ch] = "one")
        <4>1. /\ pc[ch] = "level" /\ UNCHANGED interrupt
              /\ pc' = [pc EXCEPT ![ch] = "serve"] /\ reg' = [reg EXCEPT ![ch] = {}]
              /\ fifo' = [fifo EXCEPT ![ch] = "empty"]
              /\ data_ready' = [data_ready EXCEPT ![ch] = FALSE]
          BY <2>4, <3>2 DEF ReadLevel
        <4> QED
          BY <4>1
      <3> QED
        BY <3>1, <3>2
    <2>5. CASE ReadBurst(ch)
      <3>1. /\ pc[ch] = "burst" /\ UNCHANGED interrupt
            /\ pc' = [pc EXCEPT ![ch] = "serve"] /\ reg' = [reg EXCEPT ![ch] = {}]
            /\ fifo' = [fifo EXCEPT ![ch] = IF fifo[ch] = "mixed" THEN "one" ELSE "empty"]
            /\ data_ready' = [data_ready EXCEPT ![ch] = FALSE]
        BY <2>5 DEF ReadBurst
      <3> QED
        BY <3>1
    <2>6. CASE InitSdci(ch)
      <3>1. CASE wurq_request[ch]
        BY <1>1, <2>6, <3>1 DEF InitSdci, drvVars
      <3>2. CASE ~wurq_request[ch]
        <4>1. /\ pc[ch] = "serve" /\ UNCHANGED <<interrupt, data_ready>>
              /\ pc' = [pc EXCEPT ![ch] = "est_com"] /\ reg' = [reg EXCEPT ![ch] = enabled]
              /\ fifo' = [fifo EXCEPT ![ch] = "empty"]
          BY <2>6, <3>2 DEF InitSdci, drvVars, TakesMode, Takes
        <4> QED
          BY <4>1
      <3> QED
        BY <3>1, <3>2
    <2>7. CASE EstCom(ch)
      BY <2>7 DEF EstCom
    <2>8. CASE DlWait(ch) \/ LeaveInterrupt(ch) \/ HandleError(ch) \/ WurqRecv(ch) \/ ComLost(ch)
               \/ OtherMode(ch)
      BY <1>1, <2>8 DEF DlWait, LeaveInterrupt, HandleError, WurqRecv, ComLost, OtherMode, chipVars, drvVars
    <2> QED
      BY <1>2, <2>1, <2>2, <2>3, <2>4, <2>5, <2>6, <2>7, <2>8 DEF DlThread
  <1>3. ASSUME NEW ch \in Channels,
               PortIsLost(ch) \/ SetMode(ch) \/ SetModeRest(ch) \/ DL_SetMode_req(ch)
        PROVE  Noticed'
    <2>1. CASE PortIsLost(ch)
      BY <1>1, <2>1 DEF PortIsLost, chipVars, drvVars
    <2>2. CASE SetMode(ch)
      <3>1. /\ UNCHANGED <<interrupt, data_ready>>
            /\ pc' = [pc EXCEPT !["main"] = "enable"] /\ reg' = [reg EXCEPT !["main"] = enabled]
            /\ fifo' = [fifo EXCEPT ![ch] = "empty"]
        BY <2>2 DEF SetMode
      <3> QED
        BY <3>1
    <2>3. CASE SetModeRest(ch)
      BY <2>3 DEF SetModeRest
    <2>4. CASE DL_SetMode_req(ch)
      BY <2>4 DEF DL_SetMode_req, chipVars, drvVars
    <2> QED
      BY <1>3, <2>1, <2>2, <2>3, <2>4
  <1>4. ASSUME NEW ch \in Channels, WakeUpEnds(ch) \/ Reply(ch) \/ ReceiveError(ch)
        PROVE  Noticed'
    BY <1>4 DEF WakeUpEnds, Reply, ReceiveError, drvVars
  <1>5. CASE iolink_dl_reset \/ ServerCalls \/ ServerReturns \/ IrqThread \/ UNCHANGED vars
    BY <1>1, <1>5 DEF iolink_dl_reset, ResetHandlers, ResetEvents, ServerCalls, ServerReturns,
                      IrqThread, vars, chipVars, drvVars
  <1> QED
    BY <1>2, <1>3, <1>4, <1>5 DEF Next, MainThread, Chip

\* A whole reply in the FIFO is never overlooked, though both channels clear the
\* register of interrupts by reading it (iolink_pl_handler).
THEOREM RepliesAreNoticed == Spec => []WholeReplyIsNoticed
  <1>1. Noticed => WholeReplyIsNoticed
    BY DEF Noticed
  <1> QED
    BY MutexHolds, NoticedStart, NoticedStep, <1>1, PTL DEF Spec

LEMMA DataReadyStart == Init => DataReadyIsDue
  BY DEF Init, DataReadyIsDue

LEMMA DataReadyStep == TypeOK /\ DataReadyIsDue /\ [Next]_vars => DataReadyIsDue'
  <1> SUFFICES ASSUME TypeOK, DataReadyIsDue, [Next]_vars
               PROVE  DataReadyIsDue'
    OBVIOUS
  <1> USE TransceiverAssumption
      DEF TypeOK, DataReadyIsDue, Thread, Goto, Unlock, At, os_event_set
  <1>1. CASE UNCHANGED <<data_ready, events, triggered, dropped, pc>>
    BY <1>1
  <1>2. ASSUME NEW ch \in Channels, DlThread(ch)
        PROVE  DataReadyIsDue'
    <2> dropped' = dropped
      BY <1>2 DEF DlThread
    <2>1. CASE DlWait(ch)
      BY <2>1 DEF DlWait, drvVars
    <2>2. CASE ReadInterrupt(ch) \/ LeaveInterrupt(ch) \/ HandleError(ch) \/ WurqRecv(ch)
               \/ InitSdci(ch) \/ ComLost(ch) \/ OtherMode(ch)
      <3>1. PICK flag \in {"PL", "RXERR", "WURQ", "MDH"} :
                 triggered' = [triggered EXCEPT ![ch] = @ \ {flag}]
        BY <2>2 DEF ReadInterrupt, LeaveInterrupt, HandleError, WurqRecv, InitSdci,
                    ComLost, OtherMode, TakesMode, Takes
      <3>2. UNCHANGED data_ready /\ \A c \in Channels : events[c] \subseteq events'[c]
        BY <2>2 DEF ReadInterrupt, LeaveInterrupt, HandleError, WurqRecv, InitSdci,
                    ComLost, OtherMode, drvVars
      <3>3. /\ pc[ch] = "serve"
            /\ \/ UNCHANGED pc
               \/ \E l \in {"dispatch", "est_com"} : pc' = [pc EXCEPT ![ch] = l]
        BY <2>2 DEF ReadInterrupt, LeaveInterrupt, HandleError, WurqRecv, InitSdci,
                    ComLost, OtherMode, TakesMode, Takes
      <3> QED
        BY <3>1, <3>2, <3>3
    <2>3. CASE Dispatch(ch)
      <3>1. /\ pc[ch] = "dispatch" /\ pc' = [pc EXCEPT ![ch] = "serve"] /\ UNCHANGED triggered
        BY <2>3 DEF Dispatch
      <3>2. ASSUME NEW c \in Channels, data_ready'[c]
            PROVE  (data_ready[c] \/ "RXRDY" \in events'[c]) /\ events[c] \subseteq events'[c]
        BY <2>3, <3>2 DEF Dispatch
      <3> QED
        BY <3>1, <3>2
    <2>4. CASE ReadLength(ch)
      BY <2>4 DEF ReadLength, Takes, drvVars
    <2>5. CASE ReadLevel(ch)
      <3>1. CASE Agrees(ch) /\ fifo[ch] = "one"
        BY <2>5, <3>1 DEF ReadLevel, dlVars
      <3>2. CASE ~(Agrees(ch) /\ fifo[ch] = "one")
        <4>1. /\ pc' = [pc EXCEPT ![ch] = "serve"]
              /\ data_ready' = [data_ready EXCEPT ![ch] = FALSE]
              /\ UNCHANGED <<events, triggered>>
          BY <2>5, <3>2 DEF ReadLevel, dlVars
        <4> QED
          BY <4>1
      <3> QED
        BY <3>1, <3>2
    <2>6. CASE ReadBurst(ch)
      <3>1. /\ pc' = [pc EXCEPT ![ch] = "serve"]
            /\ data_ready' = [data_ready EXCEPT ![ch] = FALSE]
            /\ \A c \in Channels : events[c] \subseteq events'[c]
            /\ UNCHANGED triggered
        BY <2>6 DEF ReadBurst
      <3> QED
        BY <3>1
    <2>7. CASE EstCom(ch)
      BY <2>7 DEF EstCom
    <2> QED
      BY <1>2, <2>1, <2>2, <2>3, <2>4, <2>5, <2>6, <2>7 DEF DlThread
  <1>3. ASSUME NEW ch \in Channels, dropped' = dropped,
               PortIsLost(ch) \/ SetMode(ch) \/ SetModeRest(ch) \/ DL_SetMode_req(ch)
        PROVE  DataReadyIsDue'
    <2> dropped' = dropped
      BY <1>3
    <2>1. CASE PortIsLost(ch)
      BY <2>1 DEF PortIsLost, drvVars
    <2>2. CASE SetMode(ch)
      BY <2>2 DEF SetMode, dlVars
    <2>3. CASE SetModeRest(ch)
      BY <2>3 DEF SetModeRest, dlVars
    <2>4. CASE DL_SetMode_req(ch)
      BY <2>4 DEF DL_SetMode_req, drvVars
    <2> QED
      BY <1>3, <2>1, <2>2, <2>3, <2>4
  <1>4. CASE IrqThread
    BY <1>4 DEF IrqThread, drvVars
  <1>5. CASE ServerCalls \/ ServerReturns \/ Chip \/ UNCHANGED vars
    BY <1>1, <1>5 DEF ServerCalls, ServerReturns, Chip, WakeUpEnds, Reply, ReceiveError,
                      vars, drvVars, dlVars
  <1>6. ASSUME NEW ch \in Channels, ResetHandlers(ch)
        PROVE  DataReadyIsDue'
    BY <1>1, <1>6 DEF ResetHandlers, drvVars
  <1>7. ASSUME NEW ch \in Channels, ResetEvents(ch)
        PROVE  DataReadyIsDue'
    <2>1. /\ triggered' = [triggered EXCEPT ![ch] = {}]
          /\ dropped \subseteq dropped'
          /\ "RXRDY" \in triggered[ch] => ch \in dropped'
          /\ UNCHANGED <<data_ready, events, pc>>
      BY <1>7 DEF ResetEvents, drvVars
    <2> QED
      BY <2>1
  <1> QED
    BY <1>2, <1>3, <1>4, <1>5, <1>6, <1>7 DEF Next, MainThread, iolink_dl_reset

\* data_ready, which suppresses every further RXRDY, is never left set with
\* nobody to fetch the reply (iolink_pl_max14819_pl_handler, get_data), but by a
\* reset that drops the RXRDY of a late reply (iolink_dl_reset against dl_main):
\* no interleaving of the channels, the main thread and the chip alone does it.
THEOREM DataReadyIsFetched == Spec => []DataReadyIsDue
  BY MutexHolds, DataReadyStart, DataReadyStep, PTL DEF Spec
-----------------------------------------------------------------------------
(* Wake-ups: the mode handler, the driver's wurq_request, the chip, and who  *)
(* has been told                                                             *)

Pending(flag, ch) == flag \in events[ch] \cup triggered[ch]

\* The thread of the channel has not been told twice of the end of a wake-up,
\* nor of a loss.
ToldOnce(ch) ==
    /\ "WURQ" \notin events[ch] \cap triggered[ch]
    /\ mdh[ch] = "COMLOST" => "MDH" \notin events[ch] \cap triggered[ch]

\* The end of a wake-up that no channel has been told of yet
Ended == WURQ \in interrupt \/ Held(WURQ)

\* The driver, the mode handler and the main thread agree on how far the start
\* of a channel has come.
WakeUp(ch) ==
    /\ ToldOnce(ch)
    /\ estcom[ch] => wurq_request[ch]
    /\ told[ch] # "nothing" =>
          cfg[ch] = "configured" /\ mdh[ch] = "IDLE_0" /\ ~Pending("MDH", ch) /\ pc[ch] # "est_com"
    /\ cfg[ch] # "configured" =>
          /\ told[ch] = "nothing" /\ mdh[ch] = "IDLE_0" /\ pc[ch] # "est_com"
          /\ Pending("MDH", ch) => dl_mode[ch] = "INACTIVE"
    /\ mdh[ch] # "ESTCOM_1" => ~wurq_request[ch] /\ ~Pending("WURQ", ch)
    /\ mdh[ch] = "STARTED" => ~Pending("MDH", ch) /\ pc[ch] # "est_com"
    /\ mdh[ch] = "COMLOST" => cfg[ch] = "configured" /\ pc[ch] # "est_com"
    /\ mdh[ch] = "ESTCOM_1" =>
          /\ pc[ch] # "est_com"
          /\ Pending("MDH", ch) => estcom[ch]
          /\ wurq_request[ch] <=> ~Pending("WURQ", ch)
          /\ wurq_request[ch] => estcom[ch] \/ Ended

\* What the start of a channel depends on
startVars(ch) ==
    <<estcom[ch], wurq_request[ch], told[ch], cfg[ch], dl_mode[ch], mdh[ch],
      Pending("MDH", ch), Pending("WURQ", ch), ToldOnce(ch)>>

LEMMA WakeUpFrame ==
    ASSUME NEW ch \in Channels, WakeUp(ch), UNCHANGED startVars(ch),
           pc'[ch] = "est_com" <=> pc[ch] = "est_com",
           Ended => Ended'
    PROVE  WakeUp(ch)'
  BY DEF WakeUp, startVars

LEMMA WakeUpStart == Init => \A ch \in Channels : WakeUp(ch)
  <1> SUFFICES ASSUME Init, NEW ch \in Channels
               PROVE  WakeUp(ch)
    OBVIOUS
  <1>1. estcom[ch] = FALSE /\ wurq_request[ch] = FALSE
    BY DEF Init
  <1>2. events[ch] = {} /\ triggered[ch] = {} /\ pc[ch] = "serve"
    BY DEF Init, Thread
  <1>3. mdh[ch] = "IDLE_0" /\ cfg[ch] = "asked" /\ told[ch] = "nothing"
    BY DEF Init
  <1> QED
    BY <1>1, <1>2, <1>3 DEF WakeUp, Pending, ToldOnce

LEMMA EndedKept ==
    ASSUME TypeOK, Ended,
           interrupt \subseteq interrupt' \/ \E ch \in Channels : ReadInterrupt(ch),
           \A t \in Channels : pc[t] = "dispatch" => pc'[t] = "dispatch" /\ reg'[t] = reg[t]
    PROVE  Ended'
  <1>1. ASSUME NEW ch \in Channels, ReadInterrupt(ch), WURQ \in interrupt
        PROVE  pc'[ch] = "dispatch" /\ WURQ \in reg'[ch]
    BY <1>1 DEF ReadInterrupt, Goto, At, TypeOK, Thread
  <1> QED
    BY <1>1 DEF Ended, Held

LEMMA DispatchWakeUp ==
    ASSUME TypeOK, Mutex, NEW ch \in Channels, Dispatch(ch), NEW c \in Channels, WakeUp(c)
    PROVE  WakeUp(c)'
  <1> USE DEF TypeOK, Thread
  <1> DEFINE Told == WURQ \in reg[ch] /\ wurq_request[c] /\ ~estcom[c]
  <1>1. /\ pc[ch] = "dispatch" /\ pc' = [pc EXCEPT ![ch] = "serve"]
        /\ reg' = [reg EXCEPT ![ch] = {}]
        /\ UNCHANGED <<interrupt, estcom, triggered, mdh, dl_mode, cfg, told>>
    BY DEF Dispatch, Goto, Unlock, chipVars, mainVars
  <1>2. "WURQ" \in Announced(reg[ch], c) <=> Told
    BY DEF Announced
  <1>3. "MDH" \notin Announced(reg[ch], c)
    BY DEF Announced
  <1>4. /\ events'[c] = events[c] \cup Announced(reg[ch], c)
        /\ wurq_request'[c] <=> wurq_request[c] /\ ~Told
    BY <1>2 DEF Dispatch
  <1>5. Pending("MDH", c)' <=> Pending("MDH", c)
    BY <1>1, <1>3, <1>4 DEF Pending
  <1>6. Pending("WURQ", c)' <=> Pending("WURQ", c) \/ Told
    BY <1>1, <1>2, <1>4 DEF Pending
  <1>7. pc'[c] = "est_com" <=> pc[c] = "est_com"
    BY <1>1
  <1>8. Ended /\ wurq_request'[c] => estcom[c] \/ Ended'
    <2>1. \A t \in Channels : pc[t] = "dispatch" => t = ch
      BY <1>1 DEF Mutex
    <2> QED
      BY <1>1, <1>4, <2>1 DEF Ended, Held
  <1> HIDE DEF Told
  <1>9. Told => mdh[c] = "ESTCOM_1" /\ ~estcom[c] /\ wurq_request[c] /\ ~Pending("WURQ", c)
    BY DEF WakeUp, Told
  <1>10. ToldOnce(c)'
    BY <1>1, <1>2, <1>3, <1>4, <1>9 DEF WakeUp, ToldOnce, Pending
  <1> QED
    BY <1>1, <1>4, <1>5, <1>6, <1>7, <1>8, <1>9, <1>10 DEF WakeUp

LEMMA DlWakeUp ==
    ASSUME TypeOK, Mutex, NEW ch \in Channels, DlThread(ch), NEW c \in Channels, WakeUp(c)
    PROVE  WakeUp(c)'
  <1> USE DEF TypeOK, Thread, Goto, At, os_event_set
  <1>1. CASE Dispatch(ch)
    BY <1>1, DispatchWakeUp
  <1>2. CASE DlWait(ch)
    <2>1. UNCHANGED startVars(c)
      BY <1>2 DEF DlWait, startVars, Pending, ToldOnce, chipVars, drvVars, mainVars
    <2>2. UNCHANGED <<interrupt, pc, reg>>
      BY <1>2 DEF DlWait, chipVars
    <2> QED
      BY <2>1, <2>2, WakeUpFrame DEF Ended, Held
  <1>3. CASE ReadInterrupt(ch)
    <2>1. UNCHANGED startVars(c)
      BY <1>3 DEF ReadInterrupt, Takes, startVars, Pending, ToldOnce, drvVars, mainVars
    <2>2. pc[ch] = "serve" /\ pc' = [pc EXCEPT ![ch] = "dispatch"] /\ reg' = [reg EXCEPT ![ch] = interrupt]
      BY <1>3 DEF ReadInterrupt, Takes
    <2>3. Ended => Ended'
      BY <1>3, <2>2, EndedKept
    <2> QED
      BY <2>1, <2>2, <2>3, WakeUpFrame
  <1>4. CASE LeaveInterrupt(ch)
    <2>1. UNCHANGED startVars(c)
      BY <1>4 DEF LeaveInterrupt, Takes, startVars, Pending, ToldOnce, chipVars, drvVars, mainVars
    <2>2. UNCHANGED <<interrupt, pc, reg>>
      BY <1>4 DEF LeaveInterrupt, chipVars
    <2> QED
      BY <2>1, <2>2, WakeUpFrame DEF Ended, Held
  <1>5. CASE ReadLength(ch)
    <2>1. UNCHANGED startVars(c)
      BY <1>5 DEF ReadLength, Takes, startVars, Pending, ToldOnce, chipVars, drvVars, mainVars
    <2>2. /\ pc[ch] = "serve" /\ pc' = [pc EXCEPT ![ch] = "level"] /\ UNCHANGED interrupt
          /\ \A t \in Channels : t # ch => reg'[t] = reg[t]
      BY <1>5 DEF ReadLength, Takes, chipVars
    <2>3. Ended => Ended'
      BY <2>2, EndedKept
    <2> QED
      BY <2>1, <2>2, <2>3, WakeUpFrame
  <1>6. CASE ReadLevel(ch) \/ ReadBurst(ch)
    <2>1. UNCHANGED startVars(c)
      BY <1>6 DEF ReadLevel, ReadBurst, startVars, Pending, ToldOnce, dlVars, mainVars
    <2>2. /\ pc[ch] \in {"level", "burst"} /\ UNCHANGED interrupt
          /\ \A t \in Channels : t # ch => reg'[t] = reg[t]
      BY <1>6 DEF ReadLevel, ReadBurst, Unlock
    <2>3. \E l \in {"burst", "serve"} : pc' = [pc EXCEPT ![ch] = l]
      BY <1>6 DEF ReadLevel, ReadBurst
    <2>4. Ended => Ended'
      BY <2>2, <2>3, EndedKept
    <2> QED
      BY <2>2, <2>1, <2>3, <2>4, WakeUpFrame
  <1>7. CASE OtherMode(ch)
    <2>1. UNCHANGED <<interrupt, pc, reg>>
      BY <1>7 DEF OtherMode, chipVars
    <2> QED
      BY <1>7, <2>1 DEF OtherMode, TakesMode, Takes, Ended, Held, WakeUp, Pending, ToldOnce,
                        chipVars, drvVars, mainVars
  <1>8. CASE HandleError(ch)
    <2>1. UNCHANGED <<interrupt, pc, reg, estcom, wurq_request, dl_mode, cfg, told>>
      BY <1>8 DEF HandleError, chipVars, drvVars, mainVars
    <2>2. triggered' = [triggered EXCEPT ![ch] = @ \ {"RXERR"}]
      BY <1>8 DEF HandleError, Takes
    <2>3. CASE UNCHANGED <<mdh, events>>
      <3>1. UNCHANGED <<Pending("MDH", c), Pending("WURQ", c), ToldOnce(c)>>
        BY <2>1, <2>2, <2>3 DEF Pending, ToldOnce
      <3> QED
        BY <2>1, <2>3, <3>1, WakeUpFrame DEF startVars, Ended, Held
    <2>4. CASE /\ mdh[ch] = "STARTED" /\ mdh' = [mdh EXCEPT ![ch] = "COMLOST"]
               /\ events' = [events EXCEPT ![ch] = @ \cup {"MDH"}]
      <3>1. CASE c = ch
        <4>1. /\ told[c] = "nothing" /\ cfg[c] = "configured" /\ pc[c] # "est_com"
              /\ ~Pending("MDH", c) /\ ~wurq_request[c] /\ ~Pending("WURQ", c)
          BY <2>4, <3>1 DEF WakeUp
        <4> QED
          BY <2>1, <2>2, <2>4, <3>1, <4>1 DEF WakeUp, Pending, ToldOnce
      <3>2. CASE c # ch
        <4>1. UNCHANGED startVars(c)
          BY <2>1, <2>2, <2>4, <3>2 DEF startVars, Pending, ToldOnce
        <4> QED
          BY <2>1, <4>1, WakeUpFrame DEF Ended, Held
      <3> QED
        BY <3>1, <3>2
    <2> QED
      BY <1>8, <2>3, <2>4 DEF HandleError
  <1>12. CASE ComLost(ch)
    <2>1. /\ UNCHANGED <<interrupt, pc, reg, estcom, wurq_request, events, dl_mode, cfg>>
          /\ "MDH" \in triggered[ch] /\ triggered' = [triggered EXCEPT ![ch] = @ \ {"MDH"}]
          /\ mdh[ch] = "COMLOST" /\ mdh' = [mdh EXCEPT ![ch] = "IDLE_0"]
          /\ told' = [told EXCEPT ![ch] = "lost"]
      BY <1>12 DEF ComLost, TakesMode, Takes, chipVars, drvVars
    <2>2. CASE c = ch
      <3>1. /\ cfg[c] = "configured" /\ pc[c] # "est_com" /\ "MDH" \notin events[c]
            /\ ~wurq_request[c] /\ ~Pending("WURQ", c)
        BY <2>1, <2>2 DEF WakeUp, ToldOnce
      <3> QED
        BY <2>1, <2>2, <3>1 DEF WakeUp, Pending, ToldOnce
    <2>3. CASE c # ch
      <3>1. UNCHANGED startVars(c)
        BY <2>1, <2>3 DEF startVars, Pending, ToldOnce
      <3> QED
        BY <2>1, <3>1, WakeUpFrame DEF Ended, Held
    <2> QED
      BY <2>2, <2>3
  <1>9. CASE WurqRecv(ch)
    <2>1. UNCHANGED <<interrupt, pc, reg, estcom, wurq_request, events, dl_mode, cfg>>
      BY <1>9 DEF WurqRecv, chipVars, drvVars
    <2>2. /\ pc[ch] = "serve" /\ "WURQ" \in triggered[ch]
          /\ triggered' = [triggered EXCEPT ![ch] = @ \ {"WURQ"}]
          /\ \/ mdh' = [mdh EXCEPT ![ch] = "STARTED"] /\ UNCHANGED told
             \/ mdh' = [mdh EXCEPT ![ch] = "IDLE_0"] /\ told' = [told EXCEPT ![ch] = "failed"]
      BY <1>9 DEF WurqRecv, Takes
    <2>3. CASE c # ch
      BY <2>1, <2>2, <2>3, WakeUpFrame DEF startVars, Ended, Held, Pending, ToldOnce
    <2>4. CASE c = ch
      <3>1. mdh[c] = "ESTCOM_1" /\ ~wurq_request[c] /\ ~estcom[c] /\ ~Pending("MDH", c)
        BY <2>2, <2>4 DEF WakeUp, Pending
      <3>2. told[c] = "nothing" /\ cfg[c] = "configured"
        BY <3>1 DEF WakeUp
      <3>3. "WURQ" \notin events[c]
        BY <2>2, <2>4 DEF WakeUp, ToldOnce
      <3> QED
        BY <2>1, <2>2, <2>4, <3>1, <3>2, <3>3 DEF WakeUp, Pending, ToldOnce
    <2> QED
      BY <2>3, <2>4
  <1>10. CASE InitSdci(ch)
    <2>1. CASE wurq_request[ch]
      <3>1. UNCHANGED <<interrupt, pc, reg>>
        BY <1>10, <2>1 DEF InitSdci
      <3> QED
        BY <1>10, <2>1, <3>1 DEF InitSdci, TakesMode, Takes, Ended, Held, WakeUp, Pending, ToldOnce,
                          drvVars, mainVars
    <2>2. CASE ~wurq_request[ch]
      <3>1. /\ pc[ch] = "serve" /\ pc' = [pc EXCEPT ![ch] = "est_com"]
            /\ reg' = [reg EXCEPT ![ch] = enabled]
            /\ estcom' = [estcom EXCEPT ![ch] = FALSE]
            /\ "MDH" \in triggered[ch] /\ triggered' = [triggered EXCEPT ![ch] = @ \ {"MDH"}]
            /\ UNCHANGED <<interrupt, wurq_request, events, mdh, dl_mode, cfg, told>>
            /\ mdh[ch] = "IDLE_0" /\ dl_mode[ch] = "STARTUP"
        BY <1>10, <2>2 DEF InitSdci, TakesMode, Takes, WantsWakeUp, drvVars, mainVars
      <3>2. Ended => Ended'
        BY <3>1, EndedKept
      <3>3. CASE c = ch
        <4>1. told[c] = "nothing" /\ cfg[c] = "configured"
          BY <3>1, <3>3 DEF WakeUp, Pending
        <4> QED
          BY <3>1, <3>3, <4>1 DEF WakeUp, Pending, ToldOnce
      <3>4. CASE c # ch
        <4>1. estcom'[c] = estcom[c]
          BY <3>1, <3>4
        <4>2. UNCHANGED startVars(c)
          BY <3>1, <3>4, <4>1 DEF startVars, Pending, ToldOnce
        <4> QED
          BY <3>1, <3>2, <3>4, <4>2, WakeUpFrame
      <3> QED
        BY <3>3, <3>4
    <2> QED
      BY <2>1, <2>2
  <1>11. CASE EstCom(ch)
    <2>1. /\ pc[ch] = "est_com" /\ pc' = [pc EXCEPT ![ch] = "serve"]
          /\ reg' = [reg EXCEPT ![ch] = {}]
          /\ estcom' = [estcom EXCEPT ![ch] = TRUE]
          /\ wurq_request' = [wurq_request EXCEPT ![ch] = TRUE]
          /\ mdh' = [mdh EXCEPT ![ch] = "ESTCOM_1"]
          /\ UNCHANGED <<interrupt, events, triggered, dl_mode, cfg, told>>
      BY <1>11 DEF EstCom, Unlock, mainVars
    <2>2. Ended => Ended'
      BY <2>1, EndedKept
    <2>3. CASE c = ch
      <3>1. told[c] = "nothing" /\ cfg[c] = "configured" /\ ~Pending("WURQ", c)
        BY <2>1, <2>3 DEF WakeUp
      <3> QED
        BY <2>1, <2>3, <3>1 DEF WakeUp, Pending, ToldOnce
    <2>4. CASE c # ch
      <3>1. estcom'[c] = estcom[c] /\ wurq_request'[c] = wurq_request[c]
        BY <2>1, <2>4
      <3>2. UNCHANGED startVars(c)
        BY <2>1, <2>4, <3>1 DEF startVars, Pending, ToldOnce
      <3> QED
        BY <2>1, <2>2, <2>4, <3>2, WakeUpFrame
    <2> QED
      BY <2>3, <2>4
  <1> QED
    BY <1>1, <1>2, <1>3, <1>4, <1>5, <1>6, <1>7, <1>8, <1>9, <1>10, <1>11, <1>12 DEF DlThread

LEMMA MainWakeUp ==
    ASSUME TypeOK, Mutex, NEW ch \in Channels,
           PortIsLost(ch) \/ SetMode(ch) \/ SetModeRest(ch) \/ DL_SetMode_req(ch),
           NEW c \in Channels, WakeUp(c)
    PROVE  WakeUp(c)'
  <1> USE TransceiverAssumption DEF TypeOK, Thread, Goto, At, os_event_set
  <1>1. /\ UNCHANGED interrupt
        /\ \A t \in Channels : pc'[t] = pc[t] /\ reg'[t] = reg[t]
    BY DEF PortIsLost, SetMode, SetModeRest, DL_SetMode_req, Unlock, chipVars
  <1>2. Ended => Ended'
    BY <1>1 DEF Ended, Held
  <1>3. CASE PortIsLost(ch)
    <2>1. /\ told[ch] # "nothing"
          /\ told' = [told EXCEPT ![ch] = "nothing"]
          /\ cfg' = [cfg EXCEPT ![ch] = "lost"]
          /\ UNCHANGED <<estcom, wurq_request, triggered, mdh>>
          /\ \/ /\ dl_mode' = [dl_mode EXCEPT ![ch] = "INACTIVE"]
                /\ events' = [events EXCEPT ![ch] = @ \cup {"MDH"}]
             \/ UNCHANGED <<dl_mode, events>>
      BY <1>3 DEF PortIsLost, chipVars, drvVars
    <2>2. CASE c = ch
      BY <1>1, <2>1, <2>2 DEF WakeUp, Pending, ToldOnce
    <2>3. CASE c # ch
      BY <1>1, <1>2, <2>1, <2>3, WakeUpFrame DEF startVars, Pending, ToldOnce
    <2> QED
      BY <2>2, <2>3
  <1>4. CASE SetMode(ch)
    <2>1. /\ cfg[ch] = "asked" /\ cfg' = [cfg EXCEPT ![ch] = "setting"]
          /\ estcom' = [estcom EXCEPT ![ch] = FALSE]
          /\ wurq_request' = [wurq_request EXCEPT ![ch] = FALSE]
          /\ UNCHANGED <<events, triggered, mdh, dl_mode, told>>
      BY <1>4 DEF SetMode, dlVars
    <2>2. CASE c = ch
      BY <1>1, <2>1, <2>2 DEF WakeUp, Pending, ToldOnce
    <2>3. CASE c # ch
      <3>1. estcom'[c] = estcom[c] /\ wurq_request'[c] = wurq_request[c]
        BY <2>1, <2>3
      <3>2. UNCHANGED startVars(c)
        BY <2>1, <2>3, <3>1 DEF startVars, Pending, ToldOnce
      <3> QED
        BY <1>1, <1>2, <3>2, WakeUpFrame
    <2> QED
      BY <2>2, <2>3
  <1>5. CASE SetModeRest(ch)
    BY <1>1, <1>2, <1>5, WakeUpFrame DEF SetModeRest, startVars, Pending, ToldOnce, dlVars, mainVars
  <1>6. CASE DL_SetMode_req(ch)
    <2>1. /\ cfg[ch] = "setting" /\ cfg' = [cfg EXCEPT ![ch] = "configured"]
          /\ events' = [events EXCEPT ![ch] = @ \cup {"MDH"}]
          /\ \A d \in Channels : d # ch => dl_mode'[d] = dl_mode[d]
          /\ UNCHANGED <<estcom, wurq_request, triggered, mdh, told>>
      BY <1>6 DEF DL_SetMode_req, chipVars, drvVars
    <2>2. CASE c = ch
      BY <1>1, <2>1, <2>2 DEF WakeUp, Pending, ToldOnce
    <2>3. CASE c # ch
      BY <1>1, <1>2, <2>1, <2>3, WakeUpFrame DEF startVars, Pending, ToldOnce
    <2> QED
      BY <2>2, <2>3
  <1> QED
    BY <1>3, <1>4, <1>5, <1>6

LEMMA ResetWakeUp ==
    ASSUME TypeOK, NEW ch \in Channels, ResetHandlers(ch) \/ ResetEvents(ch),
           NEW c \in Channels, WakeUp(c)
    PROVE  WakeUp(c)'
  <1> USE DEF TypeOK, At
  <1>1. UNCHANGED <<interrupt, pc, reg, estcom, wurq_request, events, told>>
    BY DEF ResetHandlers, ResetEvents, chipVars, drvVars
  <1>2. CASE c = ch
    <2>1. /\ cfg[c] # "configured" /\ cfg'[c] # "configured"
          /\ mdh'[c] = "IDLE_0" /\ dl_mode'[c] \in {dl_mode[c], "INACTIVE"}
          /\ triggered'[c] \subseteq triggered[c]
      BY <1>2 DEF ResetHandlers, ResetEvents, WakeUp
    <2> QED
      BY <1>1, <1>2, <2>1 DEF WakeUp, Pending, ToldOnce
  <1>3. CASE c # ch
    <2>1. UNCHANGED startVars(c)
      BY <1>1, <1>3 DEF ResetHandlers, ResetEvents, startVars, Pending, ToldOnce
    <2> QED
      BY <1>1, <2>1, WakeUpFrame DEF Ended, Held
  <1> QED
    BY <1>2, <1>3

LEMMA ChipWakeUp ==
    ASSUME TypeOK, NEW ch \in Channels, WakeUpEnds(ch) \/ Reply(ch) \/ ReceiveError(ch),
           NEW c \in Channels, WakeUp(c)
    PROVE  WakeUp(c)'
  <1> USE DEF TypeOK, At
  <1>1. interrupt \subseteq interrupt' /\ UNCHANGED <<pc, reg>>
    BY DEF WakeUpEnds, Reply, ReceiveError
  <1>2. Ended => Ended'
    BY <1>1 DEF Ended, Held
  <1>3. CASE WakeUpEnds(ch)
    <2>1. /\ estcom' = [estcom EXCEPT ![ch] = FALSE]
          /\ ~Pending("MDH", ch) /\ Ended'
          /\ UNCHANGED <<wurq_request, events, triggered, mdh, dl_mode, cfg, told>>
      BY <1>3 DEF WakeUpEnds, Pending, Ended, drvVars, dlVars, mainVars
    <2>2. CASE c = ch
      BY <1>1, <2>1, <2>2 DEF WakeUp, Pending, ToldOnce
    <2>3. CASE c # ch
      <3>1. estcom'[c] = estcom[c]
        BY <2>1, <2>3
      <3>2. UNCHANGED startVars(c)
        BY <2>1, <2>3, <3>1 DEF startVars, Pending, ToldOnce
      <3> QED
        BY <1>1, <1>2, <3>2, WakeUpFrame
    <2> QED
      BY <2>2, <2>3
  <1>4. CASE Reply(ch) \/ ReceiveError(ch)
    BY <1>1, <1>2, <1>4, WakeUpFrame
       DEF Reply, ReceiveError, startVars, Pending, ToldOnce, drvVars, dlVars, mainVars
  <1> QED
    BY <1>3, <1>4

LEMMA WakeUpStep ==
    TypeOK /\ Mutex /\ (\A ch \in Channels : WakeUp(ch)) /\ [Next]_vars
       => (\A ch \in Channels : WakeUp(ch))'
  <1> SUFFICES ASSUME TypeOK, Mutex, \A ch \in Channels : WakeUp(ch), [Next]_vars,
                      NEW c \in Channels
               PROVE  WakeUp(c)'
    OBVIOUS
  <1>1. ASSUME NEW ch \in Channels, DlThread(ch)
        PROVE  WakeUp(c)'
    BY <1>1, DlWakeUp
  <1>2. CASE MainThread
    BY <1>2, MainWakeUp DEF MainThread
  <1>3. CASE Chip
    BY <1>3, ChipWakeUp DEF Chip
  <1>4. CASE IrqThread
    <2>1. UNCHANGED startVars(c)
      BY <1>4 DEF IrqThread, TypeOK, startVars, Pending, ToldOnce, chipVars, drvVars, mainVars
    <2>2. UNCHANGED <<interrupt, pc, reg>>
      BY <1>4 DEF IrqThread, chipVars
    <2> QED
      BY <2>1, <2>2, WakeUpFrame DEF Ended, Held
  <1>5. CASE ServerCalls \/ ServerReturns \/ UNCHANGED vars
    <2>1. UNCHANGED <<chipVars, drvVars, dlVars, mainVars, pc, reg>>
      BY <1>5 DEF ServerCalls, ServerReturns, vars
    <2> QED
      BY <2>1, WakeUpFrame DEF startVars, Pending, ToldOnce, Ended, Held,
                               chipVars, drvVars, dlVars, mainVars
  <1>6. CASE iolink_dl_reset
    BY <1>6, ResetWakeUp DEF iolink_dl_reset
  <1> QED
    BY <1>1, <1>2, <1>3, <1>4, <1>5, <1>6 DEF Next

LEMMA WakeUpHolds == Spec => [](\A ch \in Channels : WakeUp(ch))
  BY MutexHolds, WakeUpStart, WakeUpStep, PTL DEF Spec

\* The mode handler, which has no time-out in ESTCOM_1, never waits for a wake-up
\* whose end nobody will tell it of (iolink_dl.c, iolink_pl_max14819_pl_handler).
THEOREM WakeUpsAreDue == Spec => []WakeUpIsDue
  <1>1. (\A ch \in Channels : WakeUp(ch)) => WakeUpIsDue
    BY DEF WakeUp, WakeUpIsDue, Pending, Ended
  <1> QED
    BY WakeUpHolds, <1>1, PTL

\* The driver never refuses a wake-up the mode handler asks for
\* (iolink_dl_mode_h_sm_idle0).
THEOREM WakeUpsAreNotRefused == Spec => []WakeUpIsNotRefused
  <1>1. (\A ch \in Channels : WakeUp(ch)) => WakeUpIsNotRefused
    BY DEF WakeUp, WakeUpIsNotRefused, WantsWakeUp
  <1> QED
    BY WakeUpHolds, <1>1, PTL
=============================================================================
