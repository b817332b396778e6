---------------------------- MODULE Transceiver ----------------------------
(***************************************************************************)
(* The driver of the MAX14819 (iolink_max14819_pl.c) under the shim of the *)
(* physical layer (iolink_pl.c), with its callers: the data link thread of *)
(* each channel (dl_main of iolink_dl.c), the main thread that sets the    *)
(* mode of a channel, the handler that resets the data link of a lost port *)
(* before it is configured again (iolink_dl_reset), the thread that polls  *)
(* the interrupt line (osal_irq.c) and the server, which calls the driver  *)
(* past the shim.  The chip and the devices work on their own between any  *)
(* two accesses to the registers.                                          *)
(*                                                                         *)
(* Two channels share one interrupt line, one register of interrupts,      *)
(* cleared by reading it, and one register that enables them.  Every call *)
(* of the shim holds its mutex and takes that of the driver inside it, the *)
(* server takes only that of the driver: one mutex, exclusive, stands for  *)
(* both, and a call that needs that of the shim alone does not wait for    *)
(* the server.                                                             *)
(*                                                                         *)
(* Left out: the messages sent, supply, LEDs and status of the chip, whose *)
(* services only keep the driver busy, transmission errors, which the      *)
(* stack handles as it does receive errors, and the timer between two      *)
(* attempts to send a message.                                             *)
(***************************************************************************)
EXTENDS Naturals

CONSTANTS Channels,
          MaxStart,      \* bound: configurations
          MaxReply       \* bound: replies received, and receive errors

ASSUME TransceiverAssumption ==
    /\ "main" \notin Channels /\ "server" \notin Channels /\ "free" \notin Channels
    /\ "all" \notin Channels
    /\ MaxStart \in Nat /\ MaxReply \in Nat

Thread == Channels \cup {"main"}

\* Bits of REG_Interrupt and REG_InterruptEn
RxDataRdy(ch) == <<"RX_DATA_RDY", ch>>
RxErr(ch) == <<"RX_ERR", ch>>
WURQ == <<"WURQ", "all">>
Enables(ch) == {RxDataRdy(ch), RxErr(ch)}
Interrupts == (UNION {Enables(ch) : ch \in Channels}) \cup {WURQ}

VARIABLES
    exclusive,                           \* who holds the mutex of the driver
    interrupt, enabled,                  \* REG_Interrupt, REG_InterruptEn
    estcom, fifo, com,                   \* of a channel of the chip: CQCtrl.EST_COM, RX FIFO, line in use
    is_iolink, wurq_request, data_ready, \* of the driver
    events, triggered, mdh, dl_mode,     \* of a data link thread and its mode handler
    mode_ch, cfg, told,                  \* of the main thread and the handler
    dropped,                             \* history: channels whose RXRDY a reset has dropped
    pc, reg,                             \* of the threads: where they are, the register last read
    left                                 \* bounds

chipVars == <<interrupt, enabled, estcom, fifo, com>>
drvVars == <<is_iolink, wurq_request, data_ready>>
dlVars == <<events, triggered, mdh, dl_mode>>
mainVars == <<mode_ch, cfg, told>>
vars == <<exclusive, chipVars, drvVars, dlVars, mainVars,
                   dropped, pc, reg, left>>

Goto(t, l) == pc' = [pc EXCEPT ![t] = l]
At(f, ch, v) == [f EXCEPT ![ch] = v]

Lock(t) == exclusive = "free" /\ exclusive' = t

\* The end of a call, with which its local variables are gone
Unlock(t) == exclusive' = "free" /\ reg' = [reg EXCEPT ![t] = {}]

\* No other thread of the stack is inside the shim.
ShimIsFree == exclusive \in {"free", "server"}

os_event_set(ch, flags) == events' = [events EXCEPT ![ch] = @ \cup flags]

Spend(what) == left[what] > 0 /\ left' = [left EXCEPT ![what] = @ - 1]

TypeOK ==
    /\ exclusive \in Thread \cup {"free", "server"}
    /\ interrupt \subseteq Interrupts /\ enabled \subseteq Interrupts
    /\ estcom \in [Channels -> BOOLEAN] /\ com \in [Channels -> BOOLEAN]
    /\ is_iolink \in [Channels -> BOOLEAN] /\ wurq_request \in [Channels -> BOOLEAN]
    /\ data_ready \in [Channels -> BOOLEAN]
    /\ fifo \in [Channels -> {"empty", "one", "mixed"}]
    /\ events \in [Channels -> SUBSET {"PL", "RXRDY", "RXERR", "WURQ", "MDH"}]
    /\ triggered \in [Channels -> SUBSET {"PL", "RXRDY", "RXERR", "WURQ", "MDH"}]
    /\ mdh \in [Channels -> {"IDLE_0", "ESTCOM_1", "STARTED", "COMLOST"}]
    /\ dl_mode \in [Channels -> {"INACTIVE", "STARTUP"}]
    /\ mode_ch \in [Channels -> {"SDCI", "DIDO"}]
    /\ cfg \in [Channels -> {"lost", "resetting", "asked", "setting", "configured"}]
    /\ told \in [Channels -> {"nothing", "failed", "lost"}]
    /\ dropped \subseteq Channels
    /\ pc \in [Thread -> {"serve", "dispatch", "level", "burst", "est_com", "enable", "start"}]
    /\ reg \in [Thread -> SUBSET Interrupts]

\* iolink_14819_init and iolink_dl_instantiate
Init ==
    /\ exclusive = "free"
    /\ interrupt = {} /\ enabled = {}
    /\ estcom = [ch \in Channels |-> FALSE] /\ com = estcom
    /\ fifo = [ch \in Channels |-> "empty"]
    /\ is_iolink = estcom /\ wurq_request = estcom /\ data_ready = estcom
    /\ events = [ch \in Channels |-> {}] /\ triggered = events
    /\ mdh = [ch \in Channels |-> "IDLE_0"]
    /\ dl_mode = [ch \in Channels |-> "INACTIVE"]
    /\ mode_ch \in [Channels -> {"SDCI", "DIDO"}]
    /\ cfg = [ch \in Channels |-> "asked"]
    /\ told = [ch \in Channels |-> "nothing"]
    /\ dropped = {}
    /\ pc = [t \in Thread |-> "serve"] /\ reg = [t \in Thread |-> {}]
    /\ left = [starts |-> MaxStart, replies |-> MaxReply]
-----------------------------------------------------------------------------
(***************************************************************************)
(* The data link thread of a channel: the flags it was woken by are        *)
(* cleared, then handled in the order of dl_main, which reads them anew    *)
(* for each: a reset meanwhile drops those not handled yet.  A flag set    *)
(* between the return of os_event_wait and os_event_clr is handled as if   *)
(* it had been set before, or later, and a reset between them drops none,  *)
(* so both are one step.                                                   *)
(***************************************************************************)
DlWait(ch) ==
    /\ pc[ch] = "serve" /\ triggered[ch] = {} /\ events[ch] # {}
    /\ triggered' = At(triggered, ch, events[ch])
    /\ events' = At(events, ch, {})
    /\ UNCHANGED <<exclusive, chipVars, drvVars, mdh, dl_mode, mainVars, pc, reg, left>>

Takes(ch, flag, earlier) ==
    /\ pc[ch] = "serve" /\ flag \in triggered[ch] /\ triggered[ch] \cap earlier = {}
    /\ triggered' = [triggered EXCEPT ![ch] = @ \ {flag}]

\* iolink_pl_handler: a channel that is not in SDCI leaves at once, another
\* reads the interrupts of both.
ReadInterrupt(ch) ==
    /\ Takes(ch, "PL", {})
    /\ is_iolink[ch] /\ Lock(ch)
    /\ reg' = At(reg, ch, interrupt) /\ interrupt' = {}
    /\ Goto(ch, "dispatch")
    /\ UNCHANGED <<enabled, estcom, fifo, com, drvVars, events, mdh, dl_mode, mainVars, left>>

LeaveInterrupt(ch) ==
    /\ Takes(ch, "PL", {})
    /\ ~is_iolink[ch] /\ ShimIsFree
    /\ UNCHANGED <<exclusive, chipVars, drvVars, events, mdh, dl_mode, mainVars, pc, reg, left>>

\* What a reading of the interrupts announces to a channel
Announced(ints, ch) ==
    (IF RxErr(ch) \in ints THEN {"RXERR"} ELSE {}) \cup
    (IF RxDataRdy(ch) \in ints /\ ~data_ready[ch] THEN {"RXRDY"} ELSE {}) \cup
    (IF WURQ \in ints /\ wurq_request[ch] /\ ~estcom[ch] THEN {"WURQ"} ELSE {})

\* Mutant: only the interrupts of the channel itself are dispatched.
Dispatch_OwnChannel(ch) ==
    /\ pc[ch] = "dispatch"
    /\ os_event_set(ch, Announced(reg[ch], ch))
    /\ data_ready' = [data_ready EXCEPT ![ch] = @ \/ "RXRDY" \in Announced(reg[ch], ch)]
    /\ wurq_request' = [wurq_request EXCEPT ![ch] = @ /\ "WURQ" \notin Announced(reg[ch], ch)]
    /\ Unlock(ch) /\ Goto(ch, "serve")
    /\ UNCHANGED <<chipVars, is_iolink, triggered, mdh, dl_mode, mainVars, left>>

\* Mutant: the wake-up of every channel is taken for ended.
Dispatch_AllWakeUps(ch) ==
    /\ pc[ch] = "dispatch"
    /\ events' = [c \in Channels |-> events[c] \cup Announced(reg[ch], c)]
    /\ data_ready' = [c \in Channels |-> data_ready[c] \/ "RXRDY" \in Announced(reg[ch], c)]
    /\ wurq_request' = [c \in Channels |-> wurq_request[c] /\ WURQ \notin reg[ch]]
    /\ Unlock(ch) /\ Goto(ch, "serve")
    /\ UNCHANGED <<chipVars, is_iolink, triggered, mdh, dl_mode, mainVars, left>>

Dispatch(ch) ==
    /\ pc[ch] = "dispatch"
    /\ events' = [c \in Channels |-> events[c] \cup Announced(reg[ch], c)]
    /\ data_ready' = [c \in Channels |-> data_ready[c] \/ "RXRDY" \in Announced(reg[ch], c)]
    /\ wurq_request' = [c \in Channels |-> wurq_request[c] /\ "WURQ" \notin Announced(reg[ch], c)]
    /\ Unlock(ch) /\ Goto(ch, "serve")
    /\ UNCHANGED <<chipVars, is_iolink, triggered, mdh, dl_mode, mainVars, left>>

\* iolink_pl_max14819_get_data: the length octet and the level of the FIFO
\* must agree, else the FIFO is reset; then the reply is read.
ReadLength(ch) ==
    /\ Takes(ch, "RXRDY", {"PL"}) /\ Lock(ch)
    /\ reg' = At(reg, ch, IF fifo[ch] = "empty" THEN {} ELSE {RxDataRdy(ch)})
    /\ Goto(ch, "level")
    /\ UNCHANGED <<chipVars, drvVars, events, mdh, dl_mode, mainVars, left>>

\* Nothing was there at either reading, or one reply at both.
Agrees(ch) == fifo[ch] = IF reg[ch] = {} THEN "empty" ELSE "one"

\* Mutant: data_ready stays set when the length does not agree.
ReadLevel_KeepsReady(ch) ==
    /\ pc[ch] = "level"
    /\ \/ /\ Agrees(ch) /\ fifo[ch] = "one"
          /\ Goto(ch, "burst")
          /\ UNCHANGED <<exclusive, reg, fifo, data_ready>>
       \/ /\ ~(Agrees(ch) /\ fifo[ch] = "one")
          /\ fifo' = At(fifo, ch, "empty")
          /\ data_ready' = At(data_ready, ch, data_ready[ch] /\ ~Agrees(ch))
          /\ Unlock(ch) /\ Goto(ch, "serve")
    /\ UNCHANGED <<interrupt, enabled, estcom, com, is_iolink, wurq_request, dlVars, mainVars, left>>

ReadLevel(ch) ==
    /\ pc[ch] = "level"
    /\ \/ /\ Agrees(ch) /\ fifo[ch] = "one"
          /\ Goto(ch, "burst")
          /\ UNCHANGED <<exclusive, reg, fifo, data_ready>>
       \/ /\ ~(Agrees(ch) /\ fifo[ch] = "one")
          /\ fifo' = At(fifo, ch, "empty")
          /\ data_ready' = At(data_ready, ch, FALSE)
          /\ Unlock(ch) /\ Goto(ch, "serve")
    /\ UNCHANGED <<interrupt, enabled, estcom, com, is_iolink, wurq_request, dlVars, mainVars, left>>

LineIsLow == interrupt \cap enabled # {}

\* The chip tells of interrupts in the first octet of every transfer.
ReadBurst(ch) ==
    /\ pc[ch] = "burst"
    /\ fifo' = At(fifo, ch, IF fifo[ch] = "mixed" THEN "one" ELSE "empty")
    /\ os_event_set(ch, IF LineIsLow THEN {"PL"} ELSE {})
    /\ data_ready' = At(data_ready, ch, FALSE)
    /\ Unlock(ch) /\ Goto(ch, "serve")
    /\ UNCHANGED <<interrupt, enabled, estcom, com, is_iolink, wurq_request, triggered, mdh,
                   dl_mode, mainVars, left>>

\* iolink_dl_handle_error: the message is sent again, or the message handler
\* gives up and tells the mode handler so.
HandleError(ch) ==
    /\ Takes(ch, "RXERR", {"PL", "RXRDY"})
    /\ exclusive = "free"
    /\ \/ UNCHANGED <<mdh, events>>
       \/ /\ mdh[ch] = "STARTED"
          /\ mdh' = At(mdh, ch, "COMLOST")
          /\ os_event_set(ch, {"MDH"})
    /\ UNCHANGED <<exclusive, chipVars, drvVars, dl_mode, mainVars, pc, reg, left>>

\* iolink_dl_wurq_recv
WurqRecv(ch) ==
    /\ Takes(ch, "WURQ", {"PL", "RXRDY", "RXERR"})
    /\ ShimIsFree
    /\ mdh' = At(mdh, ch, IF com[ch] THEN "STARTED" ELSE "IDLE_0")
    /\ told' = IF com[ch] THEN told ELSE At(told, ch, "failed")
    /\ UNCHANGED <<exclusive, chipVars, drvVars, events, dl_mode, mode_ch, cfg, pc, reg, left>>

\* Mutant: in whatever state.
WantsWakeUp_AnyState(ch) == dl_mode[ch] = "STARTUP"

\* iolink_dl_mode_h_sm, as far as it calls the driver: a wake-up is asked for
\* in IDLE_0 (iolink_pl_max14819_init_sdci), unless one is under way already.
WantsWakeUp(ch) == mdh[ch] = "IDLE_0" /\ dl_mode[ch] = "STARTUP"

TakesMode(ch) == Takes(ch, "MDH", {"PL", "RXRDY", "RXERR", "WURQ"})

InitSdci(ch) ==
    /\ TakesMode(ch) /\ WantsWakeUp(ch)
    /\ IF wurq_request[ch]
       THEN exclusive = "free" /\ UNCHANGED <<exclusive, estcom, fifo, reg, pc>>
       ELSE /\ Lock(ch)
            /\ estcom' = At(estcom, ch, FALSE) /\ fifo' = At(fifo, ch, "empty")
            /\ reg' = At(reg, ch, enabled)
            /\ Goto(ch, "est_com")
    /\ UNCHANGED <<interrupt, enabled, com, drvVars, events, mdh, dl_mode, mainVars, left>>

\* iolink_dl_mode_h_sm_goto_idle, which stops the cycle timer of the chip
ComLost(ch) ==
    /\ TakesMode(ch) /\ mdh[ch] = "COMLOST" /\ exclusive = "free"
    /\ mdh' = At(mdh, ch, "IDLE_0")
    /\ told' = At(told, ch, "lost")
    /\ UNCHANGED <<exclusive, chipVars, drvVars, events, dl_mode, mode_ch, cfg, pc, reg, left>>

OtherMode(ch) ==
    /\ TakesMode(ch) /\ ~WantsWakeUp(ch) /\ mdh[ch] # "COMLOST"
    /\ UNCHANGED <<exclusive, chipVars, drvVars, events, mdh, dl_mode, mainVars, pc, reg, left>>

\* Mutant: the enabled interrupts are overwritten.
EstCom_Overwrites(ch) ==
    /\ pc[ch] = "est_com"
    /\ enabled' = Enables(ch) \cup {WURQ}
    /\ estcom' = At(estcom, ch, TRUE) /\ com' = At(com, ch, FALSE)
    /\ wurq_request' = At(wurq_request, ch, TRUE)
    /\ mdh' = At(mdh, ch, "ESTCOM_1")
    /\ Unlock(ch) /\ Goto(ch, "serve")
    /\ UNCHANGED <<interrupt, fifo, is_iolink, data_ready, events, triggered, dl_mode, mainVars, left>>

EstCom(ch) ==
    /\ pc[ch] = "est_com"
    /\ enabled' = reg[ch] \cup {WURQ}
    /\ estcom' = At(estcom, ch, TRUE) /\ com' = At(com, ch, FALSE)
    /\ wurq_request' = At(wurq_request, ch, TRUE)
    /\ mdh' = At(mdh, ch, "ESTCOM_1")
    /\ Unlock(ch) /\ Goto(ch, "serve")
    /\ UNCHANGED <<interrupt, fifo, is_iolink, data_ready, events, triggered, dl_mode, mainVars, left>>

DlThread(ch) ==
    /\ \/ DlWait(ch) \/ ReadInterrupt(ch) \/ LeaveInterrupt(ch) \/ Dispatch(ch)
       \/ ReadLength(ch) \/ ReadLevel(ch) \/ ReadBurst(ch)
       \/ HandleError(ch) \/ WurqRecv(ch)
       \/ InitSdci(ch) \/ ComLost(ch) \/ OtherMode(ch) \/ EstCom(ch)
    /\ UNCHANGED dropped
-----------------------------------------------------------------------------
(***************************************************************************)
(* The main thread: system management takes back the mode of a channel it  *)
(* has lost, and configures one the application asks it to.                *)
(***************************************************************************)
PortIsLost(ch) ==
    /\ pc["main"] = "serve" /\ told[ch] # "nothing"
    /\ told' = At(told, ch, "nothing")
    /\ cfg' = At(cfg, ch, "lost")
    /\ IF told[ch] = "lost"
       THEN dl_mode' = At(dl_mode, ch, "INACTIVE") /\ os_event_set(ch, {"MDH"})
       ELSE UNCHANGED <<dl_mode, events>>
    /\ UNCHANGED <<exclusive, chipVars, drvVars, triggered, mdh, mode_ch, pc, reg, left>>

\* iolink_pl_max14819_set_mode, up to the enabling of interrupts in
\* iolink_14819_set_SDCI, set_DI or set_DO, and the rest
SetMode(ch) ==
    /\ pc["main"] = "serve" /\ cfg[ch] = "asked" /\ Spend("starts")
    /\ cfg' = At(cfg, ch, "setting")
    /\ Lock("main")
    /\ estcom' = At(estcom, ch, FALSE) /\ com' = At(com, ch, FALSE)
    /\ fifo' = At(fifo, ch, "empty")
    /\ wurq_request' = At(wurq_request, ch, FALSE)
    /\ reg' = At(reg, "main", enabled)
    /\ Goto("main", "enable")
    /\ UNCHANGED <<interrupt, enabled, is_iolink, data_ready, dlVars, mode_ch, told>>

SetModeRest(ch) ==
    /\ pc["main"] = "enable" /\ cfg[ch] = "setting"
    /\ enabled' = IF mode_ch[ch] = "SDCI" THEN reg["main"] \cup Enables(ch)
                                          ELSE reg["main"] \ Enables(ch)
    /\ is_iolink' = At(is_iolink, ch, mode_ch[ch] = "SDCI")
    /\ Unlock("main") /\ Goto("main", "start")
    /\ UNCHANGED <<interrupt, estcom, fifo, com, wurq_request, data_ready, dlVars, mainVars, left>>

\* DL_SetMode_req
DL_SetMode_req(ch) ==
    /\ pc["main"] = "start" /\ cfg[ch] = "setting"
    /\ cfg' = At(cfg, ch, "configured")
    /\ dl_mode' = At(dl_mode, ch, IF mode_ch[ch] = "SDCI" THEN "STARTUP" ELSE "INACTIVE")
    /\ os_event_set(ch, {"MDH"})
    /\ Goto("main", "serve")
    /\ UNCHANGED <<exclusive, chipVars, drvVars, triggered, mdh, mode_ch, told, reg, left>>

MainThread ==
    /\ \E ch \in Channels :
          PortIsLost(ch) \/ SetMode(ch) \/ SetModeRest(ch) \/ DL_SetMode_req(ch)
    /\ UNCHANGED dropped
-----------------------------------------------------------------------------
(***************************************************************************)
(* The handler: before a lost port is configured again its data link is    *)
(* reset, while the thread of the channel goes on.  The events it was      *)
(* woken by are dropped; data_ready, which is the driver's, is kept.       *)
(***************************************************************************)
ResetHandlers(ch) ==
    /\ cfg[ch] = "lost"
    /\ cfg' = At(cfg, ch, "resetting")
    /\ mdh' = At(mdh, ch, "IDLE_0") /\ dl_mode' = At(dl_mode, ch, "INACTIVE")
    /\ UNCHANGED <<exclusive, chipVars, drvVars, events, triggered, mode_ch, told, dropped, pc,
                   reg, left>>

\* From iolink_pl_get_cycletime on
ResetEvents(ch) ==
    /\ cfg[ch] = "resetting" /\ exclusive = "free"
    /\ cfg' = At(cfg, ch, "asked")
    /\ triggered' = At(triggered, ch, {})
    /\ dropped' = IF "RXRDY" \in triggered[ch] THEN dropped \cup {ch} ELSE dropped
    /\ UNCHANGED <<exclusive, chipVars, drvVars, events, mdh, dl_mode, mode_ch, told, pc, reg, left>>

iolink_dl_reset == \E ch \in Channels : ResetHandlers(ch) \/ ResetEvents(ch)
-----------------------------------------------------------------------------
(***************************************************************************)
(* The thread that polls the interrupt line, the server, and the chip.     *)
(***************************************************************************)
\* Mutant: the interrupt wakes the thread of one channel.
IrqThread_OneChannel ==
    /\ LineIsLow
    /\ os_event_set(CHOOSE ch \in Channels : TRUE, {"PL"})
    /\ UNCHANGED <<exclusive, chipVars, drvVars, triggered, mdh, dl_mode, mainVars,
                   dropped, pc, reg, left>>

\* irq_thread and iolink_14819_isr
IrqThread ==
    /\ LineIsLow
    /\ events' = [ch \in Channels |-> events[ch] \cup {"PL"}]
    /\ UNCHANGED <<exclusive, chipVars, drvVars, triggered, mdh, dl_mode, mainVars,
                   dropped, pc, reg, left>>

\* set_power, which sleeps in between, set_led, get_status and get_reg_status
ServerCalls ==
    /\ Lock("server")
    /\ UNCHANGED <<chipVars, drvVars, dlVars, mainVars,
                   dropped, pc, reg, left>>

ServerReturns ==
    /\ exclusive = "server" /\ exclusive' = "free"
    /\ UNCHANGED <<chipVars, drvVars, dlVars, mainVars,
                   dropped, pc, reg, left>>

\* The wake-up takes longer than a data link thread needs for its events.
WakeUpEnds(ch) ==
    /\ estcom[ch] /\ "MDH" \notin events[ch] \cup triggered[ch]
    /\ estcom' = At(estcom, ch, FALSE)
    /\ \E answered \in BOOLEAN : com' = At(com, ch, answered)
    /\ interrupt' = interrupt \cup {WURQ}
    /\ UNCHANGED <<exclusive, enabled, fifo, drvVars, dlVars, mainVars,
                   dropped, pc, reg, left>>

Reply(ch) ==
    /\ com[ch] /\ fifo[ch] # "mixed" /\ Spend("replies")
    /\ fifo' = At(fifo, ch, IF fifo[ch] = "empty" THEN "one" ELSE "mixed")
    /\ interrupt' = interrupt \cup {RxDataRdy(ch)}
    /\ UNCHANGED <<exclusive, enabled, estcom, com, drvVars, dlVars, mainVars, dropped, pc, reg>>

ReceiveError(ch) ==
    /\ com[ch] /\ Spend("replies")
    /\ interrupt' = interrupt \cup {RxErr(ch)}
    /\ UNCHANGED <<exclusive, enabled, estcom, fifo, com, drvVars, dlVars, mainVars, dropped, pc, reg>>

Chip == \E ch \in Channels : WakeUpEnds(ch) \/ Reply(ch) \/ ReceiveError(ch)

Next ==
    \/ \E ch \in Channels : DlThread(ch)
    \/ MainThread \/ iolink_dl_reset \/ IrqThread \/ ServerCalls \/ ServerReturns \/ Chip

Spec == Init /\ [][Next]_vars

\* A data link thread that waits for a mutex gets it in the end; the main thread
\* goes on, the line is polled, the server does not sleep for ever.
FairSpec ==
    /\ Spec
    /\ \A ch \in Channels : SF_vars(DlThread(ch))
    /\ WF_vars(MainThread) /\ WF_vars(IrqThread) /\ WF_vars(ServerReturns)
-----------------------------------------------------------------------------
\* A reading of the interrupts that is not dispatched yet holds the bit.
Held(bit) == \E t \in Channels : pc[t] = "dispatch" /\ bit \in reg[t]

\* A whole reply in the FIFO is never overlooked: its interrupt is pending, is
\* being dispatched by whichever channel read the register, or the thread of
\* the channel has been told (pl_handler, get_data).
WholeReplyIsNoticed ==
    \A ch \in Channels :
       fifo[ch] = "one" => RxDataRdy(ch) \in interrupt \/ Held(RxDataRdy(ch)) \/ data_ready[ch]

\* data_ready, which no restart of a channel resets and which silences every
\* further RXRDY, is only set while the thread of the channel still has to
\* fetch the data.  The one thing that leaves it set with nobody to fetch is
\* the reset of a lost port that drops the RXRDY of a late reply
\* (iolink_dl_reset against dl_main): that silences the channel for good.
DataReadyIsDue ==
    \A ch \in Channels :
       data_ready[ch] => \/ "RXRDY" \in events[ch] \cup triggered[ch]
                         \/ pc[ch] \in {"level", "burst"}
                         \/ ch \in dropped

\* The mode handler, which has no time-out in ESTCOM_1, only waits for a
\* wake-up that is under way in the chip, or whose end is still to be told to
\* the channel, though both channels share its interrupt.
WakeUpIsDue ==
    \A ch \in Channels :
       mdh[ch] = "ESTCOM_1" =>
          \/ wurq_request[ch] /\ (estcom[ch] \/ WURQ \in interrupt \/ Held(WURQ))
          \/ "WURQ" \in events[ch] \cup triggered[ch]

\* The refusal of a wake-up in idle0 ("TODO FIXME: handle this!") is not met
\* by a port that is configured anew only when it was lost.
WakeUpIsNotRefused ==
    \A ch \in Channels : WantsWakeUp(ch) /\ "MDH" \in triggered[ch] /\ pc[ch] = "serve"
                          => ~wurq_request[ch] \/ "WURQ" \in triggered[ch]

\* The interrupts of a channel are enabled exactly while it is in SDCI, and
\* that of the wake-up while one is under way, whoever else writes the
\* register both channels share.
EnablesMatchMode ==
    exclusive \in {"free", "server"} =>
       \A ch \in Channels : /\ enabled \cap Enables(ch) = IF is_iolink[ch] THEN Enables(ch) ELSE {}
                            /\ wurq_request[ch] => WURQ \in enabled

\* A reply is fetched or found spoilt, with the other channel in SDCI or not,
\* lost and reset or not, unless a reset dropped its own announcement or that
\* of an earlier reply of the channel.
ReplyIsFetched ==
    \A ch \in Channels : fifo[ch] = "one" ~> fifo[ch] # "one" \/ ch \in dropped

=============================================================================
