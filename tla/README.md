# Verification of the iol-hat IO-Link master

The repository is the software of a Raspberry Pi HAT with two IO-Link master ports: a
master stack in C (`src/src-master-application/ilink`, in the terms of the IO-Link
specification: data link, application layer, system management, master applications),
an OS abstraction (`iol_osal`), and an application in C++ that starts the ports and
serves them over TCP (`src`). This directory holds TLA+ modules of the stack, TLC
configurations that check them on small instances, and TLAPS proofs. Paths below are
relative to `src/src-master-application`.

To run: `tlc -workers 2 -config PortStack_port_startup.cfg MCPortStack` and likewise for
the other configurations; `tlapm JobPoolProofs.tla` and likewise for the other `...Proofs`.

## The system

### Threads

| thread | code | does |
| --- | --- | --- |
| main | `iolink_main` (`ilink/iolink_main.c`) | takes jobs from one FIFO mailbox and runs their callbacks: everything of AL, SM, CM, DS and ODE |
| port, one per port | `dl_main` (`ilink/iolink_dl.c`) | waits for event bits and runs the data link handlers |
| interrupt | `irq_thread` (`iol_osal/osal_irq.c`) | sets the event bit of the transceiver |
| timers | `os_timer_thread` (`iol_osal/osal.c`) | set event bits |
| handler | `iolink_handler` (`src/iolink_handler.cc`) | configures the ports, starts them again after a loss |
| TCP server, status | `runServer`, `runStatus` | serve clients, show the state |

The threads meet in three places. A *job* is fetched from a pool, filled in and posted
to the mailbox of the main thread; it is the only way up the stack. *Event bits* wake
the thread of a port. And the main thread, as well as callers of the SMI functions,
*call the data link layer directly*: `DL_Read_req` or `DL_SetMode_req` write the state
that the thread of the port is working on.

### Components, their state, what makes them correct

| component | state | operations | what is hard | correct when |
| --- | --- | --- | --- | --- |
| job pools (`iolink_main.c`) | two pools of free jobs, the mailbox | fetch, post, execute, return | two pools, chosen by type at the end; a mailbox with exactly one slot per job; abandoned requests; shutdown | no job is twice or nowhere, each returns to its pool, no post or fetch fails |
| data link (`iolink_dl.c`) | `iolink_dl_t`: mode, message, OD, ISDU, command and event handlers, timer | `DL_*_req`, event bits, timeouts | six nested state machines, called by two threads; retries against timers against replies | every service is confirmed once, a loss is noticed, no service is pushed out |
| transceiver driver (`iolink_max14819_pl.c`, `iolink_pl.c`) | enables, wake-up asked for, data ready, per channel | wake-up, set_mode, interrupt, get_data | two channels share one chip, one interrupt register that reading clears, one register of enables | no reply and no end of a wake-up is overlooked |
| system management (`iolink_sm.c`) | state of 16, configured and real parameters | start-up, checks, mode changes | answers without identification; states that ignore or refuse events | only a matching device gets through; a matching one does; no state is stuck |
| application layer (`iolink_al.c`) | service under way and its owner; event set | read, write, events | one service for SM, DS and users | every request is answered once, and its owner is |
| configuration manager (`iolink_cm.c`) | state, configuration, port status | port configuration, port events | tells three other components what to do, and ignores what it cannot use | the status is true, storage and users never have the device together |
| data storage (`iolink_ds.c`) | state of 18, stored set, flags | upload, download | ten ways to fail in the middle | always ready or faulty; an active port has its parameters |
| events (`iolink_al.c`) | set under collection, set reported | indication, answer | one job per event, while the device may report the next set | what is reported is one set of the device |
| on-request data exchange (`iolink_ode.c`) | service or batch in progress | SMI services, start and stop | stopped in the middle of a service | one service at a time; the exchange never stays blocked |
| process data (`iolink_pde.c`, `iolink_dl.c`, `iolink_al.c`, `iolink_port.cc`) | five buffers, three mutexes | copies between four threads | some buffers have no mutex; mutexes are held while a job is waited for | outputs are whole and the last one arrives, both ways |
| OS abstraction (`iol_osal`) | mutexes, event flags, timers, mailboxes | | one condition variable per event object | no lost wake-up |
| port handler (`iolink_handler.cc`) | state of the port, events, retry timer | configure, restart, wait for confirmations | late confirmations, timer against events | a lost port is started again, and no other |
| server and SMI wrappers (`server.cc`, `iolink_smi.cc`) | command of each port | process data, parameters | shares event object and driver with the stack | requests neither mix nor hang |

`PROJECT.json` lists the components with what is and is not modelled, and the hazards
with the line where each bites.

## The modules

| module | models | built on |
| --- | --- | --- |
| `JobPool` | pools, mailbox, main loop and shutdown of `iolink_main.c` | |
| `Transceiver` | the driver with both channels of a chip, under its callers | |
| `DataLink` | `iolink_dl.c`, and the transceiver as the data link sees it | |
| `ApplicationLayer` | on-request part of `iolink_al.c` | `DataLink` |
| `DeviceEvents` | event part of `iolink_al.c`, and the uploads it starts | `DataStorage` |
| `OnRequestExchange` | `iolink_ode.c` | `ApplicationLayer` |
| `SystemManagement` | `iolink_sm.c` | `ApplicationLayer` |
| `DataStorage` | `iolink_ds.c` | `ApplicationLayer` |
| `ConfigurationManager` | `iolink_cm.c` | `SystemManagement`, `DeviceEvents`, `OnRequestExchange` |
| `PortStack` | one port: its threads, its users, the line and the device; the properties | `ConfigurationManager`, `PortLifecycle` |
| `PortLifecycle` | abstract: what the application is promised of a port | |
| `ProcessData` | process data from the device to the TCP client and back | |
| `Application` | handler thread, retry timer and a client above the stack | |
| `JobPoolProofs`, `TransceiverProofs`, `ProcessDataProofs`, `ApplicationProofs`, `PortLifecycleProofs` | theorems | the module each is named for, `TLAPS` |
| `DataLinkProofs` | what the operators of the data link layer keep, one lemma for each | `DataLink`, `TLAPS` |
| `LayerProofs` | the same for the operators of the layers above | `DataLinkProofs`, `ConfigurationManager` |
| `PortStackProofs` | the steps of `PortStack`, its inductive invariants and theorems | `LayerProofs`, `PortStack` |
| `MC...` | instances for TLC | |

`PortStack` composes the control of all layers of one port. Three questions cut across
it and need finer steps than it has, so each has a module of its own, at the grain of its
question: `ProcessData` (copies octet by octet, under mutexes), `Transceiver` (register
accesses, two ports), `Application` (condition variables and time-outs). Each takes from
the rest what that promises: `Application` the port status of `PortLifecycle`, `ProcessData`
a link that comes up and is lost, `Transceiver` a data link thread that wakes, reads and
sends.

### How the layers are written

The C code keeps the state of a port in one struct per layer and its handlers call each
other as functions, up to five deep (a reply wakes the message handler, which triggers
the OD handler, which calls the ISDU handler, which posts a confirmation). The modules
keep that shape. A handler is an operator that takes the *context* `p` of a port (a
record of the layers, the mailbox and the event bits) and returns the context after the
call; a callback that calls three functions is the composition of three operators.
`PortStack` holds the variables and has one action per *event bit*, per *job type*, per
operation of the application and per move of the environment: `Becomes(Handler(Port))`.
Names are those of the code. The transition tables of SM, CM and DS are sets of rows, as
in the code, with the states renamed to their literals.

Abstracted, because no property depends on them: octets and lengths of messages (a
message is known by its kind, a reply by whether it is good, its event flag, the kind
of ISDU answer and of StatusCode); runs of registers read or written one after the other
(the first and the last stand for all); the identity of a device (what it *differs* in
from the one configured); the contents of a stored parameter set (whose it is, whether
it is complete).

Two steps are coarser than the code. An event bit is handled, and a job is executed, in
one step each, although the main thread may run a callback while the thread of the port
is in the middle of a handler: races of single fields of `iolink_dl_t` between them are
not seen. The order of bits *within* one wake-up, and jobs and restarts between any two
of them, are. And a job is taken and given back in one step in `PortStack`; what the
pools do is the subject of `JobPool`.

### JobPool

Variables: `mbox`, `mbox_avail`, `mbox_api_avail` as queues, the job each thread holds,
the job the main thread runs, who waits for a confirmation. Actions: the two kinds of
fetch (`iolink_fetch_avail_job` asserts that there is a job, `iolink_post_job_pd_event`
waits for one), posts, the main loop with callbacks that post jobs of their own, the
return to the pool chosen by type, requests given up, and `iolink_m_deinit`. A failed
assertion ends the process, and `status` names it.

### PortStack

*Threads.* `DlWait` fetches the event bits; `DlRxReady`, `DlRxError`, `DlWakeUp`,
`DlMode`, `DlMessage` and `DlTimeout` handle them in the order of `dl_main`.
`Main...` are the callbacks by type of job.
*Above.* `Configure` posts a port configuration, `Restart` is the handler thread after a
NO_DEV event (it resets the data link layer first, whatever the thread of the port is
doing), `Access` a device read, write or batch by a user, in the states of the port that
`AccessAt` names, `Control` a change of output validity on the caller's thread.
*Around.* `DeviceAnswers`, `NoAnswer` and `LineError` end a message, `WakeUpEnds` the
wake-up, `TimerFires` and `IsduTimeElapses` are time, `Unplug`, `Plug` and `RaiseEvent`
the device. The device is external: it is modelled as far as the stack can tell.

### ProcessData

One action is one step of one thread between two points where another can come in: half
of a copy, a mutex taken or given back, a job posted or taken. The data link thread goes
`Receive` (octets of a reply into `rxbuffer`), `InputTransport` (into `pdin_data`, under
`mtx_pdin`, waiting for a job with the mutex held), `PD_req` (the output into the next
message, under `mtx`). The main thread runs `PD_cb`: event first, copy afterwards, no
mutex. The handler thread runs the cycle of `generic_run`: `RunPdOut`, `RunPdIn` with
`Confirm` and `RunTake`, `RunPdInOut` with two mutexes at once, all under the mutex of the
command. The server writes the command (`ServerRequest`, `ServerCopy`) or, if the port is
not running, accesses it itself: it asks for the input (`ServerSioIn`, `ServerSioInRest`) and,
if there is none, gives one octet of output (`ServerSioOut`; what lies behind that octet in
the argument block is `Garbage`). `Lose`, `MainComlost`, `HandleComlost` (with the reset of the
data link, which clears the output without its mutex), `Operate`, `MainOperate` and
`HandlePortEvent` are a loss and the restart, of which every thread learns at a time of its own.

### Application

`app_event` is set by main thread, timer and handler and taken by the handler as a whole
(`HandlerWait`), which works `todo` off in the order of the code. `os_event_set` and
`os_event_clr` wake one of the threads that sleep at the one condition variable of the
port, whichever flag it waits for; a thread that wakes without its flag sleeps again; a
wait may end without the flag (`Timeout`, and `gaveUp` remembers which confirmation was awaited). `ConfigPort`,
`StartPort`, `HandleComlost` and the two halves of the timer callback are the recovery.
The stack is reduced to its port status and to jobs; a device answers late or never.

### Transceiver

The thread of a channel waits, reads and clears the interrupt register for *both*
channels (`ReadInterrupt`), tells each what concerns it (`Dispatch`), then fetches a reply in
three register accesses (`ReadLength`, `ReadLevel`, `ReadBurst`). `InitSdci` and `EstCom` are
the wake-up, `SetMode` and `SetModeRest` the main thread in the read-change-write of the
enables. `iolink_dl_reset` is the handler thread before a lost port is configured again, in two
steps (`ResetHandlers`, `ResetEvents`), whatever the thread of the channel is doing: it clears
the mode handler and the event bits that thread has fetched and not handled yet, but not
`data_ready`, which is the driver's. The chip acts between any two accesses: `Reply` (a second one before the first is
fetched makes the FIFO `mixed`), `ReceiveError`, `WakeUpEnds`. `ServerCalls` is the server,
which calls the driver past the shim and sleeps with its mutex.

## The runs

Every run ends in about two minutes or less with two workers. Deadlock is not checked: a port
that has spent its budget, or a process whose assertion has failed, stops.

| run | question | distinct states |
| --- | --- | --- |
| `jobpool_shared` | do threads share the pools safely, with an abandoned request and a shutdown? | 126 330 |
| `port_startup` | does every kind of device under every configuration settle in the right status, for good, users reading and writing meanwhile? | 234 093 |
| `port_disturbed` | with one error, one disconnection and one restart at any moment: does every answer find who awaits it, is every service and batch answered once or stopped, is the restarted port configured, is the status true? | 208 185 |
| `port_swap_or_busy` | the device is exchanged twice at any moment: does only a matching one get through, is none blamed wrongly? Or a service, two sets of events and a validity change compete in an interleaved sequence: is a service pushed out, is a set of events torn? | 2 021 574 |
| `port_reconfigured` | configured twice at any moment, with backup or without, any answers by the device, disconnected: is `PortLifecycle` implemented, and are the parameters there when the port is active? | 1 388 635 |
| `process_data` | four threads, three mutexes, two jobs and one loss: are outputs whole, do the last output and input arrive, does the port recover, is a mutex kept? | 426 623 |
| `application` | three losses, two requests, late answers: is every lost port, and no other, started again, and is a running port operational? | 318 274 |
| `transceiver` | two channels, each in any mode, share interrupts, enables and line: is a reply or a wake-up overlooked? | 431 302 |

What the properties say, in the order of the runs:

- `NoJobTwice`, `NoJobLost`, `PoolsKeepTheirJobs`: jobs are conserved.
  `PostFailsOnlyWhileExiting`, `ApiFetchNeverFails`: which of the assertions of
  `iolink_main.c` cannot fail, and when. `PostedJobsComeBack`: liveness of the loop.
- `StartUpSettles`: in the end, and for ever, the port is operational, or reports the
  very fault the device has (`Verdict` says which).
- `NoFailure`: no callback meets an assertion. `OneStartUpService`: at most one start-up
  service or confirmation exists, since confirmations do not say what they confirm.
  `BlockedForOneService`: the exchange is blocked exactly as long as one service of a user
  is in exactly one place, for the same reason. `ReconfigurationIsTaken`: the states that
  refuse a configuration without an answer are left before it comes.
  `ActiveMeansOperate`: when all is quiet, the status is true.
- `AnsweredOrStopped` (of every step): a user who waits loses the prospect of an answer only
  by the stop of the exchange. `ExchangeIsFreed`, `LossIsNoticed`: liveness.
- `OnlyMatchingDevices`, `FaultsAreTrue`: the verdict is about the device that is there.
- `ServiceIsDue`: whoever waits for a service has one under way below.
  `EventSetsAreWhole`: the application is told of a set of events the device has reported.
- `LifecycleKept`: `PortLifecycle!Spec` with `status <- cm.status`, `storage <- Stores`.
  `StorageHasThePort`, `StoredWhenActive`: data storage runs only while the port waits
  for it, and has done its work when the port is active.
- `OutputsNeverMix`: the octets of a message come from one request. `OutputsSettle`: the
  device has the output of the client's last request in the end, through losses, restarts
  (which clear the output, `iolink_dl_reset`) and races; only a request the server has
  answered with input alone loses its output (`cleared`, see the deviations), and then the
  device has none, not an older one. `InputsSettle`: what the device sent last is what the
  client gets; an input may be torn while it changes, because `PD_cb` copies without a
  mutex, but does not stay so. `PortRecovers`, `LockComesBack`: liveness.
- `LossIsPending`, `RunningMeansOperating`, `OnlyLostPortsAreRestarted`: what the flags of
  three threads say together. `PortRuns`, `LostPortIsTriedAgain`: liveness. `gaveUp` holds the
  confirmations the handler has stopped waiting for. `RunningMeansOperating` and `PortRuns`
  exempt one of them, the port status (see the deviations); a read or write that was given up,
  and a wake-up that went to the wrong thread, are not exempt. `HandlerGoesOn`: whatever is
  confirmed late or never, and whoever is woken, the handler comes back to its loop.
- `WholeReplyIsNoticed`, `DataReadyIsDue`, `WakeUpIsDue`, `WakeUpIsNotRefused`: every state in
  which a channel waits has an interrupt, a reading of it or an event bit that ends it.
  `EnablesMatchMode`: the shared register of enables. `ReplyIsFetched`: liveness.
  `DataReadyIsDue` and `ReplyIsFetched` exempt a channel whose announced reply a reset has
  dropped (`dropped`, see the deviations), and nothing else.

### Bounds, and why they are enough

- One port. The ports share only the job pools (`JobPool` has two DL threads), a chip
  mutex, and one `static` variable (a hazard, not modelled).
- Two jobs and three application jobs against 40 and 10: the pools are full and empty
  with fewer steps, and the theorems hold for any number.
- `MaxRetry` is 1 instead of 2: one retry that succeeds, one that fails, and giving up all
  happen, and one `LineError` or a disconnection drives each message through them.
- A scenario (`Scenarios`) is the device that is there at first and a budget: how often the
  user, the line and the device act on the port. One error, one restart and one or two disconnections reach every state in which each can strike; their
  product is what makes the runs large. With *two* restarts `PortStack` reaches the
  assertion of `sm_DL_Read_cnf_cb`, as it does with a second configuration (see the
  deviations below).
- `port_swap_or_busy` has two scenarios, which do not mix: exchanges without services, and
  services and events without exchanges. In each the port is configured once: with two
  configurations the system management may have dropped one that the configuration manager
  goes by, and `OnlyMatchingDevices` does not hold. Among its devices is one whose serial
  number is longer than there is room for (`overlong`; `port_startup` leaves it out, since it
  is started again for ever), and among its services a write that
  the application layer refuses (`PARAM_0`).
- `port_reconfigured` has no device events; what an event that asks for an upload does to data
  storage is among the deviations below.
- An ISDU of one or two segments and an answer of one or two messages: the first segment,
  one in the middle and the last differ, a fourth would not. Events in sets of one and two,
  one device parameter: likewise. Users access direct parameters only in `port_startup` and
  `port_swap_or_busy`, where the line of a port in operation is not disturbed: a loss in OPERATE
  clears such a service without a confirmation (`ilink/iolink_dl.c:759`), so `ExchangeIsFreed`
  is checked with ISDU and batches.
- Liveness runs have no device events (the run `event_in_preoperate` shows why).
- `MaxJobs` bounds the mailbox: with that many jobs waiting, the thread of the port goes
  on only after the main thread took one. The bound is never reached: every run has the
  same number of states with 20 or more.
- `process_data`: two octets are the fewest a copy can be torn between; an input that changes
  once and two requests show each race between an old and a new value; one loss, because a
  second finds the threads where the first has left them. Two jobs: one that the main
  thread runs and one that waits, so that the pool is empty.
- `application`: three losses are one more than the recovery can have under way at once, the
  timer and the retry; two requests leave one late confirmation for another.
- `transceiver`: both channels; two configurations (a start and a restart, with the reset of
  the data link before it), two replies (so that a second one meets the first in the FIFO).

### Fairness

`FairSpec` assumes weak fairness of: both threads, which run under a real-time policy and
are never blocked for good; the timers; the end of a wake-up request; the device, which
answers a message as long as it is connected and awake; the chip, which reports that
nothing has answered; the time limit of an ISDU; the restart by the handler thread. It
assumes none of the user, of line errors, or of devices coming and going. The two threads
and the restart have their fairness written out with the guard of the action, which is
equivalent since these actions are enabled, and change something, exactly when the guard
holds. `IsduTimeElapses` may happen only with devices that may be busy, since a device
that answers is faster than the limit. In `JobPool` the main thread is fair, and a DL
thread that has filled in a job posts it.

`ProcessData` and `Transceiver` assume *strong* fairness of the threads that wait for a mutex
(the mutexes of `osal.c` inherit priority, and no thread keeps one for ever; a thread that
keeps asking gets it), and weak fairness of the others; `ProcessData` also of a device that
answers and of a port that starts up, none of the client or of losses. `Transceiver` assumes
nothing of the chip and of the reset: a reply that has come is fetched whatever they do. In
`Application` the threads, the timer and the stack are weakly fair; a device need not answer
a request.

Time is assumed in three places, as a guard. A wait of the handler (one second) or the server
(ten) times out only when no thread that is awake can still do anything for it
(`Timeout`); the retry timer (half a second) expires only after main and handler thread have
dealt with a second report of the same loss (`TimerExpires`); a wake-up of the chip does not
end before the thread that asked for it has left the mode handler (`WakeUpEnds`).

### Where the code differs from what it says

| run | property | what TLC finds |
| --- | --- | --- |
| `jobpool_exhausted` | `FetchNeverFails` | process data may use up the pool for callbacks; the next fetch asserts |
| `comlost_in_storage` | `ComlostIsHandled` | a COMLOST ignored because data storage will report it, which it never does as COMLOST |
| `event_in_preoperate` | `EventIsFetched` | an event flag that comes with the reply that ends an on-request exchange of PREOPERATE leaves the message handler where nothing wakes it up again |
| `comlost_in_sernum` | `SerialNumberIsDue` | a V1.0 device lost while its serial number is read: `checkSerNum` ignores the loss because the failed confirmation is to follow, and that is turned into the event it ignores (`ilink/iolink_sm.c:1721`) |

Nine more deviations. The first five are known from runs with other bounds than those kept
here, the others are what a property of a run exempts or a bound keeps out:

- The attempt to start again after a loss in `RestartDevice` is dropped without an answer
  (`ilink/iolink_sm.c:1951`): `ReconfigurationIsTaken` fails.
- A confirmation left over from before a second configuration derails the new start-up
  into an assertion (`ilink/iolink_sm.c:2128`): `NoFailure` fails.
- A device that asks for an upload (an event) just before the port is configured anew: data
  storage begins the upload, and drops the order to delete the old set because it is not
  at rest (`ilink/iolink_ds.c:646`, `:654` and `:664` are its only rows for it). The port
  becomes active with a set that is not that of the configured device:
  `StoredWhenActive` fails. An upload of this kind also runs while the port is active, so
  that `StorageHasThePort` and `LifecycleKept` are about devices that do not ask for one.
- A port that is switched off and configured again before its system management has come to it:
  when the new start-up has got to data storage, the report of the switching off arrives and
  sets the status to "deactivated", but not the state of the configuration manager
  (`ilink/iolink_cm.c:817`). The parameters are transferred, and the port becomes operational,
  from a port that is deactivated: `LifecycleKept` fails, with four configurations (backup
  twice, off, manual) arriving in `checkSerNum` while a confirmation waits.
- A loss in OPERATE clears the on-request service of the message handler without a
  confirmation (`ilink/iolink_dl.c:759`, called from `:1324` and `:1349`): a user's access to a
  direct parameter is never answered, and the exchange stays blocked until the port is
  configured anew. `ExchangeIsFreed` fails with direct parameters.
- "If IO-Link is not running we are in SIO mode" (`src/server.cc:281`): a port that is starting
  is taken for one in SIO mode. The one octet of the server can become the output of a port
  that is just operational; `OutputsNeverMix` allows for it. And a request that is answered
  with the input the port had before has its output cleared and never passed on:
  `OutputsSettle` says so (`cleared`).
- `iolink_dl_reset` (`ilink/iolink_dl.c:3606`), on the handler thread and without the lock of
  the driver, clears the events the thread of the port has fetched and not yet handled. If the
  announcement of a late reply is among them the reply is never fetched, `data_ready`, which
  belongs to the driver and is not reset, stays set, and no reply of that channel is announced
  again: the port cannot start up any more. `DataReadyIsDue` and `ReplyIsFetched` exempt
  exactly this (`dropped`).
- A wake-up of `os_event_set` or `os_event_clr` may go to the thread that waits for another
  flag (`iol_osal/osal.c:306`): a thread may sleep on with its flag set until its time is
  over, and a request or a start fail that had been confirmed. `HandlerGoesOn` and
  `LostPortIsTriedAgain` hold all the same.
- A port status that arrives after the handler has given up waiting for it is taken for that of
  the next start (`src/iolink_handler.cc:829`): `RunningMeansOperating` and `PortRuns` exempt
  exactly the runs in which that wait was given up.

`port_disturbed` has a V1.1 device that matches and one configuration, and
`ReconfigurationIsTaken` and `NoFailure` hold there.

## The proofs

Every theorem holds for all values of the constants, under the module's assumption about them.
A proof's module states its inductive invariant; TLC has checked each on the instance of its
run before.

`JobPoolProofs`, for any number of threads and jobs (`JobPoolAssumption`: finite, disjoint
sets): `TypeCorrect`, `JobsConserved` (`NoJobTwice`, and `NoJobLost`, which no run needs any
more), `PoolsSeparate` (`PoolsKeepTheirJobs`) and `PostNeverFails`
(`PostFailsOnlyWhileExiting`), and `ApiPoolSuffices` (`ApiFetchNeverFails`). The first four
follow from one inductive invariant, `IInv`; none of them is inductive alone. That a job returns
to its own pool depends on its type, written when it was posted, still telling which pool it
came from while it is in the mailbox and while the main thread runs it; so `IInv` says where
each job may be *and* what its type then is. That a post finds a slot is a counting argument:
the mailbox has a slot for every job, the jobs in it are distinct, and the one being posted is
not among them (`RoomForOneMore`, from the library's facts about cardinalities); so it needs
`NoJobTwice`, which in turn needs that a post does not fail. `iolink_m_deinit` breaks the count
with a job that is in neither pool, which is the exception in the theorem. `ApiPoolSuffices` has
an assumption of its own, `ApiJobsSuffice`: there are more jobs for requests than threads that
make them and requests given up together. Its invariant (`ApiInv`) accounts for every job: it is
in the pool, kept by a thread or run by the main thread, or given up, and a thread keeps at most
one. The pool of the code has 10 jobs, so the assertion at the fetch is out of reach until
several requests have been given up unanswered.

`ProcessDataProofs`, for any number of inputs, requests, losses and jobs:
`OutputsAreWhole` (`OutputsNeverMix`) and `InputsAreWhole` (`InputBlocksAreWhole`: what
`AL_GetInput_req` returns is the input of one reply). `Locking` says who holds which mutex at
which step; `Output` and `Input` say how far a half copied buffer agrees with its source. Only
together are they inductive: the source must not change under the copy, because whoever
writes it holds the same mutex. The invariant has nothing to say of `pdin`, which `PD_cb`
writes without one.

`ApplicationProofs`, for any number of losses and requests: `LossesArePending`,
`OnlyTheLostAreRestarted` and `RunningPortsOperate`. `Recovery` says where in the round of
configuring, starting, running and losing each flag of the three threads can be set; what
makes the difference is that all signs of a recovery exclude an event of the new start
(`Recovering`), which is what `OnlyLostPortsAreRestarted` rests on. `Status` adds, as long
as the handler has not given up waiting for a status, whose status it is going to look at.

`TransceiverProofs`, for any number of channels, starts and replies: `TypeCorrect`,
`EnablesHold`, `RepliesAreNoticed`, `DataReadyIsFetched`, `WakeUpsAreDue` and
`WakeUpsAreNotRefused`. The argument goes in stages: a thread inside the driver holds the mutex
(`Mutex`), so at most one reading of the interrupts is not dispatched and the enables read are
those still there (`Enabled`); from that the replies (`Noticed`); and one invariant per channel
that ties driver, mode handler, main thread and the reset together for the wake-ups (`WakeUp`),
which also needs that a port is configured anew only after it was told of its loss. The reset
is one of the steps: `DataReadyIsFetched` follows it through `iolink_dl_reset` against
`dl_main`, and finds the dropped announcement to be the only way to leave `data_ready` set.

`PortLifecycleProofs` proves `StorageAlone`, `LateSpec => []Exclusive` (and with it
`Spec => []Exclusive`, since a step in time is a late one: `InTimeIsLate`): while data storage
has the device the application does not, and the port is neither operational nor reported
faulty. The theorem says in one line what the order of the port's jobs is for. That `PortStack`
implements `Spec` is checked by the run `port_reconfigured`; that it implements `LateSpec`, and
keeps `Exclusive`, is proved for every instance without uploads (`StackLifecycle`,
`StackExclusive`).

`PortStackProofs` is about the port as a whole, for any devices, configurations, budgets,
answers and numbers of retries (`DataLinkAssumption`, `DataStorageAssumption` and
`PortStackAssumption`: types, at least one message for a request and its answer, and no more
than six events in a set, the size of `events` in the code):

- `StackTypes` (`TypeOK`): every variable, and every field of every job, has its type.
- `StackAnswers` (`AnsweredOrStopped`): a user who waits loses the prospect of an answer
  only by the stop of the exchange.
- `StackEvents` (`EventSetsAreWhole`): the application is told of whole sets of events.
- `StackStorage` (`StorageHasThePort`) and `StackBackup` (`StoredWhenActive`), for devices that
  raise no event asking for an upload: data storage has the device only while the port waits
  for it, and a port with backup is active only with the parameters of its device stored.
  The hypothesis, `NoUploads`, is a condition on `EventSets`, as in the run `port_reconfigured`;
  without it both are false of the code (see the deviations above).
- `StackExclusive` (`PortLifecycle!Exclusive`), for such devices: data storage and the
  application never have the device at the same time, and while data storage has it the
  port is neither operational nor reported faulty.
- `StackLifecycle` (`Lifecycle!LateSpec`), for such devices: every step of the port is a step of
  `PortLifecycle`, with reports that may be late, or changes nothing it speaks of.

The operators nest five deep, so the proof goes bottom up, with one lemma per operator of the
model and relations that compose instead of case distinctions that multiply.
`DataLinkProofs` has `DlStep(p, q)`: `q` is well typed, the layers above are as they were, and
the mailbox has got longer at its end (`Grows`), by jobs that users are not answered with and
by whole sets of events. It is transitive (`DlTwice`), so that the lemma about a handler
combines those of what it calls. `LayerProofs` does so for the layers above (`Still`, `Calm`,
`OdStep`), and the lemma `Steps` of `PortStackProofs` sorts every step of the port into nine
kinds, by what it does to users and events. Six invariants rest on them, each inductive
together with `StackOK` and those above it in the list:

- `StackOK`, the types, with what the callbacks rely on in the jobs;
- `UsersOK`: no more answers are `Expected`, from requests in the mailbox and the blocked
  exchange, than users wait. An inequality is what is inductive, since a stop takes a
  service away without an answer; and `user` must not fall below the answers that come;
- `EventsOK`: what is collected of a set and what of it is still in the mailbox make up
  one the device has reported, all sets behind it are whole, and there is a response in the
  mailbox exactly while a set that was told awaits it (`Collecting`). `EventSetsAreWhole`
  alone is far from inductive: a set is told steps after its events were posted, events may
  come while the response to the last set is under way, and they are then counted for
  nothing.

- `StorageInv`: the configuration manager and data storage only talk by jobs, so what one is
  allowed to do depends on what of the other is still in the mailbox. `Phase` says what may be
  there: while the manager waits (`DS_ParamManager`), either the order to start, behind all
  others, or nothing and data storage may be at work, or its one report; otherwise data
  storage is at rest with at most orders before it. `Prepared` follows the configuration
  through the mailbox: with a backup the last `DS_INIT` to come carries it, or it has been
  taken, and a set of another device has a `DS_DELETE` coming. `Backed` says that a report
  that all is done, and any state the manager reaches by it, stands for a stored set of the
  device configured. What each callback does to this is in `LayerProofs` (`Manages` of the
  manager; `Works`, `Worked` and `Rested` of data storage, whose chains of internal events
  are followed step by step), and for all other steps it is enough that they leave both
  alone and post no storage job (`Aside`, `Apart`).

- `GateIs`, for `StackExclusive`: the exchange is started and stopped by jobs that the
  configuration manager posts, so it may still be open when the manager has stopped it. But
  unless the port is active or faulty every `OD_START` that waits has an `OD_STOP` behind it, and
  so has an exchange that is open (`Shut`); and when the manager waits for data storage, no
  such job is left behind the order to start (`Locked`), so that it is executed with the
  exchange stopped. `Directs` says of each row of the manager's table what it posts and in
  which order; all other layers post neither (`GateJobs`, `Kept`).
- `Fits`, for `StackLifecycle`: while the manager waits for data storage or for the port to
  operate, its status is PREOP, or DEACTIVATED by a late report. `Carries` is the step of
  `PortLifecycle`, as a relation of two ports (`Promised`), so that the lemmas about the
  callbacks apply (`Directs`, `Works`, and `Tame` for those that leave the manager alone).
  That data storage and the exchange never have the device together is `NeverBoth`, which
  comes from `GateIs`.

Why `StackLifecycle` says `LateSpec`: two reports of the system management, a device that has
started up and a port that is switched off, carry no sign of which configuration they belong to.
Left over from an earlier one, they change the status of a port that has gone on, and the strict
promise (`LifecycleKept`) is false of the code (the fourth of the deviations above). `LateSpec` is
the promise with these steps in it, for every order of the jobs: a late report may make the port
PREOP before the application is shut out, and DEACTIVATED while the port is prepared or made
operational; that data storage starts only with the application shut out, that the port becomes
operational only from there and with data storage done, and that it is never reported faulty
meanwhile, is as in `Spec`.

TLC has checked `Collecting` on the instance of `port_swap_or_busy`, and by simulation with sets of three
events, and `StorageInv`, `GateIs` and `Fits` on that of `port_reconfigured`.

Only model-checked, and why:

- *What the budgets of the runs decide.* `NoFailure`, `OneStartUpService`,
  `ReconfigurationIsTaken`, `ServiceIsDue`, `FaultsAreTrue` and
  `OnlyMatchingDevices` hold for the disturbances their run allows and, as simulation with
  larger budgets shows, not for any: the confirmations of a start-up carry no sign of which
  start-up they belong to (see the deviations above). They would need an assumption that no
  state of the program justifies, so there is no theorem about them.
- `BlockedForOneService` and `ActiveMeansOperate`: no counterexample is known (82 million
  states simulated with larger constants), and no inductive invariant short of one that says of
  every state of six layers which jobs can be under way.
- That the refinement of `PortLifecycle` is strict (`LifecycleKept`, without late reports). It
  cannot be had in general (see the deviations); no counterexample is known as long as no
  configuration switches the port off, and a proof would need an invariant about the reports
  and confirmations of earlier configurations that are under way in any of the layers.
- Liveness.

## Not modelled, and why

- *Reduced*: messages to their kind (sizes, checksums, interleaved process data octets); the
  identity of a device to what differs; stored parameter sets to owner and validity, so
  that an upload interrupted in the middle (`ilink/iolink_ds.c:470`) is not told apart; the
  results of requests, so that one read may not be told from the one before
  (`src/iolink_smi.cc:119`), nor errors of one caller from another's
  (`src/iolink_handler.cc:312`).
- *Two ports*: they share the pools, the chip and its mutexes, which `JobPool` and `Transceiver`
  model, and one `static` variable (`ilink/iolink_sm.c:2043`), which nothing does.
- *Left out of modelled components*: quality and validity of input (`PDInStatus`), the history
  queue of process data and its command, the "buffer too small" branch of `get_data`, the
  TX FIFO and transmission errors (their interrupts are never enabled), supply, LEDs and
  chip status, `DS_Change` and `AL_Abort` (no callers), the semaphores of `osal`, its timer
  arithmetic (`iol_osal/osal.c:168` and `:552`: values no caller uses) and the condition
  variable of the mailbox (`:351`).
- *Races inside one handler* of `iolink_dl.c`: `DL_Write_Devicemode_req` against `DL_Control_req`
  (`ilink/iolink_dl.c:3251`), and the main thread inside a handler of the thread of the port.
- *Not state*: arithmetic of cycle times and lengths (`populate_valuelist`), SPI, files, logs, the
  status thread, start-up, third-party code and the examples.

## What could come next

1. Two ports over one set of pools and one `older_cycletime`.
2. Results of requests, and with them late answers to another request.
3. Finer steps of `iolink_dl.c` where the main thread calls into it.
