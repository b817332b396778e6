------------------------------ MODULE JobPool ------------------------------
(***************************************************************************)
(* The job pools of the master stack (ilink/iolink_main.c).                *)
(*                                                                         *)
(* Every event inside the stack travels as a job: a thread takes a free    *)
(* job from a pool, fills it in and posts it to the one mailbox that the   *)
(* main thread (iolink_main) serves; the main thread runs the callback of  *)
(* the job and gives it back to a pool.  There are two pools: mbox_avail   *)
(* for the stack itself (the main thread and the DL threads, one for each  *)
(* port) and mbox_api_avail for the threads of the application.  The main  *)
(* thread picks the pool a job goes back to from the TYPE of the job, not  *)
(* from the pool it came from.                                             *)
(*                                                                         *)
(* An assertion that fails ends the process: status names the assertion.   *)
(* Mailboxes are FIFO queues (os_mbox_t of iol_osal/osal.c).                *)
(***************************************************************************)
EXTENDS Naturals, Sequences, FiniteSets

CONSTANTS
    DlThread,     \* the dl_main threads, one for each port
    Client,       \* application threads: the handler and the TCP server
    Main,         \* the iolink_main thread
    Job,          \* master->job: the jobs of the stack
    ApiJob,       \* master->job_api: the jobs of the application threads
    ExitJob,      \* the job on the stack of iolink_m_deinit
    NoJob,
    MaxNested,    \* jobs that one callback on the main thread may post
    MaxTimeouts   \* requests that an application thread gives up waiting for

ASSUME JobPoolAssumption ==
    /\ IsFiniteSet(Job) /\ IsFiniteSet(ApiJob)
    /\ Job \cap ApiJob = {}
    /\ ExitJob \notin Job \cup ApiJob
    /\ NoJob \notin Job \cup ApiJob \cup {ExitJob}
    /\ Main \notin DlThread \cup Client
    /\ DlThread \cap Client = {}
    /\ MaxNested \in Nat
    /\ MaxTimeouts \in Nat

VARIABLES
    mbox,           \* jobs posted to the main thread
    mbox_avail,     \* free jobs of the stack
    mbox_api_avail, \* free jobs of the application threads
    type,           \* job->type of every job, by the case of the main loop
    held,           \* the job a thread has fetched and not posted yet
    pdin,           \* DL threads inside DL_PDInputTransport_ind (mtx_pdin locked)
    job,            \* the job iolink_main is running
    nested,         \* jobs the running callback has posted
    waits,          \* application threads waiting for a confirmation
    sent,           \* the job of such a thread, until the main thread takes it
    timeouts,       \* confirmations given up
    exiting,        \* iolink_m_deinit has been called
    status          \* "running", "exited", or the assertion that failed

vars == <<mbox, mbox_avail, mbox_api_avail, type, held, pdin, job, nested,
          waits, sent, timeouts, exiting, status>>

queues == <<mbox, mbox_avail, mbox_api_avail>>
clients == <<waits, sent, timeouts>>

Thread == DlThread \cup Client \cup {Main}
AnyJob == Job \cup ApiJob

\* Mutant: the mailbox has room for the jobs of the stack only.
Capacity_NoApi == Cardinality(Job)

Capacity == Cardinality(Job) + Cardinality(ApiJob)

\* The cases of the switch in iolink_main: a job of the stack, process data,
\* a job of the application threads, and a job that is in a pool.
JobType == {"NONE", "INTERNAL", "PD_EVENT", "SMI"}

Status == {"running", "exited",
           "assert_fetch", "assert_api_fetch", "assert_post", "assert_exit"}

\* A job queued in q.
In(j, q) == \E i \in DOMAIN q : q[i] = j

\* No job is queued twice in q.
Distinct(q) == \A i, k \in DOMAIN q : q[i] = q[k] => i = k

-----------------------------------------------------------------------------
\* Some order in which the loops of iolink_m_init fill a pool.
Listing(S) == CHOOSE q \in [1 .. Cardinality(S) -> S] :
                Distinct(q) /\ \A j \in S : In(j, q)

Init ==
    /\ mbox = << >>
    /\ mbox_avail = Listing(Job)
    /\ mbox_api_avail = Listing(ApiJob)
    /\ type = [j \in AnyJob |-> "NONE"]
    /\ held = [t \in Thread |-> NoJob]
    /\ pdin = {}
    /\ job = NoJob
    /\ nested = 0
    /\ waits = {}
    /\ sent = [c \in Client |-> NoJob]
    /\ timeouts = 0
    /\ exiting = FALSE
    /\ status = "running"

Running == status = "running"

\* Mutant: the newest message first.
Posted_Lifo(q, j) == <<j>> \o q

\* os_mbox_post and os_mbox_fetch when there is room and a message.
Posted(q, j) == Append(q, j)

\* Mutant: the read position does not move.
Fetched_NotAdvanced(q) == q

Fetched(q) == Tail(q)

\* os_mbox_post with timeout 0: a full mailbox refuses the message.
PostOrDrop(q, size, j) == IF Len(q) < size THEN Posted(q, j) ELSE q

-----------------------------------------------------------------------------
\* iolink_fetch_avail_job: never blocks, an empty pool ends the process.
FetchAvailJob(t) ==
    /\ held[t] = NoJob
    /\ IF mbox_avail = << >>
         THEN /\ status' = "assert_fetch"
              /\ UNCHANGED <<held, mbox_avail>>
         ELSE /\ held' = [held EXCEPT ![t] = Head(mbox_avail)]
              /\ mbox_avail' = Fetched(mbox_avail)
              /\ UNCHANGED status
    /\ UNCHANGED <<mbox, mbox_api_avail, type, pdin, job, clients, exiting>>

\* iolink_post_job_with_type_and_callback
PostJob(t, jobtype) ==
    /\ held[t] # NoJob
    /\ type' = [type EXCEPT ![held[t]] = jobtype]
    /\ IF Len(mbox) < Capacity
         THEN /\ mbox' = Posted(mbox, held[t])
              /\ held' = [held EXCEPT ![t] = NoJob]
              /\ UNCHANGED status
         ELSE /\ status' = "assert_post"
              /\ UNCHANGED <<mbox, held>>

\* A DL thread takes a job for a confirmation or an indication ...
DlFetch(d) ==
    /\ Running
    /\ d \notin pdin
    /\ FetchAvailJob(d)
    /\ UNCHANGED nested

\* ... or locks mtx_pdin to report new process data,
DlPdInput(d) ==
    /\ Running
    /\ d \notin pdin
    /\ held[d] = NoJob
    /\ pdin' = pdin \cup {d}
    /\ UNCHANGED <<queues, type, held, job, nested, clients, exiting, status>>

\* and then waits for a job as long as it takes (iolink_post_job_pd_event).
DlFetchPd(d) ==
    /\ Running
    /\ d \in pdin
    /\ held[d] = NoJob
    /\ mbox_avail # << >>
    /\ held' = [held EXCEPT ![d] = Head(mbox_avail)]
    /\ mbox_avail' = Fetched(mbox_avail)
    /\ UNCHANGED <<mbox, mbox_api_avail, type, pdin, job, nested, clients,
                   exiting, status>>

DlPost(d) ==
    /\ Running
    /\ PostJob(d, IF d \in pdin THEN "PD_EVENT" ELSE "INTERNAL")
    /\ pdin' = pdin \ {d}
    /\ UNCHANGED <<mbox_avail, mbox_api_avail, job, nested, clients, exiting>>

-----------------------------------------------------------------------------
\* iolink_fetch_avail_api_job, for a thread that waits for no confirmation.
ClientFetch(c) ==
    /\ Running
    /\ c \notin waits
    /\ held[c] = NoJob
    /\ IF mbox_api_avail = << >>
         THEN /\ status' = "assert_api_fetch"
              /\ UNCHANGED <<held, mbox_api_avail>>
         ELSE /\ held' = [held EXCEPT ![c] = Head(mbox_api_avail)]
              /\ mbox_api_avail' = Fetched(mbox_api_avail)
              /\ UNCHANGED status
    /\ UNCHANGED <<mbox, mbox_avail, type, pdin, job, nested, clients, exiting>>

\* The request is posted; the thread then waits in wait_for_cnf.
ClientPost(c) ==
    /\ Running
    /\ PostJob(c, "SMI")
    /\ waits' = waits \cup {c}
    /\ sent' = [sent EXCEPT ![c] = held[c]]
    /\ UNCHANGED <<mbox_avail, mbox_api_avail, pdin, job, nested, timeouts, exiting>>

\* Mutant: a request is confirmed before the main thread has taken its job.
Confirmable_Early(c) == c \in waits

Confirmable(c) == c \in waits /\ sent[c] = NoJob

\* The confirmation comes from the callback of the job, while the main thread
\* still has the job, or later (a service that goes to the device).
ClientConfirmed(c) ==
    /\ Running
    /\ Confirmable(c)
    /\ waits' = waits \ {c}
    /\ UNCHANGED <<queues, type, held, pdin, job, nested, sent, timeouts,
                   exiting, status>>

\* os_event_wait gives up: the job stays where it is.
ClientTimeout(c) ==
    /\ Running
    /\ c \in waits
    /\ timeouts < MaxTimeouts
    /\ waits' = waits \ {c}
    /\ sent' = [sent EXCEPT ![c] = NoJob]
    /\ timeouts' = timeouts + 1
    /\ UNCHANGED <<queues, type, held, pdin, job, nested, exiting, status>>

\* iolink_m_deinit posts a job of its own to stop the main thread.
Deinit(c) ==
    /\ Running
    /\ c \notin waits
    /\ held[c] = NoJob
    /\ ~exiting
    /\ exiting' = TRUE
    /\ IF Len(mbox) < Capacity
         THEN mbox' = Posted(mbox, ExitJob) /\ UNCHANGED status
         ELSE status' = "assert_exit" /\ UNCHANGED mbox
    /\ UNCHANGED <<mbox_avail, mbox_api_avail, type, held, pdin, job, nested, clients>>

-----------------------------------------------------------------------------
\* Mutant: the switch has no case for EXIT.
EndsLoop_Never(j) == FALSE

EndsLoop(j) == j = ExitJob

\* The main thread takes the oldest job; EXIT ends its loop.
MainFetch ==
    /\ Running
    /\ job = NoJob
    /\ mbox # << >>
    /\ mbox' = Fetched(mbox)
    /\ IF EndsLoop(Head(mbox))
         THEN status' = "exited" /\ UNCHANGED <<job, sent>>
         ELSE /\ job' = Head(mbox)
              /\ sent' = [c \in Client |->
                            IF sent[c] = Head(mbox) THEN NoJob ELSE sent[c]]
              /\ UNCHANGED status
    /\ nested' = 0
    /\ UNCHANGED <<mbox_avail, mbox_api_avail, type, held, pdin, waits,
                   timeouts, exiting>>

\* A callback needs a job for the next step; process data have no callback.
CallbackFetch ==
    /\ Running
    /\ job # NoJob
    /\ type[job] \in {"INTERNAL", "SMI"}
    /\ nested < MaxNested
    /\ FetchAvailJob(Main)
    /\ nested' = nested + 1

CallbackPost ==
    /\ Running
    /\ PostJob(Main, "INTERNAL")
    /\ UNCHANGED <<mbox_avail, mbox_api_avail, pdin, job, nested, clients, exiting>>

\* Mutant: the SMI jobs are in the list of cases of the stack's own jobs.
IsApiType_Never(jobtype) == FALSE

IsApiType(jobtype) == jobtype = "SMI"

\* The end of a case of the switch: the job goes back to a pool.
MainReturn ==
    /\ Running
    /\ job # NoJob
    /\ held[Main] = NoJob
    /\ type' = [type EXCEPT ![job] = "NONE"]
    /\ IF IsApiType(type[job])
         THEN /\ mbox_api_avail' =
                   PostOrDrop(mbox_api_avail, Cardinality(ApiJob), job)
              /\ UNCHANGED mbox_avail
         ELSE /\ mbox_avail' = PostOrDrop(mbox_avail, Cardinality(Job), job)
              /\ UNCHANGED mbox_api_avail
    /\ job' = NoJob
    /\ UNCHANGED <<mbox, held, pdin, nested, clients, exiting, status>>

-----------------------------------------------------------------------------
DlNext(d) == DlFetch(d) \/ DlPdInput(d) \/ DlFetchPd(d) \/ DlPost(d)

ClientNext(c) ==
    \/ ClientFetch(c) \/ ClientPost(c) \/ ClientConfirmed(c)
    \/ ClientTimeout(c) \/ Deinit(c)

MainNext == MainFetch \/ CallbackFetch \/ CallbackPost \/ MainReturn

Next ==
    \/ \E d \in DlThread : DlNext(d)
    \/ \E c \in Client : ClientNext(c)
    \/ MainNext

Spec == Init /\ [][Next]_vars

\* The threads are scheduled: the main thread goes on with its loop, and a DL
\* thread that has filled in a job posts it.
FairSpec == Spec /\ WF_vars(MainNext) /\ \A d \in DlThread : WF_vars(DlPost(d))

-----------------------------------------------------------------------------
TypeOK ==
    /\ mbox \in Seq(AnyJob \cup {ExitJob})
    /\ mbox_avail \in Seq(AnyJob)
    /\ mbox_api_avail \in Seq(AnyJob)
    /\ type \in [AnyJob -> JobType]
    /\ held \in [Thread -> AnyJob \cup {NoJob}]
    /\ pdin \subseteq DlThread
    /\ job \in AnyJob \cup {NoJob}
    /\ nested \in 0 .. MaxNested
    /\ waits \subseteq Client
    /\ sent \in [Client -> AnyJob \cup {NoJob}]
    /\ timeouts \in 0 .. MaxTimeouts
    /\ exiting \in BOOLEAN
    /\ status \in Status

\* No job is in two places: a job that were both queued and free would be
\* filled in for one event while another one still waits in the mailbox.
NoJobTwice ==
    /\ Distinct(mbox) /\ Distinct(mbox_avail) /\ Distinct(mbox_api_avail)
    /\ \A j \in AnyJob :
         /\ In(j, mbox) => ~In(j, mbox_avail) /\ ~In(j, mbox_api_avail)
         /\ ~(In(j, mbox_avail) /\ In(j, mbox_api_avail))
         /\ (\E t \in Thread : held[t] = j) \/ job = j =>
              ~In(j, mbox) /\ ~In(j, mbox_avail) /\ ~In(j, mbox_api_avail)
    /\ \A t, u \in Thread : held[t] # NoJob /\ held[t] = held[u] => t = u
    /\ \A t \in Thread : held[t] # NoJob => held[t] # job

\* No job disappears (iolink_main ignores what os_mbox_post answers when it
\* gives a job back): the pools never shrink.
NoJobLost ==
    \A j \in AnyJob :
      \/ In(j, mbox) \/ In(j, mbox_avail) \/ In(j, mbox_api_avail)
      \/ job = j
      \/ \E t \in Thread : held[t] = j

\* The main loop chooses the pool by the type of the job; a job still always
\* goes back to the pool it was taken from.
PoolsKeepTheirJobs ==
    \A j \in AnyJob :
      /\ In(j, mbox_avail) => j \in Job
      /\ In(j, mbox_api_avail) => j \in ApiJob

\* "CC_ASSERT (!res); // TODO how to handle this!?!" after a post can only fire
\* when iolink_m_deinit has put its extra job into the mailbox.
PostFailsOnlyWhileExiting == status = "assert_post" => exiting

\* "CC_ASSERT (0); // TODO: This is fine, return busy": application threads that
\* wait for each confirmation never empty their pool when it has a job more
\* than there are threads (and abandoned requests).
ApiFetchNeverFails == status # "assert_api_fetch"

\* "CC_ASSERT (0); // TODO: This is bad! How to continue?"
FetchNeverFails == status # "assert_fetch"

\* A job that is posted is executed and comes back to its pool.
PostedJobsComeBack ==
    \A j \in AnyJob :
      In(j, mbox) ~> \/ In(j, mbox_avail) \/ In(j, mbox_api_avail)
                     \/ status # "running"
=============================================================================
