-------------------------- MODULE JobPoolProofs --------------------------
(***************************************************************************)
(* Theorems about the job pools, for any number of threads and jobs.       *)
(*                                                                         *)
(* The argument: every job of the stack and of the application threads is  *)
(* in exactly one place, and its type tells which pool it belongs to.      *)
(* Since the mailboxes are created with one slot for each job that can be  *)
(* in them, a post always finds room, with one exception: EXIT, the extra  *)
(* job of iolink_m_deinit.                                                 *)
(***************************************************************************)
EXTENDS JobPool, FiniteSetTheorems, SequenceTheorems, TLAPS

-----------------------------------------------------------------------------
\* What a post does to a queue.
LEMMA PostedProperties ==
    ASSUME NEW S, NEW q \in Seq(S), NEW x \in S
    PROVE  /\ Posted(q, x) \in Seq(S)
           /\ \A j : In(j, Posted(q, x)) <=> In(j, q) \/ j = x
           /\ Distinct(q) /\ ~In(x, q) => Distinct(Posted(q, x))
<1> DEFINE p == Posted(q, x)
<1>1. /\ p \in Seq(S)
      /\ Len(p) = Len(q) + 1
      /\ DOMAIN p = 1 .. Len(q) + 1
      /\ DOMAIN q = 1 .. Len(q)
      /\ Len(q) \in Nat
      /\ \A i \in 1 .. Len(q) : p[i] = q[i]
      /\ p[Len(q) + 1] = x
  BY DEF Posted
<1>2. \A j : In(j, p) <=> In(j, q) \/ j = x
  <2>1. ASSUME NEW j, In(j, p) PROVE In(j, q) \/ j = x
    BY <1>1, <2>1 DEF In
  <2>2. ASSUME NEW j, In(j, q) PROVE In(j, p)
    BY <1>1, <2>2 DEF In
  <2>3. In(x, p)
    BY <1>1 DEF In
  <2> QED BY <2>1, <2>2, <2>3
<1>3. Distinct(q) /\ ~In(x, q) => Distinct(p)
  BY <1>1 DEF Distinct, In
<1> QED BY <1>1, <1>2, <1>3

\* What a fetch does to a queue.
LEMMA FetchedProperties ==
    ASSUME NEW S, NEW q \in Seq(S), q # << >>
    PROVE  /\ Head(q) \in S
           /\ Fetched(q) \in Seq(S)
           /\ In(Head(q), q)
           /\ Distinct(q) =>
                /\ Distinct(Fetched(q))
                /\ \A j : In(j, Fetched(q)) <=> In(j, q) /\ j # Head(q)
<1> DEFINE p == Fetched(q)
<1>1. /\ Head(q) \in S
      /\ p \in Seq(S)
      /\ Len(q) \in Nat \ {0}
      /\ Len(p) = Len(q) - 1
      /\ DOMAIN q = 1 .. Len(q)
      /\ DOMAIN p = 1 .. Len(q) - 1
      /\ \A i \in 1 .. Len(q) - 1 : p[i] = q[i + 1]
      /\ q[1] = Head(q)
  BY HeadTailProperties, LenProperties, EmptySeq DEF Fetched
<1>2. In(Head(q), q)
  BY <1>1 DEF In
<1> HIDE DEF p
<1>3. ASSUME Distinct(q) PROVE Distinct(p)
  <2> SUFFICES ASSUME NEW i \in 1 .. Len(q) - 1, NEW k \in 1 .. Len(q) - 1,
                      p[i] = p[k]
               PROVE  i = k
    BY <1>1 DEF Distinct
  <2>1. q[i + 1] = q[k + 1] /\ i + 1 \in DOMAIN q /\ k + 1 \in DOMAIN q
    BY <1>1
  <2>2. i + 1 = k + 1
    BY <1>3, <2>1 DEF Distinct
  <2> QED BY <1>1, <2>2
<1>4. ASSUME Distinct(q), NEW j PROVE In(j, p) <=> In(j, q) /\ j # Head(q)
  <2>1. ASSUME In(j, p) PROVE In(j, q) /\ j # Head(q)
    <3>1. PICK i \in 1 .. Len(q) - 1 : p[i] = j
      BY <1>1, <2>1 DEF In
    <3>2. /\ q[i + 1] = j
          /\ i + 1 \in DOMAIN q
          /\ 1 \in DOMAIN q
          /\ i + 1 # 1
      BY <1>1, <3>1
    <3>3. q[i + 1] # q[1]
      BY <1>4, <3>2 DEF Distinct
    <3> QED BY <1>1, <3>2, <3>3 DEF In
  <2>2. ASSUME In(j, q), j # Head(q) PROVE In(j, p)
    <3>1. PICK i \in 1 .. Len(q) : q[i] = j
      BY <1>1, <2>2 DEF In
    <3>2. i # 1
      BY <1>1, <2>2, <3>1
    <3>3. i - 1 \in 1 .. Len(q) - 1 /\ (i - 1) + 1 = i
      BY <1>1, <3>2
    <3>4. p[i - 1] = j
      BY <1>1, <3>1, <3>3
    <3> QED BY <1>1, <3>3, <3>4 DEF In
  <2> QED BY <2>1, <2>2
<1> QED BY <1>1, <1>2, <1>3, <1>4 DEF p

\* A queue without duplicates that misses an element of S is not as long as S.
LEMMA RoomForOneMore ==
    ASSUME NEW S, IsFiniteSet(S), NEW q \in Seq(S), Distinct(q),
           NEW x \in S, ~In(x, q)
    PROVE  Len(q) < Cardinality(S)
<1>1. Len(q) \in Nat /\ DOMAIN q = 1 .. Len(q) /\ \A i \in 1 .. Len(q) : q[i] \in S
  BY LenProperties
<1>2. IsFiniteSet(S \ {x}) /\ Cardinality(S \ {x}) = Cardinality(S) - 1
  BY FS_RemoveElement
<1>3. Cardinality(S) \in Nat
  BY FS_CardinalityType
<1>4. IsFiniteSet(1 .. Len(q)) /\ Cardinality(1 .. Len(q)) = Len(q)
  <2>1. \A b \in Int : /\ IsFiniteSet(1 .. b)
                       /\ Cardinality(1 .. b) = IF 1 > b THEN 0 ELSE b - 1 + 1
    BY FS_Interval
  <2> QED BY <1>1, <2>1
<1>5. q \in [1 .. Len(q) -> S \ {x}]
  <2>1. \A i \in 1 .. Len(q) : q[i] \in S \ {x}
    BY <1>1 DEF In
  <2>2. q \in [1 .. Len(q) -> S]
    BY LenProperties
  <2> QED BY <2>1, <2>2
<1>6. SUFFICES ASSUME Len(q) >= Cardinality(S) PROVE FALSE
  BY <1>1, <1>3
<1>7. Cardinality(S \ {x}) < Cardinality(1 .. Len(q))
  BY <1>1, <1>2, <1>3, <1>4, <1>6
<1>8. PICK i, k \in 1 .. Len(q) : i # k /\ q[i] = q[k]
  BY <1>2, <1>4, <1>5, <1>7, FS_PigeonHole
<1> QED BY <1>1, <1>8 DEF Distinct

\* The pools are filled with each job once.
LEMMA ListingProperties ==
    ASSUME NEW S, IsFiniteSet(S)
    PROVE  /\ Listing(S) \in Seq(S)
           /\ Distinct(Listing(S))
           /\ \A j : In(j, Listing(S)) <=> j \in S
<1> DEFINE n == Cardinality(S)
<1>1. n \in Nat /\ ExistsBijection(1 .. n, S)
  BY FS_CardinalityType
<1>2. PICK f \in Bijection(1 .. n, S) : TRUE
  BY <1>1 DEF ExistsBijection
<1>3. /\ f \in [1 .. n -> S]
      /\ DOMAIN f = 1 .. n
      /\ \A i, k \in 1 .. n : f[i] = f[k] => i = k
      /\ \A j \in S : \E i \in 1 .. n : f[i] = j
  BY <1>2 DEF Bijection, Injection, Surjection, IsInjective
<1>4. Distinct(f) /\ \A j \in S : In(j, f)
  BY <1>3 DEF Distinct, In
<1>5. /\ Listing(S) \in [1 .. n -> S]
      /\ Distinct(Listing(S))
      /\ \A j \in S : In(j, Listing(S))
  BY <1>3, <1>4 DEF Listing
<1>6. Listing(S) \in Seq(S)
  BY <1>1, <1>5
<1>7. \A j : In(j, Listing(S)) => j \in S
  BY <1>5 DEF In
<1> QED BY <1>5, <1>6, <1>7

-----------------------------------------------------------------------------
\* A queued or running job has the type of the pool it came from, ...
JobsAreTyped ==
    \A j \in AnyJob :
      In(j, mbox) \/ job = j => (IsApiType(type[j]) <=> j \in ApiJob)

\* ... because a thread only holds jobs of its own pool.
HeldFromOwnPool ==
    \A t \in Thread : held[t] # NoJob => (held[t] \in ApiJob <=> t \in Client)

IInv ==
    /\ TypeOK
    /\ NoJobTwice
    /\ NoJobLost
    /\ PoolsKeepTheirJobs
    /\ JobsAreTyped
    /\ HeldFromOwnPool
    /\ In(ExitJob, mbox) => exiting
    /\ PostFailsOnlyWhileExiting

LEMMA InitIInv == Init => IInv
<1> SUFFICES ASSUME Init PROVE IInv
  OBVIOUS
<1> USE JobPoolAssumption
<1>1. /\ mbox_avail \in Seq(Job)
      /\ Distinct(mbox_avail)
      /\ \A j : In(j, mbox_avail) <=> j \in Job
  BY ListingProperties DEF Init
<1>2. /\ mbox_api_avail \in Seq(ApiJob)
      /\ Distinct(mbox_api_avail)
      /\ \A j : In(j, mbox_api_avail) <=> j \in ApiJob
  BY ListingProperties DEF Init
<1>3. mbox = << >> /\ Distinct(mbox) /\ \A j : ~In(j, mbox)
  BY DEF Init, Distinct, In
<1>4. TypeOK
  <2>1. mbox_avail \in Seq(AnyJob) /\ mbox_api_avail \in Seq(AnyJob)
    BY <1>1, <1>2, SeqMonotonic DEF AnyJob
  <2>2. mbox \in Seq(AnyJob \cup {ExitJob})
    BY <1>3, EmptySeq
  <2>3. /\ type \in [AnyJob -> JobType]
        /\ held \in [Thread -> AnyJob \cup {NoJob}]
        /\ sent \in [Client -> AnyJob \cup {NoJob}]
    BY DEF Init, JobType
  <2>4. nested \in 0 .. MaxNested /\ timeouts \in 0 .. MaxTimeouts
    BY DEF Init
  <2>5. /\ pdin \subseteq DlThread /\ waits \subseteq Client
        /\ job \in AnyJob \cup {NoJob}
        /\ exiting \in BOOLEAN /\ status \in Status
    BY DEF Init, Status
  <2> QED BY <2>1, <2>2, <2>3, <2>4, <2>5 DEF TypeOK
<1>5. NoJobTwice
  BY <1>1, <1>2, <1>3 DEF Init, NoJobTwice, AnyJob, Thread
<1>6. NoJobLost /\ PoolsKeepTheirJobs
  BY <1>1, <1>2 DEF NoJobLost, PoolsKeepTheirJobs, AnyJob
<1>7. JobsAreTyped /\ HeldFromOwnPool
  BY <1>3 DEF Init, JobsAreTyped, HeldFromOwnPool, AnyJob, Thread
<1> QED BY <1>3, <1>4, <1>5, <1>6, <1>7 DEF Init, IInv, PostFailsOnlyWhileExiting

\* A thread that holds a job finds room in the mailbox, unless EXIT is in it.
LEMMA RoomToPost ==
    ASSUME IInv, NEW t \in Thread, held[t] # NoJob, ~exiting
    PROVE  Len(mbox) < Capacity
<1> USE JobPoolAssumption
<1>1. held[t] \in AnyJob /\ ~In(held[t], mbox) /\ Distinct(mbox)
  BY DEF IInv, TypeOK, NoJobTwice
<1>2. mbox \in Seq(AnyJob)
  <2>1. mbox \in Seq(AnyJob \cup {ExitJob}) /\ ~In(ExitJob, mbox)
    BY DEF IInv, TypeOK
  <2>2. /\ Len(mbox) \in Nat
        /\ DOMAIN mbox = 1 .. Len(mbox)
        /\ mbox \in [1 .. Len(mbox) -> AnyJob \cup {ExitJob}]
    BY <2>1, LenProperties
  <2>3. \A i \in 1 .. Len(mbox) : mbox[i] \in AnyJob
    BY <2>1, <2>2 DEF In
  <2>4. mbox \in [1 .. Len(mbox) -> AnyJob]
    BY <2>2, <2>3
  <2> QED BY <2>2, <2>4
<1>3. IsFiniteSet(AnyJob) /\ Cardinality(AnyJob) = Capacity
  <2>1. Cardinality(Job \cap ApiJob) = 0
    BY FS_EmptySet
  <2>2. /\ IsFiniteSet(Job \cup ApiJob)
        /\ Cardinality(Job \cup ApiJob) =
             Cardinality(Job) + Cardinality(ApiJob) - Cardinality(Job \cap ApiJob)
    BY FS_Union
  <2>3. Cardinality(Job) \in Nat /\ Cardinality(ApiJob) \in Nat
    BY FS_CardinalityType
  <2> QED BY <2>1, <2>2, <2>3 DEF AnyJob, Capacity
<1> QED BY <1>1, <1>2, <1>3, RoomForOneMore

-----------------------------------------------------------------------------
\* A step that moves no job and changes no type keeps the invariant.
LEMMA QuietStep ==
    ASSUME IInv, TypeOK',
           UNCHANGED <<mbox, mbox_avail, mbox_api_avail, type, held, job>>,
           exiting => exiting',
           status' = "assert_post" => status = "assert_post"
    PROVE  IInv'
<1>1. NoJobTwice' /\ NoJobLost' /\ PoolsKeepTheirJobs'
  BY DEF IInv, NoJobTwice, NoJobLost, PoolsKeepTheirJobs
<1>2. JobsAreTyped' /\ HeldFromOwnPool'
  BY DEF IInv, JobsAreTyped, HeldFromOwnPool
<1>3. (In(ExitJob, mbox) => exiting)' /\ PostFailsOnlyWhileExiting'
  BY DEF IInv, PostFailsOnlyWhileExiting
<1> QED BY <1>1, <1>2, <1>3 DEF IInv

\* A thread of the stack takes a job from mbox_avail.
LEMMA FetchStep ==
    ASSUME IInv, NEW t \in Thread \ Client,
           held[t] = NoJob, mbox_avail # << >>,
           held' = [held EXCEPT ![t] = Head(mbox_avail)],
           mbox_avail' = Fetched(mbox_avail),
           nested' \in 0 .. MaxNested, pdin' \subseteq DlThread,
           UNCHANGED <<mbox, mbox_api_avail, type, job, clients, exiting, status>>
    PROVE  IInv'
<1> DEFINE j == Head(mbox_avail)
<1> USE JobPoolAssumption
<1>1. /\ j \in AnyJob
      /\ mbox_avail' \in Seq(AnyJob)
      /\ In(j, mbox_avail)
      /\ Distinct(mbox_avail')
      /\ \A k : In(k, mbox_avail') <=> In(k, mbox_avail) /\ k # j
  BY FetchedProperties DEF IInv, TypeOK, NoJobTwice
<1>2. /\ held \in [Thread -> AnyJob \cup {NoJob}]
      /\ held'[t] = j
      /\ \A u \in Thread : u # t => held'[u] = held[u]
  BY DEF IInv, TypeOK
<1>3. j # NoJob /\ NoJob \notin AnyJob
  BY <1>1 DEF AnyJob
<1> HIDE DEF j
<1>4. TypeOK'
  <2>1. held' \in [Thread -> AnyJob \cup {NoJob}]
    BY <1>1, <1>2 DEF j
  <2> QED BY <1>1, <2>1 DEF IInv, TypeOK, clients
<1>5. NoJobTwice'
  BY <1>1, <1>2, <1>3 DEF IInv, NoJobTwice
<1>6. NoJobLost'
  BY <1>1, <1>2, <1>3 DEF IInv, NoJobLost
<1>7. PoolsKeepTheirJobs' /\ JobsAreTyped'
  <2>1. PoolsKeepTheirJobs'
    BY <1>1 DEF IInv, PoolsKeepTheirJobs
  <2>2. JobsAreTyped'
    BY DEF IInv, JobsAreTyped
  <2> QED BY <2>1, <2>2
<1>8. HeldFromOwnPool'
  <2>1. j \in Job /\ j \notin ApiJob
    BY <1>1 DEF IInv, PoolsKeepTheirJobs
  <2> QED BY <1>2, <2>1 DEF IInv, HeldFromOwnPool
<1>9. (In(ExitJob, mbox) => exiting)' /\ PostFailsOnlyWhileExiting'
  BY DEF IInv, PostFailsOnlyWhileExiting
<1> QED BY <1>4, <1>5, <1>6, <1>7, <1>8, <1>9 DEF IInv

\* A thread posts the job it holds.
LEMMA PostStep ==
    ASSUME IInv, NEW t \in Thread, NEW jobtype \in JobType,
           IsApiType(jobtype) <=> t \in Client,
           PostJob(t, jobtype),
           pdin' \subseteq DlThread, waits' \subseteq Client,
           sent' \in [Client -> AnyJob \cup {NoJob}],
           UNCHANGED <<mbox_avail, mbox_api_avail, job, nested, timeouts, exiting>>
    PROVE  IInv'
<1> DEFINE j == held[t]
<1> USE JobPoolAssumption
<1>1. /\ j \in AnyJob
      /\ j # NoJob
      /\ NoJob \notin AnyJob
      /\ ExitJob \notin AnyJob
      /\ ~In(j, mbox) /\ ~In(j, mbox_avail) /\ ~In(j, mbox_api_avail)
      /\ job # j
      /\ \A u \in Thread : u # t => held[u] # j
  BY DEF IInv, TypeOK, NoJobTwice, PostJob, AnyJob
<1>2. /\ type' \in [AnyJob -> JobType]
      /\ type'[j] = jobtype
      /\ \A k \in AnyJob : k # j => type'[k] = type[k]
  BY <1>1 DEF IInv, TypeOK, PostJob
<1>3. IsApiType(type'[j]) <=> j \in ApiJob
  BY <1>1, <1>2 DEF IInv, HeldFromOwnPool
<1>4. CASE Len(mbox) < Capacity
  <2>1. /\ mbox' = Posted(mbox, j)
        /\ held' = [held EXCEPT ![t] = NoJob]
        /\ status' = status
    BY <1>4 DEF PostJob
  <2>2. /\ mbox' \in Seq(AnyJob \cup {ExitJob})
        /\ Distinct(mbox')
        /\ \A k : In(k, mbox') <=> In(k, mbox) \/ k = j
    <3>1. mbox \in Seq(AnyJob \cup {ExitJob}) /\ Distinct(mbox)
      BY DEF IInv, TypeOK, NoJobTwice
    <3>2. j \in AnyJob \cup {ExitJob} /\ ~In(j, mbox)
      BY <1>1
    <3> QED BY <2>1, <3>1, <3>2, PostedProperties
  <2>3. /\ held' \in [Thread -> AnyJob \cup {NoJob}]
        /\ held'[t] = NoJob
        /\ \A u \in Thread : u # t => held'[u] = held[u]
    BY <2>1 DEF IInv, TypeOK
  <2> HIDE DEF j
  <2>4. TypeOK'
    BY <1>2, <2>1, <2>2, <2>3 DEF IInv, TypeOK
  <2>5. NoJobTwice'
    BY <1>1, <2>2, <2>3 DEF IInv, NoJobTwice
  <2>6. NoJobLost'
    <3>1. SUFFICES ASSUME NEW k \in AnyJob, k # j
                   PROVE  \/ In(k, mbox') \/ In(k, mbox_avail') \/ In(k, mbox_api_avail')
                          \/ job' = k
                          \/ \E u \in Thread : held'[u] = k
      BY <2>2 DEF NoJobLost
    <3>2. held[t] # k
      BY <3>1 DEF j
    <3> QED BY <2>2, <2>3, <3>2 DEF IInv, NoJobLost
  <2>7. PoolsKeepTheirJobs'
    BY DEF IInv, PoolsKeepTheirJobs
  <2>8. JobsAreTyped'
    BY <1>1, <1>2, <1>3, <2>2 DEF IInv, JobsAreTyped
  <2>9. HeldFromOwnPool'
    BY <2>3 DEF IInv, HeldFromOwnPool
  <2>10. (In(ExitJob, mbox) => exiting)' /\ PostFailsOnlyWhileExiting'
    BY <1>1, <2>1, <2>2 DEF IInv, PostFailsOnlyWhileExiting
  <2> QED BY <2>4, <2>5, <2>6, <2>7, <2>8, <2>9, <2>10 DEF IInv
<1>5. CASE ~(Len(mbox) < Capacity)
  <2>1. status' = "assert_post" /\ UNCHANGED <<mbox, held>>
    BY <1>5 DEF PostJob
  <2>2. exiting
    BY <1>1, <1>5, RoomToPost
  <2>3. TypeOK'
    BY <1>2, <2>1 DEF IInv, TypeOK, Status
  <2>4. NoJobTwice' /\ NoJobLost' /\ PoolsKeepTheirJobs'
    BY <2>1 DEF IInv, NoJobTwice, NoJobLost, PoolsKeepTheirJobs
  <2>5. JobsAreTyped'
    BY <1>1, <1>2, <2>1 DEF IInv, JobsAreTyped
  <2>6. HeldFromOwnPool'
    BY <2>1 DEF IInv, HeldFromOwnPool
  <2>7. (In(ExitJob, mbox) => exiting)' /\ PostFailsOnlyWhileExiting'
    BY <2>1, <2>2 DEF IInv, PostFailsOnlyWhileExiting
  <2> QED BY <2>3, <2>4, <2>5, <2>6, <2>7 DEF IInv
<1> QED BY <1>4, <1>5

\* An application thread takes a job from mbox_api_avail.
LEMMA ClientFetchStep ==
    ASSUME IInv, NEW c \in Client, ClientFetch(c)
    PROVE  IInv'
<1> USE JobPoolAssumption
<1>1. CASE mbox_api_avail = << >>
  <2>1. TypeOK'
    BY <1>1 DEF IInv, TypeOK, ClientFetch, clients, Status
  <2> QED BY <1>1, <2>1, QuietStep DEF ClientFetch
<1>2. CASE mbox_api_avail # << >>
  <2> DEFINE j == Head(mbox_api_avail)
  <2>1. /\ held[c] = NoJob
        /\ held' = [held EXCEPT ![c] = j]
        /\ mbox_api_avail' = Fetched(mbox_api_avail)
        /\ UNCHANGED <<mbox, mbox_avail, type, pdin, job, nested, clients,
                       exiting, status>>
    BY <1>2 DEF ClientFetch
  <2>2. /\ j \in AnyJob
        /\ mbox_api_avail' \in Seq(AnyJob)
        /\ In(j, mbox_api_avail)
        /\ Distinct(mbox_api_avail')
        /\ \A k : In(k, mbox_api_avail') <=> In(k, mbox_api_avail) /\ k # j
    BY <1>2, <2>1, FetchedProperties DEF IInv, TypeOK, NoJobTwice
  <2>3. c \in Thread
    BY DEF Thread
  <2>4. /\ held' \in [Thread -> AnyJob \cup {NoJob}]
        /\ held'[c] = j
        /\ \A u \in Thread : u # c => held'[u] = held[u]
    BY <2>1, <2>2, <2>3 DEF IInv, TypeOK
  <2>5. j # NoJob /\ NoJob \notin AnyJob
    BY <2>2 DEF AnyJob
  <2> HIDE DEF j
  <2>6. TypeOK'
    BY <2>1, <2>2, <2>4 DEF IInv, TypeOK, clients
  <2>7. NoJobTwice'
    BY <2>1, <2>2, <2>3, <2>4, <2>5 DEF IInv, NoJobTwice
  <2>8. NoJobLost'
    BY <2>1, <2>2, <2>3, <2>4, <2>5 DEF IInv, NoJobLost
  <2>9. PoolsKeepTheirJobs'
    BY <2>1, <2>2 DEF IInv, PoolsKeepTheirJobs
  <2>10. JobsAreTyped'
    BY <2>1 DEF IInv, JobsAreTyped
  <2>11. HeldFromOwnPool'
    <3>1. j \in ApiJob
      BY <2>2 DEF IInv, PoolsKeepTheirJobs
    <3> QED BY <2>4, <3>1 DEF IInv, HeldFromOwnPool
  <2>12. (In(ExitJob, mbox) => exiting)' /\ PostFailsOnlyWhileExiting'
    BY <2>1 DEF IInv, PostFailsOnlyWhileExiting
  <2> QED BY <2>6, <2>7, <2>8, <2>9, <2>10, <2>11, <2>12 DEF IInv
<1> QED BY <1>1, <1>2

\* EXIT is queued once.
LEMMA DeinitStep ==
    ASSUME IInv, NEW c \in Client, Deinit(c)
    PROVE  IInv'
<1> USE JobPoolAssumption
<1>1. CASE Len(mbox) < Capacity
  <2>1. /\ mbox' = Posted(mbox, ExitJob)
        /\ exiting' = TRUE
        /\ ~exiting
        /\ UNCHANGED <<mbox_avail, mbox_api_avail, type, held, pdin, job, nested,
                       clients, status>>
    BY <1>1 DEF Deinit
  <2>2. /\ mbox' \in Seq(AnyJob \cup {ExitJob})
        /\ Distinct(mbox')
        /\ \A k : In(k, mbox') <=> In(k, mbox) \/ k = ExitJob
    <3>1. mbox \in Seq(AnyJob \cup {ExitJob}) /\ Distinct(mbox) /\ ~In(ExitJob, mbox)
      BY <2>1 DEF IInv, TypeOK, NoJobTwice
    <3>2. ExitJob \in AnyJob \cup {ExitJob}
      OBVIOUS
    <3>3. /\ Posted(mbox, ExitJob) \in Seq(AnyJob \cup {ExitJob})
          /\ Distinct(Posted(mbox, ExitJob))
          /\ \A k : In(k, Posted(mbox, ExitJob)) <=> In(k, mbox) \/ k = ExitJob
      BY <3>1, <3>2, PostedProperties
    <3> QED BY <2>1, <3>3
  <2>3. ExitJob \notin AnyJob
    BY DEF AnyJob
  <2>4. TypeOK'
    BY <2>1, <2>2 DEF IInv, TypeOK, clients
  <2>5. NoJobTwice' /\ NoJobLost' /\ PoolsKeepTheirJobs'
    BY <2>1, <2>2, <2>3 DEF IInv, NoJobTwice, NoJobLost, PoolsKeepTheirJobs
  <2>6. JobsAreTyped' /\ HeldFromOwnPool'
    BY <2>1, <2>2, <2>3 DEF IInv, JobsAreTyped, HeldFromOwnPool
  <2>7. PostFailsOnlyWhileExiting'
    BY <2>1 DEF PostFailsOnlyWhileExiting
  <2> QED BY <2>1, <2>4, <2>5, <2>6, <2>7 DEF IInv
<1>2. CASE ~(Len(mbox) < Capacity)
  <2>1. TypeOK'
    BY <1>2 DEF IInv, TypeOK, Deinit, clients, Status
  <2> QED BY <1>2, <2>1, QuietStep DEF Deinit
<1> QED BY <1>1, <1>2

\* The main thread takes a job out of the mailbox.
LEMMA MainFetchStep ==
    ASSUME IInv, MainFetch
    PROVE  IInv'
<1> DEFINE j == Head(mbox)
<1> USE JobPoolAssumption
<1>1. /\ job = NoJob
      /\ mbox # << >>
      /\ mbox' = Fetched(mbox)
      /\ UNCHANGED <<mbox_avail, mbox_api_avail, type, held, pdin, waits,
                     timeouts, exiting>>
  BY DEF MainFetch
<1>2. /\ j \in AnyJob \cup {ExitJob}
      /\ mbox' \in Seq(AnyJob \cup {ExitJob})
      /\ In(j, mbox)
      /\ Distinct(mbox')
      /\ \A k : In(k, mbox') <=> In(k, mbox) /\ k # j
  BY <1>1, FetchedProperties DEF IInv, TypeOK, NoJobTwice
<1>3. nested' \in 0 .. MaxNested
  BY DEF MainFetch
<1>4. NoJob \notin AnyJob /\ ExitJob \notin AnyJob
  BY DEF AnyJob
<1>5. PoolsKeepTheirJobs' /\ HeldFromOwnPool'
  BY <1>1 DEF IInv, PoolsKeepTheirJobs, HeldFromOwnPool
<1>6. CASE j = ExitJob
  <2>1. status' = "exited" /\ UNCHANGED <<job, sent>>
    BY <1>6 DEF MainFetch, EndsLoop
  <2> HIDE DEF j
  <2>2. TypeOK'
    BY <1>1, <1>2, <1>3, <2>1 DEF IInv, TypeOK, Status
  <2>3. NoJobTwice' /\ NoJobLost'
    BY <1>1, <1>2, <1>4, <1>6, <2>1 DEF IInv, NoJobTwice, NoJobLost
  <2>4. JobsAreTyped'
    BY <1>1, <1>2, <2>1 DEF IInv, JobsAreTyped
  <2>5. (In(ExitJob, mbox) => exiting)' /\ PostFailsOnlyWhileExiting'
    BY <1>1, <1>2, <2>1 DEF IInv, PostFailsOnlyWhileExiting
  <2> QED BY <1>5, <2>2, <2>3, <2>4, <2>5 DEF IInv
<1>7. CASE j # ExitJob
  <2>1. /\ job' = j
        /\ sent' = [c \in Client |-> IF sent[c] = j THEN NoJob ELSE sent[c]]
        /\ status' = status
    BY <1>7 DEF MainFetch, EndsLoop
  <2> HIDE DEF j
  <2>2. TypeOK'
    <3>1. sent' \in [Client -> AnyJob \cup {NoJob}]
      BY <2>1 DEF IInv, TypeOK
    <3> QED BY <1>1, <1>2, <1>3, <1>7, <2>1, <3>1 DEF IInv, TypeOK
  <2>3. NoJobTwice'
    <3>1. \A t \in Thread : held[t] # j
      BY <1>2, <1>7 DEF IInv, NoJobTwice
    <3> QED BY <1>1, <1>2, <1>4, <1>7, <2>1, <3>1 DEF IInv, NoJobTwice
  <2>4. NoJobLost'
    BY <1>1, <1>2, <1>4, <1>7, <2>1 DEF IInv, NoJobLost
  <2>5. JobsAreTyped'
    BY <1>1, <1>2, <1>7, <2>1 DEF IInv, JobsAreTyped
  <2>6. (In(ExitJob, mbox) => exiting)' /\ PostFailsOnlyWhileExiting'
    BY <1>1, <1>2, <2>1 DEF IInv, PostFailsOnlyWhileExiting
  <2> QED BY <1>5, <2>2, <2>3, <2>4, <2>5, <2>6 DEF IInv
<1> QED BY <1>6, <1>7

\* A job that is posted back to a pool finds room, so that none is dropped.
LEMMA RoomToReturn ==
    ASSUME IInv, job # NoJob
    PROVE  /\ job \in Job => Len(mbox_avail) < Cardinality(Job)
           /\ job \in ApiJob => Len(mbox_api_avail) < Cardinality(ApiJob)
<1> USE JobPoolAssumption
<1>1. /\ job \in AnyJob
      /\ Distinct(mbox_avail) /\ Distinct(mbox_api_avail)
      /\ ~In(job, mbox_avail) /\ ~In(job, mbox_api_avail)
  BY DEF IInv, TypeOK, NoJobTwice
<1>2. mbox_avail \in Seq(Job)
  <2>1. /\ Len(mbox_avail) \in Nat
        /\ DOMAIN mbox_avail = 1 .. Len(mbox_avail)
        /\ mbox_avail \in [1 .. Len(mbox_avail) -> AnyJob]
    BY LenProperties DEF IInv, TypeOK
  <2>2. \A i \in 1 .. Len(mbox_avail) : mbox_avail[i] \in Job
    BY <2>1 DEF IInv, PoolsKeepTheirJobs, In
  <2>3. mbox_avail \in [1 .. Len(mbox_avail) -> Job]
    BY <2>1, <2>2
  <2> QED BY <2>1, <2>3
<1>3. mbox_api_avail \in Seq(ApiJob)
  <2>1. /\ Len(mbox_api_avail) \in Nat
        /\ DOMAIN mbox_api_avail = 1 .. Len(mbox_api_avail)
        /\ mbox_api_avail \in [1 .. Len(mbox_api_avail) -> AnyJob]
    BY LenProperties DEF IInv, TypeOK
  <2>2. \A i \in 1 .. Len(mbox_api_avail) : mbox_api_avail[i] \in ApiJob
    BY <2>1 DEF IInv, PoolsKeepTheirJobs, In
  <2>3. mbox_api_avail \in [1 .. Len(mbox_api_avail) -> ApiJob]
    BY <2>1, <2>2
  <2> QED BY <2>1, <2>3
<1>4. job \in Job => Len(mbox_avail) < Cardinality(Job)
  BY <1>1, <1>2, RoomForOneMore
<1>5. job \in ApiJob => Len(mbox_api_avail) < Cardinality(ApiJob)
  BY <1>1, <1>3, RoomForOneMore
<1> QED BY <1>4, <1>5

\* The main thread gives the job it has run back to a pool.
LEMMA MainReturnStep ==
    ASSUME IInv, MainReturn
    PROVE  IInv'
<1> USE JobPoolAssumption
<1>1. /\ job # NoJob
      /\ job' = NoJob
      /\ type' = [type EXCEPT ![job] = "NONE"]
      /\ UNCHANGED <<mbox, held, pdin, nested, clients, exiting, status>>
  BY DEF MainReturn
<1>2. /\ job \in AnyJob /\ NoJob \notin AnyJob
      /\ Distinct(mbox_avail) /\ Distinct(mbox_api_avail)
      /\ mbox_avail \in Seq(AnyJob) /\ mbox_api_avail \in Seq(AnyJob)
      /\ ~In(job, mbox) /\ ~In(job, mbox_avail) /\ ~In(job, mbox_api_avail)
      /\ \A t \in Thread : held[t] # job
  BY <1>1 DEF IInv, TypeOK, NoJobTwice, AnyJob
<1>3. /\ IsApiType(type[job]) <=> job \in ApiJob
      /\ job \notin ApiJob => job \in Job
  BY <1>2 DEF IInv, JobsAreTyped, AnyJob
<1>4. /\ type' \in [AnyJob -> JobType]
      /\ \A k \in AnyJob : k # job => type'[k] = type[k]
  BY <1>1, <1>2 DEF IInv, TypeOK, JobType
<1>5. /\ IF job \in ApiJob
           THEN mbox_api_avail' = Posted(mbox_api_avail, job) /\ mbox_avail' = mbox_avail
           ELSE mbox_avail' = Posted(mbox_avail, job) /\ mbox_api_avail' = mbox_api_avail
  BY <1>1, <1>3, RoomToReturn DEF MainReturn, PostOrDrop
<1>6. /\ mbox_avail' \in Seq(AnyJob) /\ mbox_api_avail' \in Seq(AnyJob)
      /\ Distinct(mbox_avail') /\ Distinct(mbox_api_avail')
      /\ \A k : In(k, mbox_avail') <=> In(k, mbox_avail) \/ (k = job /\ job \notin ApiJob)
      /\ \A k : In(k, mbox_api_avail') <=>
                  In(k, mbox_api_avail) \/ (k = job /\ job \in ApiJob)
  <2>1. /\ Posted(mbox_avail, job) \in Seq(AnyJob)
        /\ Distinct(Posted(mbox_avail, job))
        /\ \A k : In(k, Posted(mbox_avail, job)) <=> In(k, mbox_avail) \/ k = job
    BY <1>2, PostedProperties
  <2>2. /\ Posted(mbox_api_avail, job) \in Seq(AnyJob)
        /\ Distinct(Posted(mbox_api_avail, job))
        /\ \A k : In(k, Posted(mbox_api_avail, job)) <=> In(k, mbox_api_avail) \/ k = job
    BY <1>2, PostedProperties
  <2> QED BY <1>2, <1>5, <2>1, <2>2
<1>7. TypeOK'
  BY <1>1, <1>4, <1>6 DEF IInv, TypeOK, clients
<1>8. NoJobTwice'
  BY <1>1, <1>2, <1>6 DEF IInv, NoJobTwice
<1>9. NoJobLost'
  BY <1>1, <1>2, <1>6 DEF IInv, NoJobLost
<1>10. PoolsKeepTheirJobs'
  BY <1>3, <1>6 DEF IInv, PoolsKeepTheirJobs
<1>11. JobsAreTyped'
  BY <1>1, <1>2, <1>4 DEF IInv, JobsAreTyped
<1>12. HeldFromOwnPool'
  BY <1>1 DEF IInv, HeldFromOwnPool
<1>13. (In(ExitJob, mbox) => exiting)' /\ PostFailsOnlyWhileExiting'
  BY <1>1 DEF IInv, PostFailsOnlyWhileExiting
<1> QED BY <1>7, <1>8, <1>9, <1>10, <1>11, <1>12, <1>13 DEF IInv

-----------------------------------------------------------------------------
LEMMA NextIInv == IInv /\ [Next]_vars => IInv'
<1> SUFFICES ASSUME IInv, [Next]_vars PROVE IInv'
  OBVIOUS
<1> USE JobPoolAssumption
<1>1. ASSUME NEW d \in DlThread, DlNext(d) PROVE IInv'
  <2>1. d \in Thread \ Client /\ d \in Thread
    BY DEF Thread
  <2>2. CASE DlFetch(d)
    <3>1. CASE mbox_avail = << >>
      <4>1. TypeOK'
        BY <2>2, <3>1 DEF IInv, TypeOK, DlFetch, FetchAvailJob, clients, Status
      <4> QED BY <2>2, <3>1, <4>1, QuietStep DEF DlFetch, FetchAvailJob
    <3>2. CASE mbox_avail # << >>
      <4>1. nested' \in 0 .. MaxNested /\ pdin' \subseteq DlThread
        BY <2>2 DEF IInv, TypeOK, DlFetch, FetchAvailJob
      <4> QED BY <2>1, <2>2, <3>2, <4>1, FetchStep DEF DlFetch, FetchAvailJob
    <3> QED BY <3>1, <3>2
  <2>3. CASE DlPdInput(d)
    <3>1. TypeOK'
      BY <2>3 DEF IInv, TypeOK, DlPdInput, queues, clients
    <3> QED BY <2>3, <3>1, QuietStep DEF DlPdInput, queues
  <2>4. CASE DlFetchPd(d)
    <3>1. nested' \in 0 .. MaxNested /\ pdin' \subseteq DlThread
      BY <2>4 DEF IInv, TypeOK, DlFetchPd
    <3> QED BY <2>1, <2>4, <3>1, FetchStep DEF DlFetchPd
  <2>5. CASE DlPost(d)
    <3> DEFINE jobtype == IF d \in pdin THEN "PD_EVENT" ELSE "INTERNAL"
    <3>1. jobtype \in JobType /\ ~IsApiType(jobtype)
      BY DEF JobType, IsApiType
    <3>2. /\ PostJob(d, jobtype)
          /\ UNCHANGED <<mbox_avail, mbox_api_avail, job, nested, timeouts, exiting>>
      BY <2>5 DEF DlPost, clients
    <3>3. /\ pdin' \subseteq DlThread /\ waits' \subseteq Client
          /\ sent' \in [Client -> AnyJob \cup {NoJob}]
      BY <2>5 DEF IInv, TypeOK, DlPost, clients
    <3> HIDE DEF jobtype
    <3> QED BY <2>1, <3>1, <3>2, <3>3, PostStep
  <2> QED BY <1>1, <2>2, <2>3, <2>4, <2>5 DEF DlNext
<1>2. ASSUME NEW c \in Client, ClientNext(c) PROVE IInv'
  <2>1. CASE ClientFetch(c)
    BY <2>1, ClientFetchStep
  <2>2. CASE ClientPost(c)
    <3>1. "SMI" \in JobType /\ IsApiType("SMI") /\ c \in Thread
      BY DEF JobType, IsApiType, Thread
    <3>2. /\ PostJob(c, "SMI")
          /\ UNCHANGED <<mbox_avail, mbox_api_avail, job, nested, timeouts, exiting>>
      BY <2>2 DEF ClientPost
    <3>3. /\ pdin' \subseteq DlThread /\ waits' \subseteq Client
          /\ sent' \in [Client -> AnyJob \cup {NoJob}]
      BY <2>2, <3>1 DEF IInv, TypeOK, ClientPost
    <3> QED BY <3>1, <3>2, <3>3, PostStep
  <2>3. CASE ClientConfirmed(c)
    <3>1. TypeOK'
      BY <2>3 DEF IInv, TypeOK, ClientConfirmed, queues
    <3> QED BY <2>3, <3>1, QuietStep DEF ClientConfirmed, queues
  <2>4. CASE ClientTimeout(c)
    <3>1. TypeOK'
      BY <2>4 DEF IInv, TypeOK, ClientTimeout, queues
    <3> QED BY <2>4, <3>1, QuietStep DEF ClientTimeout, queues
  <2>5. CASE Deinit(c)
    BY <2>5, DeinitStep
  <2> QED BY <1>2, <2>1, <2>2, <2>3, <2>4, <2>5 DEF ClientNext
<1>3. CASE MainNext
  <2>1. Main \in Thread \ Client
    BY DEF Thread
  <2>2. CASE MainFetch
    BY <2>2, MainFetchStep
  <2>3. CASE CallbackFetch
    <3>1. nested' \in 0 .. MaxNested /\ pdin' \subseteq DlThread
      BY <2>3 DEF IInv, TypeOK, CallbackFetch, FetchAvailJob
    <3>2. CASE mbox_avail = << >>
      <4>1. TypeOK'
        BY <2>3, <3>1, <3>2 DEF IInv, TypeOK, CallbackFetch, FetchAvailJob, clients, Status
      <4> QED BY <2>3, <3>2, <4>1, QuietStep DEF CallbackFetch, FetchAvailJob
    <3>3. CASE mbox_avail # << >>
      BY <2>1, <2>3, <3>1, <3>3, FetchStep DEF CallbackFetch, FetchAvailJob
    <3> QED BY <3>2, <3>3
  <2>4. CASE CallbackPost
    <3>1. "INTERNAL" \in JobType /\ ~IsApiType("INTERNAL")
      BY DEF JobType, IsApiType
    <3>2. /\ PostJob(Main, "INTERNAL")
          /\ UNCHANGED <<mbox_avail, mbox_api_avail, job, nested, timeouts, exiting>>
      BY <2>4 DEF CallbackPost, clients
    <3>3. /\ pdin' \subseteq DlThread /\ waits' \subseteq Client
          /\ sent' \in [Client -> AnyJob \cup {NoJob}]
      BY <2>4 DEF IInv, TypeOK, CallbackPost, clients
    <3> QED BY <2>1, <3>1, <3>2, <3>3, PostStep
  <2>5. CASE MainReturn
    BY <2>5, MainReturnStep
  <2> QED BY <1>3, <2>2, <2>3, <2>4, <2>5 DEF MainNext
<1>4. CASE UNCHANGED vars
  <2>1. TypeOK'
    BY <1>4 DEF IInv, TypeOK, vars
  <2> QED BY <1>4, <2>1, QuietStep DEF vars
<1> QED BY <1>1, <1>2, <1>3, <1>4 DEF Next

THEOREM Invariance == Spec => []IInv
<1>1. Init => IInv
  BY InitIInv
<1>2. IInv /\ [Next]_vars => IInv'
  BY NextIInv
<1> QED BY <1>1, <1>2, PTL DEF Spec

\* The variables stay within their types.
THEOREM TypeCorrect == Spec => []TypeOK
<1>1. IInv => TypeOK
  BY DEF IInv
<1> QED BY <1>1, Invariance, PTL

\* Every job is in exactly one place, however the threads interleave.
THEOREM JobsConserved == Spec => [](NoJobTwice /\ NoJobLost)
<1>1. IInv => NoJobTwice /\ NoJobLost
  BY DEF IInv
<1> QED BY <1>1, Invariance, PTL

\* A job goes back to the pool it came from, although iolink_main looks only
\* at its type.
THEOREM PoolsSeparate == Spec => []PoolsKeepTheirJobs
<1>1. IInv => PoolsKeepTheirJobs
  BY DEF IInv
<1> QED BY <1>1, Invariance, PTL

\* The assertion after os_mbox_post cannot fire while the stack runs.
THEOREM PostNeverFails == Spec => []PostFailsOnlyWhileExiting
<1>1. IInv => PostFailsOnlyWhileExiting
  BY DEF IInv
<1> QED BY <1>1, Invariance, PTL

-----------------------------------------------------------------------------
(* The pool of the application threads is never empty when one of them needs *)
(* a job, although iolink_fetch_avail_api_job does not wait for one.         *)

\* What the number of the jobs must be for that (IOLINK_API_JOB_MAX_NUM): one more
\* than there are threads and requests given up.
ApiJobsSuffice ==
    IsFiniteSet(Client) /\ Cardinality(ApiJob) > Cardinality(Client) + MaxTimeouts

\* The job a thread of the application keeps from the pool
Own(c) == IF held[c] # NoJob THEN held[c] ELSE sent[c]

\* A thread holds a job before it waits, and has one under way while it waits.
OneJobEach ==
    \A c \in Client : /\ held[c] # NoJob => c \notin waits
                      /\ sent[c] # NoJob => c \in waits

\* A job is in the pool, kept by a thread, run by the main thread, or given up.
OutOfPool(j) == job = j \/ \E c \in Client : Own(c) = j
Accounted(abandoned) ==
    \A j \in ApiJob : In(j, mbox_api_avail) \/ OutOfPool(j) \/ j \in abandoned

FewAbandoned ==
    \E abandoned \in SUBSET ApiJob :
      Cardinality(abandoned) <= timeouts /\ Accounted(abandoned)

\* A post that fails leaves a job with a thread that waits, but ends the process.
ApiInv == (Running => OneJobEach /\ FewAbandoned) /\ ApiFetchNeverFails

LEMMA InitApiInv == Init => ApiInv
<1> SUFFICES ASSUME Init PROVE ApiInv
  OBVIOUS
<1>1. \A j : In(j, mbox_api_avail) <=> j \in ApiJob
  BY JobPoolAssumption, ListingProperties DEF Init
<1>2. {} \in SUBSET ApiJob /\ Cardinality({}) <= timeouts /\ Accounted({})
  BY <1>1, FS_EmptySet DEF Init, Accounted
<1> QED BY <1>2 DEF Init, ApiInv, OneJobEach, FewAbandoned, ApiFetchNeverFails, Thread

\* A function has no more values than arguments.
LEMMA FewerValues ==
    ASSUME NEW S, IsFiniteSet(S), NEW f, DOMAIN f = S
    PROVE  LET T == {f[x] : x \in S}
           IN  IsFiniteSet(T) /\ Cardinality(T) <= Cardinality(S)
<1> DEFINE T == {f[x] : x \in S}
           g == [x \in S |-> f[x]]
<1>1. g \in Surjection(S, T)
  BY DEF Surjection
<1> HIDE DEF g
<1> QED BY <1>1, FS_Surjection

\* A thread that is about to fetch a job finds one: the others keep one each, the
\* main thread runs one, and the rest have been given up.
LEMMA PoolNotEmpty ==
    ASSUME IInv, OneJobEach, FewAbandoned, ApiJobsSuffice,
           NEW c \in Client, c \notin waits, held[c] = NoJob
    PROVE  mbox_api_avail # << >>
<1> USE JobPoolAssumption
<1> SUFFICES ASSUME mbox_api_avail = << >> PROVE FALSE
  OBVIOUS
<1>1. PICK abandoned \in SUBSET ApiJob :
        Cardinality(abandoned) <= timeouts /\ Accounted(abandoned)
  BY DEF FewAbandoned
<1>2. Own(c) = NoJob
  BY DEF OneJobEach, Own
<1> DEFINE others == Client \ {c}
           own == [d \in others |-> Own(d)]
           kept == {own[d] : d \in others}
           all == (kept \cup {job}) \cup abandoned
<1>3. \A j : ~In(j, mbox_api_avail)
  BY DEF In
<1>4. NoJob \notin ApiJob
  OBVIOUS
<1>5. ApiJob \subseteq all
  <2> SUFFICES ASSUME NEW j \in ApiJob, j # job, j \notin abandoned PROVE j \in kept
    OBVIOUS
  <2>1. PICK d \in Client : Own(d) = j
    BY <1>1, <1>3 DEF Accounted, OutOfPool
  <2>2. d \in others
    BY <1>2, <1>4, <2>1
  <2> QED BY <2>1, <2>2
<1>6. /\ IsFiniteSet(others)
      /\ Cardinality(others) = Cardinality(Client) - 1
      /\ Cardinality(Client) \in Nat
  BY FS_RemoveElement, FS_CardinalityType DEF ApiJobsSuffice
<1>7. IsFiniteSet(kept) /\ Cardinality(kept) <= Cardinality(others)
  <2>1. DOMAIN own = others
    OBVIOUS
  <2> HIDE DEF own
  <2> QED BY <1>6, <2>1, FewerValues
<1>8. IsFiniteSet(abandoned)
  BY FS_Subset
<1> HIDE DEF kept, others
<1>9. /\ IsFiniteSet(kept \cup {job})
      /\ Cardinality(kept \cup {job}) <= Cardinality(kept) + 1
      /\ Cardinality(kept) \in Nat
  <2>1. Cardinality(kept) \in Nat
    BY <1>7, FS_CardinalityType
  <2>2. /\ IsFiniteSet(kept \cup {job})
        /\ Cardinality(kept \cup {job}) =
             IF job \in kept THEN Cardinality(kept) ELSE Cardinality(kept) + 1
    BY <1>7, FS_AddElement
  <2> QED BY <2>1, <2>2
<1>10. /\ IsFiniteSet(all)
       /\ Cardinality(all) <= Cardinality(kept \cup {job}) + Cardinality(abandoned)
       /\ Cardinality(kept \cup {job}) \in Nat
       /\ Cardinality(abandoned) \in Nat
       /\ Cardinality(all) \in Nat
  <2> DEFINE both == kept \cup {job}
             meet == both \cap abandoned
  <2>1. IsFiniteSet(meet)
    BY <1>9, FS_Subset
  <2>2. Cardinality(both) \in Nat /\ Cardinality(abandoned) \in Nat /\ Cardinality(meet) \in Nat
    BY <1>8, <1>9, <2>1, FS_CardinalityType
  <2>3. /\ IsFiniteSet(both \cup abandoned)
        /\ Cardinality(both \cup abandoned) =
             Cardinality(both) + Cardinality(abandoned) - Cardinality(meet)
    BY <1>8, <1>9, FS_Union
  <2>4. Cardinality(both \cup abandoned) \in Nat
    BY <2>3, FS_CardinalityType
  <2> HIDE DEF meet
  <2> QED BY <2>2, <2>3, <2>4
<1> HIDE DEF all
<1>11. Cardinality(ApiJob) <= Cardinality(all)
  BY <1>5, <1>10, FS_Subset
<1>12. timeouts \in 0 .. MaxTimeouts
  BY DEF IInv, TypeOK
<1>13. Cardinality(ApiJob) \in Nat
  BY FS_CardinalityType
<1> QED BY <1>1, <1>6, <1>7, <1>9, <1>10, <1>11, <1>12, <1>13 DEF ApiJobsSuffice

\* A step that takes no job out of sight and gives none up
LEMMA StillAccounted ==
    ASSUME FewAbandoned, timeouts' = timeouts,
           \A j \in ApiJob : In(j, mbox_api_avail) \/ OutOfPool(j)
                               => In(j, mbox_api_avail') \/ OutOfPool(j)'
    PROVE  FewAbandoned'
<1>1. PICK abandoned \in SUBSET ApiJob :
        Cardinality(abandoned) <= timeouts /\ Accounted(abandoned)
  BY DEF FewAbandoned
<1>2. Accounted(abandoned)'
  BY <1>1 DEF Accounted
<1> QED BY <1>1, <1>2 DEF FewAbandoned

LEMMA NextApiInv ==
    ASSUME ApiJobsSuffice, IInv, ApiInv, [Next]_vars
    PROVE  ApiInv'
<1> USE JobPoolAssumption
<1>1. /\ held \in [Thread -> AnyJob \cup {NoJob}]
      /\ sent \in [Client -> AnyJob \cup {NoJob}]
      /\ waits \subseteq Client
      /\ timeouts \in 0 .. MaxTimeouts
      /\ Client \subseteq Thread
      /\ NoJob \notin AnyJob
  BY DEF IInv, TypeOK, Thread, AnyJob
<1>2. CASE UNCHANGED vars
  BY <1>2 DEF vars, ApiInv, Running, OneJobEach, FewAbandoned, Accounted, OutOfPool, Own,
              ApiFetchNeverFails
<1>3. SUFFICES ASSUME Next PROVE ApiInv'
  BY <1>2
<1>4. Running /\ OneJobEach /\ FewAbandoned
  <2>1. Running
    BY <1>3 DEF Next, DlNext, DlFetch, DlPdInput, DlFetchPd, DlPost, ClientNext, ClientFetch,
                ClientPost, ClientConfirmed, ClientTimeout, Deinit, MainNext, MainFetch,
                CallbackFetch, CallbackPost, MainReturn
  <2> QED BY <2>1 DEF ApiInv
\* The other threads take no job of the application's pool.
<1>5. ASSUME NEW t \in Thread \ Client, held' = held \/ \E j : held' = [held EXCEPT ![t] = j],
             UNCHANGED <<mbox_api_avail, job, waits, sent, timeouts>>,
             status' # "assert_api_fetch"
      PROVE  ApiInv'
  <2>1. \A c \in Client : held'[c] = held[c]
    BY <1>1, <1>5
  <2>2. FewAbandoned'
    <3>1. \A c \in Client : Own(c)' = Own(c)
      BY <1>5, <2>1 DEF Own
    <3> QED BY <1>4, <1>5, <3>1, StillAccounted DEF OutOfPool
  <2>3. OneJobEach'
    BY <1>4, <1>5, <2>1 DEF OneJobEach
  <2> QED BY <1>5, <2>2, <2>3 DEF ApiInv, ApiFetchNeverFails
<1>6. ASSUME NEW d \in DlThread, DlNext(d) PROVE ApiInv'
  <2>1. d \in Thread \ Client
    BY DEF Thread
  <2>2. held' = held \/ \E j : held' = [held EXCEPT ![d] = j]
    BY <1>6 DEF DlNext, DlFetch, FetchAvailJob, DlPdInput, DlFetchPd, DlPost, PostJob
  <2>3. /\ UNCHANGED <<mbox_api_avail, job, waits, sent, timeouts>>
        /\ status' # "assert_api_fetch"
    BY <1>4, <1>6 DEF DlNext, DlFetch, FetchAvailJob, DlPdInput, DlFetchPd, DlPost, PostJob,
                      queues, clients, Running
  <2> QED BY <1>5, <2>1, <2>2, <2>3
<1>7. ASSUME NEW c \in Client, ClientFetch(c) PROVE ApiInv'
  <2> DEFINE h == Head(mbox_api_avail)
  <2>1. /\ c \notin waits
        /\ held[c] = NoJob
        /\ UNCHANGED <<job, waits, sent, timeouts>>
    BY <1>7 DEF ClientFetch, clients
  <2>2. mbox_api_avail # << >>
    BY <1>4, <2>1, PoolNotEmpty
  <2>3. /\ held' = [held EXCEPT ![c] = h]
        /\ mbox_api_avail' = Fetched(mbox_api_avail)
        /\ status' = status
    BY <1>7, <2>2 DEF ClientFetch
  <2>4. \A k : In(k, mbox_api_avail') <=> In(k, mbox_api_avail) /\ k # h
    BY <2>2, <2>3, FetchedProperties DEF IInv, TypeOK, NoJobTwice
  <2>5. /\ h \in AnyJob
        /\ held'[c] = h
        /\ \A d \in Client : d # c => held'[d] = held[d]
    BY <1>1, <2>2, <2>3, FetchedProperties DEF IInv, TypeOK
  <2> HIDE DEF h
  <2>6. /\ Own(c) = NoJob
        /\ Own(c)' = h
        /\ \A d \in Client : d # c => Own(d)' = Own(d)
    BY <1>1, <1>4, <2>1, <2>5 DEF Own, OneJobEach
  <2>7. FewAbandoned'
    <3>1. \A j \in ApiJob : In(j, mbox_api_avail) \/ OutOfPool(j)
                              => In(j, mbox_api_avail') \/ OutOfPool(j)'
      BY <1>1, <2>1, <2>4, <2>6 DEF OutOfPool, AnyJob
    <3> QED BY <1>4, <2>1, <3>1, StillAccounted
  <2>8. OneJobEach'
    BY <1>4, <2>1, <2>5 DEF OneJobEach
  <2> QED BY <1>4, <2>3, <2>7, <2>8 DEF ApiInv, ApiFetchNeverFails, Running
<1>8. ASSUME NEW c \in Client, ClientPost(c) PROVE ApiInv'
  <2>1. /\ held[c] # NoJob
        /\ waits' = waits \cup {c}
        /\ sent' = [sent EXCEPT ![c] = held[c]]
        /\ UNCHANGED <<mbox_api_avail, job, timeouts>>
    BY <1>8 DEF ClientPost, PostJob
  <2>2. CASE Len(mbox) < Capacity
    <3>1. held' = [held EXCEPT ![c] = NoJob] /\ status' = status
      BY <1>8, <2>2 DEF ClientPost, PostJob
    <3>2. /\ held'[c] = NoJob /\ sent'[c] = held[c]
          /\ \A d \in Client : d # c => held'[d] = held[d] /\ sent'[d] = sent[d]
      BY <1>1, <2>1, <3>1
    <3>3. \A d \in Client : Own(d)' = Own(d)
      BY <2>1, <3>2 DEF Own
    <3>4. FewAbandoned'
      BY <1>4, <2>1, <3>3, StillAccounted DEF OutOfPool
    <3>5. OneJobEach'
      BY <1>4, <2>1, <3>2 DEF OneJobEach
    <3> QED BY <1>4, <3>1, <3>4, <3>5 DEF ApiInv, ApiFetchNeverFails, Running
  <2>3. CASE ~(Len(mbox) < Capacity)
    <3>1. status' = "assert_post"
      BY <1>8, <2>3 DEF ClientPost, PostJob
    <3> QED BY <3>1 DEF ApiInv, ApiFetchNeverFails, Running
  <2> QED BY <2>2, <2>3
<1>9. ASSUME NEW c \in Client, ClientConfirmed(c) PROVE ApiInv'
  <2>1. /\ c \in waits /\ sent[c] = NoJob
        /\ waits' = waits \ {c}
        /\ UNCHANGED <<mbox_api_avail, held, job, sent, timeouts, status>>
    BY <1>9 DEF ClientConfirmed, Confirmable, queues
  <2>2. FewAbandoned'
    BY <1>4, <2>1, StillAccounted DEF OutOfPool, Own
  <2>3. OneJobEach'
    BY <1>4, <2>1 DEF OneJobEach
  <2> QED BY <1>4, <2>1, <2>2, <2>3 DEF ApiInv, ApiFetchNeverFails, Running
<1>10. ASSUME NEW c \in Client, ClientTimeout(c) PROVE ApiInv'
  <2>1. /\ c \in waits
        /\ waits' = waits \ {c}
        /\ sent' = [sent EXCEPT ![c] = NoJob]
        /\ timeouts' = timeouts + 1
        /\ UNCHANGED <<mbox_api_avail, held, job, status>>
    BY <1>10 DEF ClientTimeout, queues
  <2>2. sent'[c] = NoJob /\ \A d \in Client : d # c => sent'[d] = sent[d]
    BY <1>1, <2>1
  <2>3. OneJobEach'
    BY <1>4, <2>1, <2>2 DEF OneJobEach
  <2>4. FewAbandoned'
    <3>1. PICK abandoned \in SUBSET ApiJob :
            Cardinality(abandoned) <= timeouts /\ Accounted(abandoned)
      BY <1>4 DEF FewAbandoned
    <3>2. PICK more \in SUBSET ApiJob : more = (abandoned \cup {sent[c]}) \cap ApiJob
      OBVIOUS
    <3>3. Cardinality(more) <= timeouts'
      <4> DEFINE with == abandoned \cup {sent[c]}
      <4>1. IsFiniteSet(abandoned)
        BY FS_Subset
      <4>2. Cardinality(abandoned) \in Nat
        BY <4>1, FS_CardinalityType
      <4>3. /\ IsFiniteSet(with)
            /\ Cardinality(with) = IF sent[c] \in abandoned THEN Cardinality(abandoned)
                                                            ELSE Cardinality(abandoned) + 1
        BY <4>1, FS_AddElement
      <4>4. more \in SUBSET with
        BY <3>2
      <4> HIDE DEF with
      <4>5. IsFiniteSet(more) /\ Cardinality(more) <= Cardinality(with)
        BY <4>3, <4>4, FS_Subset
      <4>6. Cardinality(more) \in Nat
        BY <4>5, FS_CardinalityType
      <4> QED BY <1>1, <2>1, <3>1, <4>2, <4>3, <4>5, <4>6
    <3>4. \A j \in ApiJob : OutOfPool(j) => OutOfPool(j)' \/ j \in more
      BY <1>1, <1>4, <2>1, <2>2, <3>2 DEF OutOfPool, Own, OneJobEach
    <3>5. Accounted(more)'
      BY <2>1, <3>1, <3>2, <3>4 DEF Accounted
    <3> QED BY <3>3, <3>5 DEF FewAbandoned
  <2> QED BY <1>4, <2>1, <2>3, <2>4 DEF ApiInv, ApiFetchNeverFails, Running
<1>11. ASSUME NEW c \in Client, Deinit(c) PROVE ApiInv'
  <2>1. UNCHANGED <<mbox_api_avail, held, job, waits, sent, timeouts>>
    BY <1>11 DEF Deinit, clients
  <2>2. status' # "assert_api_fetch"
    BY <1>4, <1>11 DEF Deinit, Running
  <2>3. FewAbandoned' /\ OneJobEach'
    BY <1>4, <2>1 DEF FewAbandoned, Accounted, OutOfPool, Own, OneJobEach
  <2> QED BY <2>2, <2>3 DEF ApiInv, ApiFetchNeverFails
<1>12. CASE MainFetch
  <2> DEFINE h == Head(mbox)
  <2>1. job = NoJob /\ UNCHANGED <<mbox_api_avail, held, waits, timeouts>>
    BY <1>12 DEF MainFetch
  <2>2. CASE EndsLoop(h)
    <3>1. status' = "exited"
      BY <1>12, <2>2 DEF MainFetch
    <3> QED BY <3>1 DEF ApiInv, ApiFetchNeverFails, Running
  <2>3. CASE ~EndsLoop(h)
    <3>1. /\ job' = h
          /\ sent' = [c \in Client |-> IF sent[c] = h THEN NoJob ELSE sent[c]]
          /\ status' = status
      BY <1>12, <2>3 DEF MainFetch
    <3>2. OneJobEach'
      BY <1>4, <2>1, <3>1 DEF OneJobEach
    <3>3. \A j \in ApiJob : OutOfPool(j) => OutOfPool(j)'
      BY <1>1, <2>1, <3>1 DEF OutOfPool, Own, AnyJob
    <3>4. FewAbandoned'
      BY <1>4, <2>1, <3>3, StillAccounted
    <3> QED BY <1>4, <3>1, <3>2, <3>4 DEF ApiInv, ApiFetchNeverFails, Running
  <2> QED BY <2>2, <2>3
<1>13. CASE CallbackFetch \/ CallbackPost
  <2>1. Main \in Thread \ Client
    BY DEF Thread
  <2>2. held' = held \/ \E j : held' = [held EXCEPT ![Main] = j]
    BY <1>13 DEF CallbackFetch, FetchAvailJob, CallbackPost, PostJob
  <2>3. /\ UNCHANGED <<mbox_api_avail, job, waits, sent, timeouts>>
        /\ status' # "assert_api_fetch"
    BY <1>4, <1>13 DEF CallbackFetch, FetchAvailJob, CallbackPost, PostJob, clients, Running
  <2> QED BY <1>5, <2>1, <2>2, <2>3
<1>14. CASE MainReturn
  <2>1. /\ job # NoJob
        /\ job' = NoJob
        /\ UNCHANGED <<held, waits, sent, timeouts, status>>
    BY <1>14 DEF MainReturn, clients
  <2>2. \A j \in ApiJob : In(j, mbox_api_avail) \/ j = job => In(j, mbox_api_avail')
    <3>1. CASE IsApiType(type[job])
      <4>1. job \in AnyJob
        BY <2>1 DEF IInv, TypeOK
      <4>2. job \in ApiJob /\ Len(mbox_api_avail) < Cardinality(ApiJob)
        BY <2>1, <3>1, <4>1, RoomToReturn DEF IInv, JobsAreTyped
      <4>3. mbox_api_avail' = Posted(mbox_api_avail, job)
        BY <1>14, <3>1, <4>2 DEF MainReturn, PostOrDrop
      <4> QED BY <4>1, <4>3, PostedProperties DEF IInv, TypeOK
    <3>2. CASE ~IsApiType(type[job])
      <4>1. job \notin ApiJob
        BY <2>1, <3>2 DEF IInv, TypeOK, JobsAreTyped
      <4>2. mbox_api_avail' = mbox_api_avail
        BY <1>14, <3>2 DEF MainReturn
      <4> QED BY <4>1, <4>2
    <3> QED BY <3>1, <3>2
  <2>3. \A j \in ApiJob : In(j, mbox_api_avail) \/ OutOfPool(j)
                            => In(j, mbox_api_avail') \/ OutOfPool(j)'
    BY <2>1, <2>2 DEF OutOfPool, Own
  <2>4. FewAbandoned'
    BY <1>4, <2>1, <2>3, StillAccounted
  <2>5. OneJobEach'
    BY <1>4, <2>1 DEF OneJobEach
  <2> QED BY <1>4, <2>1, <2>4, <2>5 DEF ApiInv, ApiFetchNeverFails, Running
<1> QED BY <1>3, <1>6, <1>7, <1>8, <1>9, <1>10, <1>11, <1>12, <1>13, <1>14
        DEF Next, ClientNext, MainNext

\* An application thread that asks for a job gets one, though the code has no way
\* to make it wait: the assertion of iolink_fetch_avail_api_job cannot fire when the
\* pool has one job more than there are threads and requests given up.
THEOREM ApiPoolSuffices == ASSUME ApiJobsSuffice PROVE Spec => []ApiFetchNeverFails
<1>1. Init => ApiInv
  BY InitApiInv
<1>2. IInv /\ ApiInv /\ [Next]_vars => ApiInv'
  BY NextApiInv
<1>3. ApiInv => ApiFetchNeverFails
  BY DEF ApiInv
<1> QED BY <1>1, <1>2, <1>3, Invariance, PTL DEF Spec
=============================================================================
