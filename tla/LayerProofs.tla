----------------------------- MODULE LayerProofs -----------------------------
(***************************************************************************)
(* What the callbacks of the main thread make of a port, for every value   *)
(* of the constants: those of system management, configuration manager,    *)
(* data storage, application layer and on-request data exchange.  Each has *)
(* a lemma; PortStackProofs puts them together.                            *)
(***************************************************************************)
EXTENDS DataLinkProofs

\* A callback that has nothing to do with users or the events of the device and, unless
\* it is one of data storage, leaves the event of data storage alone.
Still(p, q) == Unseen(p, q) /\ q.ds.event = p.ds.event

LEMMA StillNot == ASSUME NEW p, PortOK(p) PROVE Still(p, p)
  BY UnseenNot DEF Still

LEMMA StillTwice ==
  ASSUME NEW p, NEW q, NEW r, PortOK(p), Still(p, q), Still(q, r)
  PROVE  Still(p, r)
  BY UnseenTwice DEF Still

LEMMA UnseenPortOK == ASSUME NEW p, NEW q, Unseen(p, q) PROVE PortOK(q)
  BY DEF Unseen

LEMMA StillPortOK == ASSUME NEW p, NEW q, Still(p, q) PROVE PortOK(q)
  BY DEF Still, Unseen

LEMMA DlStill == ASSUME NEW p, NEW q, DlStep(p, q) PROVE Still(p, q)
  BY DEF DlStep, Still

\* The jobs by which the application is let in, and kept out
GateJobs == {"OD_START", "OD_STOP"}

\* No job of data storage is posted, and none of those.
Clear(m, n) == \A i \in Len(m) + 1 .. Len(n) : n[i].type \notin StorageJobs \union GateJobs

LEMMA ClearNot == ASSUME NEW m, Len(m) \in Nat PROVE Clear(m, m)
  BY DEF Clear

LEMMA ClearApart == ASSUME NEW m, NEW n, Clear(m, n) PROVE Apart(m, n)
  BY DEF Clear, Apart

LEMMA ModestClear == ASSUME NEW m, NEW n, Modest(m, n) PROVE Clear(m, n)
  BY DEF Clear, Modest, Claimed, PortJobs, GateJobs

LEMMA ClearTwice ==
  ASSUME NEW l \in Seq(JobSet), NEW m \in Seq(JobSet), NEW n \in Seq(JobSet),
         Len(l) <= Len(m), \A i \in 1..Len(m) : n[i] = m[i], Clear(l, m), Clear(m, n)
  PROVE  Clear(l, n)
<1>1. Len(l) \in Nat /\ Len(m) \in Nat /\ Len(n) \in Nat
  OBVIOUS
<1> SUFFICES ASSUME NEW i \in Len(l) + 1 .. Len(n)
             PROVE  n[i].type \notin StorageJobs \union GateJobs
  BY DEF Clear
<1>2. CASE i <= Len(m)
  <2>1. i \in Len(l) + 1 .. Len(m) /\ n[i] = m[i]
    BY <1>1, <1>2
  <2> QED
    BY <2>1 DEF Clear
<1>3. CASE ~(i <= Len(m))
  <2>1. i \in Len(m) + 1 .. Len(n)
    BY <1>1, <1>3
  <2> QED
    BY <2>1 DEF Clear
<1> QED
  BY <1>2, <1>3

\* A callback of the layers below: it leaves the configuration manager and data storage
\* alone, too, and posts none of their jobs, nor lets the application in or out.
Below(p, q) == Still(p, q) /\ q.cm = p.cm /\ q.ds = p.ds /\ Clear(p.mbox, q.mbox)

LEMMA BelowStill == ASSUME NEW p, NEW q, Below(p, q) PROVE Still(p, q)
  BY DEF Below

LEMMA BelowNot == ASSUME NEW p, PortOK(p) PROVE Below(p, p)
<1>1. Len(p.mbox) \in Nat
  BY DEF PortOK
<1> QED
  BY <1>1, StillNot, ClearNot DEF Below

LEMMA BelowTwice ==
  ASSUME NEW p, NEW q, NEW r, PortOK(p), Below(p, q), Below(q, r)
  PROVE  Below(p, r)
<1>1. p.mbox \in Seq(JobSet) /\ q.mbox \in Seq(JobSet) /\ r.mbox \in Seq(JobSet)
  BY DEF Below, Still, Unseen, PortOK
<1>2. Clear(p.mbox, r.mbox)
  BY <1>1, ClearTwice DEF Below, Still, Unseen, Grows
<1> QED
  BY <1>2, StillTwice DEF Below

LEMMA BelowPortOK == ASSUME NEW p, NEW q, Below(p, q) PROVE PortOK(q)
  BY DEF Below, Still, Unseen

LEMMA DlBelow == ASSUME NEW p, NEW q, DlStep(p, q) PROVE Below(p, q)
  BY DlStill, ModestClear DEF DlStep, Below

\* Of the jobs that configure the port and tell of it only those of the system management
\* are posted, and none says that the port is off unless it is configured so.
OffOnly(m, n, mode) ==
  \A i \in Len(m) + 1 .. Len(n) : n[i].type \in PortJobs =>
    n[i].type = "SM_PORT_MODE_IND" /\ (n[i].mode = "INACTIVE" => mode = "INACTIVE")

\* A callback of the system management that does not configure it
Under(p, q) ==
  /\ Below(p, q)
  /\ q.sm.config = p.sm.config
  /\ OffOnly(p.mbox, q.mbox, p.sm.config.mode)

LEMMA OffOnlyNot == ASSUME NEW m \in Seq(JobSet), NEW mode PROVE OffOnly(m, m, mode)
<1>1. Len(m) \in Nat
  OBVIOUS
<1> QED
  BY <1>1 DEF OffOnly

LEMMA ModestOffOnly ==
  ASSUME NEW m, NEW n, NEW mode, Modest(m, n) PROVE OffOnly(m, n, mode)
  BY DEF Modest, OffOnly, Claimed

LEMMA UnderNot == ASSUME NEW p, PortOK(p) PROVE Under(p, p)
<1>1. OffOnly(p.mbox, p.mbox, p.sm.config.mode)
  BY OffOnlyNot DEF PortOK
<1> QED
  BY <1>1, BelowNot DEF Under

LEMMA OffOnlyTwice ==
  ASSUME NEW l \in Seq(JobSet), NEW m \in Seq(JobSet), NEW n \in Seq(JobSet), NEW mode,
         Len(l) <= Len(m), \A i \in 1..Len(m) : n[i] = m[i],
         OffOnly(l, m, mode), OffOnly(m, n, mode)
  PROVE  OffOnly(l, n, mode)
<1>1. Len(l) \in Nat /\ Len(m) \in Nat /\ Len(n) \in Nat
  OBVIOUS
<1> SUFFICES ASSUME NEW i \in Len(l) + 1 .. Len(n), n[i].type \in PortJobs
             PROVE  /\ n[i].type = "SM_PORT_MODE_IND"
                    /\ n[i].mode = "INACTIVE" => mode = "INACTIVE"
  BY DEF OffOnly
<1>2. CASE i <= Len(m)
  <2>1. i \in Len(l) + 1 .. Len(m) /\ n[i] = m[i]
    BY <1>1, <1>2
  <2> QED
    BY <2>1 DEF OffOnly
<1>3. CASE ~(i <= Len(m))
  <2>1. i \in Len(m) + 1 .. Len(n)
    BY <1>1, <1>3
  <2> QED
    BY <2>1 DEF OffOnly
<1> QED
  BY <1>2, <1>3

LEMMA UnderTwice ==
  ASSUME NEW p, NEW q, NEW r, PortOK(p), Under(p, q), Under(q, r)
  PROVE  Under(p, r)
<1>1. p.mbox \in Seq(JobSet) /\ q.mbox \in Seq(JobSet) /\ r.mbox \in Seq(JobSet)
  BY DEF Under, Below, Still, Unseen, PortOK
<1>2. OffOnly(p.mbox, r.mbox, p.sm.config.mode)
  BY <1>1, OffOnlyTwice DEF Under, Below, Still, Unseen, Grows
<1> QED
  BY <1>2, BelowTwice DEF Under

LEMMA UnderPortOK == ASSUME NEW p, NEW q, Under(p, q) PROVE PortOK(q)
  BY BelowPortOK DEF Under

LEMMA DlUnder == ASSUME NEW p, NEW q, DlStep(p, q) PROVE Under(p, q)
  BY DlBelow, ModestOffOnly DEF DlStep, Under

\* The state of the system management is set.
LEMMA SetSm ==
  ASSUME NEW p, PortOK(p), NEW x, SmOK(x)
  PROVE  Below(p, [p EXCEPT !.sm = x])
<1> DEFINE q == [p EXCEPT !.sm = x]
<1>1. DOMAIN p = PortFields /\ p.mbox \in Seq(JobSet)
  BY DEF PortOK
<1>2. /\ DOMAIN q = PortFields /\ q.sm = x
      /\ \A f \in PortFields \ {"sm"} : q[f] = p[f]
  BY <1>1 DEF PortFields
<1> HIDE DEF q
<1>3. /\ q.cm = p.cm /\ q.ds = p.ds /\ q.al = p.al /\ q.dl = p.dl
      /\ q.mbox = p.mbox /\ q.events = p.events /\ q.dev = p.dev /\ q.user = p.user
      /\ q.od = p.od /\ q.told = p.told /\ q.lost = p.lost /\ q.failed = p.failed
  BY <1>2 DEF PortFields
<1>4. PortOK(q)
  BY <1>2, <1>3 DEF PortOK
<1>5. Grows(p.mbox, q.mbox) /\ Clear(p.mbox, q.mbox)
  <2>1. Len(p.mbox) \in Nat
    BY <1>1
  <2> QED
    BY <1>1, <1>3, <2>1, GrowsNot, ClearNot
<1>6. Below(p, q)
  BY <1>2, <1>3, <1>4, <1>5 DEF Unseen, Still, Below
<1> QED
  BY <1>6 DEF q

LEMMA SetSmUnder ==
  ASSUME NEW p, PortOK(p), NEW x, SmOK(x), x.config = p.sm.config
  PROVE  Under(p, [p EXCEPT !.sm = x])
<1> DEFINE q == [p EXCEPT !.sm = x]
<1>1. q.sm = x /\ q.mbox = p.mbox /\ p.mbox \in Seq(JobSet)
  BY DEF PortOK, PortFields
<1>2. Below(p, q)
  BY SetSm
<1> HIDE DEF q
<1>3. Under(p, q)
  BY <1>1, <1>2, OffOnlyNot DEF Under
<1> QED
  BY <1>3 DEF q

\* The state of the configuration manager is set.
LEMMA SetCm ==
  ASSUME NEW p, PortOK(p), NEW x, CmOK(x)
  PROVE  Still(p, [p EXCEPT !.cm = x])
<1> DEFINE q == [p EXCEPT !.cm = x]
<1>1. DOMAIN p = PortFields /\ p.mbox \in Seq(JobSet)
  BY DEF PortOK
<1>2. /\ DOMAIN q = PortFields /\ q.cm = x
      /\ \A f \in PortFields \ {"cm"} : q[f] = p[f]
  BY <1>1 DEF PortFields
<1> HIDE DEF q
<1>3. /\ q.sm = p.sm /\ q.ds = p.ds /\ q.al = p.al /\ q.dl = p.dl
      /\ q.mbox = p.mbox /\ q.events = p.events /\ q.dev = p.dev /\ q.user = p.user
      /\ q.od = p.od /\ q.told = p.told /\ q.lost = p.lost /\ q.failed = p.failed
  BY <1>2 DEF PortFields
<1>4. PortOK(q)
  BY <1>2, <1>3 DEF PortOK
<1>5. Grows(p.mbox, q.mbox)
  BY <1>1, <1>3, GrowsNot
<1>6. Still(p, q)
  BY <1>2, <1>3, <1>4, <1>5 DEF Unseen, Still
<1> QED
  BY <1>6 DEF q

\* The state of data storage is set.
LEMMA SetDs ==
  ASSUME NEW p, PortOK(p), NEW x, DsOK(x)
  PROVE  Unseen(p, [p EXCEPT !.ds = x])
<1> DEFINE q == [p EXCEPT !.ds = x]
<1>1. DOMAIN p = PortFields /\ p.mbox \in Seq(JobSet)
  BY DEF PortOK
<1>2. /\ DOMAIN q = PortFields /\ q.ds = x
      /\ \A f \in PortFields \ {"ds"} : q[f] = p[f]
  BY <1>1 DEF PortFields
<1> HIDE DEF q
<1>3. /\ q.cm = p.cm /\ q.sm = p.sm /\ q.al = p.al /\ q.dl = p.dl
      /\ q.mbox = p.mbox /\ q.events = p.events /\ q.dev = p.dev /\ q.user = p.user
      /\ q.od = p.od /\ q.told = p.told /\ q.lost = p.lost /\ q.failed = p.failed
  BY <1>2 DEF PortFields
<1>4. PortOK(q)
  BY <1>2, <1>3 DEF PortOK
<1>5. Grows(p.mbox, q.mbox)
  BY <1>1, <1>3, GrowsNot
<1>6. Unseen(p, q)
  BY <1>2, <1>3, <1>4, <1>5 DEF Unseen, Still
<1> QED
  BY <1>6 DEF q

\* The program stops.
LEMMA SetFailed ==
  ASSUME NEW p, PortOK(p), NEW x
  PROVE  Below(p, [p EXCEPT !.failed = x])
<1> DEFINE q == [p EXCEPT !.failed = x]
<1>1. DOMAIN p = PortFields /\ p.mbox \in Seq(JobSet)
  BY DEF PortOK
<1>2. /\ DOMAIN q = PortFields /\ q.failed = x
      /\ \A f \in PortFields \ {"failed"} : q[f] = p[f]
  BY <1>1 DEF PortFields
<1> HIDE DEF q
<1>3. /\ q.cm = p.cm /\ q.sm = p.sm /\ q.ds = p.ds /\ q.al = p.al
      /\ q.dl = p.dl /\ q.mbox = p.mbox /\ q.events = p.events /\ q.dev = p.dev
      /\ q.user = p.user /\ q.od = p.od /\ q.told = p.told /\ q.lost = p.lost
  BY <1>2 DEF PortFields
<1>4. PortOK(q)
  BY <1>2, <1>3 DEF PortOK
<1>5. Grows(p.mbox, q.mbox) /\ Clear(p.mbox, q.mbox)
  <2>1. Len(p.mbox) \in Nat
    BY <1>1
  <2> QED
    BY <1>1, <1>3, <2>1, GrowsNot, ClearNot
<1>6. Below(p, q)
  BY <1>2, <1>3, <1>4, <1>5 DEF Unseen, Still, Below
<1> QED
  BY <1>6 DEF q

LEMMA FailedUnder ==
  ASSUME NEW p, PortOK(p), NEW x PROVE Under(p, [p EXCEPT !.failed = x])
<1> DEFINE q == [p EXCEPT !.failed = x]
<1>1. q.sm = p.sm /\ q.mbox = p.mbox /\ p.mbox \in Seq(JobSet)
  BY DEF PortOK, PortFields
<1>2. Below(p, q)
  BY SetFailed
<1> HIDE DEF q
<1>3. Under(p, q)
  BY <1>1, <1>2, OffOnlyNot DEF Under
<1> QED
  BY <1>3 DEF q

\* The application is told that the device is lost, or starts again.
LEMMA SetLost ==
  ASSUME NEW p, PortOK(p), NEW x
  PROVE  Below(p, [p EXCEPT !.lost = x])
<1> DEFINE q == [p EXCEPT !.lost = x]
<1>1. DOMAIN p = PortFields /\ p.mbox \in Seq(JobSet)
  BY DEF PortOK
<1>2. /\ DOMAIN q = PortFields /\ q.lost = x
      /\ \A f \in PortFields \ {"lost"} : q[f] = p[f]
  BY <1>1 DEF PortFields
<1> HIDE DEF q
<1>3. /\ q.cm = p.cm /\ q.sm = p.sm /\ q.ds = p.ds /\ q.al = p.al
      /\ q.dl = p.dl /\ q.mbox = p.mbox /\ q.events = p.events /\ q.dev = p.dev
      /\ q.user = p.user /\ q.od = p.od /\ q.told = p.told /\ q.failed = p.failed
  BY <1>2 DEF PortFields
<1>4. PortOK(q)
  BY <1>2, <1>3 DEF PortOK
<1>5. Grows(p.mbox, q.mbox) /\ Clear(p.mbox, q.mbox)
  <2>1. Len(p.mbox) \in Nat
    BY <1>1
  <2> QED
    BY <1>1, <1>3, <2>1, GrowsNot, ClearNot
<1>6. Below(p, q)
  BY <1>2, <1>3, <1>4, <1>5 DEF Unseen, Still, Below
<1> QED
  BY <1>6 DEF q

\* A job is posted.
LEMMA Posted ==
  ASSUME NEW p, PortOK(p), NEW job \in JobSet
  PROVE  LET q == Post(p, job) IN
         /\ PortOK(q) /\ q.mbox = Append(p.mbox, job)
         /\ q.user = p.user /\ q.od = p.od /\ q.told = p.told
         /\ q.al = p.al /\ q.ds = p.ds /\ q.cm = p.cm
<1> DEFINE q == Post(p, job)
<1>1. DOMAIN p = PortFields /\ p.mbox \in Seq(JobSet)
  BY DEF PortOK
<1>2. /\ DOMAIN q = PortFields /\ q.mbox = Append(p.mbox, job)
      /\ \A f \in PortFields \ {"mbox"} : q[f] = p[f]
  BY <1>1 DEF Post, PortFields
<1> HIDE DEF q
<1>3. /\ q.cm = p.cm /\ q.sm = p.sm /\ q.ds = p.ds /\ q.al = p.al /\ q.dl = p.dl
      /\ q.events = p.events /\ q.dev = p.dev /\ q.user = p.user
      /\ q.od = p.od /\ q.told = p.told /\ q.lost = p.lost /\ q.failed = p.failed
  BY <1>2 DEF PortFields
<1>4. q.mbox \in Seq(JobSet)
  BY <1>1, <1>2
<1>5. PortOK(q)
  BY <1>2, <1>3, <1>4 DEF PortOK
<1> QED
  BY <1>2, <1>3, <1>5 DEF q

LEMMA PostStill ==
  ASSUME NEW p, PortOK(p), NEW job \in QuietJobs, job.type # "DL_EVENT_IND"
  PROVE  Still(p, Post(p, job))
<1> DEFINE q == Post(p, job)
<1>1. job \in JobSet
  BY DEF JobSet
<1>2. /\ PortOK(q) /\ q.mbox = Append(p.mbox, job)
      /\ q.user = p.user /\ q.od = p.od /\ q.told = p.told /\ q.al = p.al /\ q.ds = p.ds
  BY <1>1, Posted
<1> HIDE DEF q
<1>3. Grows(p.mbox, Append(p.mbox, job))
  BY GrowsByOne DEF PortOK
<1>4. Still(p, q)
  BY <1>2, <1>3 DEF Still, Unseen
<1> QED
  BY <1>4 DEF q

\* A job that has nothing to do with data storage
LEMMA PostBelow ==
  ASSUME NEW p, PortOK(p),
         NEW job \in QuietJobs, job.type \notin StorageJobs \union GateJobs \union {"DL_EVENT_IND"}
  PROVE  Below(p, Post(p, job))
<1> DEFINE q == Post(p, job)
<1>1. job \in JobSet
  BY DEF JobSet
<1>2. q.mbox = Append(p.mbox, job) /\ q.cm = p.cm /\ q.ds = p.ds
  BY <1>1, Posted
<1>3. Still(p, q)
  BY PostStill
<1> HIDE DEF q
<1>4. p.mbox \in Seq(JobSet)
  BY DEF PortOK
<1>5. /\ \A i \in Len(p.mbox) + 1 .. Len(Append(p.mbox, job)) : i = Len(p.mbox) + 1
      /\ Append(p.mbox, job)[Len(p.mbox) + 1] = job
  BY <1>1, <1>4
<1>6. Clear(p.mbox, q.mbox)
  BY <1>2, <1>5 DEF Clear
<1>7. Below(p, q)
  BY <1>2, <1>3, <1>6 DEF Below
<1> QED
  BY <1>7 DEF q

\* A job of the system management for another layer than the data link layer
LEMMA PostUnder ==
  ASSUME NEW p, PortOK(p),
         NEW job \in QuietJobs, job.type \notin StorageJobs \union {"DL_EVENT_IND"},
         job.type \in PortJobs =>
           /\ job.type = "SM_PORT_MODE_IND"
           /\ job.mode = "INACTIVE" => p.sm.config.mode = "INACTIVE"
  PROVE  Under(p, Post(p, job))
<1> DEFINE q == Post(p, job)
<1>1. Below(p, q)
  <2>1. job.type \notin GateJobs
    BY DEF GateJobs, PortJobs
  <2> QED
    BY <2>1, PostBelow
<1>2. q.mbox = Append(p.mbox, job) /\ q.sm = p.sm
  BY DEF Post, PortOK, PortFields
<1> HIDE DEF q
<1>3. p.mbox \in Seq(JobSet) /\ job \in JobSet
  BY DEF PortOK, JobSet
<1>4. /\ \A i \in Len(p.mbox) + 1 .. Len(Append(p.mbox, job)) : i = Len(p.mbox) + 1
      /\ Append(p.mbox, job)[Len(p.mbox) + 1] = job
  BY <1>3
<1>5. OffOnly(p.mbox, q.mbox, p.sm.config.mode)
  BY <1>2, <1>4 DEF OffOnly
<1>6. Under(p, q)
  BY <1>1, <1>2, <1>5 DEF Under
<1> QED
  BY <1>6 DEF q

-----------------------------------------------------------------------------
(* System management *)

LEMMA SM_PortMode_indStep ==
  ASSUME NEW p, PortOK(p), NEW mode \in PortModes,
         mode = "INACTIVE" => p.sm.config.mode = "INACTIVE"
  PROVE  Under(p, SM_PortMode_ind(p, mode))
<1>1. [type |-> "SM_PORT_MODE_IND", mode |-> mode] \in QuietJobs
  BY DEF QuietJobs
<1> QED
  BY <1>1, PostUnder DEF StorageJobs, SM_PortMode_ind

\* A service of the application layer is asked for by a layer of the stack.
LEMMA AL_ReadWriteStep ==
  ASSUME NEW p, PortOK(p)
  PROVE  /\ Under(p, AL_ReadWrite_req(p, "READ", "ISDU", "SM"))
         /\ Under(p, AL_ReadWrite_req(p, "WRITE", "PARAM", "SM"))
         /\ Under(p, AL_ReadWrite_req(p, "READ", "ISDU", "DS"))
         /\ Under(p, AL_ReadWrite_req(p, "WRITE", "ISDU", "DS"))
<1>1. ASSUME NEW direction \in Directions, NEW who \in {"SM", "DS"}
      PROVE  [type |-> "AL_REQ", direction |-> direction, index |-> "ISDU", who |-> who]
                \in QuietJobs
  BY DEF QuietJobs
<1>2. [type |-> "AL_REQ", direction |-> "WRITE", index |-> "PARAM", who |-> "SM"]
         \in QuietJobs
  BY DEF QuietJobs
<1>3. "READ" \in Directions /\ "WRITE" \in Directions
  BY DEF Directions
<1> QED
  BY <1>1, <1>2, <1>3, PostUnder DEF StorageJobs, PortJobs, AL_ReadWrite_req

LEMMA SmReadStep ==
  ASSUME NEW p, PortOK(p), NEW addr \in Registers
  PROVE  Under(p, SmRead(p, addr))
<1>0. DOMAIN p = PortFields /\ SmOK(p.sm)
  BY DEF PortOK
<1> DEFINE s1 == [p.sm EXCEPT !.dl_addr = addr]
           q1 == [p EXCEPT !.sm = s1]
           q2 == DL_ReadWrite_req(q1, addr, "READ")
<1>1. [p EXCEPT !.sm.dl_addr = addr] = q1
  BY <1>0 DEF PortFields
<1>2. SmRead(p, addr) = q2
  BY <1>1 DEF SmRead
<1>3. SmOK(s1) /\ s1.config = p.sm.config
  BY <1>0 DEF SmOK
<1>4. Under(p, q1) /\ PortOK(q1)
  BY <1>3, SetSmUnder, UnderPortOK
<1> HIDE DEF q1
<1>5. Under(p, q2) /\ PortOK(q2)
  BY <1>4, DL_ReadWrite_reqStep, DlUnder, UnderTwice, UnderPortOK
<1> QED
  BY <1>5, <1>2

LEMMA SmWriteStep ==
  ASSUME NEW p, PortOK(p), NEW addr \in Registers
  PROVE  Under(p, SmWrite(p, addr))
<1>0. DOMAIN p = PortFields /\ SmOK(p.sm)
  BY DEF PortOK
<1> DEFINE s1 == [p.sm EXCEPT !.dl_addr = addr]
           q1 == [p EXCEPT !.sm = s1]
           q2 == DL_ReadWrite_req(q1, addr, "WRITE")
<1>1. [p EXCEPT !.sm.dl_addr = addr] = q1
  BY <1>0 DEF PortFields
<1>2. SmWrite(p, addr) = q2
  BY <1>1 DEF SmWrite
<1>3. SmOK(s1) /\ s1.config = p.sm.config
  BY <1>0 DEF SmOK
<1>4. Under(p, q1) /\ PortOK(q1)
  BY <1>3, SetSmUnder, UnderPortOK
<1> HIDE DEF q1
<1>5. Under(p, q2) /\ PortOK(q2)
  BY <1>4, DL_ReadWrite_reqStep, DlUnder, UnderTwice, UnderPortOK
<1> QED
  BY <1>5, <1>2

LEMMA PortinactiveStep ==
  ASSUME NEW p, PortOK(p),
         NEW event \in {"SetPortConfig_INACTIVE", "SetPortConfig_COM"},
         event = "SetPortConfig_INACTIVE" => p.sm.config.mode = "INACTIVE"
  PROVE  Under(p, Portinactive(p, event))
<1>0. DOMAIN p = PortFields /\ SmOK(p.sm)
  BY DEF PortOK
<1>1. CASE event = "SetPortConfig_INACTIVE"
  <2> DEFINE s1 == [p.sm EXCEPT !.dl_addr = "DUMMY_WURQ", !.error_event = "NONE"]
             q1 == [p EXCEPT !.sm = s1]
             q2 == SM_PortMode_ind(q1, "INACTIVE")
             q3 == DL_SetMode_req(q2, "INACTIVE")
  <2>1. [p EXCEPT !.sm.dl_addr = "DUMMY_WURQ", !.sm.error_event = "NONE"] = q1
    BY <1>0 DEF PortFields
  <2>2. Portinactive(p, event) = q3
    BY <2>1, <1>1 DEF Portinactive
  <2>3. SmOK(s1) /\ s1.config = p.sm.config
    BY <1>0, <1>1 DEF SmOK, Registers
  <2>4. Under(p, q1) /\ PortOK(q1) /\ q1.sm.config.mode = "INACTIVE"
    BY <1>1, <2>3, SetSmUnder, UnderPortOK DEF Under
  <2> HIDE DEF q1
  <2>5. Under(p, q2) /\ PortOK(q2)
    BY <2>4, SM_PortMode_indStep, UnderTwice, UnderPortOK DEF PortModes, Faults
  <2> HIDE DEF q2
  <2>6. Under(p, q3) /\ PortOK(q3)
    BY <2>5, DL_SetMode_reqStep, DlUnder, UnderTwice, UnderPortOK
  <2> QED
    BY <2>6, <2>2
<1>2. CASE event = "SetPortConfig_COM"
  <2> DEFINE s1 == [p.sm EXCEPT !.dl_addr = "DUMMY_WURQ", !.error_event = "NONE"]
             q1 == [p EXCEPT !.sm = s1]
             q2 == PL_SetMode_req(q1, "SDCI")
             q3 == DL_SetMode_req(q2, "STARTUP")
  <2>1. [p EXCEPT !.sm.dl_addr = "DUMMY_WURQ", !.sm.error_event = "NONE"] = q1
    BY <1>0 DEF PortFields
  <2>2. Portinactive(p, event) = q3
    BY <2>1, <1>2 DEF Portinactive
  <2>3. SmOK(s1) /\ s1.config = p.sm.config
    BY <1>0, <1>2 DEF SmOK, Registers
  <2>4. Under(p, q1) /\ PortOK(q1)
    BY <2>3, SetSmUnder, UnderPortOK
  <2> HIDE DEF q1
  <2>5. Under(p, q2) /\ PortOK(q2)
    BY <2>4, PL_SetModeStep, DlUnder, UnderTwice, UnderPortOK
  <2> HIDE DEF q2
  <2>6. Under(p, q3) /\ PortOK(q3)
    BY <2>5, DL_SetMode_reqStep, DlUnder, UnderTwice, UnderPortOK
  <2> QED
    BY <2>6, <2>2
<1> QED
  BY <1>1, <1>2

LEMMA InspectFaultStep ==
  ASSUME NEW p, PortOK(p), NEW event \in FaultEvents
  PROVE  Under(p, InspectFault(p, event))
<1>1. CASE event = "V10CompFault"
  <2> DEFINE q1 == SM_PortMode_ind(p, "COMP_FAULT")
             q2 == DL_SetMode_req(q1, "OPERATE")
  <2>1. InspectFault(p, event) = q2
    BY <1>1 DEF InspectFault
  <2>2. Under(p, q1) /\ PortOK(q1)
    BY SM_PortMode_indStep, UnderPortOK DEF PortModes, Faults
  <2> HIDE DEF q1
  <2>3. Under(p, q2) /\ PortOK(q2)
    BY <2>2, DL_SetMode_reqStep, DlUnder, UnderTwice, UnderPortOK
  <2> QED
    BY <2>3, <2>1
<1>2. CASE event = "RevisionFault"
  <2> DEFINE q1 == SM_PortMode_ind(p, "REVISION_FAULT")
             q2 == DL_SetMode_req(q1, "PREOPERATE")
  <2>1. InspectFault(p, event) = q2
    BY <1>2 DEF InspectFault
  <2>2. Under(p, q1) /\ PortOK(q1)
    BY SM_PortMode_indStep, UnderPortOK DEF PortModes, Faults
  <2> HIDE DEF q1
  <2>3. Under(p, q2) /\ PortOK(q2)
    BY <2>2, DL_SetMode_reqStep, DlUnder, UnderTwice, UnderPortOK
  <2> QED
    BY <2>3, <2>1
<1>3. CASE event = "CompFault"
  <2> DEFINE q1 == SM_PortMode_ind(p, "COMP_FAULT")
             q2 == DL_SetMode_req(q1, "PREOPERATE")
  <2>1. InspectFault(p, event) = q2
    BY <1>3 DEF InspectFault
  <2>2. Under(p, q1) /\ PortOK(q1)
    BY SM_PortMode_indStep, UnderPortOK DEF PortModes, Faults
  <2> HIDE DEF q1
  <2>3. Under(p, q2) /\ PortOK(q2)
    BY <2>2, DL_SetMode_reqStep, DlUnder, UnderTwice, UnderPortOK
  <2> QED
    BY <2>3, <2>1
<1>4. CASE event = "SerNumFault"
  <2> DEFINE q == SM_PortMode_ind(p, "SERNUM_FAULT")
  <2>1. InspectFault(p, event) = q
    BY <1>4 DEF InspectFault
  <2>2. Under(p, q) /\ PortOK(q)
    BY SM_PortMode_indStep, UnderPortOK DEF PortModes, Faults
  <2> QED
    BY <2>2, <2>1
<1>5. CASE event = "CycTimeFault"
  <2> DEFINE q1 == SM_PortMode_ind(p, "CYCTIME_FAULT")
             q2 == DL_SetMode_req(q1, "PREOPERATE")
  <2>1. InspectFault(p, event) = q2
    BY <1>5 DEF InspectFault
  <2>2. Under(p, q1) /\ PortOK(q1)
    BY SM_PortMode_indStep, UnderPortOK DEF PortModes, Faults
  <2> HIDE DEF q1
  <2>3. Under(p, q2) /\ PortOK(q2)
    BY <2>2, DL_SetMode_reqStep, DlUnder, UnderTwice, UnderPortOK
  <2> QED
    BY <2>3, <2>1
<1>6. CASE event = "CycTimeFault_V10"
  <2> DEFINE q1 == SM_PortMode_ind(p, "CYCTIME_FAULT")
             q2 == DL_SetMode_req(q1, "INACTIVE")
  <2>1. InspectFault(p, event) = q2
    BY <1>6 DEF InspectFault
  <2>2. Under(p, q1) /\ PortOK(q1)
    BY SM_PortMode_indStep, UnderPortOK DEF PortModes, Faults
  <2> HIDE DEF q1
  <2>3. Under(p, q2) /\ PortOK(q2)
    BY <2>2, DL_SetMode_reqStep, DlUnder, UnderTwice, UnderPortOK
  <2> QED
    BY <2>3, <2>1
<1> QED
  BY <1>1, <1>2, <1>3, <1>4, <1>5, <1>6 DEF FaultEvents

SmActions ==
  {"ignore", "readcomparameter", "restartDevice", "checkComp", "checkVxy",
   "write_mcmd_preop", "waitonDLOp", "fallback", "write_devmode", "portinactive", "comlost",
   "inspectFault", "checkSerNum", "wr_master_cycl", "wait", "smoperate_ind", "dido"}

\* The events of the actions that look at theirs, and when a device is restarted
SmFits(action, event, retry, mode) ==
  /\ action = "portinactive" => event \in {"SetPortConfig_INACTIVE", "SetPortConfig_COM"}
  /\ event = "SetPortConfig_INACTIVE" => mode = "INACTIVE"
  /\ action = "inspectFault" => event \in FaultEvents
  /\ action = "restartDevice" => retry = 0

LEMMA ActStep ==
  ASSUME NEW p, PortOK(p),
         NEW action \in SmActions, NEW event, SmFits(action, event, p.sm.comp_retry, p.sm.config.mode)
  PROVE  Under(p, Act(p, action, event))
<1>0. DOMAIN p = PortFields /\ SmOK(p.sm)
  BY DEF PortOK
<1>1. CASE action = "ignore"
  BY <1>1, UnderNot DEF Act
<1>2. CASE action = "readcomparameter"
  <2> DEFINE s1 == [p.sm EXCEPT !.comp_retry = IF event = "DL_Mode_STARTUP" THEN 0 ELSE p.sm.comp_retry]
             q1 == [p EXCEPT !.sm = s1]
             q2 == SmRead(q1, "MIN_CYCL")
  <2>1. [p EXCEPT !.sm.comp_retry = IF event = "DL_Mode_STARTUP" THEN 0 ELSE p.sm.comp_retry] = q1
    BY <1>0 DEF PortFields
  <2>2. Act(p, action, event) = q2
    BY <2>1, <1>2 DEF Act
  <2>3. SmOK(s1) /\ s1.config = p.sm.config
    BY <1>0, <1>2 DEF SmOK
  <2>4. Under(p, q1) /\ PortOK(q1)
    BY <2>3, SetSmUnder, UnderPortOK
  <2> HIDE DEF q1
  <2>5. Under(p, q2) /\ PortOK(q2)
    BY <2>4, SmReadStep, UnderTwice, UnderPortOK DEF Registers
  <2> QED
    BY <2>5, <2>2
<1>3. CASE action = "restartDevice"
  <2> DEFINE s1 == [p.sm EXCEPT !.comp_retry = p.sm.comp_retry + 1]
             q1 == [p EXCEPT !.sm = s1]
             q2 == SmWrite(q1, "REV_ID")
  <2>1. [p EXCEPT !.sm.comp_retry = p.sm.comp_retry + 1] = q1
    BY <1>0 DEF PortFields
  <2>2. Act(p, action, event) = q2
    BY <2>1, <1>3 DEF Act
  <2>3. SmOK(s1) /\ s1.config = p.sm.config
    BY <1>0, <1>3 DEF SmOK, SmFits
  <2>4. Under(p, q1) /\ PortOK(q1)
    BY <2>3, SetSmUnder, UnderPortOK
  <2> HIDE DEF q1
  <2>5. Under(p, q2) /\ PortOK(q2)
    BY <2>4, SmWriteStep, UnderTwice, UnderPortOK DEF Registers
  <2> QED
    BY <2>5, <2>2
<1>4. CASE action = "checkComp"
  <2> DEFINE q == SmRead(p, "VID_1")
  <2>1. Act(p, action, event) = q
    BY <1>4 DEF Act
  <2>2. Under(p, q) /\ PortOK(q)
    BY SmReadStep, UnderPortOK DEF Registers
  <2> QED
    BY <2>2, <2>1
<1>5. CASE action = "checkVxy"
  <2> DEFINE q == SmWrite(p, "MASTER_CMD")
  <2>1. Act(p, action, event) = q
    BY <1>5 DEF Act
  <2>2. Under(p, q) /\ PortOK(q)
    BY SmWriteStep, UnderPortOK DEF Registers
  <2> QED
    BY <2>2, <2>1
<1>6. CASE action = "write_mcmd_preop"
  <2> DEFINE q == SmWrite(p, "MASTER_CMD")
  <2>1. Act(p, action, event) = q
    BY <1>6 DEF Act
  <2>2. Under(p, q) /\ PortOK(q)
    BY SmWriteStep, UnderPortOK DEF Registers
  <2> QED
    BY <2>2, <2>1
<1>7. CASE action = "waitonDLOp"
  <2> DEFINE q == SmWrite(p, "MASTER_CYCL")
  <2>1. Act(p, action, event) = q
    BY <1>7 DEF Act
  <2>2. Under(p, q) /\ PortOK(q)
    BY SmWriteStep, UnderPortOK DEF Registers
  <2> QED
    BY <2>2, <2>1
<1>8. CASE action = "fallback"
  <2> DEFINE q == DL_Write_Devicemode_req(p, "INACTIVE")
  <2>1. Act(p, action, event) = q
    BY <1>8 DEF Act
  <2>2. Under(p, q) /\ PortOK(q)
    BY DL_Write_Devicemode_reqStep, DlUnder, UnderPortOK
  <2> QED
    BY <2>2, <2>1
<1>9. CASE action = "write_devmode"
  <2> DEFINE q == DL_Write_Devicemode_req(p, "OPERATE")
  <2>1. Act(p, action, event) = q
    BY <1>9 DEF Act
  <2>2. Under(p, q) /\ PortOK(q)
    BY DL_Write_Devicemode_reqStep, DlUnder, UnderPortOK
  <2> QED
    BY <2>2, <2>1
<1>10. CASE action = "portinactive"
  <2> DEFINE q == Portinactive(p, event)
  <2>1. Act(p, action, event) = q
    BY <1>10 DEF Act
  <2>2. Under(p, q) /\ PortOK(q)
    BY <1>10, PortinactiveStep, UnderPortOK DEF SmFits
  <2> QED
    BY <2>2, <2>1
<1>11. CASE action = "comlost"
  <2> DEFINE q1 == DL_SetMode_req(p, "INACTIVE")
             q2 == SM_PortMode_ind(q1, "COMLOST")
  <2>1. Act(p, action, event) = q2
    BY <1>11 DEF Act
  <2>2. Under(p, q1) /\ PortOK(q1)
    BY DL_SetMode_reqStep, DlUnder, UnderPortOK
  <2> HIDE DEF q1
  <2>3. Under(p, q2) /\ PortOK(q2)
    BY <2>2, SM_PortMode_indStep, UnderTwice, UnderPortOK DEF PortModes, Faults
  <2> QED
    BY <2>3, <2>1
<1>12. CASE action = "inspectFault"
  <2> DEFINE q == InspectFault(p, event)
  <2>1. Act(p, action, event) = q
    BY <1>12 DEF Act
  <2>2. Under(p, q) /\ PortOK(q)
    BY <1>12, InspectFaultStep, UnderPortOK DEF SmFits
  <2> QED
    BY <2>2, <2>1
<1>13. CASE action = "checkSerNum"
  <2> DEFINE q == AL_ReadWrite_req(p, "READ", "ISDU", "SM")
  <2>1. Act(p, action, event) = q
    BY <1>13 DEF Act
  <2>2. Under(p, q) /\ PortOK(q)
    BY AL_ReadWriteStep, UnderPortOK
  <2> QED
    BY <2>2, <2>1
<1>14. CASE action = "wr_master_cycl"
  <2> DEFINE q == AL_ReadWrite_req(p, "WRITE", "PARAM", "SM")
  <2>1. Act(p, action, event) = q
    BY <1>14 DEF Act
  <2>2. Under(p, q) /\ PortOK(q)
    BY AL_ReadWriteStep, UnderPortOK
  <2> QED
    BY <2>2, <2>1
<1>15. CASE action = "wait"
  <2> DEFINE q == SM_PortMode_ind(p, "COMREADY")
  <2>1. Act(p, action, event) = q
    BY <1>15 DEF Act
  <2>2. Under(p, q) /\ PortOK(q)
    BY SM_PortMode_indStep, UnderPortOK DEF PortModes, Faults
  <2> QED
    BY <2>2, <2>1
<1>16. CASE action = "smoperate_ind" /\ event \in {"DL_Mode_OPERATE", "SM_Operate_v10"}
  <2> DEFINE q == SM_PortMode_ind(p, "OPERATE")
  <2>1. Act(p, action, event) = q
    BY <1>16 DEF Act
  <2>2. Under(p, q) /\ PortOK(q)
    BY SM_PortMode_indStep, UnderPortOK DEF PortModes, Faults
  <2> QED
    BY <2>2, <2>1
<1>17. CASE action = "smoperate_ind" /\ event \notin {"DL_Mode_OPERATE", "SM_Operate_v10"}
  BY <1>17, UnderNot DEF Act
<1>18. CASE action = "dido"
  <2> DEFINE q1 == PL_SetMode_req(p, "DIDO")
             q2 == SM_PortMode_ind(q1, "DIDO")
             q3 == DL_SetMode_req(q2, "INACTIVE")
  <2>1. Act(p, action, event) = q3
    BY <1>18 DEF Act
  <2>2. Under(p, q1) /\ PortOK(q1)
    BY PL_SetModeStep, DlUnder, UnderPortOK
  <2> HIDE DEF q1
  <2>3. Under(p, q2) /\ PortOK(q2)
    BY <2>2, SM_PortMode_indStep, UnderTwice, UnderPortOK DEF PortModes, Faults
  <2> HIDE DEF q2
  <2>4. Under(p, q3) /\ PortOK(q3)
    BY <2>3, DL_SetMode_reqStep, DlUnder, UnderTwice, UnderPortOK
  <2> QED
    BY <2>4, <2>1
<1> QED
  BY <1>1, <1>2, <1>3, <1>4, <1>5, <1>6, <1>7, <1>8, <1>9, <1>10, <1>11, <1>12,
     <1>13, <1>14, <1>15, <1>16, <1>17, <1>18 DEF SmActions

\* The rows of the table: what the actions rely on.
LEMMA SmRows ==
  \A row \in Transitions :
    /\ row[3] \in StatesOf(Transitions)
    /\ row[4] \in SmActions
    /\ row[4] = "portinactive" =>
         row[2] \in {"SetPortConfig_INACTIVE", "SetPortConfig_COM"}
    /\ row[4] = "inspectFault" => row[2] \in FaultEvents
    /\ row[4] = "restartDevice" =>
         row[2] = "RETRY_STARTUP" /\ row[1] # "InspectionFault"
    /\ row[3] = "waitForFallback" => row[2] = "SetPortConfig_INACTIVE"
<1>1. ASSUME NEW row \in Transitions PROVE row[3] \in StatesOf(Transitions)
  BY DEF StatesOf
<1>2. ASSUME NEW row \in Transitions
      PROVE  /\ row[4] \in SmActions
             /\ row[4] = "portinactive" =>
                  row[2] \in {"SetPortConfig_INACTIVE", "SetPortConfig_COM"}
             /\ row[4] = "inspectFault" => row[2] \in FaultEvents
             /\ row[4] = "restartDevice" =>
                  row[2] = "RETRY_STARTUP" /\ row[1] # "InspectionFault"
             /\ row[3] = "waitForFallback" => row[2] = "SetPortConfig_INACTIVE"
  BY SMTT(60) DEF Transitions, SmActions, FaultEvents
<1> QED
  BY <1>1, <1>2

\* When the start-up may be tried again: it has not been tried yet, or the event will be
\* ignored.  The port is switched off when it is configured so.
Suits(p, event) ==
  /\ event = "RETRY_STARTUP" => p.sm.comp_retry = 0 \/ p.sm.state = "InspectionFault"
  /\ event = "SetPortConfig_INACTIVE" => p.sm.config.mode = "INACTIVE"

LEMMA SmEventStep ==
  ASSUME NEW p, PortOK(p), NEW event, Suits(p, event)
  PROVE  Under(p, SmEvent(p, event))
<1>0. DOMAIN p = PortFields /\ SmOK(p.sm)
  BY DEF PortOK
<1> DEFINE rows == {row \in Transitions : row[1] = p.sm.state /\ row[2] = event}
<1>1. CASE rows = {}
  BY <1>1, UnderNot DEF SmEvent
<1>2. CASE rows # {}
  <2> DEFINE row == CHOOSE r \in rows : TRUE
             s == [p.sm EXCEPT !.state = row[3]]
             q == [p EXCEPT !.sm = s]
  <2>1. row \in rows
    BY <1>2
  <2>2. [p EXCEPT !.sm.state = row[3]] = q
    BY <1>0 DEF PortFields
  <2>3. SmEvent(p, event) = Act(q, row[4], event)
    BY <1>2, <2>2 DEF SmEvent
  <2> HIDE DEF row
  <2>4. row \in Transitions /\ row[1] = p.sm.state /\ row[2] = event
    BY <2>1
  <2>5. /\ row[3] \in StatesOf(Transitions)
        /\ row[3] = "waitForFallback" => p.sm.config.mode = "INACTIVE"
    BY <2>4, SmRows DEF Suits
  <2>6. SmOK(s) /\ s.comp_retry = p.sm.comp_retry /\ s.config = p.sm.config
    BY <1>0, <2>5 DEF SmOK
  <2> HIDE DEF s
  <2>7. Under(p, q) /\ PortOK(q) /\ q.sm = s
    BY <1>0, <2>6, SetSmUnder, UnderPortOK DEF PortFields
  <2>8. row[4] \in SmActions /\ SmFits(row[4], event, q.sm.comp_retry, q.sm.config.mode)
    BY <2>4, <2>6, <2>7, SmRows DEF SmFits, Suits
  <2> HIDE DEF q
  <2> QED
    BY <2>3, <2>7, <2>8, ActStep, UnderTwice
<1> QED
  BY <1>1, <1>2

\* An event that neither tries the start-up again nor switches the port off
LEMMA OtherSmEventStep ==
  ASSUME NEW p, PortOK(p), NEW event,
         event \notin {"RETRY_STARTUP", "SetPortConfig_INACTIVE"}
  PROVE  Under(p, SmEvent(p, event))
  BY SmEventStep DEF Suits

LEMMA FaultEventStep ==
  ASSUME NEW p, PortOK(p), NEW event \in FaultEvents
  PROVE  Under(p, FaultEvent(p, event))
<1>0. DOMAIN p = PortFields /\ SmOK(p.sm)
  BY DEF PortOK
<1> DEFINE s1 == [p.sm EXCEPT !.error_event = event]
           q1 == [p EXCEPT !.sm = s1]
           q2 == SmEvent(q1, event)
<1>1. [p EXCEPT !.sm.error_event = event] = q1
  BY <1>0 DEF PortFields
<1>2. FaultEvent(p, event) = q2
  BY <1>1 DEF FaultEvent
<1>3. SmOK(s1) /\ s1.config = p.sm.config
  BY <1>0 DEF SmOK
<1>4. Under(p, q1) /\ PortOK(q1)
  BY <1>3, SetSmUnder, UnderPortOK
<1> HIDE DEF q1
<1>5. Under(p, q2) /\ PortOK(q2)
  BY <1>4, OtherSmEventStep, UnderTwice, UnderPortOK DEF FaultEvents
<1> QED
  BY <1>5, <1>2

LEMMA AssertFailsStep == ASSUME NEW p, PortOK(p) PROVE Under(p, AssertFails(p))
  BY FailedUnder DEF AssertFails

\* The device found is compared with the one configured.
LEMMA SmCompareStep ==
  ASSUME NEW p, PortOK(p)
  PROVE  Under(p, DoCheckCompV10(p)) /\ Under(p, DoCheckComp(p))
<1>1. Under(p, DoCheckCompV10(p))
  <2>1. DoCheckCompV10(p) \in
          {FaultEvent(p, "CycTimeFault_V10"), FaultEvent(p, "V10CompFault"),
           SmEvent(p, "V10CompOK")}
    BY DEF DoCheckCompV10
  <2> QED
    BY <2>1, FaultEventStep, OtherSmEventStep DEF FaultEvents
<1>2. Under(p, DoCheckComp(p))
  <2>1. CASE /\ p.sm.real.differs = "device" /\ Checked(p)
             /\ p.sm.comp_retry = 0
    <3>1. DoCheckComp(p) = SmEvent(p, "RETRY_STARTUP")
      BY <2>1 DEF DoCheckComp
    <3> QED
      BY <2>1, <3>1, SmEventStep DEF Suits
  <2>2. CASE ~(/\ p.sm.real.differs = "device" /\ Checked(p)
               /\ p.sm.comp_retry = 0)
    <3>1. DoCheckComp(p) \in
            {FaultEvent(p, "CycTimeFault"), FaultEvent(p, "CompFault"),
             SmEvent(p, "CompOK")}
      BY <2>2 DEF DoCheckComp
    <3> QED
      BY <3>1, FaultEventStep, OtherSmEventStep DEF FaultEvents
  <2> QED
    BY <2>1, <2>2
<1> QED
  BY <1>1, <1>2

LEMMA NextReadStep ==
  ASSUME NEW p, PortOK(p), NEW addr PROVE Under(p, NextRead(p, addr))
<1>1. NextRead(p, addr) \in
        {SmRead(p, "PDO"), SmEvent(p, "NOT_V10"), SmEvent(p, "V10"), SmRead(p, "FID_2"),
         DoCheckCompV10(p), DoCheckComp(p), SmEvent(p, "WriteDone"), AssertFails(p)}
  BY DEF NextRead
<1> QED
  BY <1>1, SmReadStep, OtherSmEventStep, SmCompareStep, AssertFailsStep DEF Registers

LEMMA SmReadCnfStep ==
  ASSUME NEW p, PortOK(p), NEW job, job.ok \in BOOLEAN
  PROVE  Under(p, SmReadCnf(p, job))
<1>0. DOMAIN p = PortFields /\ SmOK(p.sm)
  BY DEF PortOK
<1>1. CASE ~job.ok \/ job.addr \notin {"MIN_CYCL", "PDO", "VID_1", "FID_2"}
  <2>1. SmReadCnf(p, job) \in {SmEvent(p, "CNF_COMLOST"), p, AssertFails(p)}
    BY <1>1 DEF SmReadCnf
  <2> QED
    BY <2>1, OtherSmEventStep, UnderNot, AssertFailsStep
<1>2. CASE job.ok /\ job.addr \in {"MIN_CYCL", "PDO", "VID_1", "FID_2"}
  <2> DEFINE s1 == [p.sm EXCEPT !.real = job.from]
             q1 == [p EXCEPT !.sm = s1]
             q2 == NextRead(q1, job.addr)
  <2>1. [p EXCEPT !.sm.real = job.from] = q1
    BY <1>0 DEF PortFields
  <2>2. SmReadCnf(p, job) = q2
    BY <2>1, <1>2 DEF SmReadCnf
  <2>3. SmOK(s1) /\ s1.config = p.sm.config
    BY <1>0, <1>2 DEF SmOK
  <2>4. Under(p, q1) /\ PortOK(q1)
    BY <2>3, SetSmUnder, UnderPortOK
  <2> HIDE DEF q1
  <2>5. Under(p, q2) /\ PortOK(q2)
    BY <2>4, NextReadStep, UnderTwice, UnderPortOK
  <2> QED
    BY <2>5, <2>2
<1> QED
  BY <1>1, <1>2

LEMMA CheckVxyCnfStep == ASSUME NEW p, PortOK(p) PROVE Under(p, CheckVxyCnf(p))
<1>1. CASE ~SameRevision(p) /\ p.sm.comp_retry = 0
  <2>1. CheckVxyCnf(p) = SmEvent(p, "RETRY_STARTUP")
    BY <1>1 DEF CheckVxyCnf
  <2> QED
    BY <1>1, <2>1, SmEventStep DEF Suits
<1>2. CASE ~(~SameRevision(p) /\ p.sm.comp_retry = 0)
  <2>1. CheckVxyCnf(p) \in {SmEvent(p, "REVISION_OK"), FaultEvent(p, "RevisionFault")}
    BY <1>2 DEF CheckVxyCnf
  <2> QED
    BY <2>1, FaultEventStep, OtherSmEventStep DEF FaultEvents
<1> QED
  BY <1>1, <1>2

LEMMA RestartDeviceCnfStep ==
  ASSUME NEW p, PortOK(p), NEW addr PROVE Under(p, RestartDeviceCnf(p, addr))
<1>1. RestartDeviceCnf(p, addr) \in
        {SmWrite(p, "DID_3"), SmWrite(p, "MASTER_CMD"), AssertFails(p),
         SmRead(p, "MIN_CYCL"), p}
  BY DEF RestartDeviceCnf
<1> QED
  BY <1>1, SmWriteStep, SmReadStep, AssertFailsStep, UnderNot DEF Registers

LEMMA WaitOnOperateCnfStep ==
  ASSUME NEW p, PortOK(p), NEW addr PROVE Under(p, WaitOnOperateCnf(p, addr))
<1>1. WaitOnOperateCnf(p, addr) \in
        {SmWrite(p, "MASTER_CMD"), DL_SetMode_req(p, "OPERATE"), p}
  BY DEF WaitOnOperateCnf
<1> QED
  BY <1>1, SmWriteStep, DL_SetMode_reqStep, DlUnder, UnderNot DEF Registers

LEMMA SmWriteCnfStep ==
  ASSUME NEW p, PortOK(p), NEW job, job.ok \in BOOLEAN
  PROVE  Under(p, SmWriteCnf(p, job))
<1>1. CASE job.ok /\ p.sm.state = "InspectionFault"
  <2>1. SmWriteCnf(p, job) = SmEvent(p, p.sm.error_event)
    BY <1>1 DEF SmWriteCnf
  <2>2. Suits(p, p.sm.error_event)
    BY <1>1 DEF Suits, PortOK, SmOK, FaultEvents
  <2> QED
    BY <2>1, <2>2, SmEventStep
<1>2. CASE ~(job.ok /\ p.sm.state = "InspectionFault")
  <2>1. SmWriteCnf(p, job) \in
          {SmEvent(p, "CNF_COMLOST"), DL_SetMode_req(p, "PREOPERATE"), CheckVxyCnf(p),
           RestartDeviceCnf(p, job.addr), WaitOnOperateCnf(p, job.addr), AssertFails(p)}
    BY <1>2 DEF SmWriteCnf
  <2> QED
    BY <2>1, OtherSmEventStep, DL_SetMode_reqStep, DlUnder, CheckVxyCnfStep,
       RestartDeviceCnfStep, WaitOnOperateCnfStep, AssertFailsStep
<1> QED
  BY <1>1, <1>2

LEMMA SmAlCnfStep ==
  ASSUME NEW p, PortOK(p),
         NEW job, job.ok \in BOOLEAN, job.direction \in Directions
  PROVE  Under(p, SmAlCnf(p, job))
<1>0. DOMAIN p = PortFields /\ SmOK(p.sm)
  BY DEF PortOK
<1>1. CASE job.direction = "WRITE" \/ ~job.ok \/ job.from.differs = "overlong"
  <2>1. SmAlCnf(p, job) \in {SmEvent(p, "WRITE_MASTER_CYCL_DONE"),
                             SmEvent(p, "CNF_COMLOST"), SmEvent(p, "DL_Mode_COMLOST")}
    BY <1>1 DEF SmAlCnf, Directions
  <2> QED
    BY <2>1, OtherSmEventStep
<1>2. CASE job.direction = "READ" /\ job.ok /\ job.from.differs # "overlong"
  <2> DEFINE x == [p.sm.real EXCEPT !.differs = job.from.differs]
             s == [p.sm EXCEPT !.real = x]
             q == [p EXCEPT !.sm = s]
  <2>1. [p EXCEPT !.sm.real.differs = job.from.differs] = q
    BY <1>0 DEF PortFields
  <2>2. SmAlCnf(p, job) \in {SmEvent(q, "SerNumOK"), FaultEvent(q, "SerNumFault")}
    BY <1>2, <2>1 DEF SmAlCnf
  <2> HIDE DEF x
  <2>3. SmOK(s) /\ s.config = p.sm.config
    BY <1>0 DEF SmOK
  <2>4. Under(p, q) /\ PortOK(q)
    BY <2>3, SetSmUnder, UnderPortOK
  <2> HIDE DEF q
  <2>5. Under(q, SmEvent(q, "SerNumOK")) /\ Under(q, FaultEvent(q, "SerNumFault"))
    BY <2>4, OtherSmEventStep, FaultEventStep DEF FaultEvents
  <2> QED
    BY <2>2, <2>4, <2>5, UnderTwice
<1> QED
  BY <1>1, <1>2 DEF Directions

LEMMA SmModeIndStep ==
  ASSUME NEW p, PortOK(p), NEW mode PROVE Under(p, SmModeInd(p, mode))
<1>1. \/ SmModeInd(p, mode) \in
           {p, SmEvent(p, "DL_Mode_COMLOST"), SmEvent(p, "DL_Mode_STARTUP"),
            SM_PortMode_ind(p, "COMLOST"),
            SmEvent(p, "DL_Mode_PREOPERATE"), SmEvent(p, "DL_Mode_OPERATE")}
      \/ /\ SmModeInd(p, mode) = SM_PortMode_ind(p, "INACTIVE")
         /\ p.sm.config.mode = "INACTIVE"
  BY DEF SmModeInd
<1>2. "INACTIVE" \in PortModes /\ "COMLOST" \in PortModes
  BY DEF PortModes
<1> QED
  BY <1>1, <1>2, UnderNot, OtherSmEventStep, SM_PortMode_indStep

LEMMA SmDevmodeCnfStep ==
  ASSUME NEW p, PortOK(p), NEW ok \in BOOLEAN PROVE Under(p, SmDevmodeCnf(p, ok))
<1> DEFINE q == DL_SetMode_req(p, "OPERATE")
<1>1. \/ SmDevmodeCnf(p, ok) \in
           {SmEvent(q, "SM_Operate"), SmEvent(q, "SM_Operate_v10"),
            SmEvent(p, "CNF_COMLOST"), SmEvent(p, "DL_Mode_COMLOST")}
      \/ /\ SmDevmodeCnf(p, ok) = SmEvent(p, "SetPortConfig_INACTIVE")
         /\ p.sm.state = "waitForFallback"
  BY DEF SmDevmodeCnf
<1>2. Under(p, q) /\ PortOK(q)
  BY DL_SetMode_reqStep, DlUnder, UnderPortOK
<1> HIDE DEF q
<1>3. Under(p, SmEvent(q, "SM_Operate")) /\ Under(p, SmEvent(q, "SM_Operate_v10"))
  BY <1>2, OtherSmEventStep, UnderTwice
<1>4. p.sm.state = "waitForFallback" => Suits(p, "SetPortConfig_INACTIVE")
  BY DEF Suits, PortOK, SmOK
<1> QED
  BY <1>1, <1>3, <1>4, OtherSmEventStep, SmEventStep

LEMMA SmOperateStep == ASSUME NEW p, PortOK(p) PROVE Under(p, SmOperate(p))
<1>1. SmOperate(p) \in {SmEvent(p, "SM_Operate_v10"), SmEvent(p, "WRITE_MASTER_CYCL_REQ")}
  BY DEF SmOperate
<1> QED
  BY <1>1, OtherSmEventStep

LEMMA SmSetPortConfigStep ==
  ASSUME NEW p, PortOK(p), NEW config \in ConfigRecords
  PROVE  LET q == SmSetPortConfig(p, config) IN
         /\ Below(p, q)
         /\ IF p.sm.state \in ConfigurableStates THEN q.sm.config = config ELSE q = p
         /\ OffOnly(p.mbox, q.mbox, config.mode)
<1>0. DOMAIN p = PortFields /\ SmOK(p.sm)
  BY DEF PortOK
<1>1. CASE p.sm.state \notin ConfigurableStates
  <2>1. SmSetPortConfig(p, config) = p
    BY <1>1 DEF SmSetPortConfig
  <2>2. OffOnly(p.mbox, p.mbox, config.mode)
    BY OffOnlyNot DEF PortOK
  <2> QED
    BY <1>1, <2>1, <2>2, BelowNot
<1>2. CASE p.sm.state \in ConfigurableStates
  <2> DEFINE s == [p.sm EXCEPT !.config = config]
             q == [p EXCEPT !.sm = s]
             r == SmSetPortConfig(p, config)
  <2>1. [p EXCEPT !.sm.config = config] = q
    BY <1>0 DEF PortFields
  <2>2. config.mode \in {"CFGCOM", "AUTOCOM", "DIDO", "INACTIVE"}
    BY DEF ConfigRecords
  <2>3. \/ r \in {SmEvent(q, "SetPortConfig_COM"), SmEvent(q, "SetPortConfig_DIDO")}
        \/ r = SmEvent(q, "SetPortConfig_INACTIVE") /\ config.mode = "INACTIVE"
    BY <1>2, <2>1, <2>2 DEF SmSetPortConfig
  <2>4. SmOK(s) /\ s.config = config
    BY <1>0, <1>2 DEF SmOK, ConfigurableStates
  <2>5. Below(p, q) /\ PortOK(q) /\ q.sm.config = config /\ q.mbox = p.mbox
    BY <1>0, <2>4, SetSm, BelowPortOK DEF PortFields
  <2> HIDE DEF q, r
  <2>6. Under(q, r)
    BY <2>3, <2>5, SmEventStep, OtherSmEventStep DEF Suits
  <2>7. Below(p, r) /\ r.sm.config = config /\ OffOnly(p.mbox, r.mbox, config.mode)
    BY <2>5, <2>6, BelowTwice DEF Under
  <2> QED
    BY <1>2, <2>7 DEF r
<1> QED
  BY <1>1, <1>2

-----------------------------------------------------------------------------
(* Configuration manager *)

\* The jobs the configuration manager posts
LEMMA CmPosts ==
  ASSUME NEW p, PortOK(p)
  PROVE  /\ Still(p, SetPortConfig(p)) /\ Still(p, SM_Operate(p)) /\ Still(p, DS_Delete(p))
         /\ Still(p, Post(p, [type |-> "DS_INIT", config |-> p.cm.config]))
         /\ Still(p, Post(p, [type |-> "OD_STOP"])) /\ Still(p, Post(p, [type |-> "OD_START"]))
         /\ Still(p, Post(p, [type |-> "DS_STARTUP"]))
<1>1. p.cm.config \in ConfigRecords
  BY DEF PortOK, CmOK
<1>2. /\ [type |-> "SM_SET_PORT_CFG_REQ", config |-> p.cm.config] \in QuietJobs
      /\ [type |-> "DS_INIT", config |-> p.cm.config] \in QuietJobs
  BY <1>1 DEF QuietJobs
<1>3. /\ [type |-> "SM_OPERATE_REQ"] \in QuietJobs /\ [type |-> "DS_DELETE"] \in QuietJobs
      /\ [type |-> "OD_STOP"] \in QuietJobs /\ [type |-> "OD_START"] \in QuietJobs
      /\ [type |-> "DS_STARTUP"] \in QuietJobs
  BY DEF QuietJobs
<1> QED
  BY <1>2, <1>3, PostStill DEF SetPortConfig, SM_Operate, DS_Delete

LEMMA OdStopStep == ASSUME NEW p, PortOK(p) PROVE Still(p, Post(p, [type |-> "OD_STOP"]))
  BY CmPosts

LEMMA OdStartStep == ASSUME NEW p, PortOK(p) PROVE Still(p, Post(p, [type |-> "OD_START"]))
  BY CmPosts

LEMMA DsStartupStep ==
  ASSUME NEW p, PortOK(p) PROVE Still(p, Post(p, [type |-> "DS_STARTUP"]))
  BY CmPosts

LEMMA SetPortConfigAndStorageStep ==
  ASSUME NEW p, PortOK(p)
  PROVE  Still(p, SetPortConfigAndStorage(p))
<1> DEFINE q1 == Post(p, [type |-> "DS_INIT", config |-> p.cm.config])
           q2 == SetPortConfig(q1)
<1>1. SetPortConfigAndStorage(p) = q2
  BY DEF SetPortConfigAndStorage
<1>2. Still(p, q1) /\ PortOK(q1)
  BY CmPosts, StillPortOK
<1> HIDE DEF q1
<1>3. Still(p, q2) /\ PortOK(q2)
  BY <1>2, CmPosts, StillTwice, StillPortOK
<1> QED
  BY <1>3, <1>1

LEMMA StartupStep ==
  ASSUME NEW p, PortOK(p)
  PROVE  Still(p, Startup(p))
<1>1. CASE p.cm.config.mode = "AUTOCOM" \/ ~DS_Chk_Cfg(p)
  <2> DEFINE q1 == DS_Delete(p)
             q2 == SetPortConfigAndStorage(q1)
  <2>1. Startup(p) = q2
    BY <1>1 DEF Startup
  <2>2. Still(p, q1) /\ PortOK(q1)
    BY CmPosts, StillPortOK
  <2> HIDE DEF q1
  <2>3. Still(p, q2) /\ PortOK(q2)
    BY <2>2, SetPortConfigAndStorageStep, StillTwice, StillPortOK
  <2> QED
    BY <2>3, <2>1
<1>2. CASE ~(p.cm.config.mode = "AUTOCOM" \/ ~DS_Chk_Cfg(p))
  <2> DEFINE q == SetPortConfigAndStorage(p)
  <2>1. Startup(p) = q
    BY <1>2 DEF Startup
  <2>2. Still(p, q) /\ PortOK(q)
    BY SetPortConfigAndStorageStep, StillPortOK
  <2> QED
    BY <2>2, <2>1
<1> QED
  BY <1>1, <1>2

CmStates == StatesOf(CmTransitions)

\* The states the configuration manager enters without a row of its table
LEMMA CmStatesNamed ==
  {"CheckPortMode", "SM_Startup", "Port_DIDO", "Port_Deactivated"} \subseteq CmStates
<1>1. /\ <<"SM_Startup", "CFG_CHANGE", "CheckPortMode", "check_mode">> \in CmTransitions
      /\ <<"Port_DIDO", "CFG_CHANGE", "CheckPortMode", "check_mode">> \in CmTransitions
      /\ <<"Port_Deactivated", "CFG_CHANGE", "CheckPortMode", "check_mode">> \in CmTransitions
  BY DEF CmTransitions
<1>2. \A row \in CmTransitions : row[1] \in CmStates /\ row[3] \in CmStates
  BY DEF CmStates, StatesOf
<1> QED
  BY <1>1, <1>2

LEMMA SetCmState ==
  ASSUME NEW p, PortOK(p), NEW x \in CmStates
  PROVE  Still(p, [p EXCEPT !.cm.state = x])
<1>0. DOMAIN p = PortFields /\ CmOK(p.cm)
  BY DEF PortOK
<1> DEFINE s == [p.cm EXCEPT !.state = x]
           q == [p EXCEPT !.cm = s]
<1>1. [p EXCEPT !.cm.state = x] = q
  BY <1>0 DEF PortFields
<1>2. CmOK(s)
  BY <1>0 DEF CmOK, CmStates
<1> QED
  BY <1>1, <1>2, SetCm

LEMMA SetCmStateStatus ==
  ASSUME NEW p, PortOK(p), NEW x \in CmStates, NEW y \in PortStatus
  PROVE  Still(p, [p EXCEPT !.cm.state = x, !.cm.status = y])
<1>0. DOMAIN p = PortFields /\ CmOK(p.cm)
  BY DEF PortOK
<1> DEFINE s == [p.cm EXCEPT !.state = x, !.status = y]
           q == [p EXCEPT !.cm = s]
<1>1. [p EXCEPT !.cm.state = x, !.cm.status = y] = q
  BY <1>0 DEF PortFields
<1>2. CmOK(s)
  BY <1>0 DEF CmOK, CmStates
<1> QED
  BY <1>1, <1>2, SetCm

LEMMA SetCmStatus ==
  ASSUME NEW p, PortOK(p), NEW y \in PortStatus
  PROVE  Still(p, [p EXCEPT !.cm.status = y])
<1>0. DOMAIN p = PortFields /\ CmOK(p.cm)
  BY DEF PortOK
<1> DEFINE s == [p.cm EXCEPT !.status = y]
           q == [p EXCEPT !.cm = s]
<1>1. [p EXCEPT !.cm.status = y] = q
  BY <1>0 DEF PortFields
<1>2. CmOK(s)
  BY <1>0 DEF CmOK
<1> QED
  BY <1>1, <1>2, SetCm

LEMMA SetCmConfig ==
  ASSUME NEW p, PortOK(p), NEW config \in ConfigRecords
  PROVE  Still(p, [p EXCEPT !.cm.config = config])
<1>0. DOMAIN p = PortFields /\ CmOK(p.cm)
  BY DEF PortOK
<1> DEFINE s == [p.cm EXCEPT !.config = config]
           q == [p EXCEPT !.cm = s]
<1>1. [p EXCEPT !.cm.config = config] = q
  BY <1>0 DEF PortFields
<1>2. CmOK(s)
  BY <1>0 DEF CmOK
<1> QED
  BY <1>1, <1>2, SetCm

LEMMA CheckModeStep ==
  ASSUME NEW p, PortOK(p), NEW config \in ConfigRecords
  PROVE  Still(p, CheckMode(p, config))
<1>0. DOMAIN p = PortFields /\ CmOK(p.cm)
  BY DEF PortOK
<1>1. CASE config.mode \in {"CFGCOM", "AUTOCOM"}
  <2> DEFINE q1 == [p EXCEPT !.cm.config = config]
             q2 == Post(q1, [type |-> "OD_STOP"])
             q3 == [q2 EXCEPT !.cm.state = "SM_Startup"]
             q4 == Startup(q3)
  <2>1. CheckMode(p, config) = q4
    BY <1>1 DEF CheckMode
  <2>2. Still(p, q1) /\ PortOK(q1)
    BY SetCmConfig, StillPortOK
  <2> HIDE DEF q1
  <2>3. Still(p, q2) /\ PortOK(q2)
    BY <2>2, OdStopStep, StillTwice, StillPortOK
  <2> HIDE DEF q2
  <2>4. Still(p, q3) /\ PortOK(q3)
    BY <2>3, SetCmState, CmStatesNamed, StillTwice, StillPortOK
  <2> HIDE DEF q3
  <2>5. Still(p, q4) /\ PortOK(q4)
    BY <2>4, StartupStep, StillTwice, StillPortOK
  <2> QED
    BY <2>5, <2>1
<1>2. CASE config.mode = "DIDO"
  <2> DEFINE q1 == [p EXCEPT !.cm.config = config]
             q2 == Post(q1, [type |-> "OD_STOP"])
             q3 == [q2 EXCEPT !.cm.state = "Port_DIDO", !.cm.status = "DIDO"]
             q4 == DS_Delete(q3)
             q5 == SetPortConfigAndStorage(q4)
  <2>1. CheckMode(p, config) = q5
    BY <1>2 DEF CheckMode
  <2>2. Still(p, q1) /\ PortOK(q1)
    BY SetCmConfig, StillPortOK
  <2> HIDE DEF q1
  <2>3. Still(p, q2) /\ PortOK(q2)
    BY <2>2, OdStopStep, StillTwice, StillPortOK
  <2> HIDE DEF q2
  <2>4. Still(p, q3) /\ PortOK(q3)
    BY <2>3, SetCmStateStatus, CmStatesNamed, StillTwice, StillPortOK, ZenonT(60) DEF PortStatus
  <2> HIDE DEF q3
  <2>5. Still(p, q4) /\ PortOK(q4)
    BY <2>4, CmPosts, StillTwice, StillPortOK
  <2> HIDE DEF q4
  <2>6. Still(p, q5) /\ PortOK(q5)
    BY <2>5, SetPortConfigAndStorageStep, StillTwice, StillPortOK
  <2> QED
    BY <2>6, <2>1
<1>3. CASE config.mode = "INACTIVE"
  <2> DEFINE q1 == [p EXCEPT !.cm.config = config]
             q2 == Post(q1, [type |-> "OD_STOP"])
             q3 == [q2 EXCEPT !.cm.state = "Port_Deactivated", !.cm.status = "DEACTIVATED"]
             q4 == SetPortConfig(q3)
  <2>1. CheckMode(p, config) = q4
    BY <1>3 DEF CheckMode
  <2>2. Still(p, q1) /\ PortOK(q1)
    BY SetCmConfig, StillPortOK
  <2> HIDE DEF q1
  <2>3. Still(p, q2) /\ PortOK(q2)
    BY <2>2, OdStopStep, StillTwice, StillPortOK
  <2> HIDE DEF q2
  <2>4. Still(p, q3) /\ PortOK(q3)
    BY <2>3, SetCmStateStatus, CmStatesNamed, StillTwice, StillPortOK, ZenonT(60) DEF PortStatus
  <2> HIDE DEF q3
  <2>5. Still(p, q4) /\ PortOK(q4)
    BY <2>4, CmPosts, StillTwice, StillPortOK
  <2> QED
    BY <2>5, <2>1
<1> QED
  BY <1>1, <1>2, <1>3 DEF ConfigRecords

LEMMA ComlostStep ==
  ASSUME NEW p, PortOK(p)
  PROVE  Still(p, Comlost(p))
<1>0. DOMAIN p = PortFields /\ CmOK(p.cm)
  BY DEF PortOK
<1> DEFINE s == [p.cm EXCEPT !.status = "NO_DEV"]
           q == [p EXCEPT !.cm = s]
           r == [q EXCEPT !.lost = TRUE]
<1>1. [p EXCEPT !.cm.status = "NO_DEV", !.lost = TRUE] = r
  BY <1>0 DEF PortFields
<1>2. CmOK(s)
  BY <1>0 DEF CmOK, PortStatus
<1>3. Still(p, q) /\ PortOK(q)
  BY <1>2, SetCm, StillPortOK
<1> HIDE DEF q
<1>4. Still(p, r)
  BY <1>3, SetLost, BelowStill, StillTwice
<1> QED
  BY <1>1, <1>4 DEF Comlost

LEMMA PortFaultStep ==
  ASSUME NEW p, PortOK(p), NEW job
  PROVE  Still(p, PortFault(p, job))
<1>1. CASE job.type = "DS_FAULT" /\ job.fault = "COM_ERR"
  <2> DEFINE q1 == Comlost(p)
             q2 == [q1 EXCEPT !.cm.state = "CheckPortMode"]
  <2>1. PortFault(p, job) = q2
    BY <1>1 DEF PortFault
  <2>2. Still(p, q1) /\ PortOK(q1)
    BY ComlostStep, StillPortOK
  <2> HIDE DEF q1
  <2>3. Still(p, q2) /\ PortOK(q2)
    BY <2>2, SetCmState, CmStatesNamed, StillTwice, StillPortOK
  <2> QED
    BY <2>3, <2>1
<1>2. CASE ~(job.type = "DS_FAULT" /\ job.fault = "COM_ERR")
  <2> DEFINE q == [p EXCEPT !.cm.status = "PORT_DIAG"]
  <2>1. PortFault(p, job) = q
    BY <1>2 DEF PortFault
  <2>2. Still(p, q) /\ PortOK(q)
    BY SetCmStatus, StillPortOK DEF PortStatus
  <2> QED
    BY <2>2, <2>1
<1> QED
  BY <1>1, <1>2

CmActions ==
  {"ignore", "check_mode", "comlost", "start_ds", "ds_ready", "sm_operate", "port_fault"}

LEMMA CmActStep ==
  ASSUME NEW p, PortOK(p),
         NEW action \in CmActions, NEW job, action = "check_mode" => job.config \in ConfigRecords
  PROVE  Still(p, CmAct(p, action, job))
<1>1. CASE action = "ignore"
  BY <1>1, StillNot DEF CmAct
<1>2. CASE action = "check_mode"
  <2> DEFINE q == CheckMode(p, job.config)
  <2>1. CmAct(p, action, job) = q
    BY <1>2 DEF CmAct
  <2>2. Still(p, q) /\ PortOK(q)
    BY <1>2, CheckModeStep, StillPortOK
  <2> QED
    BY <2>2, <2>1
<1>3. CASE action = "comlost"
  <2> DEFINE q == Comlost(p)
  <2>1. CmAct(p, action, job) = q
    BY <1>3 DEF CmAct
  <2>2. Still(p, q) /\ PortOK(q)
    BY ComlostStep, StillPortOK
  <2> QED
    BY <2>2, <2>1
<1>4. CASE action = "start_ds"
  <2> DEFINE q1 == [p EXCEPT !.cm.status = "PREOP"]
             q2 == Post(q1, [type |-> "DS_STARTUP"])
  <2>1. CmAct(p, action, job) = q2
    BY <1>4 DEF CmAct
  <2>2. Still(p, q1) /\ PortOK(q1)
    BY SetCmStatus, StillPortOK DEF PortStatus
  <2> HIDE DEF q1
  <2>3. Still(p, q2) /\ PortOK(q2)
    BY <2>2, DsStartupStep, StillTwice, StillPortOK
  <2> QED
    BY <2>3, <2>1
<1>5. CASE action = "ds_ready"
  <2> DEFINE q == SM_Operate(p)
  <2>1. CmAct(p, action, job) = q
    BY <1>5 DEF CmAct
  <2>2. Still(p, q) /\ PortOK(q)
    BY CmPosts, StillPortOK
  <2> QED
    BY <2>2, <2>1
<1>6. CASE action = "sm_operate"
  <2> DEFINE q1 == [p EXCEPT !.cm.status = "OP"]
             q2 == Post(q1, [type |-> "OD_START"])
  <2>1. CmAct(p, action, job) = q2
    BY <1>6 DEF CmAct
  <2>2. Still(p, q1) /\ PortOK(q1)
    BY SetCmStatus, StillPortOK DEF PortStatus
  <2> HIDE DEF q1
  <2>3. Still(p, q2) /\ PortOK(q2)
    BY <2>2, OdStartStep, StillTwice, StillPortOK
  <2> QED
    BY <2>3, <2>1
<1>7. CASE action = "port_fault"
  <2> DEFINE q == PortFault(p, job)
  <2>1. CmAct(p, action, job) = q
    BY <1>7 DEF CmAct
  <2>2. Still(p, q) /\ PortOK(q)
    BY PortFaultStep, StillPortOK
  <2> QED
    BY <2>2, <2>1
<1> QED
  BY <1>1, <1>2, <1>3, <1>4, <1>5, <1>6, <1>7 DEF CmActions

\* The rows of the table: what the actions rely on.
LEMMA CmRows ==
  \A row \in CmTransitions :
    /\ row[3] \in CmStates
    /\ row[4] \in CmActions
    /\ row[4] = "check_mode" => row[2] = "CFG_CHANGE"
<1>1. ASSUME NEW row \in CmTransitions PROVE row[3] \in CmStates
  BY DEF CmStates, StatesOf
<1>2. ASSUME NEW row \in CmTransitions
      PROVE  row[4] \in CmActions /\ (row[4] = "check_mode" => row[2] = "CFG_CHANGE")
  BY DEF CmTransitions, CmActions
<1> QED
  BY <1>1, <1>2

LEMMA CmEventStep ==
  ASSUME NEW p, PortOK(p), NEW event, NEW job,
         event = "CFG_CHANGE" => job.config \in ConfigRecords
  PROVE  Still(p, CmEvent(p, event, job))
<1> DEFINE rows == {row \in CmTransitions : row[1] = p.cm.state /\ row[2] = event}
<1>1. CASE rows = {}
  BY <1>1, StillNot DEF CmEvent
<1>2. CASE rows # {}
  <2> DEFINE row == CHOOSE r \in rows : TRUE
             q == [p EXCEPT !.cm.state = row[3]]
  <2>1. row \in rows
    BY <1>2
  <2>2. CmEvent(p, event, job) = CmAct(q, row[4], job)
    BY <1>2 DEF CmEvent
  <2> HIDE DEF row
  <2>3. /\ row[3] \in CmStates /\ row[4] \in CmActions
        /\ row[4] = "check_mode" => event = "CFG_CHANGE"
    BY <2>1, CmRows
  <2>4. Still(p, q) /\ PortOK(q)
    BY <2>3, SetCmState, StillPortOK
  <2> HIDE DEF q
  <2>5. Still(q, CmAct(q, row[4], job))
    BY <2>3, <2>4, CmActStep
  <2> QED
    BY <2>2, <2>4, <2>5, StillTwice
<1> QED
  BY <1>1, <1>2

LEMMA CmPortModeIndStep ==
  ASSUME NEW p, PortOK(p), NEW job, job.mode \in PortModes
  PROVE  Still(p, CmPortModeInd(p, job))
<1>1. CmPortModeInd(p, job) \in
        {CmEvent(p, "SM_COMREADY", job), CmEvent(p, "SM_FAULT", job),
         CmEvent(p, "SM_OPERATE", job), CmEvent(p, "SM_COMLOST", job),
         [p EXCEPT !.cm.status = "DEACTIVATED"], p}
  BY DEF CmPortModeInd, PortModes, Faults
<1>2. /\ Still(p, CmEvent(p, "SM_COMREADY", job)) /\ Still(p, CmEvent(p, "SM_FAULT", job))
      /\ Still(p, CmEvent(p, "SM_OPERATE", job)) /\ Still(p, CmEvent(p, "SM_COMLOST", job))
  BY CmEventStep
<1>3. Still(p, [p EXCEPT !.cm.status = "DEACTIVATED"])
  BY SetCmStatus DEF PortStatus
<1> QED
  BY <1>1, <1>2, <1>3, StillNot

LEMMA CmCallbacksStep ==
  ASSUME NEW p, PortOK(p), NEW job
  PROVE  /\ job.config \in ConfigRecords => Still(p, CmPortConfiguration(p, job))
         /\ Still(p, CmDsReady(p, job)) /\ Still(p, CmDsFault(p, job))
  BY CmEventStep DEF CmPortConfiguration, CmDsReady, CmDsFault

-----------------------------------------------------------------------------
(* Data storage *)

\* One of the actions has been taken, and it has raised event e.
Does(p, q, e) == Unseen(p, q) /\ q.ds.state = p.ds.state /\ q.ds.event = e

LEMMA DoesNot == ASSUME NEW p, PortOK(p) PROVE Does(p, p, p.ds.event)
  BY UnseenNot DEF Does

LEMMA DoesTwice ==
  ASSUME NEW p, NEW q, NEW r, NEW e, NEW f, PortOK(p), Does(p, q, e), Does(q, r, f)
  PROVE  Does(p, r, f)
  BY UnseenTwice DEF Does

LEMMA DoesPortOK == ASSUME NEW p, NEW q, NEW e, Does(p, q, e) PROVE PortOK(q)
  BY DEF Does, Unseen

\* The state of data storage is set, but not that of its FSM.
LEMMA SetDsDoes ==
  ASSUME NEW p, PortOK(p), NEW x, DsOK(x), x.state = p.ds.state
  PROVE  Does(p, [p EXCEPT !.ds = x], x.event)
<1>1. Unseen(p, [p EXCEPT !.ds = x])
  BY SetDs
<1>2. [p EXCEPT !.ds = x].ds = x
  BY DEF PortOK, PortFields
<1> QED
  BY <1>1, <1>2 DEF Does

LEMMA RaisesStep ==
  ASSUME NEW p, PortOK(p), NEW e
  PROVE  Does(p, Raises(p, e), e)
<1>0. DOMAIN p = PortFields /\ DsOK(p.ds)
  BY DEF PortOK
<1> DEFINE x == [p.ds EXCEPT !.event = e]
<1>1. [p EXCEPT !.ds.event = e] = [p EXCEPT !.ds = x]
  BY <1>0 DEF PortFields
<1>2. DsOK(x) /\ x.state = p.ds.state /\ x.event = e
  BY <1>0 DEF DsOK
<1> HIDE DEF x
<1> QED
  BY <1>1, <1>2, SetDsDoes DEF Raises

LEMMA SetDeleted ==
  ASSUME NEW p, PortOK(p)
  PROVE  Does(p, [p EXCEPT !.ds.id = "nobody", !.ds.valid = FALSE], p.ds.event)
<1>0. DOMAIN p = PortFields /\ DsOK(p.ds)
  BY DEF PortOK
<1> DEFINE x == [p.ds EXCEPT !.id = "nobody", !.valid = FALSE]
<1>1. [p EXCEPT !.ds.id = "nobody", !.ds.valid = FALSE] = [p EXCEPT !.ds = x]
  BY <1>0 DEF PortFields
<1>2. DsOK(x) /\ x.state = p.ds.state /\ x.event = p.ds.event
  BY <1>0 DEF DsOK
<1> HIDE DEF x
<1> QED
  BY <1>1, <1>2, SetDsDoes

LEMMA SetStored ==
  ASSUME NEW p, PortOK(p), NEW x
  PROVE  Does(p, [p EXCEPT !.ds.id = x, !.ds.valid = TRUE], p.ds.event)
<1>0. DOMAIN p = PortFields /\ DsOK(p.ds)
  BY DEF PortOK
<1> DEFINE y == [p.ds EXCEPT !.id = x, !.valid = TRUE]
<1>1. [p EXCEPT !.ds.id = x, !.ds.valid = TRUE] = [p EXCEPT !.ds = y]
  BY <1>0 DEF PortFields
<1>2. DsOK(y) /\ y.state = p.ds.state /\ y.event = p.ds.event
  BY <1>0 DEF DsOK
<1> HIDE DEF y
<1> QED
  BY <1>1, <1>2, SetDsDoes

LEMMA SetEnable ==
  ASSUME NEW p, PortOK(p)
  PROVE  Does(p, [p EXCEPT !.ds.enable = FALSE], p.ds.event)
<1>0. DOMAIN p = PortFields /\ DsOK(p.ds)
  BY DEF PortOK
<1> DEFINE x == [p.ds EXCEPT !.enable = FALSE]
<1>1. [p EXCEPT !.ds.enable = FALSE] = [p EXCEPT !.ds = x]
  BY <1>0 DEF PortFields
<1>2. DsOK(x) /\ x.state = p.ds.state /\ x.event = p.ds.event
  BY <1>0 DEF DsOK
<1> HIDE DEF x
<1> QED
  BY <1>1, <1>2, SetDsDoes

LEMMA SetFault ==
  ASSUME NEW p, PortOK(p), NEW f \in DsFaults
  PROVE  Does(p, [p EXCEPT !.ds.fault = f], p.ds.event)
<1>0. DOMAIN p = PortFields /\ DsOK(p.ds)
  BY DEF PortOK
<1> DEFINE x == [p.ds EXCEPT !.fault = f]
<1>1. [p EXCEPT !.ds.fault = f] = [p EXCEPT !.ds = x]
  BY <1>0 DEF PortFields
<1>2. DsOK(x) /\ x.state = p.ds.state /\ x.event = p.ds.event
  BY <1>0 DEF DsOK
<1> HIDE DEF x
<1> QED
  BY <1>1, <1>2, SetDsDoes

LEMMA SetPos ==
  ASSUME NEW p, PortOK(p), NEW n \in 0..Parameters
  PROVE  Does(p, [p EXCEPT !.ds.pos = n], p.ds.event)
<1>0. DOMAIN p = PortFields /\ DsOK(p.ds)
  BY DEF PortOK
<1> DEFINE x == [p.ds EXCEPT !.pos = n]
<1>1. [p EXCEPT !.ds.pos = n] = [p EXCEPT !.ds = x]
  BY <1>0 DEF PortFields
<1>2. DsOK(x) /\ x.state = p.ds.state /\ x.event = p.ds.event
  BY <1>0 DEF DsOK
<1> HIDE DEF x
<1> QED
  BY <1>1, <1>2, SetDsDoes

LEMMA SetAnswer ==
  ASSUME NEW p, PortOK(p), NEW a
  PROVE  Does(p, [p EXCEPT !.ds.answer = a], p.ds.event)
<1>0. DOMAIN p = PortFields /\ DsOK(p.ds)
  BY DEF PortOK
<1> DEFINE x == [p.ds EXCEPT !.answer = a]
<1>1. [p EXCEPT !.ds.answer = a] = [p EXCEPT !.ds = x]
  BY <1>0 DEF PortFields
<1>2. DsOK(x) /\ x.state = p.ds.state /\ x.event = p.ds.event
  BY <1>0 DEF DsOK
<1> HIDE DEF x
<1> QED
  BY <1>1, <1>2, SetDsDoes

\* Services of the application layer and jobs for the configuration manager
LEMMA DsPosts ==
  ASSUME NEW p, PortOK(p)
  PROVE  /\ Does(p, DsRead(p), p.ds.event) /\ Does(p, DsWrite(p), p.ds.event)
         /\ Does(p, DS_Ready(p), p.ds.event)
         /\ \A fault \in DsFaults : Does(p, DS_Fault(p, fault), p.ds.event)
<1>1. ASSUME NEW direction \in Directions
      PROVE  [type |-> "AL_REQ", direction |-> direction, index |-> "ISDU", who |-> "DS"]
                \in QuietJobs
  BY DEF QuietJobs
<1>2. "READ" \in Directions /\ "WRITE" \in Directions
  BY DEF Directions
<1>3. DlStep(p, DsRead(p)) /\ DlStep(p, DsWrite(p))
  BY <1>1, <1>2, PostStep DEF DsRead, DsWrite, AL_ReadWrite_req, StorageJobs, PortJobs, Claimed
<1>4. [type |-> "DS_READY"] \in QuietJobs
  BY DEF QuietJobs
<1>5. ASSUME NEW fault \in DsFaults
      PROVE  [type |-> "DS_FAULT", fault |-> fault] \in QuietJobs
  BY DEF QuietJobs
<1>6. ASSUME NEW job \in QuietJobs, job.type # "DL_EVENT_IND"
      PROVE  Does(p, Post(p, job), p.ds.event)
  <2>1. job \in JobSet
    BY DEF JobSet
  <2>2. Post(p, job).ds = p.ds
    BY <2>1, Posted
  <2> QED
    BY <1>6, <2>2, PostStill DEF Still, Does
<1>7. Does(p, DS_Ready(p), p.ds.event)
  BY <1>4, <1>6 DEF DS_Ready
<1>8. ASSUME NEW fault \in DsFaults PROVE Does(p, DS_Fault(p, fault), p.ds.event)
  BY <1>5, <1>6 DEF DS_Fault
<1> QED
  BY <1>3, <1>7, <1>8 DEF DlStep, Does

LEMMA FaultPosted ==
  ASSUME NEW p, PortOK(p), NEW fault \in DsFaults
  PROVE  Does(p, DS_Fault(p, fault), p.ds.event)
  BY DsPosts

DsFaultKinds == {"FAULT_ID", "FAULT_SIZE", "FAULT_LOCK", "FAULT_UL", "FAULT_DL"}

\* ds_fault raises FAULT_DONE, unless the device is told first.
LEMMA DsFaultActionStep ==
  ASSUME NEW p, PortOK(p), p.ds.event = "NONE", NEW event \in DsFaultKinds
  PROVE  Does(p, DsFaultAction(p, event),
              IF event \in {"FAULT_UL", "FAULT_DL"} THEN "NONE" ELSE "FAULT_DONE")
<1>1. CASE event = "FAULT_ID"
  <2> DEFINE q1 == DS_Fault(p, "ID")
             q2 == Raises(q1, "FAULT_DONE")
  <2>1. DsFaultAction(p, event) = q2
    BY <1>1 DEF DsFaultAction
  <2>2. Does(p, q1, p.ds.event) /\ PortOK(q1) /\ q1.ds.event = p.ds.event
    BY FaultPosted, DoesPortOK DEF DsFaults, Does
  <2> HIDE DEF q1
  <2>3. Does(p, q2, "FAULT_DONE") /\ PortOK(q2)
    BY <2>2, RaisesStep, DoesTwice, DoesPortOK
  <2> QED
    BY <2>3, <2>1, <1>1
<1>2. CASE event = "FAULT_SIZE"
  <2> DEFINE q1 == DS_Fault(p, "SIZE")
             q2 == Raises(q1, "FAULT_DONE")
  <2>1. DsFaultAction(p, event) = q2
    BY <1>2 DEF DsFaultAction
  <2>2. Does(p, q1, p.ds.event) /\ PortOK(q1) /\ q1.ds.event = p.ds.event
    BY FaultPosted, DoesPortOK DEF DsFaults, Does
  <2> HIDE DEF q1
  <2>3. Does(p, q2, "FAULT_DONE") /\ PortOK(q2)
    BY <2>2, RaisesStep, DoesTwice, DoesPortOK
  <2> QED
    BY <2>3, <2>1, <1>2
<1>3. CASE event = "FAULT_LOCK"
  <2> DEFINE q1 == [p EXCEPT !.ds.enable = FALSE]
             q2 == DS_Fault(q1, "LOCK")
             q3 == Raises(q2, "FAULT_DONE")
  <2>1. DsFaultAction(p, event) = q3
    BY <1>3 DEF DsFaultAction
  <2>2. Does(p, q1, p.ds.event) /\ PortOK(q1) /\ q1.ds.event = p.ds.event
    BY SetEnable, DoesPortOK DEF Does
  <2> HIDE DEF q1
  <2>3. Does(p, q2, p.ds.event) /\ PortOK(q2) /\ q2.ds.event = p.ds.event
    BY <2>2, FaultPosted, DoesTwice, DoesPortOK DEF DsFaults, Does
  <2> HIDE DEF q2
  <2>4. Does(p, q3, "FAULT_DONE") /\ PortOK(q3)
    BY <2>3, RaisesStep, DoesTwice, DoesPortOK
  <2> QED
    BY <2>4, <2>1, <1>3
<1>4. CASE event = "FAULT_UL"
  <2> DEFINE q1 == [p EXCEPT !.ds.fault = "UP"]
             q2 == DsWrite(q1)
  <2>1. DsFaultAction(p, event) = q2
    BY <1>4 DEF DsFaultAction
  <2>2. Does(p, q1, p.ds.event) /\ PortOK(q1) /\ q1.ds.event = p.ds.event
    BY SetFault, DoesPortOK DEF DsFaults, Does
  <2> HIDE DEF q1
  <2>3. Does(p, q2, p.ds.event) /\ PortOK(q2) /\ q2.ds.event = p.ds.event
    BY <2>2, DsPosts, DoesTwice, DoesPortOK DEF Does
  <2> QED
    BY <2>3, <2>1, <1>4
<1>5. CASE event = "FAULT_DL"
  <2> DEFINE q1 == [p EXCEPT !.ds.fault = "DOWN"]
             q2 == DsWrite(q1)
  <2>1. DsFaultAction(p, event) = q2
    BY <1>5 DEF DsFaultAction
  <2>2. Does(p, q1, p.ds.event) /\ PortOK(q1) /\ q1.ds.event = p.ds.event
    BY SetFault, DoesPortOK DEF DsFaults, Does
  <2> HIDE DEF q1
  <2>3. Does(p, q2, p.ds.event) /\ PortOK(q2) /\ q2.ds.event = p.ds.event
    BY <2>2, DsPosts, DoesTwice, DoesPortOK DEF Does
  <2> QED
    BY <2>3, <2>1, <1>5
<1> QED
  BY <1>1, <1>2, <1>3, <1>4, <1>5 DEF DsFaultKinds

\* Two things at once that actions of data storage do
LEMMA PosAndRaiseStep ==
  ASSUME NEW p, PortOK(p), NEW n \in 0..Parameters, NEW e
  PROVE  /\ Does(p, Raises([p EXCEPT !.ds.pos = n], e), e)
         /\ Raises([p EXCEPT !.ds.pos = n], e).ds.pos = n
<1> DEFINE q == [p EXCEPT !.ds.pos = n]
<1>1. Does(p, q, p.ds.event) /\ PortOK(q)
  BY SetPos, DoesPortOK
<1>2. q.ds.pos = n
  BY DEF PortOK, PortFields, DsOK
<1> HIDE DEF q
<1>3. Does(p, Raises(q, e), e)
  BY <1>1, RaisesStep, DoesTwice
<1>4. Raises(q, e).ds.pos = n
  BY <1>1, <1>2 DEF Raises, PortOK, PortFields, DsOK
<1> QED
  BY <1>3, <1>4 DEF q

LEMMA ReadAndRaiseStep ==
  ASSUME NEW p, PortOK(p), NEW e
  PROVE  Does(p, Raises(DsRead(p), e), e)
<1> DEFINE q == DsRead(p)
<1>1. Does(p, q, p.ds.event) /\ PortOK(q)
  BY DsPosts, DoesPortOK
<1> HIDE DEF q
<1>2. Does(p, Raises(q, e), e)
  BY <1>1, RaisesStep, DoesTwice
<1> QED
  BY <1>2 DEF q

LEMMA ReadyAndRaiseStep ==
  ASSUME NEW p, PortOK(p), NEW e
  PROVE  Does(p, Raises(DS_Ready(p), e), e)
<1> DEFINE q == DS_Ready(p)
<1>1. Does(p, q, p.ds.event) /\ PortOK(q)
  BY DsPosts, DoesPortOK
<1> HIDE DEF q
<1>2. Does(p, Raises(q, e), e)
  BY <1>1, RaisesStep, DoesTwice
<1> QED
  BY <1>2 DEF q

LEMMA PosAndWriteStep ==
  ASSUME NEW p, PortOK(p), NEW n \in 0..Parameters
  PROVE  Does(p, DsWrite([p EXCEPT !.ds.pos = n]), p.ds.event)
<1> DEFINE q == [p EXCEPT !.ds.pos = n]
<1>1. Does(p, q, p.ds.event) /\ PortOK(q) /\ q.ds.event = p.ds.event
  BY SetPos, DoesPortOK DEF Does
<1> HIDE DEF q
<1>2. Does(p, DsWrite(q), p.ds.event)
  BY <1>1, DsPosts, DoesTwice
<1> QED
  BY <1>2 DEF q

DsActions ==
  {"none", "delete", "reinit", "off", "chk_id", "chk_mem_size", "chk_upload",
   "chk_validity", "chk_csum", "upload", "readparam", "decompose_set", "write_param",
   "init_dl", "dl_done", "ul_fault", "dl_fault", "ready", "fault"}

\* When an action is taken: by some events only, and parameters are written only while
\* there are any left.
DsFits(action, event, pos) ==
  /\ action = "fault" => event \in DsFaultKinds
  /\ action = "upload" => event \in {"DO_UPLOAD", "READ_DONE"}
  /\ action = "write_param" => pos < Parameters

\* The event an action may raise
DsRaised(action, event) ==
  CASE action = "reinit"        -> {"ENABLE", "CLR_DISA"}
    [] action = "chk_id"        -> {"NONE", "FAULT_ID"}
    [] action = "chk_mem_size"  -> {"NONE", "FAULT_SIZE"}
    [] action = "chk_upload"    -> {"NONE", "FAULT_LOCK"}
    [] action = "chk_validity"  -> {"NONE", "PASSED"}
    [] action = "chk_csum"      -> {"DOWNLOAD", "READY"}
    [] action = "upload"        -> {"MORE_DATA", "STORE_DATA"}
    [] action = "decompose_set" -> {"DL_DONE", "MORE_DATA"}
    [] action = "ul_fault"      -> {"FAULT_UL"}
    [] action = "dl_fault"      -> {"FAULT_DL"}
    [] action = "ready"         -> {"READY"}
    [] action = "fault"         ->
         IF event \in {"FAULT_UL", "FAULT_DL"} THEN {"NONE"} ELSE {"FAULT_DONE"}
    [] action \in {"none", "delete", "off", "readparam", "write_param", "init_dl", "dl_done"}
         -> {"NONE"}

\* More parameters are to be written only if there are more.
MoreIsLeft(p) ==
  p.ds.state = "Decompose_Set" /\ p.ds.event = "MORE_DATA" => p.ds.pos < Parameters

DsDone(p, q, action, event) ==
  /\ Unseen(p, q) /\ q.ds.state = p.ds.state
  /\ q.ds.event \in DsRaised(action, event)
  /\ action = "decompose_set" /\ q.ds.event = "MORE_DATA" => q.ds.pos < Parameters

LEMMA DoesDone ==
  ASSUME NEW p, NEW q, NEW action, NEW event, action # "decompose_set",
         NEW e \in DsRaised(action, event), Does(p, q, e)
  PROVE  DsDone(p, q, action, event)
  BY DEF Does, DsDone

\* ds_upload and ds_decompose_set
LEMMA DsUploadActionStep ==
  ASSUME NEW p, PortOK(p), NEW event \in {"DO_UPLOAD", "READ_DONE"}
  PROVE  \E e \in {"MORE_DATA", "STORE_DATA"} : Does(p, DsUploadAction(p, event), e)
<1>0. p.ds.pos \in 0..Parameters /\ Parameters \in Nat
  BY DataStorageAssumption DEF PortOK, DsOK
<1>1. CASE event = "DO_UPLOAD"
  <2>1. DsUploadAction(p, event) = Raises([p EXCEPT !.ds.pos = 0], "MORE_DATA")
    BY <1>1 DEF DsUploadAction
  <2>2. 0 \in 0..Parameters
    BY <1>0
  <2> QED
    BY <2>1, <2>2, PosAndRaiseStep
<1>2. CASE event = "READ_DONE" /\ p.ds.pos < Parameters
  <2> DEFINE n == p.ds.pos + 1
  <2>1. DsUploadAction(p, event) = Raises([p EXCEPT !.ds.pos = n], "MORE_DATA")
    BY <1>2 DEF DsUploadAction
  <2>2. n \in 0..Parameters
    BY <1>0, <1>2
  <2> HIDE DEF n
  <2> QED
    BY <2>1, <2>2, PosAndRaiseStep
<1>3. CASE event = "READ_DONE" /\ ~(p.ds.pos < Parameters)
  <2>1. DsUploadAction(p, event) = Raises(DsRead(p), "STORE_DATA")
    BY <1>3 DEF DsUploadAction
  <2> QED
    BY <2>1, ReadAndRaiseStep
<1> QED
  BY <1>1, <1>2, <1>3

LEMMA DsDecomposeActionStep ==
  ASSUME NEW p, PortOK(p), NEW event
  PROVE  DsDone(p, DsDecomposeAction(p, event), "decompose_set", event)
<1>0. DOMAIN p = PortFields /\ DsOK(p.ds) /\ p.ds.pos \in 0..Parameters /\ Parameters \in Nat
  BY DataStorageAssumption DEF PortOK, DsOK
<1> DEFINE E(n) == IF n >= Parameters THEN "DL_DONE" ELSE "MORE_DATA"
<1>1. ASSUME NEW n \in 0..Parameters
      PROVE  E(n) \in DsRaised("decompose_set", event) /\ (E(n) = "MORE_DATA" => n < Parameters)
  BY <1>0 DEF DsRaised
<1>2. CASE event = "DOWNLOAD"
  <2> DEFINE q == Raises([p EXCEPT !.ds.pos = 0], E(0))
  <2>1. [p EXCEPT !.ds.pos = 0].ds.pos = 0
    BY <1>0 DEF PortFields, DsOK
  <2>2. DsDecomposeAction(p, event) = q
    BY <1>2, <2>1 DEF DsDecomposeAction
  <2>3. 0 \in 0..Parameters
    BY <1>0
  <2> HIDE DEF E
  <2>4. Does(p, q, E(0)) /\ q.ds.pos = 0
    BY <2>3, PosAndRaiseStep
  <2> HIDE DEF q
  <2> QED
    BY <1>1, <2>2, <2>3, <2>4 DEF Does, DsDone
<1>3. CASE event # "DOWNLOAD"
  <2> DEFINE e == E(p.ds.pos)
             q == Raises(p, e)
  <2>1. DsDecomposeAction(p, event) = q
    BY <1>3 DEF DsDecomposeAction
  <2> HIDE DEF E
  <2>2. Does(p, q, e)
    BY RaisesStep
  <2>3. q.ds.pos = p.ds.pos
    BY <1>0 DEF Raises, PortFields, DsOK
  <2>4. e \in DsRaised("decompose_set", event) /\ (e = "MORE_DATA" => p.ds.pos < Parameters)
    BY <1>0, <1>1
  <2> HIDE DEF q, e
  <2> QED
    BY <2>1, <2>2, <2>3, <2>4 DEF Does, DsDone
<1> QED
  BY <1>2, <1>3

LEMMA DsActStep ==
  ASSUME NEW p, PortOK(p), p.ds.event = "NONE", NEW action \in DsActions, NEW event,
         DsFits(action, event, p.ds.pos)
  PROVE  DsDone(p, DsAct(p, action, event), action, event)
<1>1. CASE action = "none"
  <2>1. DsAct(p, action, event) \in {p}
    BY <1>1 DEF DsAct
  <2>2. Does(p, p, "NONE")
    BY DoesNot
  <2>3. "NONE" \in DsRaised(action, event)
    BY <1>1 DEF DsRaised
  <2> QED
    BY <1>1, <2>1, <2>2, <2>3, DoesDone
<1>2. CASE action = "delete"
  <2>1. DsAct(p, action, event) \in {[p EXCEPT !.ds.id = "nobody", !.ds.valid = FALSE]}
    BY <1>2 DEF DsAct
  <2>2. Does(p, [p EXCEPT !.ds.id = "nobody", !.ds.valid = FALSE], "NONE")
    BY SetDeleted
  <2>3. "NONE" \in DsRaised(action, event)
    BY <1>2 DEF DsRaised
  <2> QED
    BY <1>2, <2>1, <2>2, <2>3, DoesDone
<1>3. CASE action = "reinit"
  <2>1. DsAct(p, action, event) \in {Raises(p, "ENABLE"), Raises(p, "CLR_DISA")}
    BY <1>3 DEF DsAct
  <2>2. Does(p, Raises(p, "ENABLE"), "ENABLE")
    BY RaisesStep
  <2>3. Does(p, Raises(p, "CLR_DISA"), "CLR_DISA")
    BY RaisesStep
  <2>4. "ENABLE" \in DsRaised(action, event) /\ "CLR_DISA" \in DsRaised(action, event)
    BY <1>3 DEF DsRaised
  <2> QED
    BY <1>3, <2>1, <2>2, <2>3, <2>4, DoesDone
<1>4. CASE action = "off"
  <2>1. DsAct(p, action, event) \in {DS_Ready(p), p}
    BY <1>4 DEF DsAct
  <2>2. Does(p, DS_Ready(p), "NONE")
    BY DsPosts
  <2>3. Does(p, p, "NONE")
    BY DoesNot
  <2>4. "NONE" \in DsRaised(action, event)
    BY <1>4 DEF DsRaised
  <2> QED
    BY <1>4, <2>1, <2>2, <2>3, <2>4, DoesDone
<1>5. CASE action = "chk_id"
  <2>1. DsAct(p, action, event) \in {DsRead(p), Raises(p, "FAULT_ID")}
    BY <1>5 DEF DsAct
  <2>2. Does(p, DsRead(p), "NONE")
    BY DsPosts
  <2>3. Does(p, Raises(p, "FAULT_ID"), "FAULT_ID")
    BY RaisesStep
  <2>4. "NONE" \in DsRaised(action, event) /\ "FAULT_ID" \in DsRaised(action, event)
    BY <1>5 DEF DsRaised
  <2> QED
    BY <1>5, <2>1, <2>2, <2>3, <2>4, DoesDone
<1>6. CASE action = "chk_mem_size"
  <2>1. DsAct(p, action, event) \in {DsRead(p), Raises(p, "FAULT_SIZE")}
    BY <1>6 DEF DsAct
  <2>2. Does(p, DsRead(p), "NONE")
    BY DsPosts
  <2>3. Does(p, Raises(p, "FAULT_SIZE"), "FAULT_SIZE")
    BY RaisesStep
  <2>4. "NONE" \in DsRaised(action, event) /\ "FAULT_SIZE" \in DsRaised(action, event)
    BY <1>6 DEF DsRaised
  <2> QED
    BY <1>6, <2>1, <2>2, <2>3, <2>4, DoesDone
<1>7. CASE action = "chk_upload"
  <2>1. DsAct(p, action, event) \in {DsRead(p), DsWrite(p), Raises(p, "FAULT_LOCK")}
    BY <1>7 DEF DsAct
  <2>2. Does(p, DsRead(p), "NONE")
    BY DsPosts
  <2>3. Does(p, DsWrite(p), "NONE")
    BY DsPosts
  <2>4. Does(p, Raises(p, "FAULT_LOCK"), "FAULT_LOCK")
    BY RaisesStep
  <2>5. "NONE" \in DsRaised(action, event) /\ "FAULT_LOCK" \in DsRaised(action, event)
    BY <1>7 DEF DsRaised
  <2> QED
    BY <1>7, <2>1, <2>2, <2>3, <2>4, <2>5, DoesDone
<1>8. CASE action = "chk_validity"
  <2>1. DsAct(p, action, event) \in {DsWrite(p), Raises(p, "PASSED")}
    BY <1>8 DEF DsAct
  <2>2. Does(p, DsWrite(p), "NONE")
    BY DsPosts
  <2>3. Does(p, Raises(p, "PASSED"), "PASSED")
    BY RaisesStep
  <2>4. "NONE" \in DsRaised(action, event) /\ "PASSED" \in DsRaised(action, event)
    BY <1>8 DEF DsRaised
  <2> QED
    BY <1>8, <2>1, <2>2, <2>3, <2>4, DoesDone
<1>9. CASE action = "chk_csum"
  <2>1. DsAct(p, action, event) \in {Raises(p, "DOWNLOAD"), Raises(p, "READY")}
    BY <1>9 DEF DsAct
  <2>2. Does(p, Raises(p, "DOWNLOAD"), "DOWNLOAD")
    BY RaisesStep
  <2>3. Does(p, Raises(p, "READY"), "READY")
    BY RaisesStep
  <2>4. "DOWNLOAD" \in DsRaised(action, event) /\ "READY" \in DsRaised(action, event)
    BY <1>9 DEF DsRaised
  <2> QED
    BY <1>9, <2>1, <2>2, <2>3, <2>4, DoesDone
<1>10. CASE action = "upload"
  <2>1. DsAct(p, action, event) = DsUploadAction(p, event)
    BY <1>10 DEF DsAct
  <2>2. event \in {"DO_UPLOAD", "READ_DONE"}
    BY <1>10 DEF DsFits
  <2>3. PICK e \in {"MORE_DATA", "STORE_DATA"} : Does(p, DsUploadAction(p, event), e)
    BY <2>2, DsUploadActionStep
  <2>4. e \in DsRaised(action, event)
    BY <1>10 DEF DsRaised
  <2> QED
    BY <1>10, <2>1, <2>3, <2>4, DoesDone
<1>11. CASE action = "readparam"
  <2>1. DsAct(p, action, event) \in {DsRead(p)}
    BY <1>11 DEF DsAct
  <2>2. Does(p, DsRead(p), "NONE")
    BY DsPosts
  <2>3. "NONE" \in DsRaised(action, event)
    BY <1>11 DEF DsRaised
  <2> QED
    BY <1>11, <2>1, <2>2, <2>3, DoesDone
<1>12. CASE action = "decompose_set"
  <2>1. DsAct(p, action, event) = DsDecomposeAction(p, event)
    BY <1>12 DEF DsAct
  <2> QED
    BY <1>12, <2>1, DsDecomposeActionStep
<1>13. CASE action = "write_param"
  <2> DEFINE n == p.ds.pos + 1
  <2>1. DsAct(p, action, event) = DsWrite([p EXCEPT !.ds.pos = n])
    BY <1>13 DEF DsAct
  <2>2. n \in 0..Parameters
    BY <1>13, DataStorageAssumption DEF DsFits, PortOK, DsOK
  <2> HIDE DEF n
  <2>3. Does(p, DsWrite([p EXCEPT !.ds.pos = n]), "NONE")
    BY <2>2, PosAndWriteStep
  <2>4. "NONE" \in DsRaised(action, event)
    BY <1>13 DEF DsRaised
  <2> QED
    BY <1>13, <2>1, <2>3, <2>4, DoesDone
<1>14. CASE action = "init_dl"
  <2>1. DsAct(p, action, event) \in {DsWrite(p)}
    BY <1>14 DEF DsAct
  <2>2. Does(p, DsWrite(p), "NONE")
    BY DsPosts
  <2>3. "NONE" \in DsRaised(action, event)
    BY <1>14 DEF DsRaised
  <2> QED
    BY <1>14, <2>1, <2>2, <2>3, DoesDone
<1>15. CASE action = "dl_done"
  <2>1. DsAct(p, action, event) \in {DsWrite(p)}
    BY <1>15 DEF DsAct
  <2>2. Does(p, DsWrite(p), "NONE")
    BY DsPosts
  <2>3. "NONE" \in DsRaised(action, event)
    BY <1>15 DEF DsRaised
  <2> QED
    BY <1>15, <2>1, <2>2, <2>3, DoesDone
<1>16. CASE action = "ul_fault"
  <2>1. DsAct(p, action, event) \in {Raises(p, "FAULT_UL")}
    BY <1>16 DEF DsAct
  <2>2. Does(p, Raises(p, "FAULT_UL"), "FAULT_UL")
    BY RaisesStep
  <2>3. "FAULT_UL" \in DsRaised(action, event)
    BY <1>16 DEF DsRaised
  <2> QED
    BY <1>16, <2>1, <2>2, <2>3, DoesDone
<1>17. CASE action = "dl_fault"
  <2>1. DsAct(p, action, event) \in {Raises(p, "FAULT_DL")}
    BY <1>17 DEF DsAct
  <2>2. Does(p, Raises(p, "FAULT_DL"), "FAULT_DL")
    BY RaisesStep
  <2>3. "FAULT_DL" \in DsRaised(action, event)
    BY <1>17 DEF DsRaised
  <2> QED
    BY <1>17, <2>1, <2>2, <2>3, DoesDone
<1>18. CASE action = "ready"
  <2>1. DsAct(p, action, event) \in {Raises(DS_Ready(p), "READY")}
    BY <1>18 DEF DsAct
  <2>2. Does(p, Raises(DS_Ready(p), "READY"), "READY")
    BY ReadyAndRaiseStep
  <2>3. "READY" \in DsRaised(action, event)
    BY <1>18 DEF DsRaised
  <2> QED
    BY <1>18, <2>1, <2>2, <2>3, DoesDone
<1>19. CASE action = "fault"
  <2>1. DsAct(p, action, event) = DsFaultAction(p, event)
    BY <1>19 DEF DsAct
  <2>2. event \in DsFaultKinds
    BY <1>19 DEF DsFits
  <2> DEFINE e == IF event \in {"FAULT_UL", "FAULT_DL"} THEN "NONE" ELSE "FAULT_DONE"
  <2>3. Does(p, DsFaultAction(p, event), e)
    BY <2>2, DsFaultActionStep
  <2>4. e \in DsRaised(action, event)
    BY <1>19 DEF DsRaised
  <2> QED
    BY <1>19, <2>1, <2>3, <2>4, DoesDone
<1> QED
  BY <1>1, <1>2, <1>3, <1>4, <1>5, <1>6, <1>7, <1>8, <1>9, <1>10,
     <1>11, <1>12, <1>13, <1>14, <1>15, <1>16, <1>17, <1>18, <1>19
     DEF DsActions

\* The rows of the table: what the actions rely on.
LEMMA DsRows ==
  \A row \in DsTransitions :
    /\ row[3] \in StatesOf(DsTransitions)
    /\ row[4] \in DsActions
    /\ row[4] = "fault" => row[2] \in DsFaultKinds
    /\ row[4] = "upload" => row[2] \in {"DO_UPLOAD", "READ_DONE"}
    /\ row[4] = "write_param" => row[1] = "Decompose_Set" /\ row[2] = "MORE_DATA"
<1>1. ASSUME NEW row \in DsTransitions PROVE row[3] \in StatesOf(DsTransitions)
  BY DEF StatesOf
<1>2. ASSUME NEW row \in DsTransitions
      PROVE  /\ row[4] \in DsActions
             /\ row[4] = "fault" => row[2] \in DsFaultKinds
             /\ row[4] = "upload" => row[2] \in {"DO_UPLOAD", "READ_DONE"}
             /\ row[4] = "write_param" => row[1] = "Decompose_Set" /\ row[2] = "MORE_DATA"
  BY SMTT(60) DEF DsTransitions, DsActions, DsFaultKinds
<1> QED
  BY <1>1, <1>2

\* The loop of iolink_ds_event comes to its end: what is left to do in a state with an
\* event is one turn, two turns or three, and each turn leaves less.
OneTurn(state, event) ==
  \/ state = "CheckActivationState" /\ event \in {"ENABLE", "CLR_DISA"}
  \/ state = "DS_Fault" /\ event = "FAULT_DONE"
  \/ state = "DS_Ready" /\ event = "READY"
  \/ state = "Decompose_IL" /\ event \in {"MORE_DATA", "STORE_DATA"}
  \/ state = "UploadFault" /\ event = "FAULT_UL"
  \/ state = "Download_Fault" /\ event = "FAULT_DL"
  \/ state = "Decompose_Set" /\ event \in {"MORE_DATA", "DL_DONE"}
  \/ state = "CheckChecksum" /\ event = "DOWNLOAD"

TwoTurns(state, event) ==
  \/ state = "CheckIdentity" /\ event = "FAULT_ID"
  \/ state = "CheckMemSize" /\ event = "FAULT_SIZE"
  \/ state = "CheckUpload" /\ event = "FAULT_LOCK"
  \/ state = "CheckChecksum" /\ event = "READY"

ThreeTurns(state, event) == state = "CheckDSValidity" /\ event = "PASSED"

\* No event is left, or n turns at most.
Within(n, state, event) ==
  \/ event = "NONE"
  \/ n >= 1 /\ OneTurn(state, event)
  \/ n >= 2 /\ TwoTurns(state, event)
  \/ n >= 3 /\ ThreeTurns(state, event)

\* What an action raises is raised where the table can go on with it.
LEMMA DsRowsRaise ==
  ASSUME NEW row \in DsTransitions, NEW e \in DsRaised(row[4], row[2])
  PROVE  /\ e = "NONE" \/ OneTurn(row[3], e) \/ TwoTurns(row[3], e) \/ ThreeTurns(row[3], e)
         /\ ThreeTurns(row[1], row[2]) => e = "NONE" \/ OneTurn(row[3], e) \/ TwoTurns(row[3], e)
         /\ TwoTurns(row[1], row[2]) => e = "NONE" \/ OneTurn(row[3], e)
         /\ OneTurn(row[1], row[2]) => e = "NONE"
         /\ row[3] = "Decompose_Set" /\ e = "MORE_DATA" => row[4] = "decompose_set"
<1>1. /\ row[4] = "reinit" =>
                row[3] = "CheckActivationState" /\ row[2] = "INIT"
      /\ row[4] = "chk_id" =>
                row[3] = "CheckIdentity" /\ row[2] \in {"STARTUP", "UPLOAD"}
      /\ row[4] = "chk_mem_size" =>
                row[3] = "CheckMemSize" /\ row[1] = "CheckIdentity" /\ row[2] = "PASSED"
      /\ row[4] = "chk_upload" =>
                row[3] = "CheckUpload" /\ row[1] = "CheckMemSize" /\ row[2] = "PASSED"
      /\ row[4] = "chk_validity" =>
                row[3] = "CheckDSValidity" /\ row[2] = "NO_UPLOAD"
      /\ row[4] = "chk_csum" =>
                row[3] = "CheckChecksum" /\ row[1] = "CheckDSValidity" /\ row[2] = "PASSED"
      /\ row[4] = "upload" =>
                row[3] = "Decompose_IL" /\ row[2] \in {"DO_UPLOAD", "READ_DONE"}
      /\ row[4] = "decompose_set" =>
                row[3] = "Decompose_Set" /\ row[2] \in {"DOWNLOAD", "WR_DONE"}
                /\ row[1] \in {"Decompose_Set", "Write_Parameter"}
      /\ row[4] = "ul_fault" =>
                row[3] = "UploadFault" /\ row[2] \in {"COM_ERR", "DEV_ERR"}
      /\ row[4] = "dl_fault" =>
                row[3] = "Download_Fault" /\ row[2] \in {"COM_ERR", "DEV_ERR"}
      /\ row[4] = "ready" =>
                row[3] = "DS_Ready" /\ row[2] \in {"UL_DONE", "READY"}
                /\ row[1] \in {"CheckChecksum", "StoreDataSet", "Download_Done"}
      /\ row[4] = "fault" =>
                row[3] = "DS_Fault" /\ row[2] \in DsFaultKinds
  BY SMTT(60) DEF DsTransitions, DsFaultKinds
<1>2. CASE row[4] = "reinit"
  BY <1>1, <1>2 DEF DsRaised, OneTurn, TwoTurns, ThreeTurns, DsFaultKinds
<1>3. CASE row[4] = "chk_id"
  BY <1>1, <1>3 DEF DsRaised, OneTurn, TwoTurns, ThreeTurns, DsFaultKinds
<1>4. CASE row[4] = "chk_mem_size"
  BY <1>1, <1>4 DEF DsRaised, OneTurn, TwoTurns, ThreeTurns, DsFaultKinds
<1>5. CASE row[4] = "chk_upload"
  BY <1>1, <1>5 DEF DsRaised, OneTurn, TwoTurns, ThreeTurns, DsFaultKinds
<1>6. CASE row[4] = "chk_validity"
  BY <1>1, <1>6 DEF DsRaised, OneTurn, TwoTurns, ThreeTurns, DsFaultKinds
<1>7. CASE row[4] = "chk_csum"
  BY <1>1, <1>7 DEF DsRaised, OneTurn, TwoTurns, ThreeTurns, DsFaultKinds
<1>8. CASE row[4] = "upload"
  BY <1>1, <1>8 DEF DsRaised, OneTurn, TwoTurns, ThreeTurns, DsFaultKinds
<1>9. CASE row[4] = "decompose_set"
  BY <1>1, <1>9 DEF DsRaised, OneTurn, TwoTurns, ThreeTurns, DsFaultKinds
<1>10. CASE row[4] = "ul_fault"
  BY <1>1, <1>10 DEF DsRaised, OneTurn, TwoTurns, ThreeTurns, DsFaultKinds
<1>11. CASE row[4] = "dl_fault"
  BY <1>1, <1>11 DEF DsRaised, OneTurn, TwoTurns, ThreeTurns, DsFaultKinds
<1>12. CASE row[4] = "ready"
  BY <1>1, <1>12 DEF DsRaised, OneTurn, TwoTurns, ThreeTurns, DsFaultKinds
<1>13. CASE row[4] = "fault"
  BY <1>1, <1>13 DEF DsRaised, OneTurn, TwoTurns, ThreeTurns, DsFaultKinds
<1>14. CASE row[4] \in {"none", "delete", "off", "readparam", "init_dl", "dl_done", "write_param"}
  <2>1. DsRaised(row[4], row[2]) = {"NONE"}
    BY <1>14 DEF DsRaised
  <2>2. e = "NONE"
    BY <2>1
  <2> QED
    BY <2>2
<1> QED
  BY DsRows, <1>2, <1>3, <1>4, <1>5, <1>6, <1>7, <1>8, <1>9, <1>10, <1>11, <1>12, <1>13, <1>14
     DEF DsActions

\* One turn of the loop
LEMMA DsTurnStep ==
  ASSUME NEW p, PortOK(p), MoreIsLeft(p)
  PROVE  /\ Unseen(p, DsTurn(p)) /\ MoreIsLeft(DsTurn(p))
         /\ Within(3, DsTurn(p).ds.state, DsTurn(p).ds.event)
         /\ \A n \in 1..3 :
               Within(n, p.ds.state, p.ds.event) =>
                 Within(n - 1, DsTurn(p).ds.state, DsTurn(p).ds.event)
<1>0. DOMAIN p = PortFields /\ DsOK(p.ds)
  BY DEF PortOK
<1> DEFINE rows == {row \in DsTransitions : row[1] = p.ds.state /\ row[2] = p.ds.event}
<1>1. ASSUME NEW state, NEW event
      PROVE  [p EXCEPT !.ds.state = state, !.ds.event = event]
               = [p EXCEPT !.ds = [p.ds EXCEPT !.state = state, !.event = event]]
  BY <1>0 DEF PortFields, DsOK
<1>2. CASE rows = {}
  <2>1. DsTurn(p) = Raises(p, "NONE")
    BY <1>2 DEF DsTurn
  <2>2. Does(p, DsTurn(p), "NONE")
    BY <2>1, RaisesStep
  <2> QED
    BY <2>2 DEF Does, MoreIsLeft, Within
<1>3. CASE rows # {}
  <2> DEFINE row == CHOOSE r \in rows : TRUE
             x == [p.ds EXCEPT !.state = row[3], !.event = "NONE"]
             q == [p EXCEPT !.ds = x]
             r == DsAct(q, row[4], p.ds.event)
  <2>1. row \in rows
    BY <1>3
  <2>2. [p EXCEPT !.ds.state = row[3], !.ds.event = "NONE"] = q
    BY <1>1, ZenonT(60)
  <2>3. DsTurn(p) = r
    BY <1>3, <2>2 DEF DsTurn
  <2> HIDE DEF row
  <2>4. row \in DsTransitions /\ row[1] = p.ds.state /\ row[2] = p.ds.event
    BY <2>1
  <2>5. row[3] \in StatesOf(DsTransitions)
    BY <2>4, DsRows
  <2>6. DsOK(x) /\ x.pos = p.ds.pos /\ x.state = row[3] /\ x.event = "NONE"
    BY <1>0, <2>5 DEF DsOK
  <2> HIDE DEF x
  <2>7. Unseen(p, q) /\ PortOK(q) /\ q.ds = x
    BY <1>0, <2>6, SetDs DEF PortFields, Unseen
  <2>8. row[4] \in DsActions /\ DsFits(row[4], p.ds.event, q.ds.pos)
    BY <2>4, <2>6, <2>7, DsRows DEF DsFits, MoreIsLeft
  <2> HIDE DEF q, r
  <2>9. DsDone(q, r, row[4], row[2])
    BY <2>4, <2>6, <2>7, <2>8, DsActStep DEF r
  <2>10. Unseen(p, r) /\ r.ds.state = row[3] /\ r.ds.event \in DsRaised(row[4], row[2])
    BY <2>6, <2>7, <2>9, UnseenTwice DEF DsDone
  <2> DEFINE e == r.ds.event
  <2>11. /\ e = "NONE" \/ OneTurn(row[3], e) \/ TwoTurns(row[3], e) \/ ThreeTurns(row[3], e)
         /\ ThreeTurns(row[1], row[2]) => e = "NONE" \/ OneTurn(row[3], e) \/ TwoTurns(row[3], e)
         /\ TwoTurns(row[1], row[2]) => e = "NONE" \/ OneTurn(row[3], e)
         /\ OneTurn(row[1], row[2]) => e = "NONE"
         /\ row[3] = "Decompose_Set" /\ e = "MORE_DATA" => row[4] = "decompose_set"
    BY <2>4, <2>10, DsRowsRaise
  <2>12. MoreIsLeft(r)
    BY <2>9, <2>10, <2>11 DEF DsDone, MoreIsLeft
  <2>13. row[2] = "NONE" => FALSE
    BY <2>4, SMTT(30) DEF DsTransitions
  <2>14. Within(3, row[3], e)
    BY <2>11 DEF Within
  <2>15. ASSUME NEW n \in 1..3, Within(n, row[1], row[2]) PROVE Within(n - 1, row[3], e)
    <3>1. CASE n = 1
      <4>1. OneTurn(row[1], row[2])
        BY <2>13, <2>15, <3>1 DEF Within
      <4> QED
        BY <2>11, <4>1 DEF Within
    <3>2. CASE n = 2
      <4>1. OneTurn(row[1], row[2]) \/ TwoTurns(row[1], row[2])
        BY <2>13, <2>15, <3>2 DEF Within
      <4> QED
        BY <2>11, <3>2, <4>1 DEF Within
    <3>3. CASE n = 3
      <4>1. OneTurn(row[1], row[2]) \/ TwoTurns(row[1], row[2]) \/ ThreeTurns(row[1], row[2])
        BY <2>13, <2>15, <3>3 DEF Within
      <4> QED
        BY <2>11, <3>3, <4>1 DEF Within
    <3> QED
      BY <2>15, <3>1, <3>2, <3>3
  <2> QED
    BY <2>3, <2>4, <2>10, <2>12, <2>14, <2>15
<1> QED
  BY <1>2, <1>3

\* iolink_ds_event comes to an end after four turns: no event is left.
LEMMA DsEventStep ==
  ASSUME NEW p, PortOK(p), NEW event, event # "MORE_DATA"
  PROVE  Unseen(p, DsEvent(p, event)) /\ DsEvent(p, event).ds.event = "NONE"
<1> DEFINE q0 == Raises(p, event)
           q1 == DsTurn(q0)
           q2 == DsTurn(q1)
           q3 == DsTurn(q2)
           q4 == DsTurn(q3)
<1>1. DsEvent(p, event) = q4
  BY DEF DsEvent
<1>2. Unseen(p, q0) /\ PortOK(q0) /\ MoreIsLeft(q0)
  BY RaisesStep DEF Does, Unseen, MoreIsLeft
<1> HIDE DEF q0
<1>3. Unseen(p, q1) /\ PortOK(q1) /\ MoreIsLeft(q1) /\ Within(3, q1.ds.state, q1.ds.event)
  BY <1>2, DsTurnStep, UnseenTwice, UnseenPortOK
<1> HIDE DEF q1
<1>4. Unseen(p, q2) /\ PortOK(q2) /\ MoreIsLeft(q2) /\ Within(2, q2.ds.state, q2.ds.event)
  <2>1. Unseen(q1, q2) /\ MoreIsLeft(q2) /\ Within(3 - 1, q2.ds.state, q2.ds.event)
    BY <1>3, DsTurnStep
  <2> QED
    BY <1>3, <2>1, UnseenTwice, UnseenPortOK
<1> HIDE DEF q2
<1>5. Unseen(p, q3) /\ PortOK(q3) /\ MoreIsLeft(q3) /\ Within(1, q3.ds.state, q3.ds.event)
  <2>1. Unseen(q2, q3) /\ MoreIsLeft(q3) /\ Within(2 - 1, q3.ds.state, q3.ds.event)
    BY <1>4, DsTurnStep
  <2> QED
    BY <1>4, <2>1, UnseenTwice, UnseenPortOK
<1> HIDE DEF q3
<1>6. Unseen(p, q4) /\ PortOK(q4) /\ Within(0, q4.ds.state, q4.ds.event)
  <2>1. Unseen(q3, q4) /\ Within(1 - 1, q4.ds.state, q4.ds.event)
    BY <1>5, DsTurnStep
  <2> QED
    BY <1>5, <2>1, UnseenTwice, UnseenPortOK
<1> HIDE DEF q4
<1>7. q4.ds.event = "NONE"
  BY <1>6 DEF Within
<1> QED
  BY <1>1, <1>6, <1>7

LEMMA DsEventStill ==
  ASSUME NEW p, PortOK(p), p.ds.event = "NONE", NEW event, event # "MORE_DATA"
  PROVE  Still(p, DsEvent(p, event))
  BY DsEventStep DEF Still

LEMMA DoesStill == ASSUME NEW p, NEW q, Does(p, q, p.ds.event) PROVE Still(p, q)
  BY DEF Does, Still

\* An answer from the device to a read
LEMMA DsReadCnfStep ==
  ASSUME NEW p, PortOK(p), p.ds.event = "NONE", NEW job, NEW answer
  PROVE  Still(p, DsReadCnf(p, job, answer))
<1> DEFINE q == [p EXCEPT !.ds.answer = answer]
           error == ~job.ok \/ answer = "negative"
           failing == DsEvent(q, "COM_ERR")
           checksum == IF error THEN failing ELSE q
           Read == {"COM_ERR", "FAULT_ID", "PASSED", "FAULT_SIZE", "DEV_ERR", "READ_DONE"}
           done == CASE job.ok /\ answer = "garbled"  -> failing
                     [] p.ds.state = "CheckIdentity"  ->
                          DsEvent(q, IF error THEN "FAULT_ID" ELSE "PASSED")
                     [] p.ds.state = "CheckMemSize"   ->
                          DsEvent(q, IF error THEN "FAULT_SIZE" ELSE "PASSED")
                     [] p.ds.state = "ReadParameter"  ->
                          DsEvent(q, IF error THEN "DEV_ERR" ELSE "READ_DONE")
                     [] p.ds.state = "CheckUpload"    -> DsEvent(checksum, "NO_UPLOAD")
                     [] p.ds.state = "StoreDataSet"   -> DsWrite(checksum)
                     [] p.ds.state = "Download_Done"  -> DsEvent(checksum, "READY")
                     [] OTHER -> q
<1>1. DsReadCnf(p, job, answer) = [done EXCEPT !.ds.answer = "plain"]
  BY DEF DsReadCnf
<1>2. Still(p, q) /\ PortOK(q) /\ q.ds.event = "NONE"
  BY SetAnswer, DoesStill, DoesPortOK DEF Does
<1> HIDE DEF q
<1>3. ASSUME NEW event \in Read
      PROVE  Still(p, DsEvent(q, event))
  BY <1>2, DsEventStill, StillTwice
<1>4. Still(p, checksum) /\ PortOK(checksum) /\ checksum.ds.event = "NONE"
  BY <1>2, <1>3, StillPortOK DEF Still
<1>5. done \in {failing, DsEvent(checksum, "NO_UPLOAD"), DsWrite(checksum),
                DsEvent(checksum, "READY"), q}
        \/ \E event \in Read : done = DsEvent(q, event)
  OBVIOUS
<1> HIDE DEF checksum, done
<1>6. Still(p, DsEvent(checksum, "NO_UPLOAD")) /\ Still(p, DsEvent(checksum, "READY"))
  BY <1>4, DsEventStill, StillTwice
<1>7. Still(p, DsWrite(checksum))
  BY <1>4, DsPosts, DoesStill, StillTwice
<1>8. Still(p, done) /\ PortOK(done)
  BY <1>2, <1>3, <1>5, <1>6, <1>7, StillPortOK
<1>9. Still(done, [done EXCEPT !.ds.answer = "plain"])
  BY <1>8, SetAnswer, DoesStill
<1> QED
  BY <1>1, <1>8, <1>9, StillTwice

\* An answer from the device to a write
LEMMA DsWriteCnfStep ==
  ASSUME NEW p, PortOK(p), p.ds.event = "NONE", NEW job, NEW answer
  PROVE  Still(p, DsWriteCnf(p, job, answer))
<1>0. p.ds.fault \in DsFaults
  BY DEF PortOK, DsOK
<1> DEFINE stored == [p EXCEPT !.ds.id = p.ds.pending, !.ds.valid = TRUE]
           reported == DS_Fault(p, p.ds.fault)
<1>1. DsWriteCnf(p, job, answer) \in
        {DsEvent(p, "COM_ERR"), DsEvent(p, "DO_UPLOAD"), DsEvent(p, "WR_DONE"),
         DsEvent(stored, "UL_DONE"), DsEvent(p, "DOWNLOAD"), DsRead(p),
         DsEvent(reported, "FAULT_DONE"), p}
  BY DEF DsWriteCnf
<1>2. Still(p, stored) /\ PortOK(stored) /\ stored.ds.event = "NONE"
  BY SetStored, DoesStill, DoesPortOK DEF Does
<1>3. Still(p, reported) /\ PortOK(reported) /\ reported.ds.event = "NONE"
  BY <1>0, FaultPosted, DoesStill, DoesPortOK DEF Does
<1> HIDE DEF stored, reported
<1>4. Still(p, DsEvent(stored, "UL_DONE"))
  BY <1>2, DsEventStill, StillTwice
<1>5. Still(p, DsEvent(reported, "FAULT_DONE"))
  BY <1>3, DsEventStill, StillTwice
<1>6. /\ Still(p, DsEvent(p, "COM_ERR")) /\ Still(p, DsEvent(p, "DO_UPLOAD"))
      /\ Still(p, DsEvent(p, "WR_DONE")) /\ Still(p, DsEvent(p, "DOWNLOAD"))
  BY DsEventStill
<1>7. Still(p, DsRead(p)) /\ Still(p, p)
  BY DsPosts, DoesStill, StillNot
<1> QED
  BY <1>1, <1>4, <1>5, <1>6, <1>7

LEMMA DsCallbacksStep ==
  ASSUME NEW p, PortOK(p), p.ds.event = "NONE", NEW job
  PROVE  /\ Still(p, DsStartup(p, job)) /\ Still(p, DsDelete(p, job))
         /\ Still(p, DsUpload(p, job)) /\ Still(p, DsInit(p, job))
<1>0. DOMAIN p = PortFields /\ DsOK(p.ds)
  BY DEF PortOK
<1>1. /\ Still(p, DsStartup(p, job)) /\ Still(p, DsDelete(p, job))
      /\ Still(p, DsUpload(p, job))
  BY DsEventStill DEF DsStartup, DsDelete, DsUpload
<1>2. ASSUME NEW upload, NEW download, NEW enable, NEW pending
      PROVE  Still(p, DsEvent([p EXCEPT !.ds.upload = upload, !.ds.download = download,
                                        !.ds.enable = enable, !.ds.fault = "NONE",
                                        !.ds.pending = pending], "INIT"))
  <2> DEFINE x == [p.ds EXCEPT !.upload = upload, !.download = download,
                               !.enable = enable, !.fault = "NONE", !.pending = pending]
             q == [p EXCEPT !.ds = x]
  <2>1. [p EXCEPT !.ds.upload = upload, !.ds.download = download, !.ds.enable = enable,
                  !.ds.fault = "NONE", !.ds.pending = pending] = q
    BY <1>0 DEF PortFields
  <2>2. DsOK(x) /\ x.state = p.ds.state /\ x.event = "NONE"
    BY <1>0 DEF DsOK, DsFaults
  <2> HIDE DEF x
  <2>3. Does(p, q, "NONE")
    BY <2>2, SetDsDoes
  <2> HIDE DEF q
  <2>4. Still(p, q) /\ PortOK(q) /\ q.ds.event = "NONE"
    BY <2>3, DoesStill, DoesPortOK DEF Does
  <2> QED
    BY <2>1, <2>4, DsEventStill, StillTwice
<1>3. Still(p, DsInit(p, job))
  BY <1>2 DEF DsInit
<1> QED
  BY <1>1, <1>3

-----------------------------------------------------------------------------
(* Application layer: on-request data *)

\* Jobs only the users and the events of the device make
UsersAndEvents == {"SMI_DEVICE_RW", "AL_EVENT_RSP"}

LEMMA QuietTypes == \A job \in QuietJobs : job.type \notin UsersAndEvents
  BY DEF QuietJobs, UsersAndEvents

\* Jobs are posted, and none of those.
Lengthens(m, n) ==
  /\ Len(m) <= Len(n)
  /\ \A i \in 1..Len(m) : n[i] = m[i]
  /\ \A i \in Len(m) + 1 .. Len(n) : n[i].type \notin UsersAndEvents
  /\ Whole(n, Len(m) + 1)

\* What a callback leaves alone that neither takes a request of a user, nor answers one,
\* nor collects events
Calm(p, q) ==
  /\ PortOK(q)
  /\ Lengthens(p.mbox, q.mbox)
  /\ q.user = p.user /\ q.od = p.od /\ q.told = p.told
  /\ q.al.ev = p.al.ev /\ q.ds.event = p.ds.event

LEMMA CalmPortOK == ASSUME NEW p, NEW q, Calm(p, q) PROVE PortOK(q)
  BY DEF Calm

LEMMA StillCalm == ASSUME NEW p, NEW q, PortOK(p), Still(p, q) PROVE Calm(p, q)
<1>1. p.mbox \in Seq(JobSet) /\ q.mbox \in Seq(JobSet)
  BY DEF Still, Unseen, PortOK
<1>2. \A i \in Len(p.mbox) + 1 .. Len(q.mbox) : q.mbox[i].type \notin UsersAndEvents
  BY QuietTypes DEF Still, Unseen, Grows
<1>3. Lengthens(p.mbox, q.mbox)
  BY <1>2 DEF Still, Unseen, Grows, Lengthens
<1> QED
  BY <1>3 DEF Still, Unseen, Calm

LEMMA CalmTwice ==
  ASSUME NEW p, NEW q, NEW r, PortOK(p), Calm(p, q), Calm(q, r)
  PROVE  Calm(p, r)
<1> DEFINE l == p.mbox
           m == q.mbox
           n == r.mbox
<1>1. l \in Seq(JobSet) /\ m \in Seq(JobSet) /\ n \in Seq(JobSet)
  BY DEF Calm, PortOK
<1>2. Lengthens(l, m) /\ Lengthens(m, n)
  BY DEF Calm
<1> HIDE DEF l, m, n
<1>3. /\ Len(l) \in Nat /\ Len(m) \in Nat /\ Len(n) \in Nat
      /\ Len(l) <= Len(m) /\ Len(m) <= Len(n)
  BY <1>1, <1>2 DEF Lengthens
<1>4. \A i \in 1..Len(l) : n[i] = l[i]
  BY <1>2, <1>3 DEF Lengthens
<1>5. \A i \in Len(l) + 1 .. Len(n) : n[i].type \notin UsersAndEvents
  BY <1>2, <1>3 DEF Lengthens
<1>6. Whole(n, Len(l) + 1)
  <2>1. Len(l) + 1 \in Nat \ {0} /\ Len(l) + 1 <= Len(m) + 1
    BY <1>3
  <2>2. Whole(m, Len(l) + 1) /\ Whole(n, Len(m) + 1) /\ \A i \in 1..Len(m) : n[i] = m[i]
    BY <1>2 DEF Lengthens
  <2> QED
    BY <1>1, <1>3, <2>1, <2>2, WholeTwice
<1>7. Lengthens(l, n)
  BY <1>3, <1>4, <1>5, <1>6 DEF Lengthens
<1> QED
  BY <1>7 DEF Calm, l, m, n

\* What a callback leaves alone that has nothing to do with configurations or data storage
\* either
Aside(p, q) == Calm(p, q) /\ q.cm = p.cm /\ q.ds = p.ds /\ Clear(p.mbox, q.mbox)

LEMMA AsidePortOK == ASSUME NEW p, NEW q, Aside(p, q) PROVE PortOK(q)
  BY DEF Aside, Calm

LEMMA BelowAside == ASSUME NEW p, NEW q, PortOK(p), Below(p, q) PROVE Aside(p, q)
  BY StillCalm DEF Below, Aside

LEMMA AsideTwice ==
  ASSUME NEW p, NEW q, NEW r, PortOK(p), Aside(p, q), Aside(q, r)
  PROVE  Aside(p, r)
<1>1. p.mbox \in Seq(JobSet) /\ q.mbox \in Seq(JobSet) /\ r.mbox \in Seq(JobSet)
  BY DEF Aside, Calm, PortOK
<1>2. Clear(p.mbox, r.mbox)
  BY <1>1, ClearTwice DEF Aside, Calm, Lengthens
<1> QED
  BY <1>2, CalmTwice DEF Aside

LEMMA AppendLengthens ==
  ASSUME NEW m \in Seq(JobSet), NEW job \in JobSet,
         job.type \notin UsersAndEvents \union {"DL_EVENT_IND"}
  PROVE  /\ Lengthens(m, Append(m, job))
         /\ job.type \notin StorageJobs => Apart(m, Append(m, job))
         /\ job.type \notin StorageJobs \union GateJobs => Clear(m, Append(m, job))
<1>1. /\ Append(m, job) \in Seq(JobSet)
      /\ Len(Append(m, job)) = Len(m) + 1
      /\ \A i \in 1..Len(m) : Append(m, job)[i] = m[i]
      /\ Append(m, job)[Len(m) + 1] = job
  OBVIOUS
<1>2. Len(m) \in Nat
  OBVIOUS
<1>3. Whole(Append(m, job), Len(m) + 1)
  BY <1>1, <1>2 DEF Whole
<1>4. Lengthens(m, Append(m, job))
  BY <1>1, <1>2, <1>3 DEF Lengthens
<1>5. job.type \notin StorageJobs => Apart(m, Append(m, job))
  BY <1>1, <1>2 DEF Apart
<1>6. job.type \notin StorageJobs \union GateJobs => Clear(m, Append(m, job))
  BY <1>1, <1>2 DEF Clear
<1> QED
  BY <1>4, <1>5, <1>6

LEMMA PostAside ==
  ASSUME NEW p, PortOK(p), NEW job \in JobSet,
         job.type \notin UsersAndEvents \union StorageJobs \union GateJobs
                         \union {"DL_EVENT_IND"}
  PROVE  Aside(p, Post(p, job))
<1>1. Lengthens(p.mbox, Append(p.mbox, job)) /\ Clear(p.mbox, Append(p.mbox, job))
  BY AppendLengthens DEF PortOK
<1> QED
  BY <1>1, Posted DEF Calm, Aside

\* A mailbox that stays as it is.
LEMMA LengthensNot ==
  ASSUME NEW p, PortOK(p) PROVE Lengthens(p.mbox, p.mbox) /\ Clear(p.mbox, p.mbox)
<1>1. p.mbox \in Seq(JobSet)
  BY DEF PortOK
<1>2. Grows(p.mbox, p.mbox) /\ Len(p.mbox) \in Nat
  BY <1>1, GrowsNot
<1> QED
  BY <1>2, QuietTypes, ClearNot DEF Grows, Lengthens

\* The state of the application layer is set.
LEMMA AlSet ==
  ASSUME NEW p, PortOK(p), NEW x, AlOK(x)
  PROVE  LET q == [p EXCEPT !.al = x] IN
         /\ PortOK(q) /\ q.mbox = p.mbox
         /\ q.user = p.user /\ q.od = p.od /\ q.told = p.told
         /\ q.al = x /\ q.ds = p.ds /\ q.cm = p.cm
<1> DEFINE q == [p EXCEPT !.al = x]
<1>1. DOMAIN p = PortFields /\ p.mbox \in Seq(JobSet)
  BY DEF PortOK
<1>2. /\ DOMAIN q = PortFields /\ q.al = x
      /\ \A f \in PortFields \ {"al"} : q[f] = p[f]
  BY <1>1 DEF PortFields
<1> HIDE DEF q
<1>3. /\ q.cm = p.cm /\ q.sm = p.sm /\ q.ds = p.ds /\ q.dl = p.dl
      /\ q.mbox = p.mbox /\ q.events = p.events /\ q.dev = p.dev /\ q.user = p.user
      /\ q.od = p.od /\ q.told = p.told /\ q.lost = p.lost /\ q.failed = p.failed
  BY <1>2 DEF PortFields
<1>4. PortOK(q)
  BY <1>2, <1>3 DEF PortOK
<1> QED
  BY <1>2, <1>3, <1>4 DEF q

LEMMA SetAl ==
  ASSUME NEW p, PortOK(p), NEW x, AlOK(x), x.ev = p.al.ev
  PROVE  Aside(p, [p EXCEPT !.al = x])
<1>1. Lengthens(p.mbox, p.mbox) /\ Clear(p.mbox, p.mbox)
  BY LengthensNot
<1> QED
  BY <1>1, AlSet DEF Calm, Aside

\* Who has asked for a service is told its outcome.
LEMMA ConfirmStep ==
  ASSUME NEW p, PortOK(p), NEW direction \in Directions, NEW ok \in BOOLEAN,
         NEW who \in {"SM", "DS", "USER", "NONE"}
  PROVE  Aside(p, Confirm(p, direction, who, ok))
<1>0. p.al.data \in Identities
  BY DEF PortOK, AlOK
<1>1. CASE who = "SM"
  <2> DEFINE job == [type |-> "AL_CNF", direction |-> direction, ok |-> ok,
                     from |-> p.al.data]
  <2>1. Confirm(p, direction, who, ok) = Post(p, job)
    BY <1>1 DEF Confirm
  <2>2. job \in QuietJobs /\ job.type \notin StorageJobs \union GateJobs \union {"DL_EVENT_IND"}
    BY <1>0 DEF QuietJobs, StorageJobs, GateJobs
  <2> HIDE DEF job
  <2> QED
    BY <2>1, <2>2, PostBelow, BelowAside
<1>2. CASE who = "DS"
  <2> DEFINE job == [type |-> IF direction = "READ" THEN "DS_READ_CNF" ELSE "DS_WRITE_CNF",
                     ok |-> ok]
  <2>1. Confirm(p, direction, who, ok) = Post(p, job)
    BY <1>2 DEF Confirm
  <2>2. job \in QuietJobs /\ job.type \notin StorageJobs \union GateJobs \union {"DL_EVENT_IND"}
    BY DEF QuietJobs, StorageJobs, GateJobs
  <2> HIDE DEF job
  <2> QED
    BY <2>1, <2>2, PostBelow, BelowAside
<1>3. CASE who = "USER"
  <2> DEFINE job == [type |-> "AL_USER_CNF"]
  <2>1. Confirm(p, direction, who, ok) = Post(p, job)
    BY <1>3 DEF Confirm
  <2>2. /\ job \in JobSet
        /\ job.type \notin UsersAndEvents \union StorageJobs \union GateJobs
                          \union {"DL_EVENT_IND"}
    BY DEF JobSet, UserJobs, UsersAndEvents, StorageJobs, GateJobs
  <2> HIDE DEF job
  <2> QED
    BY <2>1, <2>2, PostAside
<1>4. CASE who = "NONE"
  <2>1. Confirm(p, direction, who, ok) = [p EXCEPT !.failed = "null callback"]
    BY <1>4 DEF Confirm
  <2> QED
    BY <2>1, SetFailed, BelowAside
<1> QED
  BY <1>1, <1>2, <1>3, <1>4

\* What a request for a service of the application layer says
AlRequestOK(job) ==
  /\ job.direction \in Directions
  /\ job.index \in {"ISDU", "PARAM", "PARAM_0"}
  /\ job.who \in {"SM", "DS", "USER"}
  /\ job.index # "ISDU" /\ job.direction = "READ" => UsersReadParam

LEMMA BuildDLServiceStep ==
  ASSUME NEW p, PortOK(p), NEW job, AlRequestOK(job)
  PROVE  Aside(p, BuildDLService(p, job))
<1>0. DOMAIN p = PortFields /\ AlOK(p.al)
  BY DEF PortOK
<1> DEFINE state == IF job.index = "ISDU" THEN "AwaitIsdu" ELSE "AwaitParam"
           x == IF job.direction = "READ"
                THEN [p.al EXCEPT !.direction = "READ", !.read = job.who, !.state = state]
                ELSE [p.al EXCEPT !.direction = "WRITE", !.write = job.who, !.state = state]
           q == [p EXCEPT !.al = x]
           rw == IF job.direction = "READ" THEN "READPARAM" ELSE "WRITEPARAM"
<1>1. AlOK(x) /\ x.ev = p.al.ev
  BY <1>0 DEF AlOK, AlRequestOK, Directions
<1> DEFINE refused == job.index = "PARAM_0" /\ job.direction = "WRITE"
<1>2. ~refused => BuildDLService(p, job) =
        IF job.index = "ISDU" THEN DL_ISDUTransport_req(q) ELSE DL_ReadWriteParam_req(q, rw)
  <2>1. CASE job.direction = "READ"
    <3> DEFINE r == [p EXCEPT !.al.direction = "READ", !.al.read = job.who]
               y == [p.al EXCEPT !.direction = "READ", !.read = job.who]
    <3>1. r = [p EXCEPT !.al = y]
      BY <1>0 DEF PortFields
    <3>2. \A s : [[p EXCEPT !.al = y] EXCEPT !.al.state = s] = [p EXCEPT !.al = [y EXCEPT !.state = s]]
      BY <1>0 DEF PortFields
    <3>3. \A s : [y EXCEPT !.state = s]
                  = [p.al EXCEPT !.direction = "READ", !.read = job.who, !.state = s]
      BY <1>0 DEF AlOK
    <3>4. \A s : [r EXCEPT !.al.state = s]
                  = [p EXCEPT !.al = [p.al EXCEPT !.direction = "READ", !.read = job.who,
                                                  !.state = s]]
      <4> HIDE DEF r, y
      <4> QED
        BY <3>1, <3>2, <3>3
    <3>5. [r EXCEPT !.al.state = state] = q
      BY <2>1, <3>4
    <3>6. CASE job.index = "ISDU"
      <4>1. BuildDLService(p, job) = DL_ISDUTransport_req([r EXCEPT !.al.state = "AwaitIsdu"])
        BY <2>1, <3>6 DEF BuildDLService
      <4> HIDE DEF r, q
      <4> QED
        BY <3>5, <3>6, <4>1
    <3>7. CASE job.index # "ISDU" /\ ~refused
      <4>1. BuildDLService(p, job) = DL_ReadWriteParam_req([r EXCEPT !.al.state = "AwaitParam"], rw)
        BY <2>1, <3>7 DEF BuildDLService
      <4> HIDE DEF r, q
      <4> QED
        BY <3>5, <3>7, <4>1
    <3> QED
      BY <3>6, <3>7 DEF AlRequestOK
  <2>2. CASE job.direction = "WRITE"
    <3> DEFINE r == [p EXCEPT !.al.direction = "WRITE", !.al.write = job.who]
               y == [p.al EXCEPT !.direction = "WRITE", !.write = job.who]
    <3>1. r = [p EXCEPT !.al = y]
      BY <1>0 DEF PortFields
    <3>2. \A s : [[p EXCEPT !.al = y] EXCEPT !.al.state = s] = [p EXCEPT !.al = [y EXCEPT !.state = s]]
      BY <1>0 DEF PortFields
    <3>3. \A s : [y EXCEPT !.state = s]
                  = [p.al EXCEPT !.direction = "WRITE", !.write = job.who, !.state = s]
      BY <1>0 DEF AlOK
    <3>4. \A s : [r EXCEPT !.al.state = s]
                  = [p EXCEPT !.al = [p.al EXCEPT !.direction = "WRITE", !.write = job.who,
                                                  !.state = s]]
      <4> HIDE DEF r, y
      <4> QED
        BY <3>1, <3>2, <3>3
    <3>5. [r EXCEPT !.al.state = state] = q
      BY <2>2, <3>4
    <3>6. CASE job.index = "ISDU"
      <4>1. BuildDLService(p, job) = DL_ISDUTransport_req([r EXCEPT !.al.state = "AwaitIsdu"])
        BY <2>2, <3>6 DEF BuildDLService
      <4> HIDE DEF r, q
      <4> QED
        BY <3>5, <3>6, <4>1
    <3>7. CASE job.index # "ISDU" /\ ~refused
      <4>1. BuildDLService(p, job) = DL_ReadWriteParam_req([r EXCEPT !.al.state = "AwaitParam"], rw)
        BY <2>2, <3>7 DEF BuildDLService
      <4> HIDE DEF r, q
      <4> QED
        BY <3>5, <3>7, <4>1
    <3> QED
      BY <3>6, <3>7 DEF AlRequestOK
  <2> QED
    BY <2>1, <2>2 DEF AlRequestOK, Directions
<1> HIDE DEF x
<1>3. Aside(p, q) /\ PortOK(q)
  BY <1>1, SetAl, AsidePortOK
<1> HIDE DEF q
<1>4. job.index = "ISDU" \/ (rw = "READPARAM" => UsersReadParam)
  BY DEF AlRequestOK, Directions
<1>5. CASE job.index = "ISDU"
  BY <1>2, <1>3, <1>5, DL_ISDUTransport_reqStep, DlBelow, BelowAside, AsideTwice
<1>6. CASE job.index # "ISDU" /\ ~refused
  <2>1. DlStep(q, DL_ReadWriteParam_req(q, rw))
    BY <1>3, <1>4, <1>6, DL_ReadWriteParam_reqStep
  <2> QED
    BY <1>2, <1>3, <1>6, <2>1, DlBelow, BelowAside, AsideTwice
<1>7. CASE refused
  <2> DEFINE y == [p.al EXCEPT !.direction = "WRITE", !.write = job.who]
             r == [p EXCEPT !.al = y]
  <2>1. AlOK(y) /\ y.ev = p.al.ev
    BY <1>0 DEF AlOK, AlRequestOK, Directions
  <2>2. [p EXCEPT !.al.direction = "WRITE", !.al.write = job.who] = r
    BY <1>0 DEF PortFields
  <2>3. BuildDLService(p, job) = Confirm(r, "WRITE", job.who, FALSE)
    BY <1>7, <2>2 DEF BuildDLService
  <2> HIDE DEF y
  <2>4. Aside(p, r) /\ PortOK(r)
    BY <2>1, SetAl, AsidePortOK
  <2> HIDE DEF r
  <2>5. Aside(r, Confirm(r, "WRITE", job.who, FALSE))
    BY <2>4, ConfirmStep DEF AlRequestOK, Directions
  <2> QED
    BY <2>3, <2>4, <2>5, AsideTwice
<1> QED
  BY <1>5, <1>6, <1>7

LEMMA AlRequestStep ==
  ASSUME NEW p, PortOK(p), NEW job, AlRequestOK(job)
  PROVE  Aside(p, AlRequest(p, job))
<1>1. AlRequest(p, job) \in {BuildDLService(p, job), Confirm(p, job.direction, job.who, FALSE)}
  BY DEF AlRequest
<1>2. Aside(p, Confirm(p, job.direction, job.who, FALSE))
  BY ConfirmStep DEF AlRequestOK
<1> QED
  BY <1>1, <1>2, BuildDLServiceStep

\* The service under way is over, and its outcome is told.
LEMMA AlCnfStep ==
  ASSUME NEW p, PortOK(p), NEW direction \in Directions, NEW ok \in BOOLEAN
  PROVE  /\ Aside(p, AlParamCnf(p, direction, ok))
         /\ Aside(p, AlIsduCnf(p, ok))
<1>0. DOMAIN p = PortFields /\ AlOK(p.al)
  BY DEF PortOK
<1> DEFINE x == [p.al EXCEPT !.state = "Idle"]
           q == [p EXCEPT !.al = x]
<1>1. [p EXCEPT !.al.state = "Idle"] = q
  BY <1>0 DEF PortFields
<1>2. AlOK(x) /\ x.ev = p.al.ev
  BY <1>0 DEF AlOK
<1> HIDE DEF x
<1>3. Aside(p, q) /\ PortOK(q)
  BY <1>2, SetAl, AsidePortOK
<1> HIDE DEF q
<1>4. ASSUME NEW d \in Directions, NEW who \in {"SM", "DS", "USER", "NONE"}
      PROVE  Aside(p, Confirm(q, d, who, ok))
  BY <1>3, ConfirmStep, AsideTwice
<1>5. Aside(p, p)
  BY BelowNot, BelowAside
<1>6. /\ p.al.read \in {"SM", "DS", "USER", "NONE"}
      /\ p.al.write \in {"SM", "DS", "USER", "NONE"}
      /\ p.al.direction \in Directions
  BY <1>0 DEF AlOK
<1>7. AlParamCnf(p, direction, ok) \in
        {p, Confirm(q, direction, p.al.read, ok), Confirm(q, direction, p.al.write, ok)}
  BY <1>1 DEF AlParamCnf
<1>8. AlIsduCnf(p, ok) \in
        {p, Confirm(q, p.al.direction, p.al.read, ok), Confirm(q, p.al.direction, p.al.write, ok)}
  BY <1>1 DEF AlIsduCnf
<1>9. Aside(p, AlParamCnf(p, direction, ok))
  BY <1>4, <1>5, <1>6, <1>7
<1>10. Aside(p, AlIsduCnf(p, ok))
  BY <1>4, <1>5, <1>6, <1>8
<1> QED
  BY <1>9, <1>10

-----------------------------------------------------------------------------
(* Events of the device *)

\* The application is told something.
LEMMA ToldSet ==
  ASSUME NEW p, PortOK(p), NEW x
  PROVE  LET q == [p EXCEPT !.told = x] IN
         /\ PortOK(q) /\ q.told = x
         /\ q.mbox = p.mbox /\ q.user = p.user /\ q.od = p.od /\ q.al = p.al
         /\ q.cm = p.cm /\ q.ds = p.ds /\ q.failed = p.failed
<1> DEFINE q == [p EXCEPT !.told = x]
<1>1. DOMAIN p = PortFields /\ p.mbox \in Seq(JobSet)
  BY DEF PortOK
<1>2. /\ DOMAIN q = PortFields /\ q.told = x
      /\ \A f \in PortFields \ {"told"} : q[f] = p[f]
  BY <1>1 DEF PortFields
<1> HIDE DEF q
<1>3. /\ q.cm = p.cm /\ q.sm = p.sm /\ q.ds = p.ds /\ q.al = p.al
      /\ q.dl = p.dl /\ q.mbox = p.mbox /\ q.events = p.events /\ q.dev = p.dev
      /\ q.user = p.user /\ q.od = p.od /\ q.lost = p.lost /\ q.failed = p.failed
  BY <1>2 DEF PortFields
<1>4. PortOK(q)
  BY <1>2, <1>3 DEF PortOK
<1> QED
  BY <1>2, <1>3, <1>4 DEF q

EventOK(ev) ==
  /\ DOMAIN ev = {"state", "cnt", "set"}
  /\ ev.state \in StatesOf(EventTransitions)
  /\ ev.cnt \in 0..MaxEvents
  /\ ev.set \in [1..MaxEvents -> Kinds \union {"none"}]

\* The state of the events is set.
LEMMA EventSet ==
  ASSUME NEW p, PortOK(p), NEW ev, EventOK(ev)
  PROVE  LET q == [p EXCEPT !.al = [p.al EXCEPT !.ev = ev]] IN
         /\ PortOK(q) /\ q.mbox = p.mbox
         /\ q.user = p.user /\ q.od = p.od /\ q.told = p.told
         /\ q.al.ev = ev /\ q.ds = p.ds /\ q.cm = p.cm
<1> DEFINE x == [p.al EXCEPT !.ev = ev]
<1>1. AlOK(x) /\ x.ev = ev
  BY DEF PortOK, AlOK, EventOK
<1> HIDE DEF x
<1> DEFINE q == [p EXCEPT !.al = x]
<1>2. /\ PortOK(q) /\ q.mbox = p.mbox
      /\ q.user = p.user /\ q.od = p.od /\ q.told = p.told
      /\ q.al = x /\ q.ds = p.ds /\ q.cm = p.cm
  BY <1>1, AlSet
<1> QED
  BY <1>1, <1>2 DEF x

LEMMA EventStates ==
  StatesOf(EventTransitions) = {"Event_idle", "Read_Event_Set", "DU_Event_handling"}
<1>1. StatesOf(EventTransitions) \subseteq {"Event_idle", "Read_Event_Set", "DU_Event_handling"}
  BY DEF StatesOf, EventTransitions
<1>2. /\ <<"Event_idle", "dl_event_ind_more", "Read_Event_Set", "wait_read">> \in EventTransitions
      /\ <<"DU_Event_handling", "al_event_rsp", "Event_idle", "idle">> \in EventTransitions
  BY DEF EventTransitions
<1>3. /\ "Event_idle" \in StatesOf(EventTransitions)
      /\ "Read_Event_Set" \in StatesOf(EventTransitions)
      /\ "DU_Event_handling" \in StatesOf(EventTransitions)
  BY <1>2 DEF StatesOf
<1> QED
  BY <1>1, <1>3

\* One turn of iolink_al_event_event
LEMMA EventTurns ==
  ASSUME NEW p
  PROVE  /\ p.al.ev.state \in {"Event_idle", "Read_Event_Set"} =>
              /\ AlEventEvent(p, "dl_event_ind_more")
                    = [p EXCEPT !.al.ev.state = "Read_Event_Set"]
              /\ AlEventEvent(p, "dl_event_ind_done")
                    = AL_Event_ind([p EXCEPT !.al.ev.state = "DU_Event_handling"])
              /\ AlEventEvent(p, "al_event_rsp") = p
         /\ p.al.ev.state = "DU_Event_handling" =>
              /\ AlEventEvent(p, "dl_event_ind_more") = p
              /\ AlEventEvent(p, "dl_event_ind_done") = p
              /\ AlEventEvent(p, "al_event_rsp")
                    = [[p EXCEPT !.al.ev.state = "Event_idle"] EXCEPT !.al.ev.cnt = 0]
<1> DEFINE rows(s, e) == {row \in EventTransitions : row[1] = s /\ row[2] = e}
<1>1. ASSUME p.al.ev.state = "Event_idle"
      PROVE  AlEventEvent(p, "dl_event_ind_more")
               = [p EXCEPT !.al.ev.state = "Read_Event_Set"]
  <2>1. rows("Event_idle", "dl_event_ind_more")
          = {<<"Event_idle", "dl_event_ind_more", "Read_Event_Set", "wait_read">>}
    BY DEF EventTransitions
  <2>2. AlEventEvent(p, "dl_event_ind_more")
          = AlEventAct([p EXCEPT !.al.ev.state = "Read_Event_Set"], "wait_read")
    <3> DEFINE row == CHOOSE r \in rows("Event_idle", "dl_event_ind_more") : TRUE
    <3>1. row \in rows("Event_idle", "dl_event_ind_more")
      BY <2>1
    <3>2. row[3] = "Read_Event_Set" /\ row[4] = "wait_read"
      BY <2>1, <3>1
    <3>3. rows("Event_idle", "dl_event_ind_more") # {}
      BY <2>1
    <3>4. AlEventEvent(p, "dl_event_ind_more") = AlEventAct([p EXCEPT !.al.ev.state = row[3]], row[4])
      BY <1>1, <3>3 DEF AlEventEvent
    <3> HIDE DEF row
    <3> QED
      BY <3>2, <3>4
  <2> QED
    BY <2>2 DEF AlEventAct
<1>2. ASSUME p.al.ev.state = "Event_idle"
      PROVE  AlEventEvent(p, "dl_event_ind_done")
               = AL_Event_ind([p EXCEPT !.al.ev.state = "DU_Event_handling"])
  <2>1. rows("Event_idle", "dl_event_ind_done")
          = {<<"Event_idle", "dl_event_ind_done", "DU_Event_handling", "du_handle">>}
    BY DEF EventTransitions
  <2>2. AlEventEvent(p, "dl_event_ind_done")
          = AlEventAct([p EXCEPT !.al.ev.state = "DU_Event_handling"], "du_handle")
    <3> DEFINE row == CHOOSE r \in rows("Event_idle", "dl_event_ind_done") : TRUE
    <3>1. row \in rows("Event_idle", "dl_event_ind_done")
      BY <2>1
    <3>2. row[3] = "DU_Event_handling" /\ row[4] = "du_handle"
      BY <2>1, <3>1
    <3>3. rows("Event_idle", "dl_event_ind_done") # {}
      BY <2>1
    <3>4. AlEventEvent(p, "dl_event_ind_done") = AlEventAct([p EXCEPT !.al.ev.state = row[3]], row[4])
      BY <1>2, <3>3 DEF AlEventEvent
    <3> HIDE DEF row
    <3> QED
      BY <3>2, <3>4
  <2> QED
    BY <2>2 DEF AlEventAct
<1>3. ASSUME p.al.ev.state = "Event_idle"
      PROVE  AlEventEvent(p, "al_event_rsp") = p
  <2>1. rows("Event_idle", "al_event_rsp") = {}
    BY DEF EventTransitions
  <2> QED
    BY <1>3, <2>1 DEF AlEventEvent
<1>4. ASSUME p.al.ev.state = "Read_Event_Set"
      PROVE  AlEventEvent(p, "dl_event_ind_more")
               = [p EXCEPT !.al.ev.state = "Read_Event_Set"]
  <2>1. rows("Read_Event_Set", "dl_event_ind_more")
          = {<<"Read_Event_Set", "dl_event_ind_more", "Read_Event_Set", "wait_read">>}
    BY DEF EventTransitions
  <2>2. AlEventEvent(p, "dl_event_ind_more")
          = AlEventAct([p EXCEPT !.al.ev.state = "Read_Event_Set"], "wait_read")
    <3> DEFINE row == CHOOSE r \in rows("Read_Event_Set", "dl_event_ind_more") : TRUE
    <3>1. row \in rows("Read_Event_Set", "dl_event_ind_more")
      BY <2>1
    <3>2. row[3] = "Read_Event_Set" /\ row[4] = "wait_read"
      BY <2>1, <3>1
    <3>3. rows("Read_Event_Set", "dl_event_ind_more") # {}
      BY <2>1
    <3>4. AlEventEvent(p, "dl_event_ind_more") = AlEventAct([p EXCEPT !.al.ev.state = row[3]], row[4])
      BY <1>4, <3>3 DEF AlEventEvent
    <3> HIDE DEF row
    <3> QED
      BY <3>2, <3>4
  <2> QED
    BY <2>2 DEF AlEventAct
<1>5. ASSUME p.al.ev.state = "Read_Event_Set"
      PROVE  AlEventEvent(p, "dl_event_ind_done")
               = AL_Event_ind([p EXCEPT !.al.ev.state = "DU_Event_handling"])
  <2>1. rows("Read_Event_Set", "dl_event_ind_done")
          = {<<"Read_Event_Set", "dl_event_ind_done", "DU_Event_handling", "du_handle">>}
    BY DEF EventTransitions
  <2>2. AlEventEvent(p, "dl_event_ind_done")
          = AlEventAct([p EXCEPT !.al.ev.state = "DU_Event_handling"], "du_handle")
    <3> DEFINE row == CHOOSE r \in rows("Read_Event_Set", "dl_event_ind_done") : TRUE
    <3>1. row \in rows("Read_Event_Set", "dl_event_ind_done")
      BY <2>1
    <3>2. row[3] = "DU_Event_handling" /\ row[4] = "du_handle"
      BY <2>1, <3>1
    <3>3. rows("Read_Event_Set", "dl_event_ind_done") # {}
      BY <2>1
    <3>4. AlEventEvent(p, "dl_event_ind_done") = AlEventAct([p EXCEPT !.al.ev.state = row[3]], row[4])
      BY <1>5, <3>3 DEF AlEventEvent
    <3> HIDE DEF row
    <3> QED
      BY <3>2, <3>4
  <2> QED
    BY <2>2 DEF AlEventAct
<1>6. ASSUME p.al.ev.state = "Read_Event_Set"
      PROVE  AlEventEvent(p, "al_event_rsp") = p
  <2>1. rows("Read_Event_Set", "al_event_rsp") = {}
    BY DEF EventTransitions
  <2> QED
    BY <1>6, <2>1 DEF AlEventEvent
<1>7. ASSUME p.al.ev.state = "DU_Event_handling"
      PROVE  AlEventEvent(p, "dl_event_ind_more") = p
  <2>1. rows("DU_Event_handling", "dl_event_ind_more") = {}
    BY DEF EventTransitions
  <2> QED
    BY <1>7, <2>1 DEF AlEventEvent
<1>8. ASSUME p.al.ev.state = "DU_Event_handling"
      PROVE  AlEventEvent(p, "dl_event_ind_done") = p
  <2>1. rows("DU_Event_handling", "dl_event_ind_done") = {}
    BY DEF EventTransitions
  <2> QED
    BY <1>8, <2>1 DEF AlEventEvent
<1>9. ASSUME p.al.ev.state = "DU_Event_handling"
      PROVE  AlEventEvent(p, "al_event_rsp")
               = [[p EXCEPT !.al.ev.state = "Event_idle"] EXCEPT !.al.ev.cnt = 0]
  <2>1. rows("DU_Event_handling", "al_event_rsp")
          = {<<"DU_Event_handling", "al_event_rsp", "Event_idle", "idle">>}
    BY DEF EventTransitions
  <2>2. AlEventEvent(p, "al_event_rsp")
          = AlEventAct([p EXCEPT !.al.ev.state = "Event_idle"], "idle")
    <3> DEFINE row == CHOOSE r \in rows("DU_Event_handling", "al_event_rsp") : TRUE
    <3>1. row \in rows("DU_Event_handling", "al_event_rsp")
      BY <2>1
    <3>2. row[3] = "Event_idle" /\ row[4] = "idle"
      BY <2>1, <3>1
    <3>3. rows("DU_Event_handling", "al_event_rsp") # {}
      BY <2>1
    <3>4. AlEventEvent(p, "al_event_rsp") = AlEventAct([p EXCEPT !.al.ev.state = row[3]], row[4])
      BY <1>9, <3>3 DEF AlEventEvent
    <3> HIDE DEF row
    <3> QED
      BY <3>2, <3>4
  <2> QED
    BY <2>2 DEF AlEventAct
<1> QED
  BY <1>1, <1>2, <1>3, <1>4, <1>5, <1>6, <1>7, <1>8, <1>9

\* The set is told to the application, or data storage uploads the parameters.
LEMMA AL_Event_indStep ==
  ASSUME NEW p, PortOK(p)
  PROVE  LET q == AL_Event_ind(p)
             m == Append(p.mbox, [type |-> "AL_EVENT_RSP"])
         IN /\ PortOK(q) /\ q.user = p.user /\ q.od = p.od /\ q.al = p.al /\ q.ds = p.ds
            /\ q.cm = p.cm
            /\ \/ q.mbox = m /\ q.told = SubSeq(p.al.ev.set, 1, p.al.ev.cnt)
               \/ /\ q.mbox = Append(m, [type |-> "DS_UPLOAD"]) /\ q.told = p.told
                  /\ "upload" \in Range(p.al.ev.set)
<1> DEFINE r == AL_Event_rsp(p)
           u == DS_Upload(r)
           v == [r EXCEPT !.told = SubSeq(p.al.ev.set, 1, p.al.ev.cnt)]
<1>1. AL_Event_ind(p) = IF "upload" \in Range(p.al.ev.set) THEN u ELSE v
  BY DEF AL_Event_ind
<1>2. [type |-> "AL_EVENT_RSP"] \in JobSet
  BY DEF JobSet, UserJobs
<1>3. [type |-> "DS_UPLOAD"] \in JobSet
  BY DEF JobSet, QuietJobs
<1>4. /\ PortOK(r) /\ r.mbox = Append(p.mbox, [type |-> "AL_EVENT_RSP"])
      /\ r.user = p.user /\ r.od = p.od /\ r.told = p.told
      /\ r.al = p.al /\ r.ds = p.ds /\ r.cm = p.cm
  BY <1>2, Posted DEF AL_Event_rsp
<1> HIDE DEF r
<1>5. /\ PortOK(u) /\ u.mbox = Append(r.mbox, [type |-> "DS_UPLOAD"])
      /\ u.user = r.user /\ u.od = r.od /\ u.told = r.told
      /\ u.al = r.al /\ u.ds = r.ds /\ u.cm = r.cm
  BY <1>3, <1>4, Posted DEF DS_Upload
<1>6. /\ PortOK(v) /\ v.told = SubSeq(p.al.ev.set, 1, p.al.ev.cnt)
      /\ v.mbox = r.mbox /\ v.user = r.user /\ v.od = r.od /\ v.al = r.al /\ v.ds = r.ds
      /\ v.cm = r.cm
  <2> DEFINE x == SubSeq(p.al.ev.set, 1, p.al.ev.cnt)
  <2> HIDE DEF x
  <2>1. /\ PortOK([r EXCEPT !.told = x]) /\ [r EXCEPT !.told = x].told = x
        /\ [r EXCEPT !.told = x].mbox = r.mbox /\ [r EXCEPT !.told = x].user = r.user
        /\ [r EXCEPT !.told = x].od = r.od /\ [r EXCEPT !.told = x].al = r.al
        /\ [r EXCEPT !.told = x].ds = r.ds /\ [r EXCEPT !.told = x].cm = r.cm
    BY <1>4, ToldSet, ZenonT(60)
  <2> QED
    BY <2>1 DEF x
<1> HIDE DEF u, v
<1>7. CASE "upload" \in Range(p.al.ev.set)
  BY <1>1, <1>4, <1>5, <1>7
<1>8. CASE "upload" \notin Range(p.al.ev.set)
  BY <1>1, <1>4, <1>6, <1>8
<1> QED
  BY <1>7, <1>8

\* What al_dl_event_ind_cb makes of the events collected
Collected(p, job) ==
  [p.al.ev EXCEPT !.cnt = p.al.ev.cnt + 1,
                  !.set = [p.al.ev.set EXCEPT ![p.al.ev.cnt + 1] = job.event]]

LEMMA DlEventIndStep ==
  ASSUME NEW p, PortOK(p), NEW job, job.event \in Kinds, job.left \in Nat
  PROVE  LET q == DlEventInd(p, job)
             c == Collected(p, job)
             m == Append(p.mbox, [type |-> "AL_EVENT_RSP"])
         IN /\ PortOK(q) /\ q.user = p.user /\ q.od = p.od /\ q.ds = p.ds /\ q.cm = p.cm
            /\ \/ /\ q.failed # "no" /\ q.told = p.told /\ q.mbox = p.mbox
                  /\ q.al.ev = p.al.ev
               \/ /\ p.al.ev.cnt < MaxEvents
                  /\ q.al.ev.cnt = c.cnt /\ q.al.ev.set = c.set
                  /\ \/ /\ p.al.ev.state = "DU_Event_handling"
                        /\ q.al.ev.state = p.al.ev.state /\ q.mbox = p.mbox /\ q.told = p.told
                     \/ /\ p.al.ev.state # "DU_Event_handling" /\ job.left > 0
                        /\ q.al.ev.state = "Read_Event_Set"
                        /\ q.mbox = p.mbox /\ q.told = p.told
                     \/ /\ p.al.ev.state # "DU_Event_handling" /\ job.left = 0
                        /\ q.al.ev.state = "DU_Event_handling"
                        /\ \/ q.mbox = m /\ q.told = SubSeq(c.set, 1, c.cnt)
                           \/ /\ q.mbox = Append(m, [type |-> "DS_UPLOAD"]) /\ q.told = p.told
                              /\ "upload" \in Range(c.set)
<1> DEFINE Q == DlEventInd(p, job)
           C == Collected(p, job)
           M == Append(p.mbox, [type |-> "AL_EVENT_RSP"])
<1> SUFFICES
    /\ PortOK(Q) /\ Q.user = p.user /\ Q.od = p.od /\ Q.ds = p.ds /\ Q.cm = p.cm
    /\ \/ /\ Q.failed # "no" /\ Q.told = p.told /\ Q.mbox = p.mbox
          /\ Q.al.ev = p.al.ev
       \/ /\ p.al.ev.cnt < MaxEvents
          /\ Q.al.ev.cnt = C.cnt /\ Q.al.ev.set = C.set
          /\ \/ /\ p.al.ev.state = "DU_Event_handling"
                /\ Q.al.ev.state = p.al.ev.state /\ Q.mbox = p.mbox /\ Q.told = p.told
             \/ /\ p.al.ev.state # "DU_Event_handling" /\ job.left > 0
                /\ Q.al.ev.state = "Read_Event_Set"
                /\ Q.mbox = p.mbox /\ Q.told = p.told
             \/ /\ p.al.ev.state # "DU_Event_handling" /\ job.left = 0
                /\ Q.al.ev.state = "DU_Event_handling"
                /\ \/ Q.mbox = M /\ Q.told = SubSeq(C.set, 1, C.cnt)
                   \/ /\ Q.mbox = Append(M, [type |-> "DS_UPLOAD"]) /\ Q.told = p.told
                      /\ "upload" \in Range(C.set)
  OBVIOUS
<1> HIDE DEF Q, C, M
<1>0. DOMAIN p = PortFields /\ AlOK(p.al) /\ EventOK(p.al.ev) /\ MaxEvents \in Nat
  BY DEF PortOK, AlOK, EventOK, MaxEvents
<1>1. CASE p.al.ev.cnt >= MaxEvents
  <2> DEFINE q == [p EXCEPT !.failed = "assertion"]
  <2>1. Q = q
    BY <1>1 DEF Q, DlEventInd
  <2>2. Below(p, q) /\ q.ds = p.ds /\ q.cm = p.cm /\ q.mbox = p.mbox /\ q.failed = "assertion"
    BY <1>0, SetFailed DEF PortFields
  <2> HIDE DEF q
  <2> QED
    BY <2>1, <2>2 DEF Below, Still, Unseen
<1>2. CASE ~(p.al.ev.cnt >= MaxEvents)
  <2> DEFINE q == [p EXCEPT !.al = [p.al EXCEPT !.ev = C]]
             e == IF job.left > 0 THEN "dl_event_ind_more" ELSE "dl_event_ind_done"
  <2>1. EventOK(C) /\ C.state = p.al.ev.state
    <3>1. p.al.ev.cnt + 1 \in 1..MaxEvents
      BY <1>0, <1>2 DEF EventOK
    <3> QED
      BY <1>0, <3>1 DEF EventOK, C, Collected
  <2>2. [p EXCEPT !.al.ev.cnt = @ + 1, !.al.ev.set[p.al.ev.cnt + 1] = job.event] = q
    BY <1>0, ZenonT(60) DEF PortFields, AlOK, C, Collected, EventOK
  <2>3. Q = AlEventEvent(q, e)
    BY <1>2, <2>2 DEF Q, DlEventInd
  <2>4. /\ PortOK(q) /\ q.mbox = p.mbox
        /\ q.user = p.user /\ q.od = p.od /\ q.told = p.told
        /\ q.al.ev = C /\ q.ds = p.ds /\ q.cm = p.cm
    BY <2>1, EventSet
  <2> HIDE DEF q
  <2>5. ASSUME NEW state \in StatesOf(EventTransitions)
        PROVE  LET r == [q EXCEPT !.al.ev.state = state] IN
               /\ PortOK(r) /\ r.mbox = p.mbox
               /\ r.user = p.user /\ r.od = p.od /\ r.told = p.told
               /\ r.al.ev.state = state /\ r.al.ev.cnt = C.cnt /\ r.al.ev.set = C.set
               /\ r.ds = p.ds /\ r.cm = p.cm
    <3> DEFINE d == [q.al.ev EXCEPT !.state = state]
    <3>1. EventOK(d) /\ d.state = state /\ d.cnt = C.cnt /\ d.set = C.set
      BY <2>1, <2>4 DEF EventOK
    <3>2. [q EXCEPT !.al.ev.state = state] = [q EXCEPT !.al = [q.al EXCEPT !.ev = d]]
      <4>1. DOMAIN q = PortFields /\ AlOK(q.al)
        BY <2>4 DEF PortOK
      <4> QED
        BY <4>1 DEF PortFields, AlOK
    <3> HIDE DEF d
    <3> DEFINE r == [q EXCEPT !.al = [q.al EXCEPT !.ev = d]]
    <3>3. /\ PortOK(r) /\ r.mbox = q.mbox
          /\ r.user = q.user /\ r.od = q.od /\ r.told = q.told
          /\ r.al.ev = d /\ r.ds = q.ds /\ r.cm = q.cm
      BY <2>4, <3>1, EventSet
    <3> HIDE DEF r
    <3>4. [q EXCEPT !.al.ev.state = state] = r
      BY <3>2 DEF r
    <3> QED
      BY <2>4, <3>1, <3>3, <3>4
  <2>6. p.al.ev.cnt < MaxEvents
    BY <1>0, <1>2 DEF EventOK
  <2>7. p.al.ev.state \in {"Event_idle", "Read_Event_Set", "DU_Event_handling"}
    BY <1>0, EventStates DEF EventOK
  <2>8. CASE p.al.ev.state = "DU_Event_handling"
    <3>1. AlEventEvent(q, "dl_event_ind_more") = q /\ AlEventEvent(q, "dl_event_ind_done") = q
      BY <2>1, <2>4, <2>8, EventTurns
    <3>2. Q = q
      BY <2>3, <3>1
    <3> QED
      BY <2>1, <2>4, <2>6, <2>8, <3>2
  <2>9. CASE p.al.ev.state # "DU_Event_handling" /\ job.left > 0
    <3> DEFINE r == [q EXCEPT !.al.ev.state = "Read_Event_Set"]
    <3>1. Q = r
      BY <2>1, <2>3, <2>4, <2>7, <2>9, EventTurns
    <3>2. "Read_Event_Set" \in StatesOf(EventTransitions)
      BY EventStates
    <3>3. /\ PortOK(r) /\ r.mbox = p.mbox
          /\ r.user = p.user /\ r.od = p.od /\ r.told = p.told
          /\ r.al.ev.state = "Read_Event_Set" /\ r.al.ev.cnt = C.cnt /\ r.al.ev.set = C.set
          /\ r.ds = p.ds /\ r.cm = p.cm
      BY <2>5, <3>2
    <3> HIDE DEF r
    <3> QED
      BY <2>6, <2>9, <3>1, <3>3
  <2>10. CASE p.al.ev.state # "DU_Event_handling" /\ ~(job.left > 0)
    <3> DEFINE r == [q EXCEPT !.al.ev.state = "DU_Event_handling"]
               s == AL_Event_ind(r)
    <3>0. job.left = 0
      BY <2>10
    <3>1. Q = s
      BY <2>1, <2>3, <2>4, <2>7, <2>10, EventTurns
    <3>2. "DU_Event_handling" \in StatesOf(EventTransitions)
      BY EventStates
    <3>3. /\ PortOK(r) /\ r.mbox = p.mbox
          /\ r.user = p.user /\ r.od = p.od /\ r.told = p.told
          /\ r.al.ev.state = "DU_Event_handling" /\ r.al.ev.cnt = C.cnt /\ r.al.ev.set = C.set
          /\ r.ds = p.ds /\ r.cm = p.cm
      BY <2>5, <3>2
    <3> HIDE DEF r
    <3>4. /\ PortOK(s) /\ s.user = p.user /\ s.od = p.od /\ s.al = r.al /\ s.ds = p.ds
          /\ s.cm = p.cm
          /\ \/ s.mbox = M /\ s.told = SubSeq(C.set, 1, C.cnt)
             \/ /\ s.mbox = Append(M, [type |-> "DS_UPLOAD"]) /\ s.told = p.told
                /\ "upload" \in Range(C.set)
      BY <3>3, AL_Event_indStep DEF M
    <3> HIDE DEF s
    <3> QED
      BY <2>6, <2>10, <3>0, <3>1, <3>3, <3>4
  <2> QED
    BY <2>8, <2>9, <2>10
<1> QED
  BY <1>1, <1>2

LEMMA AlEventRspStep ==
  ASSUME NEW p, PortOK(p), NEW job
  PROVE  LET q == AlEventRsp(p, job) IN
         /\ PortOK(q) /\ q.user = p.user /\ q.od = p.od /\ q.ds = p.ds /\ q.cm = p.cm
         /\ q.mbox = p.mbox /\ q.told = p.told /\ q.al.ev.set = p.al.ev.set
         /\ p.al.ev.state = "DU_Event_handling" =>
              q.al.ev.state = "Event_idle" /\ q.al.ev.cnt = 0
<1>0. DOMAIN p = PortFields /\ AlOK(p.al) /\ EventOK(p.al.ev) /\ MaxEvents \in Nat
  BY DEF PortOK, AlOK, EventOK, MaxEvents
<1>1. CASE p.al.ev.state # "DU_Event_handling"
  <2>1. p.al.ev.state \in {"Event_idle", "Read_Event_Set"}
    BY <1>0, <1>1, EventStates DEF EventOK
  <2>2. AlEventRsp(p, job) = p
    BY <2>1, EventTurns DEF AlEventRsp
  <2> QED
    BY <1>1, <2>2
<1>2. CASE p.al.ev.state = "DU_Event_handling"
  <2> DEFINE d == [p.al.ev EXCEPT !.state = "Event_idle", !.cnt = 0]
             q == [p EXCEPT !.al = [p.al EXCEPT !.ev = d]]
  <2>1. AlEventRsp(p, job) = [[p EXCEPT !.al.ev.state = "Event_idle"] EXCEPT !.al.ev.cnt = 0]
    BY <1>2, EventTurns DEF AlEventRsp
  <2>2. [[p EXCEPT !.al.ev.state = "Event_idle"] EXCEPT !.al.ev.cnt = 0] = q
    BY <1>0 DEF PortFields, AlOK, EventOK
  <2>3. EventOK(d) /\ d.state = "Event_idle" /\ d.cnt = 0 /\ d.set = p.al.ev.set
    BY <1>0, EventStates DEF EventOK
  <2> HIDE DEF d
  <2>4. /\ PortOK(q) /\ q.mbox = p.mbox
        /\ q.user = p.user /\ q.od = p.od /\ q.told = p.told
        /\ q.al.ev = d /\ q.ds = p.ds /\ q.cm = p.cm
    BY <2>3, EventSet
  <2> HIDE DEF q
  <2> QED
    BY <1>2, <2>1, <2>2, <2>3, <2>4
<1> QED
  BY <1>1, <1>2

-----------------------------------------------------------------------------
(* On-request data exchange *)

\* The state of the exchange is set.
LEMMA OdSet ==
  ASSUME NEW p, PortOK(p), NEW x, x \in StatesOf(OdTransitions)
  PROVE  LET q == [p EXCEPT !.od = x] IN
         /\ PortOK(q) /\ q.od = x
         /\ q.mbox = p.mbox /\ q.user = p.user /\ q.told = p.told /\ q.al = p.al /\ q.ds = p.ds
         /\ q.cm = p.cm
<1> DEFINE q == [p EXCEPT !.od = x]
<1>1. DOMAIN p = PortFields /\ p.mbox \in Seq(JobSet)
  BY DEF PortOK
<1>2. /\ DOMAIN q = PortFields /\ q.od = x
      /\ \A f \in PortFields \ {"od"} : q[f] = p[f]
  BY <1>1 DEF PortFields
<1> HIDE DEF q
<1>3. /\ q.cm = p.cm /\ q.sm = p.sm /\ q.ds = p.ds /\ q.al = p.al
      /\ q.dl = p.dl /\ q.mbox = p.mbox /\ q.events = p.events /\ q.dev = p.dev
      /\ q.user = p.user /\ q.told = p.told /\ q.lost = p.lost /\ q.failed = p.failed
  BY <1>2 DEF PortFields
<1>4. PortOK(q)
  BY <1>2, <1>3 DEF PortOK
<1> QED
  BY <1>2, <1>3, <1>4 DEF q

\* The number of users who wait is set.
LEMMA UserSet ==
  ASSUME NEW p, PortOK(p), NEW x
  PROVE  LET q == [p EXCEPT !.user = x] IN
         /\ PortOK(q) /\ q.user = x
         /\ q.mbox = p.mbox /\ q.od = p.od /\ q.told = p.told /\ q.al = p.al /\ q.ds = p.ds
         /\ q.cm = p.cm
<1> DEFINE q == [p EXCEPT !.user = x]
<1>1. DOMAIN p = PortFields /\ p.mbox \in Seq(JobSet)
  BY DEF PortOK
<1>2. /\ DOMAIN q = PortFields /\ q.user = x
      /\ \A f \in PortFields \ {"user"} : q[f] = p[f]
  BY <1>1 DEF PortFields
<1> HIDE DEF q
<1>3. /\ q.cm = p.cm /\ q.sm = p.sm /\ q.ds = p.ds /\ q.al = p.al
      /\ q.dl = p.dl /\ q.mbox = p.mbox /\ q.events = p.events /\ q.dev = p.dev
      /\ q.od = p.od /\ q.told = p.told /\ q.lost = p.lost /\ q.failed = p.failed
  BY <1>2 DEF PortFields
<1>4. PortOK(q)
  BY <1>2, <1>3 DEF PortOK
<1> QED
  BY <1>2, <1>3, <1>4 DEF q

LEMMA OdStates == StatesOf(OdTransitions) = {"Inactive", "ODactive", "ODblocked"}
<1>1. StatesOf(OdTransitions) \subseteq {"Inactive", "ODactive", "ODblocked"}
  BY DEF StatesOf, OdTransitions
<1>2. /\ <<"Inactive", "OD_START", "ODactive", "none">> \in OdTransitions
      /\ <<"ODactive", "OD_BLOCK", "ODblocked", "none">> \in OdTransitions
  BY DEF OdTransitions
<1>3. /\ "Inactive" \in StatesOf(OdTransitions)
      /\ "ODactive" \in StatesOf(OdTransitions)
      /\ "ODblocked" \in StatesOf(OdTransitions)
  BY <1>2 DEF StatesOf
<1> QED
  BY <1>1, <1>3

\* One turn of iolink_ode_event, by the rows of its table
LEMMA OdTurns ==
  ASSUME NEW p, NEW job
  PROVE  /\ p.od = "Inactive" =>
              /\ OdTurn(p, "OD_START", job) = OdAct([p EXCEPT !.od = "ODactive"], "none", job)
              /\ OdTurn(p, "SMI_DEV_RW_1", job) = OdAct([p EXCEPT !.od = "Inactive"], "od_err", job)
              /\ OdTurn(p, "OD_STOP", job) = OdAct([p EXCEPT !.od = "Inactive"], "none", job)
              /\ OdTurn(p, "OD_UNBLOCK", job) = p
         /\ p.od = "ODactive" =>
              /\ OdTurn(p, "SMI_DEV_RW_4", job) = OdAct([p EXCEPT !.od = "ODactive"], "smi_rw", job)
              /\ OdTurn(p, "OD_BLOCK", job) = OdAct([p EXCEPT !.od = "ODblocked"], "none", job)
              /\ OdTurn(p, "OD_STOP", job) = OdAct([p EXCEPT !.od = "Inactive"], "none", job)
              /\ OdTurn(p, "OD_START", job) = p
              /\ OdTurn(p, "OD_UNBLOCK", job) = p
         /\ p.od = "ODblocked" =>
              /\ OdTurn(p, "OD_UNBLOCK", job) = OdAct([p EXCEPT !.od = "ODactive"], "smi_done", job)
              /\ OdTurn(p, "SMI_DEV_RW_6", job) = OdAct([p EXCEPT !.od = "ODblocked"], "od_err", job)
              /\ OdTurn(p, "OD_STOP", job) = OdAct([p EXCEPT !.od = "Inactive"], "none", job)
              /\ OdTurn(p, "OD_START", job) = p
<1> DEFINE rows(s, e) == {row \in OdTransitions : row[1] = s /\ row[2] = e}
<1>1. ASSUME p.od = "Inactive"
      PROVE  OdTurn(p, "OD_START", job) = OdAct([p EXCEPT !.od = "ODactive"], "none", job)
  <2> DEFINE row == CHOOSE r \in rows("Inactive", "OD_START") : TRUE
  <2>1. rows("Inactive", "OD_START") = {<<"Inactive", "OD_START", "ODactive", "none">>}
    BY DEF OdTransitions
  <2>2. row \in rows("Inactive", "OD_START") /\ rows("Inactive", "OD_START") # {}
    BY <2>1
  <2>3. row[3] = "ODactive" /\ row[4] = "none"
    BY <2>1, <2>2
  <2>4. OdTurn(p, "OD_START", job) = OdAct([p EXCEPT !.od = row[3]], row[4], job)
    BY <1>1, <2>2 DEF OdTurn
  <2> HIDE DEF row
  <2> QED
    BY <2>3, <2>4
<1>2. ASSUME p.od = "Inactive"
      PROVE  OdTurn(p, "SMI_DEV_RW_1", job) = OdAct([p EXCEPT !.od = "Inactive"], "od_err", job)
  <2> DEFINE row == CHOOSE r \in rows("Inactive", "SMI_DEV_RW_1") : TRUE
  <2>1. rows("Inactive", "SMI_DEV_RW_1") = {<<"Inactive", "SMI_DEV_RW_1", "Inactive", "od_err">>}
    BY DEF OdTransitions
  <2>2. row \in rows("Inactive", "SMI_DEV_RW_1") /\ rows("Inactive", "SMI_DEV_RW_1") # {}
    BY <2>1
  <2>3. row[3] = "Inactive" /\ row[4] = "od_err"
    BY <2>1, <2>2
  <2>4. OdTurn(p, "SMI_DEV_RW_1", job) = OdAct([p EXCEPT !.od = row[3]], row[4], job)
    BY <1>2, <2>2 DEF OdTurn
  <2> HIDE DEF row
  <2> QED
    BY <2>3, <2>4
<1>3. ASSUME p.od = "Inactive"
      PROVE  OdTurn(p, "OD_STOP", job) = OdAct([p EXCEPT !.od = "Inactive"], "none", job)
  <2> DEFINE row == CHOOSE r \in rows("Inactive", "OD_STOP") : TRUE
  <2>1. rows("Inactive", "OD_STOP") = {<<"Inactive", "OD_STOP", "Inactive", "none">>}
    BY DEF OdTransitions
  <2>2. row \in rows("Inactive", "OD_STOP") /\ rows("Inactive", "OD_STOP") # {}
    BY <2>1
  <2>3. row[3] = "Inactive" /\ row[4] = "none"
    BY <2>1, <2>2
  <2>4. OdTurn(p, "OD_STOP", job) = OdAct([p EXCEPT !.od = row[3]], row[4], job)
    BY <1>3, <2>2 DEF OdTurn
  <2> HIDE DEF row
  <2> QED
    BY <2>3, <2>4
<1>4. ASSUME p.od = "ODactive"
      PROVE  OdTurn(p, "SMI_DEV_RW_4", job) = OdAct([p EXCEPT !.od = "ODactive"], "smi_rw", job)
  <2> DEFINE row == CHOOSE r \in rows("ODactive", "SMI_DEV_RW_4") : TRUE
  <2>1. rows("ODactive", "SMI_DEV_RW_4") = {<<"ODactive", "SMI_DEV_RW_4", "ODactive", "smi_rw">>}
    BY DEF OdTransitions
  <2>2. row \in rows("ODactive", "SMI_DEV_RW_4") /\ rows("ODactive", "SMI_DEV_RW_4") # {}
    BY <2>1
  <2>3. row[3] = "ODactive" /\ row[4] = "smi_rw"
    BY <2>1, <2>2
  <2>4. OdTurn(p, "SMI_DEV_RW_4", job) = OdAct([p EXCEPT !.od = row[3]], row[4], job)
    BY <1>4, <2>2 DEF OdTurn
  <2> HIDE DEF row
  <2> QED
    BY <2>3, <2>4
<1>5. ASSUME p.od = "ODactive"
      PROVE  OdTurn(p, "OD_BLOCK", job) = OdAct([p EXCEPT !.od = "ODblocked"], "none", job)
  <2> DEFINE row == CHOOSE r \in rows("ODactive", "OD_BLOCK") : TRUE
  <2>1. rows("ODactive", "OD_BLOCK") = {<<"ODactive", "OD_BLOCK", "ODblocked", "none">>}
    BY DEF OdTransitions
  <2>2. row \in rows("ODactive", "OD_BLOCK") /\ rows("ODactive", "OD_BLOCK") # {}
    BY <2>1
  <2>3. row[3] = "ODblocked" /\ row[4] = "none"
    BY <2>1, <2>2
  <2>4. OdTurn(p, "OD_BLOCK", job) = OdAct([p EXCEPT !.od = row[3]], row[4], job)
    BY <1>5, <2>2 DEF OdTurn
  <2> HIDE DEF row
  <2> QED
    BY <2>3, <2>4
<1>6. ASSUME p.od = "ODactive"
      PROVE  OdTurn(p, "OD_STOP", job) = OdAct([p EXCEPT !.od = "Inactive"], "none", job)
  <2> DEFINE row == CHOOSE r \in rows("ODactive", "OD_STOP") : TRUE
  <2>1. rows("ODactive", "OD_STOP") = {<<"ODactive", "OD_STOP", "Inactive", "none">>}
    BY DEF OdTransitions
  <2>2. row \in rows("ODactive", "OD_STOP") /\ rows("ODactive", "OD_STOP") # {}
    BY <2>1
  <2>3. row[3] = "Inactive" /\ row[4] = "none"
    BY <2>1, <2>2
  <2>4. OdTurn(p, "OD_STOP", job) = OdAct([p EXCEPT !.od = row[3]], row[4], job)
    BY <1>6, <2>2 DEF OdTurn
  <2> HIDE DEF row
  <2> QED
    BY <2>3, <2>4
<1>7. ASSUME p.od = "ODblocked"
      PROVE  OdTurn(p, "OD_UNBLOCK", job) = OdAct([p EXCEPT !.od = "ODactive"], "smi_done", job)
  <2> DEFINE row == CHOOSE r \in rows("ODblocked", "OD_UNBLOCK") : TRUE
  <2>1. rows("ODblocked", "OD_UNBLOCK") = {<<"ODblocked", "OD_UNBLOCK", "ODactive", "smi_done">>}
    BY DEF OdTransitions
  <2>2. row \in rows("ODblocked", "OD_UNBLOCK") /\ rows("ODblocked", "OD_UNBLOCK") # {}
    BY <2>1
  <2>3. row[3] = "ODactive" /\ row[4] = "smi_done"
    BY <2>1, <2>2
  <2>4. OdTurn(p, "OD_UNBLOCK", job) = OdAct([p EXCEPT !.od = row[3]], row[4], job)
    BY <1>7, <2>2 DEF OdTurn
  <2> HIDE DEF row
  <2> QED
    BY <2>3, <2>4
<1>8. ASSUME p.od = "ODblocked"
      PROVE  OdTurn(p, "SMI_DEV_RW_6", job) = OdAct([p EXCEPT !.od = "ODblocked"], "od_err", job)
  <2> DEFINE row == CHOOSE r \in rows("ODblocked", "SMI_DEV_RW_6") : TRUE
  <2>1. rows("ODblocked", "SMI_DEV_RW_6") = {<<"ODblocked", "SMI_DEV_RW_6", "ODblocked", "od_err">>}
    BY DEF OdTransitions
  <2>2. row \in rows("ODblocked", "SMI_DEV_RW_6") /\ rows("ODblocked", "SMI_DEV_RW_6") # {}
    BY <2>1
  <2>3. row[3] = "ODblocked" /\ row[4] = "od_err"
    BY <2>1, <2>2
  <2>4. OdTurn(p, "SMI_DEV_RW_6", job) = OdAct([p EXCEPT !.od = row[3]], row[4], job)
    BY <1>8, <2>2 DEF OdTurn
  <2> HIDE DEF row
  <2> QED
    BY <2>3, <2>4
<1>9. ASSUME p.od = "ODblocked"
      PROVE  OdTurn(p, "OD_STOP", job) = OdAct([p EXCEPT !.od = "Inactive"], "none", job)
  <2> DEFINE row == CHOOSE r \in rows("ODblocked", "OD_STOP") : TRUE
  <2>1. rows("ODblocked", "OD_STOP") = {<<"ODblocked", "OD_STOP", "Inactive", "none">>}
    BY DEF OdTransitions
  <2>2. row \in rows("ODblocked", "OD_STOP") /\ rows("ODblocked", "OD_STOP") # {}
    BY <2>1
  <2>3. row[3] = "Inactive" /\ row[4] = "none"
    BY <2>1, <2>2
  <2>4. OdTurn(p, "OD_STOP", job) = OdAct([p EXCEPT !.od = row[3]], row[4], job)
    BY <1>9, <2>2 DEF OdTurn
  <2> HIDE DEF row
  <2> QED
    BY <2>3, <2>4
<1>10. ASSUME p.od = "ODactive"
      PROVE  OdTurn(p, "OD_START", job) = p
  <2>1. rows("ODactive", "OD_START") = {}
    BY DEF OdTransitions
  <2> QED
    BY <1>10, <2>1 DEF OdTurn
<1>11. ASSUME p.od = "ODblocked"
      PROVE  OdTurn(p, "OD_START", job) = p
  <2>1. rows("ODblocked", "OD_START") = {}
    BY DEF OdTransitions
  <2> QED
    BY <1>11, <2>1 DEF OdTurn
<1>12. ASSUME p.od = "Inactive"
      PROVE  OdTurn(p, "OD_UNBLOCK", job) = p
  <2>1. rows("Inactive", "OD_UNBLOCK") = {}
    BY DEF OdTransitions
  <2> QED
    BY <1>12, <2>1 DEF OdTurn
<1>13. ASSUME p.od = "ODactive"
      PROVE  OdTurn(p, "OD_UNBLOCK", job) = p
  <2>1. rows("ODactive", "OD_UNBLOCK") = {}
    BY DEF OdTransitions
  <2> QED
    BY <1>13, <2>1 DEF OdTurn
<1> QED
  BY <1>1, <1>2, <1>3, <1>4, <1>5, <1>6, <1>7, <1>8, <1>9, <1>10, <1>11, <1>12, <1>13

\* A step of the exchange: it leaves events, configurations and data storage
\* alone.
OdStep(p, q) ==
  /\ PortOK(q)
  /\ Lengthens(p.mbox, q.mbox) /\ Clear(p.mbox, q.mbox)
  /\ q.told = p.told /\ q.al = p.al /\ q.ds = p.ds /\ q.cm = p.cm

LEMMA AnswerStep ==
  ASSUME NEW p, PortOK(p)
  PROVE  /\ OdStep(p, Answer(p))
         /\ Answer(p).user = p.user - 1 /\ Answer(p).od = p.od
<1> DEFINE x == p.user - 1
           q == [p EXCEPT !.user = x]
<1>1. Answer(p) = q
  BY DEF Answer
<1> HIDE DEF x
<1>2. /\ PortOK(q) /\ q.user = x
      /\ q.mbox = p.mbox /\ q.od = p.od /\ q.told = p.told /\ q.al = p.al /\ q.ds = p.ds
      /\ q.cm = p.cm
  BY UserSet
<1> HIDE DEF q
<1> QED
  BY <1>1, <1>2, LengthensNot DEF OdStep, x

LEMMA OdSetStep ==
  ASSUME NEW p, PortOK(p), NEW x \in {"Inactive", "ODactive", "ODblocked"}
  PROVE  LET q == [p EXCEPT !.od = x] IN
         OdStep(p, q) /\ q.user = p.user /\ q.od = x /\ q.mbox = p.mbox
<1> DEFINE q == [p EXCEPT !.od = x]
<1>1. /\ PortOK(q) /\ q.od = x
      /\ q.mbox = p.mbox /\ q.user = p.user /\ q.told = p.told /\ q.al = p.al /\ q.ds = p.ds
      /\ q.cm = p.cm
  BY OdSet, OdStates
<1> HIDE DEF q
<1>2. OdStep(p, q)
  BY <1>1, LengthensNot DEF OdStep
<1> QED
  BY <1>1, <1>2 DEF q

\* A request of a user blocks the exchange, or is answered at once.
LEMMA SmiRwRequestStep ==
  ASSUME NEW p, PortOK(p), NEW job, job.direction \in Directions, job.index \in Indices
  PROVE  LET q == SmiRwRequest(p, job) IN
         /\ OdStep(p, q)
         /\ \/ q.user = p.user /\ p.od = "ODactive" /\ q.od = "ODblocked"
            \/ q.user = p.user - 1 /\ q.od = p.od
<1>0. DOMAIN p = PortFields /\ p.od \in {"Inactive", "ODactive", "ODblocked"}
  BY OdStates DEF PortOK
<1>1. CASE p.od = "Inactive"
  <2> DEFINE q == [p EXCEPT !.od = "Inactive"]
  <2>1. SmiRwRequest(p, job) = OdTurn(p, "SMI_DEV_RW_1", job)
    BY <1>1 DEF SmiRwRequest, OdeEvent
  <2>2. SmiRwRequest(p, job) = OdAct(q, "od_err", job)
    BY <1>1, <2>1, OdTurns
  <2>3. SmiRwRequest(p, job) = Answer(q)
    BY <2>2 DEF OdAct
  <2>4. OdStep(p, q) /\ q.user = p.user /\ q.od = "Inactive" /\ q.mbox = p.mbox
    BY OdSetStep
  <2> HIDE DEF q
  <2>5. OdStep(q, Answer(q)) /\ Answer(q).user = q.user - 1 /\ Answer(q).od = q.od
    BY <2>4, AnswerStep DEF OdStep
  <2> QED
    BY <1>1, <2>3, <2>4, <2>5 DEF OdStep
<1>2. CASE p.od = "ODblocked"
  <2> DEFINE q == [p EXCEPT !.od = "ODblocked"]
  <2>1. SmiRwRequest(p, job) = OdTurn(p, "SMI_DEV_RW_6", job)
    BY <1>2 DEF SmiRwRequest, OdeEvent
  <2>2. SmiRwRequest(p, job) = OdAct(q, "od_err", job)
    BY <1>2, <2>1, OdTurns, ZenonT(60)
  <2>3. SmiRwRequest(p, job) = Answer(q)
    BY <2>2 DEF OdAct
  <2>4. OdStep(p, q) /\ q.user = p.user /\ q.od = "ODblocked" /\ q.mbox = p.mbox
    BY OdSetStep
  <2> HIDE DEF q
  <2>5. OdStep(q, Answer(q)) /\ Answer(q).user = q.user - 1 /\ Answer(q).od = q.od
    BY <2>4, AnswerStep DEF OdStep
  <2> QED
    BY <1>2, <2>3, <2>4, <2>5 DEF OdStep
<1>3. CASE p.od = "ODactive" /\ Batch(job)
  <2> DEFINE q == [p EXCEPT !.od = "ODactive"]
  <2>1. SmiRwRequest(p, job) = OdTurn(p, "SMI_DEV_RW_4", job)
    BY <1>3 DEF SmiRwRequest, OdeEvent
  <2>2. SmiRwRequest(p, job) = OdAct(q, "smi_rw", job)
    BY <1>3, <2>1, OdTurns, ZenonT(60)
  <2>3. SmiRwRequest(p, job) = Answer(q)
    BY <1>3, <2>2 DEF OdAct
  <2>4. OdStep(p, q) /\ q.user = p.user /\ q.od = "ODactive" /\ q.mbox = p.mbox
    BY OdSetStep
  <2> HIDE DEF q
  <2>5. OdStep(q, Answer(q)) /\ Answer(q).user = q.user - 1 /\ Answer(q).od = q.od
    BY <2>4, AnswerStep DEF OdStep
  <2> QED
    BY <1>3, <2>3, <2>4, <2>5 DEF OdStep
<1>4. CASE p.od = "ODactive" /\ ~Batch(job)
  <2> DEFINE q == [p EXCEPT !.od = "ODactive"]
             request == [type |-> "AL_REQ", direction |-> job.direction,
                         index |-> job.index, who |-> "USER"]
             r == Post(q, request)
             s == [r EXCEPT !.od = "ODblocked"]
  <2>1. OdTurn(p, "SMI_DEV_RW_4", job) = r
    <3>1. OdTurn(p, "SMI_DEV_RW_4", job) = OdAct(q, "smi_rw", job)
      BY <1>4, OdTurns, ZenonT(60)
    <3>2. OdAct(q, "smi_rw", job) = AL_ReadWrite_req(q, job.direction, job.index, "USER")
      BY <1>4 DEF OdAct
    <3> QED
      BY <3>1, <3>2 DEF AL_ReadWrite_req
  <2>2. OdStep(p, q) /\ q.user = p.user /\ q.od = "ODactive" /\ q.mbox = p.mbox
    BY OdSetStep
  <2> HIDE DEF q
  <2>3. /\ request \in JobSet
        /\ request.type \notin UsersAndEvents \union {"DL_EVENT_IND"}
        /\ request.type \notin StorageJobs \union GateJobs
    <3>1. job.index \in Indices \ {"BATCH"}
      BY <1>4 DEF Batch
    <3>2. request \in [type : {"AL_REQ"}, direction : Directions,
                       index : Indices \ {"BATCH"}, who : {"USER"}]
      BY <3>1
    <3>3. request \in UserJobs
      BY <3>2 DEF UserJobs
    <3> QED
      BY <3>3 DEF JobSet, UsersAndEvents, StorageJobs, GateJobs
  <2> HIDE DEF request
  <2>4. /\ Lengthens(q.mbox, Append(q.mbox, request))
        /\ Clear(q.mbox, Append(q.mbox, request))
    BY <2>2, <2>3, AppendLengthens DEF OdStep, PortOK
  <2>5. /\ PortOK(r) /\ r.mbox = Append(q.mbox, request)
        /\ r.user = q.user /\ r.od = q.od /\ r.told = q.told
        /\ r.al = q.al /\ r.ds = q.ds /\ r.cm = q.cm
    BY <2>2, <2>3, Posted DEF OdStep
  <2> HIDE DEF r
  <2>6. OdTurn(r, "OD_BLOCK", job) = s
    <3>1. r.od = "ODactive"
      BY <2>2, <2>5
    <3>2. OdTurn(r, "OD_BLOCK", job) = OdAct(s, "none", job)
      BY <3>1, OdTurns
    <3> QED
      BY <3>2 DEF OdAct
  <2>7. SmiRwRequest(p, job) = s
    BY <1>4, <2>1, <2>6 DEF SmiRwRequest, OdeEvent
  <2>8. OdStep(r, s) /\ s.user = r.user /\ s.od = "ODblocked" /\ s.mbox = r.mbox
    BY <2>5, OdSetStep
  <2> HIDE DEF s
  <2> QED
    BY <1>4, <2>2, <2>4, <2>5, <2>7, <2>8 DEF OdStep
<1> QED
  BY <1>0, <1>1, <1>2, <1>3, <1>4

\* The service the exchange is blocked for is answered.
LEMMA OdCnfStep ==
  ASSUME NEW p, PortOK(p), NEW job
  PROVE  LET q == OdCnf(p, job) IN
         /\ OdStep(p, q)
         /\ IF p.od = "ODblocked" THEN q.user = p.user - 1 /\ q.od = "ODactive"
                                  ELSE q.user = p.user /\ q.od = p.od
<1>0. DOMAIN p = PortFields /\ p.od \in {"Inactive", "ODactive", "ODblocked"}
  BY OdStates DEF PortOK
<1>1. OdCnf(p, job) = OdTurn(p, "OD_UNBLOCK", job)
  BY DEF OdCnf, OdeEvent
<1>2. CASE p.od # "ODblocked"
  <2>1. OdCnf(p, job) = p
    BY <1>0, <1>1, <1>2, OdTurns
  <2> QED
    BY <1>2, <2>1, LengthensNot DEF OdStep
<1>3. CASE p.od = "ODblocked"
  <2> DEFINE q == [p EXCEPT !.od = "ODactive"]
  <2>1. OdCnf(p, job) = OdAct(q, "smi_done", job)
    BY <1>1, <1>3, OdTurns, ZenonT(60)
  <2>2. OdCnf(p, job) = Answer(q)
    BY <2>1 DEF OdAct
  <2>3. OdStep(p, q) /\ q.user = p.user /\ q.od = "ODactive" /\ q.mbox = p.mbox
    BY OdSetStep
  <2> HIDE DEF q
  <2>4. OdStep(q, Answer(q)) /\ Answer(q).user = q.user - 1 /\ Answer(q).od = q.od
    BY <2>3, AnswerStep DEF OdStep
  <2> QED
    BY <1>3, <2>2, <2>3, <2>4 DEF OdStep
<1> QED
  BY <1>2, <1>3

\* The exchange is started, and stopped.
LEMMA OdStartStopStep ==
  ASSUME NEW p, PortOK(p), NEW job
  PROVE  /\ OdStep(p, OdStart(p, job)) /\ OdStart(p, job).user = p.user
         /\ OdStart(p, job).od = "ODblocked" <=> p.od = "ODblocked"
         /\ OdStep(p, OdStop(p, job)) /\ OdStop(p, job).user = p.user
         /\ OdStop(p, job).od = "Inactive"
<1>0. DOMAIN p = PortFields /\ p.od \in {"Inactive", "ODactive", "ODblocked"}
  BY OdStates DEF PortOK
<1>1. OdStop(p, job) = [p EXCEPT !.od = "Inactive"]
  <2>1. OdStop(p, job) = OdTurn(p, "OD_STOP", job)
    BY DEF OdStop, OdeEvent
  <2>2. OdTurn(p, "OD_STOP", job) = OdAct([p EXCEPT !.od = "Inactive"], "none", job)
    BY <1>0, OdTurns
  <2> QED
    BY <2>1, <2>2 DEF OdAct
<1>2. OdStart(p, job) = OdTurn(p, "OD_START", job)
  BY DEF OdStart, OdeEvent
<1>3. /\ OdStep(p, OdStop(p, job)) /\ OdStop(p, job).user = p.user
      /\ OdStop(p, job).od = "Inactive"
  BY <1>1, OdSetStep, ZenonT(60)
<1>4. CASE p.od = "Inactive"
  <2>1. OdTurn(p, "OD_START", job) = [p EXCEPT !.od = "ODactive"]
    BY <1>4, OdTurns DEF OdAct
  <2> DEFINE q == [p EXCEPT !.od = "ODactive"]
  <2>2. OdStep(p, q) /\ q.user = p.user /\ q.od = "ODactive"
    BY OdSetStep
  <2> QED
    BY <1>2, <1>3, <1>4, <2>1, <2>2
<1>5. CASE p.od # "Inactive"
  <2>1. OdStart(p, job) = p
    BY <1>0, <1>2, <1>5, OdTurns
  <2> QED
    BY <1>3, <2>1, LengthensNot DEF OdStep
<1> QED
  BY <1>4, <1>5

\* A user asks for a service.
LEMMA SMI_rw_reqStep ==
  ASSUME NEW p, PortOK(p), NEW direction \in Directions, NEW index \in Indices
  PROVE  LET q == SMI_rw_req(p, direction, index)
             job == [type |-> "SMI_DEVICE_RW", direction |-> direction, index |-> index]
         IN /\ PortOK(q) /\ job \in JobSet /\ q.mbox = Append(p.mbox, job)
            /\ q.user = p.user + 1 /\ q.od = p.od /\ q.told = p.told
            /\ q.al = p.al /\ q.ds = p.ds /\ q.cm = p.cm
<1> DEFINE x == p.user + 1
           r == [p EXCEPT !.user = x]
           job == [type |-> "SMI_DEVICE_RW", direction |-> direction, index |-> index]
           q == Post(r, job)
<1>1. SMI_rw_req(p, direction, index) = q
  BY DEF SMI_rw_req
<1>2. job \in JobSet
  BY DEF JobSet, UserJobs
<1> HIDE DEF x, job
<1>3. /\ PortOK(r) /\ r.user = x
      /\ r.mbox = p.mbox /\ r.od = p.od /\ r.told = p.told /\ r.al = p.al /\ r.ds = p.ds
      /\ r.cm = p.cm
  BY UserSet
<1> HIDE DEF r
<1>4. /\ PortOK(q) /\ q.mbox = Append(r.mbox, job)
      /\ q.user = r.user /\ q.od = r.od /\ q.told = r.told
      /\ q.al = r.al /\ q.ds = r.ds /\ q.cm = r.cm
  BY <1>2, <1>3, Posted
<1> HIDE DEF q
<1> QED
  BY <1>1, <1>2, <1>3, <1>4 DEF job, x

-----------------------------------------------------------------------------
(* Configurations and data storage: the jobs they post, and what they keep *)

\* The jobs by which data storage is told of a configuration
Orders == {"DS_INIT", "DS_DELETE"}

Kept(m, n) == Len(m) <= Len(n) /\ \A i \in 1..Len(m) : n[i] = m[i]

\* One job for or by data storage is posted, and it is of this type.
OneMore(m, n, type) ==
  /\ Kept(m, n)
  /\ \E k \in Len(m) + 1 .. Len(n) :
       /\ n[k].type = type
       /\ \A i \in Len(m) + 1 .. Len(n) : i # k => n[i].type \notin StorageJobs

\* A configuration is handed on: data storage is initialized with it and, unless what is
\* stored is of the device configured, deletes that.
Ordered(m, n, config, id) ==
  /\ \E k \in Len(m) + 1 .. Len(n) :
       /\ n[k] = [type |-> "DS_INIT", config |-> config]
       /\ \A i \in k + 1 .. Len(n) : n[i].type \notin Orders
  /\ id # "configured" => \E k \in Len(m) + 1 .. Len(n) : n[k].type = "DS_DELETE"

LEMMA KeptTwice ==
  ASSUME NEW l \in Seq(JobSet), NEW m \in Seq(JobSet), NEW n \in Seq(JobSet),
         Kept(l, m), Kept(m, n)
  PROVE  Kept(l, n)
<1>1. Len(l) \in Nat /\ Len(m) \in Nat /\ Len(n) \in Nat
  OBVIOUS
<1> QED
  BY <1>1 DEF Kept

LEMMA OneMoreThen ==
  ASSUME NEW l \in Seq(JobSet), NEW m \in Seq(JobSet), NEW n \in Seq(JobSet),
         NEW type, Kept(l, m), Kept(m, n)
  PROVE  /\ OneMore(l, m, type) /\ Apart(m, n) => OneMore(l, n, type)
         /\ Apart(l, m) /\ OneMore(m, n, type) => OneMore(l, n, type)
<1>1. Len(l) \in Nat /\ Len(m) \in Nat /\ Len(n) \in Nat
  OBVIOUS
<1>2. Kept(l, n)
  BY KeptTwice
<1>3. ASSUME OneMore(l, m, type), Apart(m, n) PROVE OneMore(l, n, type)
  <2>1. PICK k \in Len(l) + 1 .. Len(m) :
               /\ m[k].type = type
               /\ \A i \in Len(l) + 1 .. Len(m) : i # k => m[i].type \notin StorageJobs
    BY <1>3 DEF OneMore
  <2>2. k \in Len(l) + 1 .. Len(n) /\ n[k].type = type
    BY <1>1, <2>1 DEF Kept
  <2>3. ASSUME NEW i \in Len(l) + 1 .. Len(n), i # k PROVE n[i].type \notin StorageJobs
    <3>1. CASE i <= Len(m)
      BY <1>1, <2>1, <2>3, <3>1 DEF Kept
    <3>2. CASE ~(i <= Len(m))
      BY <1>1, <1>3, <3>2 DEF Apart
    <3> QED
      BY <3>1, <3>2
  <2> QED
    BY <1>2, <2>2, <2>3 DEF OneMore
<1>4. ASSUME Apart(l, m), OneMore(m, n, type) PROVE OneMore(l, n, type)
  <2>1. PICK k \in Len(m) + 1 .. Len(n) :
               /\ n[k].type = type
               /\ \A i \in Len(m) + 1 .. Len(n) : i # k => n[i].type \notin StorageJobs
    BY <1>4 DEF OneMore
  <2>2. k \in Len(l) + 1 .. Len(n)
    BY <1>1, <2>1 DEF Kept
  <2>3. ASSUME NEW i \in Len(l) + 1 .. Len(n), i # k PROVE n[i].type \notin StorageJobs
    <3>1. CASE i <= Len(m)
      BY <1>1, <1>4, <3>1 DEF Kept, Apart
    <3>2. CASE ~(i <= Len(m))
      BY <1>1, <2>1, <2>3, <3>2
    <3> QED
      BY <3>1, <3>2
  <2> QED
    BY <1>2, <2>1, <2>2, <2>3 DEF OneMore
<1> QED
  BY <1>3, <1>4

LEMMA AppendedOne ==
  ASSUME NEW m \in Seq(JobSet), NEW job \in JobSet
  PROVE  LET n == Append(m, job) IN
         /\ n \in Seq(JobSet) /\ Kept(m, n)
         /\ job.type \notin StorageJobs => Apart(m, n)
         /\ OneMore(m, n, job.type)
<1>1. /\ Append(m, job) \in Seq(JobSet)
      /\ Len(Append(m, job)) = Len(m) + 1
      /\ \A i \in 1..Len(m) : Append(m, job)[i] = m[i]
      /\ Append(m, job)[Len(m) + 1] = job
      /\ Len(m) \in Nat
  OBVIOUS
<1> DEFINE n == Append(m, job)
<1> HIDE DEF n
<1>2. Kept(m, n)
  BY <1>1 DEF Kept, n
<1>3. \A i \in Len(m) + 1 .. Len(n) : i = Len(m) + 1
  BY <1>1 DEF n
<1>4. OneMore(m, n, job.type)
  BY <1>1, <1>2, <1>3 DEF OneMore, n
<1>5. job.type \notin StorageJobs => Apart(m, n)
  BY <1>1, <1>3 DEF Apart, n
<1> QED
  BY <1>1, <1>2, <1>4, <1>5 DEF n

-----------------------------------------------------------------------------
(* What the configuration manager does to data storage *)

\* The jobs an action of the configuration manager posts
LEMMA CmJobTypes ==
  ASSUME NEW config \in ConfigRecords
  PROVE  /\ [type |-> "DS_INIT", config |-> config] \in JobSet
         /\ [type |-> "SM_SET_PORT_CFG_REQ", config |-> config] \in JobSet
         /\ [type |-> "DS_DELETE"] \in JobSet /\ [type |-> "OD_STOP"] \in JobSet
         /\ [type |-> "DS_STARTUP"] \in JobSet /\ [type |-> "OD_START"] \in JobSet
         /\ [type |-> "SM_OPERATE_REQ"] \in JobSet
<1>1. /\ [type |-> "DS_INIT", config |-> config] \in QuietJobs
      /\ [type |-> "SM_SET_PORT_CFG_REQ", config |-> config] \in QuietJobs
  BY DEF QuietJobs
<1>2. /\ [type |-> "DS_DELETE"] \in QuietJobs /\ [type |-> "OD_STOP"] \in QuietJobs
      /\ [type |-> "DS_STARTUP"] \in QuietJobs /\ [type |-> "OD_START"] \in QuietJobs
      /\ [type |-> "SM_OPERATE_REQ"] \in QuietJobs
  BY DEF QuietJobs
<1> QED
  BY <1>1, <1>2 DEF JobSet

\* A configuration is accepted: the orders for data storage are of this configuration.
LEMMA CheckModeOrders ==
  ASSUME NEW p, PortOK(p), NEW config \in ConfigRecords
  PROVE  LET q == CheckMode(p, config) IN
         /\ q.ds = p.ds /\ q.cm.config = config
         /\ q.cm.state \in {"SM_Startup", "Port_DIDO", "Port_Deactivated"}
         /\ q.mbox \in Seq(JobSet) /\ Kept(p.mbox, q.mbox)
         /\ \A i \in Len(p.mbox) + 1 .. Len(q.mbox) :
               q.mbox[i].type \in StorageJobs => q.mbox[i].type \in Orders
         /\ q.cm.state = "SM_Startup" => Ordered(p.mbox, q.mbox, config, p.ds.id)
<1>0. DOMAIN p = PortFields /\ CmOK(p.cm) /\ p.mbox \in Seq(JobSet)
  BY DEF PortOK
<1> DEFINE stop == [type |-> "OD_STOP"]
           delete == [type |-> "DS_DELETE"]
           init == [type |-> "DS_INIT", config |-> config]
           set == [type |-> "SM_SET_PORT_CFG_REQ", config |-> config]
           q == CheckMode(p, config)
           m == p.mbox
           short == Append(Append(m, stop), set)
           plain == Append(Append(Append(m, stop), init), set)
           long == Append(Append(Append(Append(m, stop), delete), init), set)
<1>1. /\ q.ds = p.ds /\ q.cm.config = config
      /\ \/ /\ config.mode \in {"CFGCOM", "AUTOCOM"} /\ q.cm.state = "SM_Startup"
            /\ \/ q.mbox = long
               \/ q.mbox = plain /\ p.ds.id = "configured"
         \/ /\ config.mode = "DIDO" /\ q.cm.state = "Port_DIDO"
            /\ q.mbox = long
         \/ /\ config.mode = "INACTIVE" /\ q.cm.state = "Port_Deactivated"
            /\ q.mbox = short
  <2> DEFINE q1 == [p EXCEPT !.cm.config = config]
             q2 == Post(q1, stop)
  <2>1. /\ DOMAIN q2 = PortFields /\ DOMAIN q2.cm = {"state", "config", "status"}
        /\ q2.cm.config = config /\ q2.ds = p.ds /\ q2.mbox = Append(m, stop)
    BY <1>0 DEF PortFields, CmOK, Post
  <2> HIDE DEF q2
  <2>2. CASE config.mode \in {"CFGCOM", "AUTOCOM"}
    <3> DEFINE q3 == [q2 EXCEPT !.cm.state = "SM_Startup"]
    <3>1. q = Startup(q3)
      BY <2>2 DEF q, CheckMode, q2
    <3>2. /\ DOMAIN q3 = PortFields /\ q3.cm.state = "SM_Startup"
          /\ q3.cm.config = config /\ q3.ds = p.ds /\ q3.mbox = Append(m, stop)
      BY <2>1 DEF PortFields
    <3> HIDE DEF q3
    <3>3. CASE config.mode = "AUTOCOM" \/ ~DS_Chk_Cfg(q3)
      <4>1. q = SetPortConfigAndStorage(DS_Delete(q3))
        BY <3>1, <3>2, <3>3 DEF Startup
      <4> QED
        BY <2>2, <3>2, <4>1 DEF SetPortConfigAndStorage, SetPortConfig, DS_Delete, Post, PortFields
    <3>4. CASE ~(config.mode = "AUTOCOM" \/ ~DS_Chk_Cfg(q3))
      <4>1. q = SetPortConfigAndStorage(q3)
        BY <3>1, <3>2, <3>4 DEF Startup
      <4> QED
        BY <2>2, <3>2, <3>4, <4>1
           DEF SetPortConfigAndStorage, SetPortConfig, DS_Chk_Cfg, Post, PortFields
    <3> QED
      BY <3>3, <3>4
  <2>3. CASE config.mode = "DIDO"
    <3> DEFINE q3 == [q2 EXCEPT !.cm.state = "Port_DIDO", !.cm.status = "DIDO"]
    <3>1. q = SetPortConfigAndStorage(DS_Delete(q3))
      BY <2>3 DEF q, CheckMode, q2
    <3>2. /\ DOMAIN q3 = PortFields /\ q3.cm.state = "Port_DIDO"
          /\ q3.cm.config = config /\ q3.ds = p.ds /\ q3.mbox = Append(m, stop)
      BY <2>1 DEF PortFields
    <3> HIDE DEF q3
    <3> QED
      BY <2>3, <3>1, <3>2 DEF SetPortConfigAndStorage, SetPortConfig, DS_Delete, Post, PortFields
  <2>4. CASE config.mode = "INACTIVE"
    <3> DEFINE q3 == [q2 EXCEPT !.cm.state = "Port_Deactivated", !.cm.status = "DEACTIVATED"]
    <3>1. q = SetPortConfig(q3)
      BY <2>4 DEF q, CheckMode, q2
    <3>2. /\ DOMAIN q3 = PortFields /\ q3.cm.state = "Port_Deactivated"
          /\ q3.cm.config = config /\ q3.ds = p.ds /\ q3.mbox = Append(m, stop)
      BY <2>1 DEF PortFields
    <3> HIDE DEF q3
    <3> QED
      BY <2>4, <3>1, <3>2 DEF SetPortConfig, Post, PortFields
  <2> QED
    BY <2>2, <2>3, <2>4 DEF ConfigRecords
<1> HIDE DEF q
<1>2. /\ stop \in JobSet /\ delete \in JobSet /\ init \in JobSet /\ set \in JobSet
      /\ stop.type \notin StorageJobs /\ set.type \notin StorageJobs
      /\ delete.type \in Orders /\ init.type \in Orders /\ set.type \notin Orders
  BY CmJobTypes DEF StorageJobs, Orders
<1>3. delete.type = "DS_DELETE" /\ init = [type |-> "DS_INIT", config |-> config]
  OBVIOUS
<1> HIDE DEF stop, delete, init, set
<1>4. Len(m) \in Nat /\ m \in Seq(JobSet)
  BY <1>0
<1> HIDE DEF m
<1>5. /\ short \in Seq(JobSet) /\ Len(short) = Len(m) + 2
      /\ \A i \in 1..Len(m) : short[i] = m[i]
      /\ short[Len(m) + 1] = stop /\ short[Len(m) + 2] = set
  BY <1>2, <1>4
<1>6. /\ plain \in Seq(JobSet) /\ Len(plain) = Len(m) + 3
      /\ \A i \in 1..Len(m) : plain[i] = m[i]
      /\ plain[Len(m) + 1] = stop /\ plain[Len(m) + 2] = init /\ plain[Len(m) + 3] = set
  BY <1>2, <1>4
<1>7. /\ long \in Seq(JobSet) /\ Len(long) = Len(m) + 4
      /\ \A i \in 1..Len(m) : long[i] = m[i]
      /\ long[Len(m) + 1] = stop /\ long[Len(m) + 2] = delete
      /\ long[Len(m) + 3] = init /\ long[Len(m) + 4] = set
  BY <1>2, <1>4
<1> HIDE DEF short, plain, long
<1>8. CASE q.mbox = short
  <2>1. \A i \in Len(m) + 1 .. Len(short) : i = Len(m) + 1 \/ i = Len(m) + 2
    BY <1>4, <1>5
  <2>2. q.cm.state # "SM_Startup" \/ q.mbox \in {plain, long}
    BY <1>1
  <2>3. plain # short /\ long # short
    BY <1>4, <1>5, <1>6, <1>7
  <2> QED
    BY <1>1, <1>2, <1>4, <1>5, <1>8, <2>1, <2>2, <2>3 DEF Kept, q, m
<1>9. CASE q.mbox = plain
  <2>1. \A i \in Len(m) + 1 .. Len(plain) :
           i = Len(m) + 1 \/ i = Len(m) + 2 \/ i = Len(m) + 3
    BY <1>4, <1>6
  <2>2. p.ds.id = "configured"
    <3>1. plain # short /\ long # plain
      BY <1>4, <1>5, <1>6, <1>7
    <3> QED
      BY <1>1, <1>9, <3>1
  <2>3. /\ Len(m) + 2 \in Len(m) + 1 .. Len(plain)
        /\ \A i \in (Len(m) + 2) + 1 .. Len(plain) : i = Len(m) + 3
    BY <1>4, <1>6
  <2>4. Ordered(m, plain, config, p.ds.id)
    BY <1>2, <1>3, <1>6, <2>2, <2>3 DEF Ordered
  <2>5. \A i \in Len(m) + 1 .. Len(plain) :
           plain[i].type \in StorageJobs => plain[i].type \in Orders
    BY <1>2, <1>6, <2>1
  <2>6. plain \in Seq(JobSet) /\ Kept(m, plain)
    BY <1>4, <1>6 DEF Kept
  <2> QED
    BY <1>1, <1>9, <2>4, <2>5, <2>6 DEF q, m
<1>10. CASE q.mbox = long
  <2>1. \A i \in Len(m) + 1 .. Len(long) :
           i = Len(m) + 1 \/ i = Len(m) + 2 \/ i = Len(m) + 3 \/ i = Len(m) + 4
    BY <1>4, <1>7
  <2>2. /\ Len(m) + 2 \in Len(m) + 1 .. Len(long)
        /\ Len(m) + 3 \in Len(m) + 1 .. Len(long)
        /\ \A i \in (Len(m) + 3) + 1 .. Len(long) : i = Len(m) + 4
    BY <1>4, <1>7
  <2>3. Ordered(m, long, config, p.ds.id)
    BY <1>2, <1>3, <1>7, <2>2 DEF Ordered
  <2>4. \A i \in Len(m) + 1 .. Len(long) : long[i].type \in StorageJobs => long[i].type \in Orders
    BY <1>2, <1>7, <2>1
  <2>5. long \in Seq(JobSet) /\ Kept(m, long)
    BY <1>4, <1>7 DEF Kept
  <2> QED
    BY <1>1, <1>10, <2>3, <2>4, <2>5 DEF q, m
<1> QED
  BY <1>1, <1>8, <1>9, <1>10

\* What an event makes of the configuration manager, as data storage sees it: nothing; the
\* port is lost, or has a fault; data storage is started; it is done; the port becomes
\* active; another configuration is handed on.
Manages(p, q, event) ==
  /\ q.ds = p.ds /\ Kept(p.mbox, q.mbox)
  /\ \/ /\ q.cm.state = p.cm.state /\ q.cm.config = p.cm.config
        /\ Apart(p.mbox, q.mbox)
     \/ /\ q.cm.state \in {"CheckPortMode", "PortFault"} /\ Apart(p.mbox, q.mbox)
        /\ p.cm.state = "DS_ParamManager" => event = "DS_Fault"
     \/ /\ p.cm.state = "SM_Startup" /\ q.cm.state = "DS_ParamManager"
        /\ q.cm.config = p.cm.config /\ OneMore(p.mbox, q.mbox, "DS_STARTUP")
     \/ /\ p.cm.state = "DS_ParamManager" /\ event = "DS_Ready"
        /\ q.cm.state = "WaitingOnOperate" /\ q.cm.config = p.cm.config
        /\ Apart(p.mbox, q.mbox)
     \/ /\ p.cm.state = "WaitingOnOperate" /\ q.cm.state = "Port_Active"
        /\ q.cm.config = p.cm.config /\ Apart(p.mbox, q.mbox)
     \/ /\ p.cm.state # "DS_ParamManager"
        /\ q.cm.state \in {"SM_Startup", "Port_DIDO", "Port_Deactivated"}
        /\ \A i \in Len(p.mbox) + 1 .. Len(q.mbox) :
              q.mbox[i].type \in StorageJobs => q.mbox[i].type \in Orders
        /\ q.cm.state = "SM_Startup" =>
              Ordered(p.mbox, q.mbox, q.cm.config, p.ds.id)

\* The rows of the table
LEMMA CmRowsKinds ==
  ASSUME NEW row \in CmTransitions
  PROVE  \/ row[4] = "ignore" /\ row[3] = row[1]
         \/ row[4] = "check_mode" /\ row[2] = "CFG_CHANGE" /\ row[1] # "DS_ParamManager"
         \/ row[4] = "comlost" /\ row[3] = "CheckPortMode" /\ row[1] # "DS_ParamManager"
         \/ /\ row[4] = "port_fault" /\ row[3] = "PortFault"
            /\ row[1] = "DS_ParamManager" => row[2] = "DS_Fault"
         \/ row[4] = "start_ds" /\ row[1] = "SM_Startup" /\ row[3] = "DS_ParamManager"
         \/ /\ row[4] = "ds_ready" /\ row[1] = "DS_ParamManager" /\ row[2] = "DS_Ready"
            /\ row[3] = "WaitingOnOperate"
         \/ row[4] = "sm_operate" /\ row[1] = "WaitingOnOperate" /\ row[3] = "Port_Active"
  BY SMTT(60) DEF CmTransitions

\* The actions, but for a change of the configuration
LEMMA CmActEffects ==
  ASSUME NEW p, PortOK(p), NEW job
  PROVE  /\ CmAct(p, "ignore", job) = p
         /\ LET q == CmAct(p, "comlost", job) IN
            q.ds = p.ds /\ q.mbox = p.mbox /\ q.cm.state = p.cm.state
         /\ LET q == CmAct(p, "port_fault", job) IN
            /\ q.ds = p.ds /\ q.mbox = p.mbox
            /\ q.cm.state \in {p.cm.state, "CheckPortMode"}
         /\ LET q == CmAct(p, "start_ds", job) IN
            /\ q.ds = p.ds /\ q.mbox = Append(p.mbox, [type |-> "DS_STARTUP"])
            /\ q.cm.state = p.cm.state /\ q.cm.config = p.cm.config
         /\ LET q == CmAct(p, "ds_ready", job) IN
            /\ q.ds = p.ds /\ q.mbox = Append(p.mbox, [type |-> "SM_OPERATE_REQ"])
            /\ q.cm.state = p.cm.state /\ q.cm.config = p.cm.config
         /\ LET q == CmAct(p, "sm_operate", job) IN
            /\ q.ds = p.ds /\ q.mbox = Append(p.mbox, [type |-> "OD_START"])
            /\ q.cm.state = p.cm.state /\ q.cm.config = p.cm.config
         /\ CmAct(p, "check_mode", job) = CheckMode(p, job.config)
<1>0. DOMAIN p = PortFields /\ DOMAIN p.cm = {"state", "config", "status"}
  BY DEF PortOK, CmOK
<1>1. CmAct(p, "ignore", job) = p /\ CmAct(p, "check_mode", job) = CheckMode(p, job.config)
  BY DEF CmAct
<1>2. LET q == Comlost(p) IN
      /\ q.ds = p.ds /\ q.mbox = p.mbox /\ q.cm.state = p.cm.state
      /\ DOMAIN q = PortFields /\ DOMAIN q.cm = {"state", "config", "status"}
  BY <1>0 DEF Comlost, PortFields
<1>3. LET q == CmAct(p, "comlost", job) IN
      q.ds = p.ds /\ q.mbox = p.mbox /\ q.cm.state = p.cm.state
  BY <1>2 DEF CmAct
<1>4. LET q == CmAct(p, "port_fault", job) IN
      /\ q.ds = p.ds /\ q.mbox = p.mbox
      /\ q.cm.state \in {p.cm.state, "CheckPortMode"}
  <2>1. CmAct(p, "port_fault", job) = PortFault(p, job)
    BY DEF CmAct
  <2>2. CASE job.type = "DS_FAULT" /\ job.fault = "COM_ERR"
    <3> DEFINE c == Comlost(p)
    <3>1. PortFault(p, job) = [c EXCEPT !.cm.state = "CheckPortMode"]
      BY <2>2 DEF PortFault
    <3> HIDE DEF c
    <3> QED
      BY <1>2, <2>1, <3>1 DEF PortFields, c
  <2>3. CASE ~(job.type = "DS_FAULT" /\ job.fault = "COM_ERR")
    BY <1>0, <2>1, <2>3 DEF PortFault, PortFields
  <2> QED
    BY <2>2, <2>3
<1>5. LET q == CmAct(p, "start_ds", job) IN
      /\ q.ds = p.ds /\ q.mbox = Append(p.mbox, [type |-> "DS_STARTUP"])
      /\ q.cm.state = p.cm.state /\ q.cm.config = p.cm.config
  BY <1>0 DEF CmAct, Post, PortFields
<1>6. LET q == CmAct(p, "ds_ready", job) IN
      /\ q.ds = p.ds /\ q.mbox = Append(p.mbox, [type |-> "SM_OPERATE_REQ"])
      /\ q.cm.state = p.cm.state /\ q.cm.config = p.cm.config
  BY <1>0 DEF CmAct, SM_Operate, Post, PortFields
<1>7. LET q == CmAct(p, "sm_operate", job) IN
      /\ q.ds = p.ds /\ q.mbox = Append(p.mbox, [type |-> "OD_START"])
      /\ q.cm.state = p.cm.state /\ q.cm.config = p.cm.config
  BY <1>0 DEF CmAct, Post, PortFields
<1> QED
  BY <1>1, <1>3, <1>4, <1>5, <1>6, <1>7

LEMMA CmEventManages ==
  ASSUME NEW p, PortOK(p), NEW event, NEW job,
         event = "CFG_CHANGE" => job.config \in ConfigRecords
  PROVE  Manages(p, CmEvent(p, event, job), event)
<1> DEFINE rows == {row \in CmTransitions : row[1] = p.cm.state /\ row[2] = event}
           m == p.mbox
<1>0. /\ DOMAIN p = PortFields /\ DOMAIN p.cm = {"state", "config", "status"}
      /\ p.mbox \in Seq(JobSet) /\ p.cm.config \in ConfigRecords
  BY DEF PortOK, CmOK
<1>1. Kept(m, m) /\ Apart(m, m)
  <2>1. Len(m) \in Nat
    BY <1>0
  <2> QED
    BY <2>1 DEF Kept, Apart
<1>2. CASE rows = {}
  <2>1. CmEvent(p, event, job) = p
    BY <1>2 DEF CmEvent
  <2> QED
    BY <1>1, <2>1 DEF Manages
<1>3. CASE rows # {}
  <2> DEFINE row == CHOOSE r \in rows : TRUE
             q == [p EXCEPT !.cm.state = row[3]]
             r == CmAct(q, row[4], job)
  <2>1. row \in rows
    BY <1>3
  <2>2. CmEvent(p, event, job) = r
    BY <1>3 DEF CmEvent
  <2> HIDE DEF row
  <2>3. row \in CmTransitions /\ row[1] = p.cm.state /\ row[2] = event
    BY <2>1
  <2>4. /\ q.cm.state = row[3] /\ q.cm.config = p.cm.config /\ q.ds = p.ds /\ q.mbox = m
    BY <1>0 DEF PortFields
  <2>5. PortOK(q)
    BY <2>3, CmRows, SetCmState, StillPortOK
  <2> HIDE DEF q, m
  <2>6. /\ [type |-> "DS_STARTUP"] \in JobSet /\ [type |-> "OD_START"] \in JobSet
        /\ [type |-> "SM_OPERATE_REQ"] \in JobSet
    BY <1>0, CmJobTypes
  <2>7. /\ "DS_STARTUP" \in StorageJobs
        /\ "OD_START" \notin StorageJobs /\ "SM_OPERATE_REQ" \notin StorageJobs
    BY DEF StorageJobs
  <2>8. CASE row[4] = "ignore" /\ row[3] = row[1]
    <3>1. r = q
      BY <2>5, <2>8, CmActEffects
    <3> HIDE DEF r
    <3> QED
      BY <1>1, <2>2, <2>3, <2>4, <2>8, <3>1 DEF Manages, m
  <2>9. CASE row[4] = "comlost" /\ row[3] = "CheckPortMode" /\ row[1] # "DS_ParamManager"
    <3>1. r.ds = q.ds /\ r.mbox = q.mbox /\ r.cm.state = q.cm.state
      BY <2>5, <2>9, CmActEffects
    <3> HIDE DEF r
    <3> QED
      BY <1>1, <2>2, <2>3, <2>4, <2>9, <3>1 DEF Manages, m
  <2>10. CASE /\ row[4] = "port_fault" /\ row[3] = "PortFault"
              /\ row[1] = "DS_ParamManager" => row[2] = "DS_Fault"
    <3>1. r.ds = q.ds /\ r.mbox = q.mbox /\ r.cm.state \in {q.cm.state, "CheckPortMode"}
      BY <2>5, <2>10, CmActEffects
    <3> HIDE DEF r
    <3> QED
      BY <1>1, <2>2, <2>3, <2>4, <2>10, <3>1 DEF Manages, m
  <2>11. CASE row[4] = "start_ds" /\ row[1] = "SM_Startup" /\ row[3] = "DS_ParamManager"
    <3>1. /\ r.ds = q.ds /\ r.mbox = Append(q.mbox, [type |-> "DS_STARTUP"])
          /\ r.cm.state = q.cm.state /\ r.cm.config = q.cm.config
      BY <2>5, <2>11, CmActEffects
    <3> HIDE DEF r
    <3>2. OneMore(m, r.mbox, "DS_STARTUP") /\ Kept(m, r.mbox)
      BY <1>0, <2>4, <2>6, <3>1, AppendedOne DEF m
    <3> QED
      BY <2>2, <2>3, <2>4, <2>11, <3>1, <3>2 DEF Manages, m
  <2>12. CASE /\ row[4] = "ds_ready" /\ row[1] = "DS_ParamManager" /\ row[2] = "DS_Ready"
              /\ row[3] = "WaitingOnOperate"
    <3>1. /\ r.ds = q.ds /\ r.mbox = Append(q.mbox, [type |-> "SM_OPERATE_REQ"])
          /\ r.cm.state = q.cm.state /\ r.cm.config = q.cm.config
      BY <2>5, <2>12, CmActEffects
    <3> HIDE DEF r
    <3>2. Apart(m, r.mbox) /\ Kept(m, r.mbox)
      BY <1>0, <2>4, <2>6, <2>7, <3>1, AppendedOne DEF m
    <3> QED
      BY <2>2, <2>3, <2>4, <2>12, <3>1, <3>2 DEF Manages, m
  <2>13. CASE row[4] = "sm_operate" /\ row[1] = "WaitingOnOperate" /\ row[3] = "Port_Active"
    <3>1. /\ r.ds = q.ds /\ r.mbox = Append(q.mbox, [type |-> "OD_START"])
          /\ r.cm.state = q.cm.state /\ r.cm.config = q.cm.config
      BY <2>5, <2>13, CmActEffects
    <3> HIDE DEF r
    <3>2. Apart(m, r.mbox) /\ Kept(m, r.mbox)
      BY <1>0, <2>4, <2>6, <2>7, <3>1, AppendedOne DEF m
    <3> QED
      BY <2>2, <2>3, <2>4, <2>13, <3>1, <3>2 DEF Manages, m
  <2>14. CASE /\ row[4] = "check_mode" /\ row[2] = "CFG_CHANGE"
              /\ row[1] # "DS_ParamManager"
    <3>1. r = CheckMode(q, job.config) /\ job.config \in ConfigRecords
      BY <2>3, <2>5, <2>14, CmActEffects
    <3> HIDE DEF r
    <3>2. /\ r.ds = q.ds /\ r.cm.config = job.config
          /\ r.cm.state \in {"SM_Startup", "Port_DIDO", "Port_Deactivated"}
          /\ Kept(q.mbox, r.mbox)
          /\ \A i \in Len(q.mbox) + 1 .. Len(r.mbox) :
                r.mbox[i].type \in StorageJobs => r.mbox[i].type \in Orders
          /\ r.cm.state = "SM_Startup" => Ordered(q.mbox, r.mbox, job.config, q.ds.id)
      BY <2>5, <3>1, CheckModeOrders
    <3> QED
      BY <2>2, <2>3, <2>4, <2>14, <3>2 DEF Manages, m
  <2> QED
    BY <2>3, <2>8, <2>9, <2>10, <2>11, <2>12, <2>13, <2>14, CmRowsKinds
<1> QED
  BY <1>2, <1>3

\* The callbacks of the configuration manager
LEMMA CmCallbacksManage ==
  ASSUME NEW p, PortOK(p), NEW job
  PROVE  /\ job.config \in ConfigRecords =>
              Manages(p, CmPortConfiguration(p, job), "CFG_CHANGE")
         /\ Manages(p, CmDsReady(p, job), "DS_Ready")
         /\ Manages(p, CmDsFault(p, job), "DS_Fault")
         /\ job.mode \in PortModes =>
              \E event : event \notin {"DS_Ready", "DS_Fault"}
                           /\ Manages(p, CmPortModeInd(p, job), event)
<1>1. /\ job.config \in ConfigRecords =>
              Manages(p, CmPortConfiguration(p, job), "CFG_CHANGE")
      /\ Manages(p, CmDsReady(p, job), "DS_Ready")
      /\ Manages(p, CmDsFault(p, job), "DS_Fault")
  BY CmEventManages DEF CmPortConfiguration, CmDsReady, CmDsFault
<1>2. ASSUME job.mode \in PortModes
      PROVE  \E event : event \notin {"DS_Ready", "DS_Fault"}
                          /\ Manages(p, CmPortModeInd(p, job), event)
  <2> DEFINE s == [p EXCEPT !.cm.status = "DEACTIVATED"]
  <2>1. CmPortModeInd(p, job) \in
          {CmEvent(p, "SM_COMREADY", job), CmEvent(p, "SM_FAULT", job),
           CmEvent(p, "SM_OPERATE", job), CmEvent(p, "SM_COMLOST", job), s, p}
    BY <1>2 DEF CmPortModeInd, PortModes, Faults
  <2>2. /\ Manages(p, CmEvent(p, "SM_COMREADY", job), "SM_COMREADY")
        /\ Manages(p, CmEvent(p, "SM_FAULT", job), "SM_FAULT")
        /\ Manages(p, CmEvent(p, "SM_OPERATE", job), "SM_OPERATE")
        /\ Manages(p, CmEvent(p, "SM_COMLOST", job), "SM_COMLOST")
    BY CmEventManages
  <2>3. Kept(p.mbox, p.mbox) /\ Apart(p.mbox, p.mbox)
    <3>1. Len(p.mbox) \in Nat
      BY DEF PortOK
    <3> QED
      BY <3>1 DEF Kept, Apart
  <2>4. Manages(p, p, "SM_COMLOST")
    BY <2>3 DEF Manages
  <2>5. /\ s.cm.state = p.cm.state /\ s.cm.config = p.cm.config
        /\ s.ds = p.ds /\ s.mbox = p.mbox
    BY DEF PortOK, CmOK, PortFields
  <2>6. Manages(p, s, "SM_COMLOST")
    BY <2>3, <2>5 DEF Manages
  <2> QED
    BY <2>1, <2>2, <2>4, <2>6
<1> QED
  BY <1>1, <1>2

-----------------------------------------------------------------------------
(* What data storage changes of itself and reports *)

AtRest(d) == d.state \in {"CheckActivationState", "WaitingOnDSActivity", "Off"}

\* Only what leaves alone the state and the set stored, and posts no job of data storage
Quietly(p, q) ==
  /\ PortOK(q) /\ q.cm = p.cm
  /\ q.ds.state = p.ds.state /\ q.ds.pending = p.ds.pending
  /\ q.ds.id = p.ds.id /\ q.ds.valid = p.ds.valid
  /\ Kept(p.mbox, q.mbox) /\ Apart(p.mbox, q.mbox)

LEMMA KeptNot ==
  ASSUME NEW p, PortOK(p) PROVE Kept(p.mbox, p.mbox) /\ Apart(p.mbox, p.mbox)
<1>1. Len(p.mbox) \in Nat
  BY DEF PortOK
<1> QED
  BY <1>1 DEF Kept, Apart

LEMMA QuietlyNot == ASSUME NEW p, PortOK(p) PROVE Quietly(p, p)
  BY KeptNot DEF Quietly

LEMMA QuietlyTwice ==
  ASSUME NEW p, NEW q, NEW r, PortOK(p), Quietly(p, q), Quietly(q, r)
  PROVE  Quietly(p, r)
<1>1. p.mbox \in Seq(JobSet) /\ q.mbox \in Seq(JobSet) /\ r.mbox \in Seq(JobSet)
  BY DEF Quietly, PortOK
<1>2. Kept(p.mbox, r.mbox)
  BY <1>1, KeptTwice DEF Quietly
<1>3. Apart(p.mbox, r.mbox)
  BY <1>1, ApartTwice DEF Quietly, Kept
<1> QED
  BY <1>2, <1>3 DEF Quietly

LEMMA QuietlyPortOK == ASSUME NEW p, NEW q, Quietly(p, q) PROVE PortOK(q)
  BY DEF Quietly

LEMMA BelowQuietly == ASSUME NEW p, NEW q, Below(p, q) PROVE Quietly(p, q)
  BY ClearApart DEF Below, Still, Unseen, Quietly, Grows, Kept

LEMMA QuietlySet ==
  ASSUME NEW p, PortOK(p), NEW x, DsOK(x), x.state = p.ds.state,
         x.pending = p.ds.pending, x.id = p.ds.id, x.valid = p.ds.valid
  PROVE  Quietly(p, [p EXCEPT !.ds = x])
<1> DEFINE q == [p EXCEPT !.ds = x]
<1>1. PortOK(q)
  BY SetDs, UnseenPortOK
<1>2. q.ds = x /\ q.cm = p.cm /\ q.mbox = p.mbox
  BY DEF PortOK, PortFields
<1> HIDE DEF q
<1>3. Quietly(p, q)
  BY <1>1, <1>2, KeptNot DEF Quietly
<1> QED
  BY <1>3 DEF q

LEMMA QuietFields ==
  ASSUME NEW p, PortOK(p)
  PROVE  /\ \A v : Quietly(p, [p EXCEPT !.ds.event = v])
         /\ \A v : Quietly(p, [p EXCEPT !.ds.enable = v])
         /\ \A v : Quietly(p, [p EXCEPT !.ds.answer = v])
         /\ \A v \in DsFaults : Quietly(p, [p EXCEPT !.ds.fault = v])
         /\ \A v \in 0..Parameters : Quietly(p, [p EXCEPT !.ds.pos = v])
<1>0. DOMAIN p = PortFields /\ DsOK(p.ds)
  BY DEF PortOK
<1>1. ASSUME NEW v
      PROVE  /\ [p EXCEPT !.ds.event = v] = [p EXCEPT !.ds = [p.ds EXCEPT !.event = v]]
             /\ [p EXCEPT !.ds.enable = v] = [p EXCEPT !.ds = [p.ds EXCEPT !.enable = v]]
             /\ [p EXCEPT !.ds.answer = v] = [p EXCEPT !.ds = [p.ds EXCEPT !.answer = v]]
             /\ [p EXCEPT !.ds.fault = v] = [p EXCEPT !.ds = [p.ds EXCEPT !.fault = v]]
             /\ [p EXCEPT !.ds.pos = v] = [p EXCEPT !.ds = [p.ds EXCEPT !.pos = v]]
  BY <1>0 DEF PortFields
<1>2. ASSUME NEW v PROVE Quietly(p, [p EXCEPT !.ds.event = v])
  <2> DEFINE x == [p.ds EXCEPT !.event = v]
  <2>1. /\ DsOK(x) /\ x.state = p.ds.state
        /\ x.pending = p.ds.pending /\ x.id = p.ds.id /\ x.valid = p.ds.valid
    BY <1>0 DEF DsOK
  <2> HIDE DEF x
  <2>2. Quietly(p, [p EXCEPT !.ds = x])
    BY <2>1, QuietlySet
  <2> QED
    BY <1>1, <2>2 DEF x
<1>3. ASSUME NEW v PROVE Quietly(p, [p EXCEPT !.ds.enable = v])
  <2> DEFINE x == [p.ds EXCEPT !.enable = v]
  <2>1. /\ DsOK(x) /\ x.state = p.ds.state
        /\ x.pending = p.ds.pending /\ x.id = p.ds.id /\ x.valid = p.ds.valid
    BY <1>0 DEF DsOK
  <2> HIDE DEF x
  <2>2. Quietly(p, [p EXCEPT !.ds = x])
    BY <2>1, QuietlySet
  <2> QED
    BY <1>1, <2>2 DEF x
<1>4. ASSUME NEW v PROVE Quietly(p, [p EXCEPT !.ds.answer = v])
  <2> DEFINE x == [p.ds EXCEPT !.answer = v]
  <2>1. /\ DsOK(x) /\ x.state = p.ds.state
        /\ x.pending = p.ds.pending /\ x.id = p.ds.id /\ x.valid = p.ds.valid
    BY <1>0 DEF DsOK
  <2> HIDE DEF x
  <2>2. Quietly(p, [p EXCEPT !.ds = x])
    BY <2>1, QuietlySet
  <2> QED
    BY <1>1, <2>2 DEF x
<1>5. ASSUME NEW v \in DsFaults PROVE Quietly(p, [p EXCEPT !.ds.fault = v])
  <2> DEFINE x == [p.ds EXCEPT !.fault = v]
  <2>1. /\ DsOK(x) /\ x.state = p.ds.state
        /\ x.pending = p.ds.pending /\ x.id = p.ds.id /\ x.valid = p.ds.valid
    BY <1>0 DEF DsOK
  <2> HIDE DEF x
  <2>2. Quietly(p, [p EXCEPT !.ds = x])
    BY <2>1, QuietlySet
  <2> QED
    BY <1>1, <2>2 DEF x
<1>6. ASSUME NEW v \in 0..Parameters PROVE Quietly(p, [p EXCEPT !.ds.pos = v])
  <2> DEFINE x == [p.ds EXCEPT !.pos = v]
  <2>1. /\ DsOK(x) /\ x.state = p.ds.state
        /\ x.pending = p.ds.pending /\ x.id = p.ds.id /\ x.valid = p.ds.valid
    BY <1>0 DEF DsOK
  <2> HIDE DEF x
  <2>2. Quietly(p, [p EXCEPT !.ds = x])
    BY <2>1, QuietlySet
  <2> QED
    BY <1>1, <2>2 DEF x
<1> QED
  BY <1>2, <1>3, <1>4, <1>5, <1>6

\* Asking the device for something, and raising an event
LEMMA QuietServices ==
  ASSUME NEW p, PortOK(p)
  PROVE  /\ Quietly(p, DsRead(p)) /\ Quietly(p, DsWrite(p))
         /\ \A e : Quietly(p, Raises(p, e)) /\ Quietly(p, Raises(DsRead(p), e))
<1>1. Quietly(p, DsRead(p)) /\ Quietly(p, DsWrite(p))
  BY AL_ReadWriteStep, BelowQuietly DEF DsRead, DsWrite, Under
<1>2. ASSUME NEW e PROVE Quietly(p, Raises(p, e))
  BY QuietFields DEF Raises
<1>3. ASSUME NEW e PROVE Quietly(p, Raises(DsRead(p), e))
  <2> DEFINE q == DsRead(p)
  <2>1. Quietly(p, q) /\ PortOK(q)
    BY <1>1, QuietlyPortOK
  <2> HIDE DEF q
  <2>2. Quietly(p, Raises(q, e))
    BY <2>1, QuietFields, QuietlyTwice DEF Raises
  <2> QED
    BY <2>2 DEF q
<1> QED
  BY <1>1, <1>2, <1>3

\* A report to the configuration manager, and an event raised after it
Reported(p, q, type) ==
  /\ PortOK(q) /\ q.cm = p.cm
  /\ q.ds.state = p.ds.state /\ q.ds.pending = p.ds.pending
  /\ q.ds.id = p.ds.id /\ q.ds.valid = p.ds.valid
  /\ Kept(p.mbox, q.mbox) /\ OneMore(p.mbox, q.mbox, type)

LEMMA ReportedThen ==
  ASSUME NEW p, NEW q, NEW r, NEW type, PortOK(p)
  PROVE  /\ Reported(p, q, type) /\ Quietly(q, r) => Reported(p, r, type)
         /\ Quietly(p, q) /\ Reported(q, r, type) => Reported(p, r, type)
<1>1. ASSUME Reported(p, q, type), Quietly(q, r) PROVE Reported(p, r, type)
  <2>1. p.mbox \in Seq(JobSet) /\ q.mbox \in Seq(JobSet) /\ r.mbox \in Seq(JobSet)
    BY <1>1 DEF Reported, Quietly, PortOK
  <2>2. Kept(p.mbox, r.mbox) /\ OneMore(p.mbox, r.mbox, type)
    BY <1>1, <2>1, KeptTwice, OneMoreThen DEF Reported, Quietly
  <2> QED
    BY <1>1, <2>2 DEF Reported, Quietly
<1>2. ASSUME Quietly(p, q), Reported(q, r, type) PROVE Reported(p, r, type)
  <2>1. p.mbox \in Seq(JobSet) /\ q.mbox \in Seq(JobSet) /\ r.mbox \in Seq(JobSet)
    BY <1>2 DEF Reported, Quietly, PortOK
  <2>2. Kept(p.mbox, r.mbox) /\ OneMore(p.mbox, r.mbox, type)
    BY <1>2, <2>1, KeptTwice, OneMoreThen DEF Reported, Quietly
  <2> QED
    BY <1>2, <2>2 DEF Reported, Quietly
<1> QED
  BY <1>1, <1>2

LEMMA Reports ==
  ASSUME NEW p, PortOK(p)
  PROVE  /\ Reported(p, DS_Ready(p), "DS_READY")
         /\ \A fault \in DsFaults : Reported(p, DS_Fault(p, fault), "DS_FAULT")
<1>0. p.mbox \in Seq(JobSet)
  BY DEF PortOK
<1>1. ASSUME NEW job \in JobSet PROVE Reported(p, Post(p, job), job.type)
  <2> DEFINE q == Post(p, job)
  <2>1. PortOK(q) /\ q.mbox = Append(p.mbox, job) /\ q.ds = p.ds /\ q.cm = p.cm
    BY Posted
  <2> HIDE DEF q
  <2>2. Kept(p.mbox, q.mbox) /\ OneMore(p.mbox, q.mbox, job.type)
    BY <1>0, <2>1, AppendedOne
  <2>3. Reported(p, q, job.type)
    BY <2>1, <2>2 DEF Reported
  <2> QED
    BY <2>3 DEF q
<1>2. [type |-> "DS_READY"] \in JobSet
  BY DEF JobSet, QuietJobs
<1>3. ASSUME NEW fault \in DsFaults PROVE [type |-> "DS_FAULT", fault |-> fault] \in JobSet
  BY DEF JobSet, QuietJobs
<1>4. Reported(p, DS_Ready(p), "DS_READY")
  BY <1>1, <1>2 DEF DS_Ready
<1>5. ASSUME NEW fault \in DsFaults PROVE Reported(p, DS_Fault(p, fault), "DS_FAULT")
  <2> DEFINE job == [type |-> "DS_FAULT", fault |-> fault]
  <2>1. Reported(p, Post(p, job), job.type)
    BY <1>1, <1>3
  <2> QED
    BY <2>1 DEF DS_Fault
<1> QED
  BY <1>4, <1>5

\* What an action changes: a set is deleted by one of them only; two report to the
\* configuration manager.
Acted(p, r, action, event) ==
  /\ PortOK(r) /\ r.cm = p.cm
  /\ r.ds.pending = p.ds.pending
  /\ IF action = "delete" THEN ~r.ds.valid
     ELSE r.ds.id = p.ds.id /\ r.ds.valid = p.ds.valid
  /\ r.ds.event \in DsRaised(action, event)
  /\ action = "chk_validity" /\ r.ds.event = "PASSED" => p.ds.valid
  /\ action = "reinit" => r.ds.event = IF p.ds.enable THEN "ENABLE" ELSE "CLR_DISA"
  /\ Kept(p.mbox, r.mbox)
  /\ IF action = "ready" \/ (action = "off" /\ event = "STARTUP")
     THEN OneMore(p.mbox, r.mbox, "DS_READY")
     ELSE IF action = "fault" /\ event \notin {"FAULT_UL", "FAULT_DL"}
     THEN OneMore(p.mbox, r.mbox, "DS_FAULT")
     ELSE Apart(p.mbox, r.mbox)

\* The actions that do not report
LEMMA QuietActions ==
  ASSUME NEW p, PortOK(p), NEW action \in DsActions, NEW event,
         DsFits(action, event, p.ds.pos),
         action \notin {"delete", "ready"}, action = "off" => event # "STARTUP",
         action = "fault" => event \in {"FAULT_UL", "FAULT_DL"}
  PROVE  Quietly(p, DsAct(p, action, event))
<1>0. /\ p.ds.pos \in 0..Parameters /\ Parameters \in Nat
      /\ DOMAIN p = PortFields /\ DOMAIN p.ds = {"state", "enable", "upload", "download",
           "fault", "pending", "id", "valid", "pos", "answer", "event"}
  BY DataStorageAssumption DEF PortOK, DsOK
<1> DEFINE r == DsAct(p, action, event)
<1>1. CASE action \in {"none", "off"}
  <2>1. r = p
    BY <1>1 DEF DsAct
  <2> QED
    BY <2>1, QuietlyNot
<1>2. CASE action \in {"readparam", "init_dl", "dl_done"}
  <2>1. r \in {DsRead(p), DsWrite(p)}
    BY <1>2 DEF DsAct
  <2> QED
    BY <2>1, QuietServices
<1>3. CASE action \in {"reinit", "chk_id", "chk_mem_size", "chk_upload", "chk_validity",
                       "chk_csum", "ul_fault", "dl_fault"}
  <2> DEFINE raised == {"ENABLE", "CLR_DISA", "FAULT_ID", "FAULT_SIZE", "FAULT_LOCK",
                        "PASSED", "DOWNLOAD", "READY", "FAULT_UL", "FAULT_DL"}
  <2>1. r \in {DsRead(p), DsWrite(p)} \union {Raises(p, e) : e \in raised}
    <3>1. CASE action = "reinit"
      BY <3>1 DEF DsAct
    <3>2. CASE action = "chk_id"
      BY <3>2 DEF DsAct
    <3>3. CASE action = "chk_mem_size"
      BY <3>3 DEF DsAct
    <3>4. CASE action = "chk_upload"
      <4>1. r = CASE p.ds.answer = "locked" -> Raises(p, "FAULT_LOCK")
                  [] p.ds.answer = "upload" /\ p.ds.upload -> DsWrite(p)
                  [] OTHER -> DsRead(p)
        BY <3>4 DEF DsAct
      <4> HIDE DEF r
      <4>2. r \in {Raises(p, "FAULT_LOCK"), DsWrite(p), DsRead(p)}
        BY <4>1
      <4> QED
        BY <4>2
    <3>5. CASE action = "chk_validity"
      BY <3>5 DEF DsAct
    <3>6. CASE action = "chk_csum"
      BY <3>6 DEF DsAct
    <3>7. CASE action = "ul_fault"
      BY <3>7 DEF DsAct
    <3>8. CASE action = "dl_fault"
      BY <3>8 DEF DsAct
    <3> QED
      BY <1>3, <3>1, <3>2, <3>3, <3>4, <3>5, <3>6, <3>7, <3>8
  <2> QED
    BY <2>1, QuietServices
<1>4. CASE action = "fault"
  <2>1. event \in {"FAULT_UL", "FAULT_DL"} /\ r = DsFaultAction(p, event)
    BY <1>4 DEF DsAct
  <2>2. r \in {DsWrite([p EXCEPT !.ds.fault = "UP"]), DsWrite([p EXCEPT !.ds.fault = "DOWN"])}
    BY <2>1 DEF DsFaultAction
  <2>3. ASSUME NEW v \in DsFaults PROVE Quietly(p, DsWrite([p EXCEPT !.ds.fault = v]))
    <3> DEFINE q == [p EXCEPT !.ds.fault = v]
    <3>1. Quietly(p, q) /\ PortOK(q)
      BY QuietFields, QuietlyPortOK
    <3> HIDE DEF q
    <3>2. Quietly(p, DsWrite(q))
      BY <3>1, QuietServices, QuietlyTwice
    <3> QED
      BY <3>2 DEF q
  <2> QED
    BY <2>2, <2>3 DEF DsFaults
<1>5. ASSUME NEW v \in 0..Parameters, NEW e PROVE Quietly(p, Raises([p EXCEPT !.ds.pos = v], e))
  <2> DEFINE q == [p EXCEPT !.ds.pos = v]
  <2>1. Quietly(p, q) /\ PortOK(q)
    BY QuietFields, QuietlyPortOK
  <2> HIDE DEF q
  <2>2. Quietly(p, Raises(q, e))
    BY <2>1, QuietServices, QuietlyTwice
  <2> QED
    BY <2>2 DEF q
<1>6. CASE action = "upload"
  <2>1. event \in {"DO_UPLOAD", "READ_DONE"} /\ r = DsUploadAction(p, event)
    BY <1>6 DEF DsAct, DsFits
  <2>2. CASE event = "DO_UPLOAD"
    <3>1. r = Raises([p EXCEPT !.ds.pos = 0], "MORE_DATA")
      BY <2>1, <2>2 DEF DsUploadAction
    <3> QED
      BY <1>0, <1>5, <3>1
  <2>3. CASE event = "READ_DONE" /\ p.ds.pos < Parameters
    <3> DEFINE n == p.ds.pos + 1
    <3>1. r = Raises([p EXCEPT !.ds.pos = n], "MORE_DATA")
      BY <2>1, <2>3 DEF DsUploadAction
    <3>2. n \in 0..Parameters
      BY <1>0, <2>3
    <3> HIDE DEF n
    <3> QED
      BY <1>5, <3>1, <3>2
  <2>4. CASE event = "READ_DONE" /\ ~(p.ds.pos < Parameters)
    <3>1. r = Raises(DsRead(p), "STORE_DATA")
      BY <2>1, <2>4 DEF DsUploadAction
    <3> QED
      BY <3>1, QuietServices
  <2> QED
    BY <2>1, <2>2, <2>3, <2>4
<1>7. CASE action = "decompose_set"
  <2>1. r = DsDecomposeAction(p, event)
    BY <1>7 DEF DsAct
  <2>2. CASE event = "DOWNLOAD"
    <3> DEFINE q == [p EXCEPT !.ds.pos = 0]
               e == IF q.ds.pos >= Parameters THEN "DL_DONE" ELSE "MORE_DATA"
    <3>1. r = Raises(q, e)
      BY <2>1, <2>2 DEF DsDecomposeAction
    <3> HIDE DEF e
    <3> QED
      BY <1>0, <1>5, <3>1
  <2>3. CASE event # "DOWNLOAD"
    <3> DEFINE e == IF p.ds.pos >= Parameters THEN "DL_DONE" ELSE "MORE_DATA"
    <3>1. r = Raises(p, e)
      BY <2>1, <2>3 DEF DsDecomposeAction
    <3> HIDE DEF e
    <3> QED
      BY <3>1, QuietServices
  <2> QED
    BY <2>2, <2>3
<1>8. CASE action = "write_param"
  <2> DEFINE n == p.ds.pos + 1
             q == [p EXCEPT !.ds.pos = n]
  <2>1. r = DsWrite(q)
    BY <1>8 DEF DsAct
  <2>2. n \in 0..Parameters
    BY <1>0, <1>8 DEF DsFits
  <2> HIDE DEF n
  <2>3. Quietly(p, q) /\ PortOK(q)
    BY <2>2, QuietFields, QuietlyPortOK
  <2> HIDE DEF q
  <2>4. Quietly(p, DsWrite(q))
    BY <2>3, QuietServices, QuietlyTwice
  <2> QED
    BY <2>1, <2>4
<1> QED
  BY <1>1, <1>2, <1>3, <1>4, <1>6, <1>7, <1>8 DEF DsActions

LEMMA DsActActed ==
  ASSUME NEW p, PortOK(p), p.ds.event = "NONE", NEW action \in DsActions, NEW event,
         DsFits(action, event, p.ds.pos)
  PROVE  Acted(p, DsAct(p, action, event), action, event)
<1>0. DOMAIN p = PortFields /\ DsOK(p.ds)
  BY DEF PortOK
<1> DEFINE r == DsAct(p, action, event)
<1>1. PortOK(r) /\ r.ds.event \in DsRaised(action, event)
  BY DsActStep DEF DsDone, Unseen
<1>2. CASE action \notin {"delete", "ready"} /\ (action = "off" => event # "STARTUP")
           /\ (action = "fault" => event \in {"FAULT_UL", "FAULT_DL"})
  <2>1. Quietly(p, r)
    BY <1>2, QuietActions
  <2>2. action = "chk_validity" /\ r.ds.event = "PASSED" => p.ds.valid
    <3>1. SUFFICES ASSUME action = "chk_validity", ~p.ds.valid PROVE r.ds.event # "PASSED"
      OBVIOUS
    <3>2. r = DsWrite(p)
      BY <3>1 DEF DsAct
    <3>3. DsWrite(p).ds = p.ds
      BY AL_ReadWriteStep DEF DsWrite, Under, Below
    <3> QED
      BY <3>2, <3>3
  <2>3. action = "reinit" => r.ds.event = IF p.ds.enable THEN "ENABLE" ELSE "CLR_DISA"
    <3>1. SUFFICES ASSUME action = "reinit"
                   PROVE  r.ds.event = IF p.ds.enable THEN "ENABLE" ELSE "CLR_DISA"
      OBVIOUS
    <3> DEFINE e == IF p.ds.enable THEN "ENABLE" ELSE "CLR_DISA"
    <3>2. r = Raises(p, e)
      BY <3>1 DEF DsAct
    <3> HIDE DEF e
    <3>3. r.ds.event = e
      BY <1>0, <3>2 DEF Raises, PortFields, DsOK
    <3> QED
      BY <3>3 DEF e
  <2> HIDE DEF r
  <2>4. Acted(p, r, action, event)
    BY <1>1, <1>2, <2>1, <2>2, <2>3 DEF Quietly, Acted
  <2> QED
    BY <2>4 DEF r
<1>3. CASE action = "delete"
  <2> DEFINE x == [p.ds EXCEPT !.id = "nobody", !.valid = FALSE]
  <2>1. r = [p EXCEPT !.ds = x]
    <3>1. r = [p EXCEPT !.ds.id = "nobody", !.ds.valid = FALSE]
      BY <1>3 DEF DsAct
    <3> QED
      BY <1>0, <3>1 DEF PortFields, DsOK
  <2>2. x.valid = FALSE /\ x.pending = p.ds.pending
    BY <1>0 DEF DsOK
  <2> HIDE DEF x
  <2>3. r.ds = x /\ r.cm = p.cm /\ r.mbox = p.mbox
    BY <1>0, <2>1 DEF PortFields
  <2> HIDE DEF r
  <2>4. Acted(p, r, action, event)
    BY <1>1, <1>3, <2>2, <2>3, KeptNot DEF Acted
  <2> QED
    BY <2>4 DEF r
<1>4. CASE action = "ready"
  <2> DEFINE q == DS_Ready(p)
  <2>1. r = Raises(q, "READY")
    BY <1>4 DEF DsAct
  <2>2. Reported(p, q, "DS_READY") /\ PortOK(q)
    BY Reports DEF Reported
  <2> HIDE DEF q
  <2>3. Reported(p, r, "DS_READY")
    BY <2>1, <2>2, QuietServices, ReportedThen
  <2> HIDE DEF r
  <2>4. Acted(p, r, action, event)
    BY <1>1, <1>4, <2>3 DEF Acted, Reported
  <2> QED
    BY <2>4 DEF r
<1>5. CASE action = "off" /\ event = "STARTUP"
  <2>1. r = DS_Ready(p)
    BY <1>5 DEF DsAct
  <2>2. Reported(p, r, "DS_READY")
    BY <2>1, Reports
  <2> HIDE DEF r
  <2>3. Acted(p, r, action, event)
    BY <1>1, <1>5, <2>2 DEF Acted, Reported
  <2> QED
    BY <2>3 DEF r
<1>6. CASE action = "fault" /\ event \notin {"FAULT_UL", "FAULT_DL"}
  <2>1. r = DsFaultAction(p, event) /\ event \in {"FAULT_ID", "FAULT_SIZE", "FAULT_LOCK"}
    BY <1>6 DEF DsAct, DsFits, DsFaultKinds
  <2>2. ASSUME NEW q, Quietly(p, q), NEW fault \in DsFaults
        PROVE  Reported(p, Raises(DS_Fault(q, fault), "FAULT_DONE"), "DS_FAULT")
    <3> DEFINE s == DS_Fault(q, fault)
    <3>1. PortOK(q)
      BY <2>2, QuietlyPortOK
    <3>2. Reported(q, s, "DS_FAULT")
      BY <3>1, Reports
    <3>3. Reported(p, s, "DS_FAULT") /\ PortOK(s)
      BY <2>2, <3>2, ReportedThen DEF Reported
    <3> HIDE DEF s
    <3>4. Quietly(s, Raises(s, "FAULT_DONE"))
      BY <3>3, QuietServices
    <3>5. Reported(p, Raises(s, "FAULT_DONE"), "DS_FAULT")
      BY <3>3, <3>4, ReportedThen
    <3> QED
      BY <3>5 DEF s
  <2>3. Reported(p, r, "DS_FAULT")
    <3>1. CASE event = "FAULT_ID"
      <4>1. r = Raises(DS_Fault(p, "ID"), "FAULT_DONE")
        BY <2>1, <3>1 DEF DsFaultAction
      <4> QED
        BY <2>2, <4>1, QuietlyNot DEF DsFaults
    <3>2. CASE event = "FAULT_SIZE"
      <4>1. r = Raises(DS_Fault(p, "SIZE"), "FAULT_DONE")
        BY <2>1, <3>2 DEF DsFaultAction
      <4> QED
        BY <2>2, <4>1, QuietlyNot DEF DsFaults
    <3>3. CASE event = "FAULT_LOCK"
      <4> DEFINE q == [p EXCEPT !.ds.enable = FALSE]
      <4>1. r = Raises(DS_Fault(q, "LOCK"), "FAULT_DONE")
        BY <2>1, <3>3 DEF DsFaultAction
      <4>2. Quietly(p, q)
        BY QuietFields
      <4> HIDE DEF q
      <4> QED
        BY <2>2, <4>1, <4>2 DEF DsFaults
    <3> QED
      BY <2>1, <3>1, <3>2, <3>3
  <2> HIDE DEF r
  <2>4. Acted(p, r, action, event)
    BY <1>1, <1>6, <2>3 DEF Acted, Reported
  <2> QED
    BY <2>4 DEF r
<1> QED
  BY <1>2, <1>3, <1>4, <1>5, <1>6

\* The rows of the table, by what they do to the set stored and what they report
Idle == {"CheckActivationState", "WaitingOnDSActivity", "Off"}
Settings == {"INIT", "DELETE", "ENABLE", "CLR_DISA"}
Losses == {"COM_ERR", "FAULT_UL", "FAULT_DL"}

HoldsSet(state, event) ==
  \/ state \in {"CheckChecksum", "Decompose_Set", "Write_Parameter", "Download_Done", "DS_Ready"}
  \/ state = "CheckDSValidity" /\ event = "PASSED"
  \/ state = "StoreDataSet" /\ event = "UL_DONE"

LEMMA DsRowsStorage ==
  ASSUME NEW row \in DsTransitions
  PROVE  /\ row[2] # "NONE"
         /\ row[4] = "delete" <=> row[2] = "DELETE"
         /\ row[4] = "reinit" <=> row[2] = "INIT"
         /\ row[1] \in Idle /\ row[2] \in Settings \union {"COM_ERR"} =>
              /\ row[3] \in Idle /\ row[4] \in {"none", "off", "delete", "reinit"}
              /\ row[2] = "INIT" => row[3] = "CheckActivationState"
              /\ row[2] = "ENABLE" => row[3] = "WaitingOnDSActivity" /\ row[4] = "none"
         /\ row[2] \notin Settings /\ row[3] = "Off" => row[1] = "Off"
         /\ row[4] = "ready" => row[3] = "DS_Ready" /\ HoldsSet(row[1], row[2])
         /\ row[4] = "off" => row[3] = "Off"
         /\ row[4] = "fault" => row[3] = "DS_Fault"
         /\ row[3] = "CheckDSValidity" => row[4] = "chk_validity"
         /\ HoldsSet(row[3], "NONE") => HoldsSet(row[1], row[2])
         /\ row[1] = "DS_Ready" => row[2] = "READY" /\ row[3] = "WaitingOnDSActivity"
                                     /\ row[4] = "none"
         /\ row[1] = "DS_Fault" => row[3] = "WaitingOnDSActivity" /\ row[4] = "none"
         /\ row[2] \in Losses => row[4] \in {"none", "ul_fault", "dl_fault", "fault"}
  BY SMTT(120) DEF DsTransitions, Idle, Settings, Losses, HoldsSet

\* There is a row for what has to go on.
LEMMA DsRowsThere ==
  /\ \A state \in Idle : \E row \in DsTransitions : row[1] = state /\ row[2] = "INIT"
  /\ \A state \in Idle : \E row \in DsTransitions : row[1] = state /\ row[2] = "DELETE"
  /\ \E row \in DsTransitions : row[1] = "CheckActivationState" /\ row[2] = "ENABLE"
  /\ \E row \in DsTransitions : row[1] = "DS_Ready" /\ row[2] = "READY"
  /\ \E row \in DsTransitions : row[1] = "DS_Fault" /\ row[2] = "FAULT_DONE"
<1>1. /\ <<"CheckActivationState", "INIT", "CheckActivationState", "reinit">> \in DsTransitions
      /\ <<"WaitingOnDSActivity", "INIT", "CheckActivationState", "reinit">> \in DsTransitions
      /\ <<"Off", "INIT", "CheckActivationState", "reinit">> \in DsTransitions
      /\ <<"CheckActivationState", "DELETE", "CheckActivationState", "delete">> \in DsTransitions
      /\ <<"WaitingOnDSActivity", "DELETE", "WaitingOnDSActivity", "delete">> \in DsTransitions
      /\ <<"Off", "DELETE", "Off", "delete">> \in DsTransitions
      /\ <<"CheckActivationState", "ENABLE", "WaitingOnDSActivity", "none">> \in DsTransitions
      /\ <<"DS_Ready", "READY", "WaitingOnDSActivity", "none">> \in DsTransitions
      /\ <<"DS_Fault", "FAULT_DONE", "WaitingOnDSActivity", "none">> \in DsTransitions
  BY DEF DsTransitions
<1> QED
  BY <1>1 DEF Idle

\* One turn of the loop: no row fits and the event is dropped, or one is taken.
LEMMA DsTurnOf ==
  ASSUME NEW p, PortOK(p), MoreIsLeft(p)
  PROVE  LET r == DsTurn(p) IN
         \/ /\ \A row \in DsTransitions : ~(row[1] = p.ds.state /\ row[2] = p.ds.event)
            /\ Quietly(p, r) /\ r.ds.event = "NONE"
         \/ \E row \in DsTransitions :
              /\ row[1] = p.ds.state /\ row[2] = p.ds.event
              /\ r.ds.state = row[3] /\ Acted(p, r, row[4], row[2])
<1>0. DOMAIN p = PortFields /\ DsOK(p.ds)
  BY DEF PortOK
<1> DEFINE rows == {row \in DsTransitions : row[1] = p.ds.state /\ row[2] = p.ds.event}
<1>3. ASSUME NEW state, NEW event
      PROVE  [p EXCEPT !.ds.state = state, !.ds.event = event]
               = [p EXCEPT !.ds = [p.ds EXCEPT !.state = state, !.event = event]]
  BY <1>0 DEF PortFields, DsOK
<1>1. CASE rows = {}
  <2>1. DsTurn(p) = Raises(p, "NONE")
    BY <1>1 DEF DsTurn
  <2>2. Quietly(p, DsTurn(p))
    BY <2>1, QuietServices
  <2>3. DsTurn(p).ds.event = "NONE"
    BY <1>0, <2>1 DEF Raises, PortFields, DsOK
  <2> QED
    BY <1>1, <2>2, <2>3
<1>2. CASE rows # {}
  <2> DEFINE row == CHOOSE r \in rows : TRUE
             x == [p.ds EXCEPT !.state = row[3], !.event = "NONE"]
             q == [p EXCEPT !.ds = x]
             r == DsAct(q, row[4], p.ds.event)
  <2>1. row \in rows
    BY <1>2
  <2>2. [p EXCEPT !.ds.state = row[3], !.ds.event = "NONE"] = q
    BY <1>3, ZenonT(60)
  <2>3. DsTurn(p) = r
    BY <1>2, <2>2 DEF DsTurn
  <2> HIDE DEF row
  <2>4. row \in DsTransitions /\ row[1] = p.ds.state /\ row[2] = p.ds.event
    BY <2>1
  <2>5. row[3] \in StatesOf(DsTransitions) /\ row[4] \in DsActions
    BY <2>4, DsRows
  <2>6. /\ DsOK(x) /\ x.pos = p.ds.pos /\ x.state = row[3] /\ x.event = "NONE"
        /\ x.pending = p.ds.pending /\ x.id = p.ds.id /\ x.valid = p.ds.valid
        /\ x.enable = p.ds.enable
    BY <1>0, <2>5 DEF DsOK
  <2> HIDE DEF x
  <2>7. PortOK(q)
    BY <2>6, SetDs, UnseenPortOK
  <2>8. q.ds = x /\ q.cm = p.cm /\ q.mbox = p.mbox
    BY <1>0 DEF PortFields
  <2>9. DsFits(row[4], p.ds.event, q.ds.pos)
    BY <2>4, <2>6, <2>8, DsRows DEF DsFits, MoreIsLeft
  <2> HIDE DEF q
  <2>10. Acted(q, r, row[4], p.ds.event)
    BY <2>5, <2>6, <2>7, <2>8, <2>9, DsActActed
  <2>11. r.ds.state = q.ds.state
    BY <2>5, <2>6, <2>7, <2>8, <2>9, DsActStep DEF DsDone
  <2> HIDE DEF r
  <2>12. Acted(p, r, row[4], row[2]) /\ r.ds.state = row[3]
    BY <2>4, <2>6, <2>8, <2>10, <2>11 DEF Acted
  <2> QED
    BY <2>3, <2>4, <2>12
<1> QED
  BY <1>1, <1>2

-----------------------------------------------------------------------------
(* Events of data storage while it is at rest, and of a transfer *)

\* Data storage is told something while it is at rest: it stays at rest, reports nothing, and
\* no set is stored.
Rested(p, q) ==
  /\ PortOK(q) /\ q.cm = p.cm /\ q.ds.pending = p.ds.pending
  /\ q.ds.state \in Idle /\ q.ds.event \in Settings \union {"COM_ERR", "NONE"}
  /\ q.ds.valid => p.ds.valid /\ q.ds.id = p.ds.id
  /\ Kept(p.mbox, q.mbox) /\ Apart(p.mbox, q.mbox)

LEMMA RestedTurn ==
  ASSUME NEW p, NEW q, PortOK(p), Rested(p, q)
  PROVE  LET r == DsTurn(q) IN
         /\ Rested(p, r)
         /\ q.ds.event = "DELETE" => ~r.ds.valid
         /\ q.ds.event = "INIT" /\ q.ds.enable =>
              r.ds.state = "CheckActivationState" /\ r.ds.event = "ENABLE"
         /\ q.ds.state = "CheckActivationState" /\ q.ds.event = "ENABLE" =>
              r.ds.state = "WaitingOnDSActivity" /\ r.ds.event = "NONE"
         /\ q.ds.event = "NONE" => r.ds.state = q.ds.state /\ r.ds.event = "NONE"
<1> DEFINE r == DsTurn(q)
<1>1. PortOK(q) /\ MoreIsLeft(q)
  BY DEF Rested, MoreIsLeft, Settings, Idle
<1>2. p.mbox \in Seq(JobSet) /\ q.mbox \in Seq(JobSet)
  BY DEF Rested, PortOK
<1>3. CASE /\ \A row \in DsTransitions : ~(row[1] = q.ds.state /\ row[2] = q.ds.event)
           /\ Quietly(q, r) /\ r.ds.event = "NONE"
  <2>1. r.mbox \in Seq(JobSet)
    BY <1>3 DEF Quietly, PortOK
  <2> HIDE DEF r
  <2>2. Kept(p.mbox, r.mbox)
    BY <1>2, <1>3, <2>1, KeptTwice DEF Quietly, Rested
  <2>3. Apart(p.mbox, r.mbox)
    BY <1>2, <1>3, <2>1, ApartTwice DEF Quietly, Rested, Kept
  <2>4. Rested(p, r)
    BY <1>3, <2>2, <2>3 DEF Rested, Quietly
  <2>5. /\ q.ds.event \notin {"DELETE", "INIT"}
        /\ ~(q.ds.state = "CheckActivationState" /\ q.ds.event = "ENABLE")
    BY <1>3, DsRowsThere DEF Rested
  <2>6. r.ds.state = q.ds.state
    BY <1>3 DEF Quietly
  <2> QED
    BY <1>3, <2>4, <2>5, <2>6 DEF r
<1>4. ASSUME NEW row \in DsTransitions, row[1] = q.ds.state, row[2] = q.ds.event,
             r.ds.state = row[3], Acted(q, r, row[4], row[2])
      PROVE  /\ Rested(p, r)
             /\ q.ds.event = "DELETE" => ~r.ds.valid
             /\ q.ds.event = "INIT" /\ q.ds.enable =>
                  r.ds.state = "CheckActivationState" /\ r.ds.event = "ENABLE"
             /\ q.ds.state = "CheckActivationState" /\ q.ds.event = "ENABLE" =>
                  r.ds.state = "WaitingOnDSActivity" /\ r.ds.event = "NONE"
             /\ q.ds.event # "NONE"
  <2> HIDE DEF r
  <2>1. r.mbox \in Seq(JobSet)
    BY <1>4 DEF Acted, PortOK
  <2>2. /\ row[2] # "NONE" /\ row[3] \in Idle
        /\ row[4] \in {"none", "off", "delete", "reinit"}
        /\ row[4] = "delete" <=> row[2] = "DELETE"
        /\ row[4] = "reinit" <=> row[2] = "INIT"
        /\ row[2] = "INIT" => row[3] = "CheckActivationState"
        /\ row[2] = "ENABLE" => row[3] = "WaitingOnDSActivity" /\ row[4] = "none"
    BY <1>4, DsRowsStorage DEF Rested
  <2>3. row[2] # "STARTUP"
    BY <1>4 DEF Rested, Settings
  <2>4. Kept(q.mbox, r.mbox) /\ Apart(q.mbox, r.mbox)
    BY <1>4, <2>2, <2>3 DEF Acted
  <2>5. r.ds.event \in {"ENABLE", "CLR_DISA", "NONE"}
    BY <1>4, <2>2 DEF Acted, DsRaised
  <2>6. Kept(p.mbox, r.mbox)
    BY <1>2, <2>1, <2>4, KeptTwice DEF Rested
  <2>7. Apart(p.mbox, r.mbox)
    BY <1>2, <2>1, <2>4, ApartTwice DEF Rested, Kept
  <2>8. r.ds.valid => p.ds.valid /\ r.ds.id = p.ds.id
    BY <1>4 DEF Acted, Rested
  <2>9. Rested(p, r)
    BY <1>4, <2>2, <2>5, <2>6, <2>7, <2>8 DEF Rested, Acted, Settings
  <2>10. q.ds.event = "DELETE" => ~r.ds.valid
    BY <1>4, <2>2 DEF Acted
  <2>11. q.ds.event = "INIT" /\ q.ds.enable =>
           r.ds.state = "CheckActivationState" /\ r.ds.event = "ENABLE"
    BY <1>4, <2>2 DEF Acted
  <2>12. q.ds.event = "ENABLE" => r.ds.state = "WaitingOnDSActivity" /\ r.ds.event = "NONE"
    BY <1>4, <2>2 DEF Acted, DsRaised
  <2> QED
    BY <1>4, <2>2, <2>9, <2>10, <2>11, <2>12
<1>5. \/ /\ \A row \in DsTransitions : ~(row[1] = q.ds.state /\ row[2] = q.ds.event)
         /\ Quietly(q, r) /\ r.ds.event = "NONE"
      \/ \E row \in DsTransitions :
           /\ row[1] = q.ds.state /\ row[2] = q.ds.event
           /\ r.ds.state = row[3] /\ Acted(q, r, row[4], row[2])
  BY <1>1, DsTurnOf
<1> QED
  BY <1>3, <1>4, <1>5

\* Data storage works, or is asked to: what it reports it reports once and then comes to
\* rest; it reports that it is done only with a set stored, unless it is off.
Works(p, q) ==
  /\ PortOK(q) /\ q.cm = p.cm /\ q.ds.pending = p.ds.pending
  /\ \/ q.ds.id = p.ds.id /\ q.ds.valid = p.ds.valid
     \/ q.ds.id = p.ds.pending /\ q.ds.valid
  /\ q.ds.state = "Off" => p.ds.state = "Off"
  /\ q.ds.event \notin Settings
  /\ HoldsSet(q.ds.state, q.ds.event) => q.ds.valid
  /\ Kept(p.mbox, q.mbox)
  /\ \/ Apart(p.mbox, q.mbox)
     \/ /\ \/ q.ds.state = "DS_Ready" /\ q.ds.event = "READY"
           \/ q.ds.state = "DS_Fault" /\ q.ds.event = "FAULT_DONE"
           \/ q.ds.state \in Idle /\ q.ds.event = "NONE"
        /\ \/ OneMore(p.mbox, q.mbox, "DS_FAULT")
           \/ /\ OneMore(p.mbox, q.mbox, "DS_READY")
              /\ q.ds.valid \/ q.ds.state = "Off"

LEMMA WorksTurn ==
  ASSUME NEW p, NEW q, PortOK(p), MoreIsLeft(q), Works(p, q)
  PROVE  Works(p, DsTurn(q))
<1> DEFINE r == DsTurn(q)
<1>1. PortOK(q)
  BY DEF Works
<1>2. p.mbox \in Seq(JobSet) /\ q.mbox \in Seq(JobSet)
  BY DEF Works, PortOK
<1>3. CASE /\ \A row \in DsTransitions : ~(row[1] = q.ds.state /\ row[2] = q.ds.event)
           /\ Quietly(q, r) /\ r.ds.event = "NONE"
  <2>1. r.mbox \in Seq(JobSet)
    BY <1>3 DEF Quietly, PortOK
  <2> HIDE DEF r
  <2>2. Kept(p.mbox, r.mbox)
    BY <1>2, <1>3, <2>1, KeptTwice DEF Quietly, Works
  <2>3. ASSUME Apart(p.mbox, q.mbox) PROVE Apart(p.mbox, r.mbox)
    BY <1>2, <1>3, <2>1, <2>3, ApartTwice DEF Quietly, Works, Kept
  <2>4. ASSUME NEW type, OneMore(p.mbox, q.mbox, type) PROVE OneMore(p.mbox, r.mbox, type)
    BY <1>2, <1>3, <2>1, <2>4, OneMoreThen DEF Quietly, Works
  <2>5. /\ ~(q.ds.state = "DS_Ready" /\ q.ds.event = "READY")
        /\ ~(q.ds.state = "DS_Fault" /\ q.ds.event = "FAULT_DONE")
    BY <1>3, DsRowsThere
  <2>6. HoldsSet(r.ds.state, r.ds.event) => r.ds.valid
    BY <1>3 DEF Works, Quietly, HoldsSet
  <2>7. Works(p, r)
    BY <1>3, <2>2, <2>3, <2>4, <2>5, <2>6 DEF Works, Quietly, Settings
  <2> QED
    BY <2>7 DEF r
<1>4. ASSUME NEW row \in DsTransitions, row[1] = q.ds.state, row[2] = q.ds.event,
             r.ds.state = row[3], Acted(q, r, row[4], row[2])
      PROVE  Works(p, r)
  <2> HIDE DEF r
  <2>1. r.mbox \in Seq(JobSet)
    BY <1>4 DEF Acted, PortOK
  <2>2. row[2] # "NONE" /\ row[2] \notin Settings
    BY <1>4, DsRowsStorage DEF Works
  <2>3. row[4] # "delete" /\ row[4] # "reinit"
    BY <1>4, <2>2, DsRowsStorage DEF Settings
  <2>4. row[4] \in DsActions
    BY <1>4, DsRows
  <2>5. r.ds.event \notin Settings \union {"UL_DONE"}
    BY <1>4, <2>3, <2>4 DEF Acted, DsRaised, Settings, DsActions
  <2>6. r.ds.event = "PASSED" => row[4] = "chk_validity"
    BY <1>4, <2>3, <2>4 DEF Acted, DsRaised, DsActions
  <2>7. r.ds.id = q.ds.id /\ r.ds.valid = q.ds.valid
    BY <1>4, <2>3 DEF Acted
  <2>8. \/ r.ds.id = p.ds.id /\ r.ds.valid = p.ds.valid
        \/ r.ds.id = p.ds.pending /\ r.ds.valid
    BY <2>7 DEF Works
  <2>9. r.ds.state = "Off" => p.ds.state = "Off"
    BY <1>4, <2>2, DsRowsStorage DEF Works
  <2>10. HoldsSet(r.ds.state, r.ds.event) => r.ds.valid
    <3>1. SUFFICES ASSUME HoldsSet(r.ds.state, r.ds.event) PROVE r.ds.valid
      OBVIOUS
    <3>2. CASE r.ds.event = "PASSED"
      BY <1>4, <2>6, <2>7, <3>2 DEF Acted
    <3>3. CASE r.ds.event # "PASSED"
      <4>1. HoldsSet(row[3], "NONE")
        BY <1>4, <2>5, <3>1, <3>3 DEF HoldsSet
      <4>2. HoldsSet(q.ds.state, q.ds.event)
        BY <1>4, <4>1, DsRowsStorage
      <4> QED
        BY <2>7, <4>2 DEF Works
    <3> QED
      BY <3>2, <3>3
  <2>11. Kept(q.mbox, r.mbox)
    BY <1>4 DEF Acted
  <2>12. Kept(p.mbox, r.mbox)
    BY <1>2, <2>1, <2>11, KeptTwice DEF Works
  <2> DEFINE Good == \/ Apart(p.mbox, r.mbox)
                     \/ /\ \/ r.ds.state = "DS_Ready" /\ r.ds.event = "READY"
                           \/ r.ds.state = "DS_Fault" /\ r.ds.event = "FAULT_DONE"
                           \/ r.ds.state \in Idle /\ r.ds.event = "NONE"
                        /\ \/ OneMore(p.mbox, r.mbox, "DS_FAULT")
                           \/ /\ OneMore(p.mbox, r.mbox, "DS_READY")
                              /\ r.ds.valid \/ r.ds.state = "Off"
  <2>13. ASSUME Apart(p.mbox, q.mbox) PROVE Good
    <3>1. ASSUME Apart(q.mbox, r.mbox) PROVE Apart(p.mbox, r.mbox)
      BY <1>2, <2>1, <2>11, <2>13, <3>1, ApartTwice DEF Works, Kept
    <3>2. ASSUME NEW type, OneMore(q.mbox, r.mbox, type) PROVE OneMore(p.mbox, r.mbox, type)
      BY <1>2, <2>1, <2>11, <2>13, <3>2, OneMoreThen DEF Works
    <3>3. CASE row[4] = "ready"
      <4>1. OneMore(p.mbox, r.mbox, "DS_READY") /\ r.ds.event = "READY"
        BY <1>4, <3>2, <3>3 DEF Acted, DsRaised
      <4>2. r.ds.state = "DS_Ready" /\ r.ds.valid
        BY <1>4, <2>7, <3>3, DsRowsStorage DEF Works
      <4> QED
        BY <4>1, <4>2
    <3>4. CASE row[4] = "off" /\ row[2] = "STARTUP"
      <4>1. OneMore(p.mbox, r.mbox, "DS_READY") /\ r.ds.event = "NONE"
        BY <1>4, <3>2, <3>4 DEF Acted, DsRaised
      <4>2. r.ds.state = "Off"
        BY <1>4, <3>4, DsRowsStorage
      <4> QED
        BY <4>1, <4>2 DEF Idle
    <3>5. CASE row[4] = "fault" /\ row[2] \notin {"FAULT_UL", "FAULT_DL"}
      <4>1. OneMore(p.mbox, r.mbox, "DS_FAULT") /\ r.ds.event = "FAULT_DONE"
        BY <1>4, <3>2, <3>5 DEF Acted, DsRaised
      <4>2. r.ds.state = "DS_Fault"
        BY <1>4, <3>5, DsRowsStorage
      <4> QED
        BY <4>1, <4>2
    <3>6. CASE /\ row[4] # "ready" /\ ~(row[4] = "off" /\ row[2] = "STARTUP")
               /\ ~(row[4] = "fault" /\ row[2] \notin {"FAULT_UL", "FAULT_DL"})
      BY <1>4, <3>1, <3>6 DEF Acted
    <3> QED
      BY <3>3, <3>4, <3>5, <3>6
  <2>14. ASSUME ~Apart(p.mbox, q.mbox) PROVE Good
    <3>1. row[1] \in {"DS_Ready", "DS_Fault"}
      BY <1>4, <2>2, <2>14 DEF Works
    <3>2. row[3] = "WaitingOnDSActivity" /\ row[4] = "none"
      BY <1>4, <3>1, DsRowsStorage
    <3>3. Apart(q.mbox, r.mbox) /\ r.ds.event = "NONE"
      BY <1>4, <3>2 DEF Acted, DsRaised
    <3>4. ASSUME NEW type, OneMore(p.mbox, q.mbox, type) PROVE OneMore(p.mbox, r.mbox, type)
      BY <1>2, <2>1, <2>11, <3>3, <3>4, OneMoreThen DEF Works
    <3>5. \/ OneMore(p.mbox, q.mbox, "DS_FAULT")
          \/ /\ OneMore(p.mbox, q.mbox, "DS_READY")
             /\ q.ds.valid \/ q.ds.state = "Off"
      BY <2>14 DEF Works
    <3>6. q.ds.state # "Off"
      BY <1>4, <3>1
    <3> QED
      BY <1>4, <2>7, <3>2, <3>3, <3>4, <3>5, <3>6 DEF Idle
  <2>15. Good
    BY <2>13, <2>14
  <2>16. PortOK(r) /\ r.cm = p.cm /\ r.ds.pending = p.ds.pending
    BY <1>4 DEF Acted, Works
  <2> QED
    BY <2>5, <2>8, <2>9, <2>10, <2>12, <2>15, <2>16 DEF Works
<1>5. \/ /\ \A row \in DsTransitions : ~(row[1] = q.ds.state /\ row[2] = q.ds.event)
         /\ Quietly(q, r) /\ r.ds.event = "NONE"
      \/ \E row \in DsTransitions :
           /\ row[1] = q.ds.state /\ row[2] = q.ds.event
           /\ r.ds.state = row[3] /\ Acted(q, r, row[4], row[2])
  BY <1>1, DsTurnOf
<1> HIDE DEF r
<1> QED
  BY <1>3, <1>4, <1>5 DEF r

\* A service that fails: data storage reports nothing before the device has been told.
Fails(p, q) ==
  /\ PortOK(q) /\ q.ds.event \in Losses \union {"NONE"}
  /\ Kept(p.mbox, q.mbox) /\ Apart(p.mbox, q.mbox)

LEMMA FailsTurn ==
  ASSUME NEW p, NEW q, PortOK(p), MoreIsLeft(q), Fails(p, q)
  PROVE  Fails(p, DsTurn(q))
<1> DEFINE r == DsTurn(q)
<1>1. p.mbox \in Seq(JobSet) /\ q.mbox \in Seq(JobSet)
  BY DEF Fails, PortOK
<1>2. ASSUME NEW row \in DsTransitions, row[1] = q.ds.state, row[2] = q.ds.event,
             r.ds.state = row[3], Acted(q, r, row[4], row[2])
      PROVE  PortOK(r) /\ r.ds.event \in Losses \union {"NONE"}
               /\ Kept(q.mbox, r.mbox) /\ Apart(q.mbox, r.mbox)
  <2> HIDE DEF r
  <2>1. row[2] \in Losses /\ row[4] \in {"none", "ul_fault", "dl_fault", "fault"}
    BY <1>2, DsRowsStorage DEF Fails
  <2>2. row[4] = "fault" => row[2] \in {"FAULT_UL", "FAULT_DL"}
    BY <1>2, <2>1, DsRows DEF Losses, DsFaultKinds
  <2> QED
    BY <1>2, <2>1, <2>2 DEF Acted, DsRaised, Losses
<1>3. \/ Quietly(q, r) /\ r.ds.event = "NONE"
      \/ \E row \in DsTransitions :
           /\ row[1] = q.ds.state /\ row[2] = q.ds.event
           /\ r.ds.state = row[3] /\ Acted(q, r, row[4], row[2])
  BY DsTurnOf DEF Fails
<1> HIDE DEF r
<1>4. /\ PortOK(r) /\ r.ds.event \in Losses \union {"NONE"}
      /\ Kept(q.mbox, r.mbox) /\ Apart(q.mbox, r.mbox)
  BY <1>2, <1>3 DEF Quietly
<1>5. r.mbox \in Seq(JobSet)
  BY <1>4 DEF PortOK
<1>6. Kept(p.mbox, r.mbox)
  BY <1>1, <1>4, <1>5, KeptTwice DEF Fails
<1>7. Apart(p.mbox, r.mbox)
  BY <1>1, <1>4, <1>5, ApartTwice DEF Fails, Kept
<1>8. Fails(p, r)
  BY <1>4, <1>6, <1>7 DEF Fails
<1> QED
  BY <1>8 DEF r

-----------------------------------------------------------------------------
(* The callbacks of data storage *)

LEMMA DsEventTurns ==
  ASSUME NEW p, PortOK(p), NEW event, event # "MORE_DATA"
  PROVE  \E q0, q1, q2, q3 :
           /\ q0 = Raises(p, event) /\ q1 = DsTurn(q0) /\ q2 = DsTurn(q1) /\ q3 = DsTurn(q2)
           /\ DsEvent(p, event) = DsTurn(q3)
           /\ MoreIsLeft(q0) /\ MoreIsLeft(q1) /\ MoreIsLeft(q2) /\ MoreIsLeft(q3)
<1> DEFINE q0 == Raises(p, event)
           q1 == DsTurn(q0)
           q2 == DsTurn(q1)
           q3 == DsTurn(q2)
<1>1. DsEvent(p, event) = DsTurn(q3)
  BY DEF DsEvent
<1>2. PortOK(q0) /\ MoreIsLeft(q0)
  BY RaisesStep DEF Does, Unseen, MoreIsLeft
<1> HIDE DEF q0
<1>3. PortOK(q1) /\ MoreIsLeft(q1)
  BY <1>2, DsTurnStep, UnseenPortOK
<1> HIDE DEF q1
<1>4. PortOK(q2) /\ MoreIsLeft(q2)
  BY <1>3, DsTurnStep, UnseenPortOK
<1> HIDE DEF q2
<1>5. MoreIsLeft(q3)
  BY <1>4, DsTurnStep, UnseenPortOK
<1> QED
  BY <1>1, <1>2, <1>3, <1>4, <1>5 DEF q0, q1, q2

\* Raising an event changes nothing else.
LEMMA RaisesOnly ==
  ASSUME NEW p, PortOK(p), NEW event
  PROVE  LET q == Raises(p, event) IN
         /\ PortOK(q) /\ Quietly(p, q) /\ q.mbox = p.mbox
         /\ q.ds.event = event /\ q.ds.enable = p.ds.enable
<1> DEFINE q == Raises(p, event)
<1>1. Quietly(p, q) /\ PortOK(q)
  BY QuietServices, QuietlyPortOK
<1>2. q.mbox = p.mbox /\ q.ds.event = event /\ q.ds.enable = p.ds.enable
  BY DEF Raises, PortOK, PortFields, DsOK
<1> QED
  BY <1>1, <1>2

\* Orders, and a failure nobody expects, leave data storage at rest.
LEMMA RestedEvent ==
  ASSUME NEW p, PortOK(p), AtRest(p.ds), NEW event \in {"INIT", "DELETE", "COM_ERR"}
  PROVE  LET q == DsEvent(p, event) IN
         /\ Rested(p, q) /\ q.ds.event = "NONE"
         /\ event = "DELETE" => ~q.ds.valid
         /\ event = "INIT" /\ p.ds.enable => q.ds.state = "WaitingOnDSActivity"
<1>1. PICK q0, q1, q2, q3 :
           /\ q0 = Raises(p, event) /\ q1 = DsTurn(q0) /\ q2 = DsTurn(q1) /\ q3 = DsTurn(q2)
           /\ DsEvent(p, event) = DsTurn(q3)
  BY DsEventTurns
<1> DEFINE q == DsEvent(p, event)
<1>2. PortOK(q0) /\ Quietly(p, q0) /\ q0.ds.event = event /\ q0.ds.enable = p.ds.enable
  BY <1>1, RaisesOnly
<1>3. Rested(p, q0)
  BY <1>2 DEF Quietly, Rested, AtRest, Idle, Settings
<1>4. /\ Rested(p, q1)
      /\ event = "DELETE" => ~q1.ds.valid
      /\ event = "INIT" /\ p.ds.enable =>
           q1.ds.state = "CheckActivationState" /\ q1.ds.event = "ENABLE"
  BY <1>1, <1>2, <1>3, RestedTurn
<1>5. PortOK(q1) /\ Rested(q1, q1)
  BY <1>4, KeptNot DEF Rested
<1>6. /\ Rested(p, q2) /\ Rested(q1, q2)
      /\ event = "INIT" /\ p.ds.enable =>
           q2.ds.state = "WaitingOnDSActivity" /\ q2.ds.event = "NONE"
  BY <1>1, <1>4, <1>5, RestedTurn
<1>7. /\ Rested(p, q3) /\ Rested(q1, q3)
      /\ event = "INIT" /\ p.ds.enable =>
           q3.ds.state = "WaitingOnDSActivity" /\ q3.ds.event = "NONE"
  BY <1>1, <1>5, <1>6, RestedTurn
<1>8. /\ Rested(p, q) /\ Rested(q1, q)
      /\ event = "INIT" /\ p.ds.enable => q.ds.state = "WaitingOnDSActivity"
  BY <1>1, <1>5, <1>7, RestedTurn
<1>9. q.ds.event = "NONE"
  BY DsEventStep
<1>10. event = "DELETE" => ~q.ds.valid
  BY <1>4, <1>8 DEF Rested
<1> QED
  BY <1>8, <1>9, <1>10

\* Data storage has come to an end of its turns, and has reported nothing.
Untold(p, q) == Works(p, q) /\ q.ds.event = "NONE" /\ Apart(p.mbox, q.mbox)

LEMMA UntoldNot ==
  ASSUME NEW p, PortOK(p), p.ds.event = "NONE", HoldsSet(p.ds.state, "NONE") => p.ds.valid
  PROVE  Untold(p, p)
  BY KeptNot DEF Untold, Works, Settings

\* Events, when they are let to run
LEMMA WorksOn ==
  ASSUME NEW p, NEW s, PortOK(p), PortOK(s), NEW event, event # "MORE_DATA",
         Works(p, Raises(s, event))
  PROVE  Works(p, DsEvent(s, event)) /\ DsEvent(s, event).ds.event = "NONE"
<1>1. PICK q0, q1, q2, q3 :
           /\ q0 = Raises(s, event) /\ q1 = DsTurn(q0) /\ q2 = DsTurn(q1) /\ q3 = DsTurn(q2)
           /\ DsEvent(s, event) = DsTurn(q3)
           /\ MoreIsLeft(q0) /\ MoreIsLeft(q1) /\ MoreIsLeft(q2) /\ MoreIsLeft(q3)
  BY DsEventTurns
<1>2. Works(p, q1)
  BY <1>1, WorksTurn
<1>3. Works(p, q2)
  BY <1>1, <1>2, WorksTurn
<1>4. Works(p, q3)
  BY <1>1, <1>3, WorksTurn
<1>5. Works(p, DsEvent(s, event))
  BY <1>1, <1>4, WorksTurn
<1>6. DsEvent(s, event).ds.event = "NONE"
  BY DsEventStep
<1> QED
  BY <1>5, <1>6

LEMMA WorksQuietly ==
  ASSUME NEW p, NEW s, NEW r, PortOK(p), Works(p, s), Quietly(s, r),
         r.ds.event = s.ds.event
  PROVE  /\ Works(p, r)
         /\ Untold(p, s) => Untold(p, r)
<1>1. p.mbox \in Seq(JobSet) /\ s.mbox \in Seq(JobSet) /\ r.mbox \in Seq(JobSet)
  BY DEF Works, Quietly, PortOK
<1>2. Kept(p.mbox, r.mbox)
  BY <1>1, KeptTwice DEF Works, Quietly
<1>3. ASSUME Apart(p.mbox, s.mbox) PROVE Apart(p.mbox, r.mbox)
  BY <1>1, <1>3, ApartTwice DEF Works, Quietly, Kept
<1>4. ASSUME NEW type, OneMore(p.mbox, s.mbox, type) PROVE OneMore(p.mbox, r.mbox, type)
  BY <1>1, <1>4, OneMoreThen DEF Works, Quietly
<1>5. Works(p, r)
  BY <1>2, <1>3, <1>4 DEF Works, Quietly
<1> QED
  BY <1>3, <1>5 DEF Untold

LEMMA EventWorks ==
  ASSUME NEW p, NEW s, PortOK(p), Untold(p, s), NEW event,
         event \notin Settings \union {"MORE_DATA"},
         HoldsSet(s.ds.state, event) => s.ds.valid
  PROVE  LET q == DsEvent(s, event) IN
         /\ Works(p, q) /\ q.ds.event = "NONE"
         /\ event = "COM_ERR" => Untold(p, q)
<1> DEFINE q == DsEvent(s, event)
<1>1. PortOK(s)
  BY DEF Untold, Works
<1>2. /\ Quietly(s, Raises(s, event)) /\ PortOK(Raises(s, event))
      /\ Raises(s, event).ds.event = event /\ Raises(s, event).mbox = s.mbox
  BY <1>1, RaisesOnly
<1>3. Works(p, Raises(s, event))
  <2> DEFINE r == Raises(s, event)
  <2> HIDE DEF r
  <2>1. Works(p, r)
    BY <1>2 DEF r, Untold, Works, Quietly
  <2> QED
    BY <2>1 DEF r
<1>4. Works(p, q) /\ q.ds.event = "NONE"
  BY <1>1, <1>3, WorksOn
<1>5. ASSUME event = "COM_ERR" PROVE Untold(p, q)
  <2>1. PICK q0, q1, q2, q3 :
           /\ q0 = Raises(s, event) /\ q1 = DsTurn(q0) /\ q2 = DsTurn(q1) /\ q3 = DsTurn(q2)
           /\ q = DsTurn(q3)
           /\ MoreIsLeft(q0) /\ MoreIsLeft(q1) /\ MoreIsLeft(q2) /\ MoreIsLeft(q3)
    BY <1>1, DsEventTurns
  <2>2. Fails(p, q0)
    BY <1>2, <1>3, <1>5, <2>1 DEF Fails, Works, Losses, Untold
  <2>3. Fails(p, q1)
    BY <2>1, <2>2, FailsTurn
  <2>4. Fails(p, q2)
    BY <2>1, <2>3, FailsTurn
  <2>5. Fails(p, q3)
    BY <2>1, <2>4, FailsTurn
  <2>6. Fails(p, q)
    BY <2>1, <2>5, FailsTurn
  <2> QED
    BY <1>4, <2>6 DEF Fails, Untold
<1> QED
  BY <1>4, <1>5

\* What a callback of data storage may have done, at rest and not
Worked(p, q) ==
  /\ Works(p, q) /\ q.ds.event = "NONE"
  /\ AtRest(p.ds) => Rested(p, q)

LEMMA WorkedNot ==
  ASSUME NEW p, PortOK(p), p.ds.event = "NONE", HoldsSet(p.ds.state, "NONE") => p.ds.valid
  PROVE  Worked(p, p)
<1>1. Untold(p, p)
  BY UntoldNot
<1>2. AtRest(p.ds) => Rested(p, p)
  BY KeptNot DEF AtRest, Idle, Rested
<1> QED
  BY <1>1, <1>2 DEF Untold, Worked

LEMMA WorkedQuietly ==
  ASSUME NEW p, NEW s, NEW r, PortOK(p), Worked(p, s), Quietly(s, r),
         r.ds.event = s.ds.event
  PROVE  Worked(p, r)
<1>1. p.mbox \in Seq(JobSet) /\ s.mbox \in Seq(JobSet) /\ r.mbox \in Seq(JobSet)
  BY DEF Worked, Works, Quietly, PortOK
<1>2. Works(p, r)
  BY WorksQuietly DEF Worked
<1>3. ASSUME Rested(p, s) PROVE Rested(p, r)
  <2>1. Kept(p.mbox, r.mbox)
    BY <1>1, <1>3, KeptTwice DEF Rested, Quietly
  <2>2. Apart(p.mbox, r.mbox)
    BY <1>1, <1>3, ApartTwice DEF Rested, Quietly, Kept
  <2> QED
    BY <1>3, <2>1, <2>2 DEF Rested, Quietly
<1> QED
  BY <1>2, <1>3 DEF Worked

LEMMA HoldsAlready ==
  ASSUME NEW state, NEW event, event \notin {"PASSED", "UL_DONE"}, HoldsSet(state, event)
  PROVE  HoldsSet(state, "NONE")
  BY DEF HoldsSet

LEMMA QuietlyRested ==
  ASSUME NEW p, NEW s, NEW r, PortOK(p), Quietly(p, s), Rested(s, r)
  PROVE  Rested(p, r)
<1>1. p.mbox \in Seq(JobSet) /\ s.mbox \in Seq(JobSet) /\ r.mbox \in Seq(JobSet)
  BY DEF Rested, Quietly, PortOK
<1>2. Kept(p.mbox, r.mbox)
  BY <1>1, KeptTwice DEF Rested, Quietly
<1>3. Apart(p.mbox, r.mbox)
  BY <1>1, ApartTwice DEF Rested, Quietly, Kept
<1> QED
  BY <1>2, <1>3 DEF Rested, Quietly

\* A service that has failed, whatever data storage was waiting for
LEMMA FailureWorked ==
  ASSUME NEW p, NEW q, PortOK(p), Untold(p, q), Quietly(p, q)
  PROVE  Worked(p, DsEvent(q, "COM_ERR")) /\ Untold(p, DsEvent(q, "COM_ERR"))
<1> DEFINE r == DsEvent(q, "COM_ERR")
<1>1. PortOK(q)
  BY QuietlyPortOK
<1>2. "COM_ERR" \notin Settings \union {"MORE_DATA"}
  BY DEF Settings
<1>3. HoldsSet(q.ds.state, "COM_ERR") => q.ds.valid
  BY HoldsAlready DEF Untold, Works
<1>4. Works(p, r) /\ r.ds.event = "NONE" /\ Untold(p, r)
  BY <1>2, <1>3, EventWorks
<1>5. ASSUME AtRest(p.ds) PROVE Rested(p, r)
  <2>1. AtRest(q.ds)
    BY <1>5 DEF AtRest, Quietly
  <2>2. Rested(q, r)
    BY <1>1, <2>1, RestedEvent
  <2> QED
    BY <2>2, QuietlyRested
<1> QED
  BY <1>4, <1>5 DEF Worked

\* An answer from the device to a read
LEMMA DsReadCnfWorked ==
  ASSUME NEW p, PortOK(p), p.ds.event = "NONE", HoldsSet(p.ds.state, "NONE") => p.ds.valid,
         NEW job, NEW answer
  PROVE  Worked(p, DsReadCnf(p, job, answer))
<1> DEFINE q == [p EXCEPT !.ds.answer = answer]
           error == ~job.ok \/ answer = "negative"
           failing == DsEvent(q, "COM_ERR")
           checksum == IF error THEN failing ELSE q
           Read == {"FAULT_ID", "PASSED", "FAULT_SIZE", "DEV_ERR", "READ_DONE"}
           done == CASE job.ok /\ answer = "garbled"  -> failing
                     [] p.ds.state = "CheckIdentity"  ->
                          DsEvent(q, IF error THEN "FAULT_ID" ELSE "PASSED")
                     [] p.ds.state = "CheckMemSize"   ->
                          DsEvent(q, IF error THEN "FAULT_SIZE" ELSE "PASSED")
                     [] p.ds.state = "ReadParameter"  ->
                          DsEvent(q, IF error THEN "DEV_ERR" ELSE "READ_DONE")
                     [] p.ds.state = "CheckUpload"    -> DsEvent(checksum, "NO_UPLOAD")
                     [] p.ds.state = "StoreDataSet"   -> DsWrite(checksum)
                     [] p.ds.state = "Download_Done"  -> DsEvent(checksum, "READY")
                     [] OTHER -> q
<1>1. DsReadCnf(p, job, answer) = [done EXCEPT !.ds.answer = "plain"]
  BY DEF DsReadCnf
<1>2. Quietly(p, q) /\ PortOK(q)
  BY QuietFields, QuietlyPortOK
<1>3. q.ds.event = "NONE" /\ q.ds.state = p.ds.state
  BY DEF PortOK, DsOK, PortFields
<1>4. \/ done = failing
      \/ p.ds.state = "CheckUpload" /\ done = DsEvent(checksum, "NO_UPLOAD")
      \/ p.ds.state = "StoreDataSet" /\ done = DsWrite(checksum)
      \/ p.ds.state = "Download_Done" /\ done = DsEvent(checksum, "READY")
      \/ done = q
      \/ /\ p.ds.state \in {"CheckIdentity", "CheckMemSize", "ReadParameter"}
         /\ \E event \in Read : done = DsEvent(q, event)
  OBVIOUS
<1> HIDE DEF q, done
<1>5. Worked(p, p) /\ Untold(p, p)
  BY WorkedNot, UntoldNot
<1>6. Worked(p, q)
  BY <1>2, <1>3, <1>5, WorkedQuietly
<1>7. Untold(p, q)
  BY <1>2, <1>3, <1>5, WorksQuietly DEF Untold
<1>8. Worked(p, failing) /\ Untold(p, failing)
  BY <1>2, <1>7, FailureWorked
<1> HIDE DEF failing
<1>9. Untold(p, checksum) /\ PortOK(checksum)
  BY <1>7, <1>8 DEF Untold, Works
<1> HIDE DEF checksum
<1>10. ASSUME NEW event \in {"NO_UPLOAD", "READY"}, ~AtRest(p.ds)
       PROVE  Worked(p, DsEvent(checksum, event))
  <2>1. HoldsSet(checksum.ds.state, event) => checksum.ds.valid
    BY <1>9, <1>10, HoldsAlready DEF Untold, Works
  <2> QED
    BY <1>9, <1>10, <2>1, EventWorks DEF Settings, Worked
<1>11. Worked(p, done)
  <2>1. CASE p.ds.state = "CheckUpload" /\ done = DsEvent(checksum, "NO_UPLOAD")
    BY <1>10, <2>1 DEF AtRest
  <2>2. CASE p.ds.state = "Download_Done" /\ done = DsEvent(checksum, "READY")
    BY <1>10, <2>2 DEF AtRest
  <2>3. CASE p.ds.state = "StoreDataSet" /\ done = DsWrite(checksum)
    <3>1. Quietly(checksum, DsWrite(checksum))
      BY <1>9, QuietServices
    <3>2. DsWrite(checksum).ds = checksum.ds
      BY <1>9, AL_ReadWriteStep DEF DsWrite, Under, Below
    <3>3. Works(p, done) /\ done.ds.event = "NONE"
      BY <1>9, <2>3, <3>1, <3>2, WorksQuietly DEF Untold
    <3> QED
      BY <2>3, <3>3 DEF Worked, AtRest
  <2>4. CASE /\ p.ds.state \in {"CheckIdentity", "CheckMemSize", "ReadParameter"}
             /\ \E event \in Read : done = DsEvent(q, event)
    <3>1. PICK event \in Read : done = DsEvent(q, event)
      BY <2>4
    <3>2. ~HoldsSet(q.ds.state, event)
      BY <1>3, <2>4 DEF HoldsSet
    <3>3. event \notin Settings \union {"MORE_DATA"}
      BY DEF Settings
    <3>4. Works(p, done) /\ done.ds.event = "NONE"
      BY <1>7, <3>1, <3>2, <3>3, EventWorks
    <3> QED
      BY <2>4, <3>4 DEF Worked, AtRest
  <2> QED
    BY <1>4, <1>6, <1>8, <2>1, <2>2, <2>3, <2>4
<1>12. PortOK(done)
  BY <1>11 DEF Worked, Works
<1>13. /\ Quietly(done, [done EXCEPT !.ds.answer = "plain"])
       /\ [done EXCEPT !.ds.answer = "plain"].ds.event = done.ds.event
  <2>1. [done EXCEPT !.ds.answer = "plain"].ds.event = done.ds.event
    BY <1>12 DEF PortOK, DsOK, PortFields
  <2> QED
    BY <1>12, <2>1, QuietFields
<1> QED
  BY <1>1, <1>11, <1>13, WorkedQuietly

\* An answer from the device to a write
LEMMA DsWriteCnfWorked ==
  ASSUME NEW p, PortOK(p), p.ds.event = "NONE", HoldsSet(p.ds.state, "NONE") => p.ds.valid,
         NEW job, NEW answer
  PROVE  Worked(p, DsWriteCnf(p, job, answer))
<1>0. DOMAIN p = PortFields /\ DsOK(p.ds)
  BY DEF PortOK
<1> DEFINE stored == [p EXCEPT !.ds.id = p.ds.pending, !.ds.valid = TRUE]
           reported == DS_Fault(p, p.ds.fault)
           r == DsWriteCnf(p, job, answer)
<1>1. \/ r = DsEvent(p, "COM_ERR")
      \/ p.ds.state \in {"CheckUpload", "CheckDSValidity"} /\ r = DsEvent(p, "DO_UPLOAD")
      \/ p.ds.state = "Write_Parameter" /\ r = DsEvent(p, "WR_DONE")
      \/ p.ds.state = "StoreDataSet" /\ r = DsEvent(stored, "UL_DONE")
      \/ p.ds.state = "Decompose_Set" /\ r = DsEvent(p, "DOWNLOAD")
      \/ p.ds.state = "Download_Done" /\ r = DsRead(p)
      \/ p.ds.state = "DS_Fault" /\ r = DsEvent(reported, "FAULT_DONE")
      \/ r = p
  BY DEF DsWriteCnf
<1> HIDE DEF r
<1>2. Worked(p, p) /\ Untold(p, p)
  BY WorkedNot, UntoldNot
<1>3. ASSUME r = DsEvent(p, "COM_ERR") PROVE Worked(p, r)
  BY <1>2, <1>3, QuietlyNot, FailureWorked
<1>4. ASSUME NEW event \in {"DO_UPLOAD", "WR_DONE", "DOWNLOAD"}, ~AtRest(p.ds),
             r = DsEvent(p, event)
      PROVE  Worked(p, r)
  <2>1. event \notin Settings \union {"MORE_DATA"}
    BY DEF Settings
  <2>2. HoldsSet(p.ds.state, event) => p.ds.valid
    BY HoldsAlready
  <2> QED
    BY <1>2, <1>4, <2>1, <2>2, EventWorks DEF Worked
<1>5. ASSUME p.ds.state = "StoreDataSet", r = DsEvent(stored, "UL_DONE")
      PROVE  Worked(p, r)
  <2> DEFINE x == [p.ds EXCEPT !.id = p.ds.pending, !.valid = TRUE]
  <2>1. stored = [p EXCEPT !.ds = x]
    BY <1>0 DEF PortFields, DsOK
  <2>2. /\ DsOK(x) /\ x.state = "StoreDataSet" /\ x.event = "NONE"
        /\ x.id = p.ds.pending /\ x.pending = p.ds.pending /\ x.valid
    BY <1>0, <1>5 DEF DsOK
  <2> HIDE DEF x
  <2>3. PortOK(stored)
    BY <2>1, <2>2, SetDs, UnseenPortOK
  <2>4. stored.ds = x /\ stored.cm = p.cm /\ stored.mbox = p.mbox
    BY <1>0, <2>1 DEF PortFields
  <2> HIDE DEF stored
  <2>5. Untold(p, stored)
    BY <2>2, <2>3, <2>4, KeptNot DEF Untold, Works, Settings
  <2>6. Works(p, r) /\ r.ds.event = "NONE"
    BY <1>5, <2>2, <2>4, <2>5, EventWorks DEF Settings
  <2> QED
    BY <1>5, <2>6 DEF Worked, AtRest
<1>6. ASSUME p.ds.state = "Download_Done" /\ r = DsRead(p) PROVE Worked(p, r)
  <2>1. Quietly(p, r)
    BY <1>6, QuietServices
  <2>2. r.ds = p.ds
    BY <1>6, AL_ReadWriteStep DEF DsRead, Under, Below
  <2> QED
    BY <1>2, <2>1, <2>2, WorkedQuietly
<1>7. ASSUME p.ds.state = "DS_Fault", r = DsEvent(reported, "FAULT_DONE")
      PROVE  Worked(p, r)
  <2> DEFINE s == Raises(reported, "FAULT_DONE")
  <2>1. Reported(p, reported, "DS_FAULT") /\ PortOK(reported)
    BY <1>0, Reports DEF DsOK, Reported
  <2> HIDE DEF reported
  <2>2. Quietly(reported, s) /\ s.ds.event = "FAULT_DONE"
    BY <2>1, RaisesOnly
  <2> HIDE DEF s
  <2>3. Reported(p, s, "DS_FAULT")
    BY <2>1, <2>2, ReportedThen
  <2>4. ~HoldsSet(s.ds.state, s.ds.event)
    BY <1>7, <2>2, <2>3 DEF HoldsSet, Reported
  <2>5. Works(p, s)
    BY <1>7, <2>2, <2>3, <2>4 DEF Reported, Works, Settings
  <2>6. Works(p, r) /\ r.ds.event = "NONE"
    BY <1>7, <2>1, <2>5, WorksOn DEF s
  <2> QED
    BY <1>7, <2>6 DEF Worked, AtRest
<1>8. Worked(p, r)
  BY <1>1, <1>2, <1>3, <1>4, <1>5, <1>6, <1>7 DEF AtRest
<1> QED
  BY <1>8 DEF r

\* Data storage is started, by the configuration manager.
LEMMA DsStartupWorks ==
  ASSUME NEW p, PortOK(p), p.ds.event = "NONE", AtRest(p.ds), NEW job
  PROVE  Works(p, DsStartup(p, job)) /\ DsStartup(p, job).ds.event = "NONE"
<1>1. /\ ~HoldsSet(p.ds.state, "STARTUP") /\ ~HoldsSet(p.ds.state, "NONE")
      /\ "STARTUP" \notin Settings \union {"MORE_DATA"}
  BY DEF HoldsSet, AtRest, Settings
<1>2. Untold(p, p)
  BY <1>1, UntoldNot
<1> QED
  BY <1>1, <1>2, EventWorks DEF DsStartup

\* It is told to delete the set it holds.
LEMMA DsDeleteRests ==
  ASSUME NEW p, PortOK(p), AtRest(p.ds), NEW job
  PROVE  LET q == DsDelete(p, job) IN
         Rested(p, q) /\ q.ds.event = "NONE" /\ ~q.ds.valid
  BY RestedEvent DEF DsDelete

\* It is told of a configuration.
LEMMA DsInitRests ==
  ASSUME NEW p, PortOK(p), AtRest(p.ds), NEW job
  PROVE  LET q == DsInit(p, job) IN
         /\ PortOK(q) /\ q.cm = p.cm /\ AtRest(q.ds) /\ q.ds.event = "NONE"
         /\ q.ds.valid => p.ds.valid /\ q.ds.id = p.ds.id
         /\ Kept(p.mbox, q.mbox) /\ Apart(p.mbox, q.mbox)
         /\ job.config.mode = "CFGCOM" /\ job.config.check = "V11_BAK_RESTORE" =>
              q.ds.pending = "configured" /\ q.ds.state # "Off"
<1>0. DOMAIN p = PortFields /\ DsOK(p.ds)
  BY DEF PortOK
<1> DEFINE manual == job.config.mode = "CFGCOM"
           upload == manual /\ job.config.check = "V11_BAK_RESTORE"
           download == manual /\ job.config.check \in {"V11_RESTORE", "V11_BAK_RESTORE"}
           enable == p.ds.enable \/ download
           pending == IF manual THEN "configured" ELSE "nobody"
           given == [p EXCEPT !.ds.upload = upload, !.ds.download = download,
                             !.ds.enable = enable, !.ds.fault = "NONE",
                             !.ds.pending = pending]
           x == [p.ds EXCEPT !.upload = upload, !.download = download,
                             !.enable = enable, !.fault = "NONE", !.pending = pending]
           s == [p EXCEPT !.ds = x]
           q == DsEvent(s, "INIT")
<1>1. DsInit(p, job) = DsEvent(given, "INIT")
  BY <1>0 DEF DsInit, PortFields, DsOK
<1>2. upload => pending = "configured" /\ enable
  OBVIOUS
<1> HIDE DEF upload, download, enable, pending, manual
<1>3. given = s
  BY <1>0 DEF PortFields
<1>4. /\ DsOK(x) /\ x.state = p.ds.state /\ x.pending = pending /\ x.enable = enable
      /\ x.id = p.ds.id /\ x.valid = p.ds.valid
  BY <1>0 DEF DsOK, DsFaults
<1> HIDE DEF x, given
<1>5. PortOK(s)
  BY <1>4, SetDs, UnseenPortOK
<1>6. s.ds = x /\ s.cm = p.cm /\ s.mbox = p.mbox
  BY <1>0 DEF PortFields
<1> HIDE DEF s
<1>7. /\ Rested(s, q) /\ q.ds.event = "NONE"
      /\ s.ds.enable => q.ds.state = "WaitingOnDSActivity"
  BY <1>4, <1>5, <1>6, RestedEvent DEF AtRest
<1>8. q = DsInit(p, job)
  BY <1>1, <1>3
<1> HIDE DEF q
<1>9. enable => q.ds.state # "Off"
  BY <1>4, <1>6, <1>7
<1>10. /\ PortOK(q) /\ q.cm = p.cm /\ AtRest(q.ds) /\ q.ds.event = "NONE"
       /\ q.ds.valid => p.ds.valid /\ q.ds.id = p.ds.id
       /\ Kept(p.mbox, q.mbox) /\ Apart(p.mbox, q.mbox)
       /\ q.ds.pending = pending
  BY <1>4, <1>6, <1>7 DEF Rested, AtRest, Idle
<1> QED
  BY <1>2, <1>8, <1>9, <1>10 DEF upload, manual

\* What is needed of a port to say which fields change
Shaped(p) == DOMAIN p = PortFields /\ p.mbox \in Seq(JobSet)

\* At most the fields F change, and the mailbox: jobs of the types T are posted.
Touches(p, q, F, T) ==
  /\ Shaped(q)
  /\ \A f \in PortFields \ (F \union {"mbox"}) : q[f] = p[f]
  /\ Kept(p.mbox, q.mbox)
  /\ \A i \in Len(p.mbox) + 1 .. Len(q.mbox) : q.mbox[i].type \in T

LEMMA OKShaped == ASSUME NEW p, PortOK(p) PROVE Shaped(p)
  BY DEF PortOK, Shaped

LEMMA TouchesShaped == ASSUME NEW p, NEW q, NEW F, NEW T, Touches(p, q, F, T) PROVE Shaped(q)
  BY DEF Touches

LEMMA TouchesNot == ASSUME NEW p, Shaped(p), NEW F, NEW T PROVE Touches(p, p, F, T)
<1>1. Len(p.mbox) \in Nat
  BY DEF Shaped
<1> QED
  BY <1>1 DEF Touches, Kept

LEMMA TouchesTwice ==
  ASSUME NEW p, Shaped(p), NEW q, NEW r, NEW F, NEW T, Touches(p, q, F, T), Touches(q, r, F, T)
  PROVE  Touches(p, r, F, T)
<1>1. /\ p.mbox \in Seq(JobSet) /\ q.mbox \in Seq(JobSet) /\ r.mbox \in Seq(JobSet)
      /\ Len(p.mbox) \in Nat /\ Len(q.mbox) \in Nat /\ Len(r.mbox) \in Nat
  BY DEF Touches, Shaped
<1>2. Kept(p.mbox, r.mbox)
  BY <1>1, KeptTwice DEF Touches
<1>3. ASSUME NEW i \in Len(p.mbox) + 1 .. Len(r.mbox) PROVE r.mbox[i].type \in T
  <2>1. CASE i <= Len(q.mbox)
    <3>1. i \in Len(p.mbox) + 1 .. Len(q.mbox) /\ i \in 1..Len(q.mbox)
      BY <1>1, <1>3, <2>1
    <3>2. r.mbox[i] = q.mbox[i]
      BY <3>1 DEF Touches, Kept
    <3> QED
      BY <3>1, <3>2 DEF Touches
  <2>2. CASE ~(i <= Len(q.mbox))
    <3>1. i \in Len(q.mbox) + 1 .. Len(r.mbox)
      BY <1>1, <1>3, <2>2
    <3> QED
      BY <3>1 DEF Touches
  <2> QED
    BY <2>1, <2>2
<1> QED
  BY <1>2, <1>3 DEF Touches

LEMMA TouchesMore ==
  ASSUME NEW p, NEW q, NEW F, NEW T, NEW E, NEW S, Touches(p, q, F, T),
         F \subseteq E, T \subseteq S
  PROVE  Touches(p, q, E, S)
  BY DEF Touches

\* Only fields change.
LEMMA TouchesFields ==
  ASSUME NEW p, Shaped(p), NEW q, DOMAIN q = PortFields, NEW F, NEW T, "mbox" \notin F,
         \A f \in PortFields \ F : q[f] = p[f]
  PROVE  Touches(p, q, F, T)
<1>1. "mbox" \in PortFields \ F
  BY DEF PortFields
<1>2. q.mbox = p.mbox
  BY <1>1
<1>3. Len(p.mbox) \in Nat
  BY DEF Shaped
<1> QED
  BY <1>2, <1>3 DEF Touches, Kept, Shaped

\* A job is posted.
LEMMA TouchesPost ==
  ASSUME NEW p, Shaped(p), NEW job \in JobSet, NEW F, NEW T, job.type \in T
  PROVE  Touches(p, Post(p, job), F, T)
<1> DEFINE q == Post(p, job)
<1>1. /\ DOMAIN q = PortFields /\ q.mbox = Append(p.mbox, job)
      /\ \A f \in PortFields \ {"mbox"} : q[f] = p[f]
  BY DEF Post, Shaped, PortFields
<1>2. /\ p.mbox \in Seq(JobSet) /\ Len(p.mbox) \in Nat
      /\ Append(p.mbox, job) \in Seq(JobSet)
      /\ Len(Append(p.mbox, job)) = Len(p.mbox) + 1
      /\ \A i \in 1..Len(p.mbox) : Append(p.mbox, job)[i] = p.mbox[i]
      /\ Append(p.mbox, job)[Len(p.mbox) + 1] = job
  BY DEF Shaped
<1> HIDE DEF q
<1>3. Kept(p.mbox, q.mbox)
  BY <1>1, <1>2 DEF Kept
<1>4. \A i \in Len(p.mbox) + 1 .. Len(q.mbox) : q.mbox[i].type \in T
  <2> SUFFICES ASSUME NEW i \in Len(p.mbox) + 1 .. Len(q.mbox) PROVE q.mbox[i].type \in T
    OBVIOUS
  <2>1. i = Len(p.mbox) + 1
    BY <1>1, <1>2
  <2> QED
    BY <1>1, <1>2, <2>1
<1>5. Touches(p, q, F, T)
  BY <1>1, <1>2, <1>3, <1>4 DEF Touches, Shaped
<1> QED
  BY <1>5 DEF q

\* With no type of jobs none is posted.
LEMMA TouchesNone ==
  ASSUME NEW p, Shaped(p), NEW q, NEW F, Touches(p, q, F, {})
  PROVE  q.mbox = p.mbox
<1>1. /\ p.mbox \in Seq(JobSet) /\ q.mbox \in Seq(JobSet)
      /\ Len(p.mbox) \in Nat /\ Len(q.mbox) \in Nat /\ Len(p.mbox) <= Len(q.mbox)
      /\ \A i \in 1..Len(p.mbox) : q.mbox[i] = p.mbox[i]
  BY DEF Touches, Shaped, Kept
<1>2. Len(q.mbox) = Len(p.mbox)
  <2>1. SUFFICES ASSUME Len(q.mbox) # Len(p.mbox) PROVE FALSE
    OBVIOUS
  <2>2. Len(q.mbox) \in Len(p.mbox) + 1 .. Len(q.mbox)
    BY <1>1, <2>1
  <2> QED
    BY <2>2 DEF Touches
<1> QED
  BY <1>1, <1>2

-----------------------------------------------------------------------------
(* What the configuration manager changes, exactly *)

\* Only the mailbox changes.
Mailed(a, b, n) ==
  /\ DOMAIN b = PortFields /\ b.mbox = n
  /\ \A f \in PortFields \ {"mbox"} : b[f] = a[f]

LEMMA MailedPost ==
  ASSUME NEW a, DOMAIN a = PortFields, NEW job
  PROVE  Mailed(a, Post(a, job), Append(a.mbox, job))
  BY DEF Post, Mailed, PortFields

LEMMA MailedTwice ==
  ASSUME NEW a, NEW b, NEW c, NEW m, NEW n, Mailed(a, b, m), Mailed(b, c, n)
  PROVE  Mailed(a, c, n)
  BY DEF Mailed

\* The jobs of a configuration that is accepted
SetJob(config) == [type |-> "SM_SET_PORT_CFG_REQ", config |-> config]
InitJob(config) == [type |-> "DS_INIT", config |-> config]
DeleteJob == [type |-> "DS_DELETE"]
StopJob == [type |-> "OD_STOP"]

LEMMA SetPortConfigMailed ==
  ASSUME NEW a, DOMAIN a = PortFields
  PROVE  LET set == SetJob(a.cm.config)
             init == InitJob(a.cm.config)
         IN
         /\ Mailed(a, SetPortConfig(a), Append(a.mbox, set))
         /\ Mailed(a, SetPortConfigAndStorage(a), Append(Append(a.mbox, init), set))
         /\ Mailed(a, SetPortConfigAndStorage(DS_Delete(a)),
                   Append(Append(Append(a.mbox, DeleteJob), init), set))
<1> DEFINE set == SetJob(a.cm.config)
           init == InitJob(a.cm.config)
<1>0. "cm" \in PortFields \ {"mbox"}
  BY DEF PortFields
<1>1. ASSUME NEW b, DOMAIN b = PortFields, b.cm = a.cm
      PROVE  Mailed(b, SetPortConfig(b), Append(b.mbox, set))
  <2>1. SetPortConfig(b) = Post(b, set)
    BY <1>1 DEF SetPortConfig, SetJob
  <2> QED
    BY <1>1, <2>1, MailedPost
<1>2. ASSUME NEW b, DOMAIN b = PortFields, b.cm = a.cm
      PROVE  Mailed(b, SetPortConfigAndStorage(b), Append(Append(b.mbox, init), set))
  <2> DEFINE c == Post(b, init)
  <2>1. SetPortConfigAndStorage(b) = SetPortConfig(c)
    BY <1>2 DEF SetPortConfigAndStorage, InitJob
  <2>2. Mailed(b, c, Append(b.mbox, init))
    BY <1>2, MailedPost
  <2> HIDE DEF c, init, set
  <2>3. DOMAIN c = PortFields /\ c.cm = a.cm /\ c.mbox = Append(b.mbox, init)
    BY <1>0, <1>2, <2>2 DEF Mailed
  <2>4. Mailed(c, SetPortConfig(c), Append(c.mbox, set))
    BY <1>1, <2>3
  <2> QED
    BY <2>1, <2>2, <2>3, <2>4, MailedTwice
<1>3. Mailed(a, SetPortConfigAndStorage(DS_Delete(a)),
             Append(Append(Append(a.mbox, DeleteJob), init), set))
  <2> DEFINE d == DS_Delete(a)
  <2>1. Mailed(a, d, Append(a.mbox, DeleteJob))
    BY MailedPost DEF DS_Delete, DeleteJob
  <2> HIDE DEF d, init, set
  <2>2. DOMAIN d = PortFields /\ d.cm = a.cm /\ d.mbox = Append(a.mbox, DeleteJob)
    BY <1>0, <2>1 DEF Mailed
  <2>3. Mailed(d, SetPortConfigAndStorage(d), Append(Append(d.mbox, init), set))
    BY <1>2, <2>2
  <2>4. Mailed(a, SetPortConfigAndStorage(d), Append(Append(d.mbox, init), set))
    BY <2>1, <2>3, MailedTwice
  <2> QED
    BY <2>2, <2>4 DEF d
<1> QED
  BY <1>1, <1>2, <1>3

\* The mailbox after a configuration has been accepted
ShortMail(m, config) == Append(Append(m, StopJob), SetJob(config))
PlainMail(m, config) == Append(Append(Append(m, StopJob), InitJob(config)), SetJob(config))
LongMail(m, config) ==
  Append(Append(Append(Append(m, StopJob), DeleteJob), InitJob(config)), SetJob(config))

LEMMA CheckModeMailbox ==
  ASSUME NEW p, PortOK(p), NEW config \in ConfigRecords
  PROVE  LET q == CheckMode(p, config)
             m == p.mbox
         IN
         /\ DOMAIN q = PortFields
         /\ \A f \in PortFields \ {"cm", "mbox"} : q[f] = p[f]
         /\ q.cm.config = config
         /\ \/ /\ config.mode \in {"CFGCOM", "AUTOCOM"} /\ q.cm.state = "SM_Startup"
               /\ q.cm.status = p.cm.status
               /\ \/ q.mbox = LongMail(m, config)
                  \/ q.mbox = PlainMail(m, config) /\ p.ds.id = "configured"
            \/ /\ config.mode = "DIDO" /\ q.cm.state = "Port_DIDO" /\ q.cm.status = "DIDO"
               /\ q.mbox = LongMail(m, config)
            \/ /\ config.mode = "INACTIVE" /\ q.cm.state = "Port_Deactivated"
               /\ q.cm.status = "DEACTIVATED"
               /\ q.mbox = ShortMail(m, config)
<1>0. DOMAIN p = PortFields /\ CmOK(p.cm)
  BY DEF PortOK
<1>3. /\ "cm" \in PortFields \ {"mbox"}
      /\ "ds" \in PortFields \ {"cm", "mbox"}
      /\ PortFields \ {"cm", "mbox"} \subseteq PortFields \ {"mbox"}
  BY DEF PortFields
<1> DEFINE q == CheckMode(p, config)
           m == p.mbox
           Cm == {"state", "config", "status"}
           q1 == [p EXCEPT !.cm.config = config]
           q2 == Post(q1, StopJob)
           State(c, state, status) ==
             c.config = config /\ c.state = state /\ c.status = status
<1>1. /\ DOMAIN q2 = PortFields /\ DOMAIN q2.cm = Cm
      /\ q2.cm.config = config /\ q2.cm.status = p.cm.status /\ q2.mbox = Append(m, StopJob)
      /\ \A f \in PortFields \ {"cm", "mbox"} : q2[f] = p[f]
  BY <1>0 DEF PortFields, CmOK, Post
<1>2. q = CASE config.mode \in {"CFGCOM", "AUTOCOM"} ->
                 Startup([q2 EXCEPT !.cm.state = "SM_Startup"])
            [] config.mode = "DIDO" -> SetPortConfigAndStorage(
                 DS_Delete([q2 EXCEPT !.cm.state = "Port_DIDO", !.cm.status = "DIDO"]))
            [] config.mode = "INACTIVE" -> SetPortConfig(
                 [q2 EXCEPT !.cm.state = "Port_Deactivated", !.cm.status = "DEACTIVATED"])
  BY DEF CheckMode, StopJob
<1> HIDE DEF q, q2
<1>5. CASE config.mode \in {"CFGCOM", "AUTOCOM"}
  <2> DEFINE a == [q2 EXCEPT !.cm.state = "SM_Startup"]
  <2>1. q = Startup(a)
    BY <1>2, <1>5
  <2>2. /\ DOMAIN a = PortFields /\ a.mbox = Append(m, StopJob)
        /\ State(a.cm, "SM_Startup", p.cm.status)
        /\ \A f \in PortFields \ {"cm", "mbox"} : a[f] = p[f]
    BY <1>1 DEF PortFields
  <2> HIDE DEF a
  <2>3. \/ q = SetPortConfigAndStorage(DS_Delete(a))
        \/ q = SetPortConfigAndStorage(a) /\ a.ds.id = "configured"
    BY <2>1 DEF Startup, DS_Chk_Cfg
  <2>4. a.ds.id = p.ds.id
    BY <1>3, <2>2
  <2>5. \/ Mailed(a, q, Append(Append(Append(a.mbox, DeleteJob), InitJob(config)), SetJob(config)))
        \/ /\ Mailed(a, q, Append(Append(a.mbox, InitJob(config)), SetJob(config)))
           /\ p.ds.id = "configured"
    BY <2>2, <2>3, <2>4, SetPortConfigMailed
  <2>6. DOMAIN q = PortFields /\ q.cm = a.cm /\ \A f \in PortFields \ {"mbox"} : q[f] = a[f]
    BY <1>3, <2>5 DEF Mailed
  <2>7. \A f \in PortFields \ {"cm", "mbox"} : q[f] = p[f]
    BY <1>3, <2>2, <2>6
  <2> QED
    BY <1>5, <2>2, <2>5, <2>6, <2>7 DEF q, Mailed, LongMail, PlainMail
<1>6. CASE config.mode = "DIDO"
  <2> DEFINE a == [q2 EXCEPT !.cm.state = "Port_DIDO", !.cm.status = "DIDO"]
  <2>1. q = SetPortConfigAndStorage(DS_Delete(a))
    BY <1>2, <1>6
  <2>2. /\ DOMAIN a = PortFields /\ a.mbox = Append(m, StopJob)
        /\ State(a.cm, "Port_DIDO", "DIDO")
        /\ \A f \in PortFields \ {"cm", "mbox"} : a[f] = p[f]
    BY <1>1 DEF PortFields
  <2> HIDE DEF a
  <2>3. Mailed(a, q, Append(Append(Append(a.mbox, DeleteJob), InitJob(config)), SetJob(config)))
    BY <2>1, <2>2, SetPortConfigMailed
  <2>6. DOMAIN q = PortFields /\ q.cm = a.cm /\ \A f \in PortFields \ {"mbox"} : q[f] = a[f]
    BY <1>3, <2>3 DEF Mailed
  <2>7. \A f \in PortFields \ {"cm", "mbox"} : q[f] = p[f]
    BY <1>3, <2>2, <2>6
  <2> QED
    BY <1>6, <2>2, <2>3, <2>6, <2>7 DEF q, Mailed, LongMail
<1>7. CASE config.mode = "INACTIVE"
  <2> DEFINE a == [q2 EXCEPT !.cm.state = "Port_Deactivated", !.cm.status = "DEACTIVATED"]
  <2>1. q = SetPortConfig(a)
    BY <1>2, <1>7
  <2>2. /\ DOMAIN a = PortFields /\ a.mbox = Append(m, StopJob)
        /\ State(a.cm, "Port_Deactivated", "DEACTIVATED")
        /\ \A f \in PortFields \ {"cm", "mbox"} : a[f] = p[f]
    BY <1>1 DEF PortFields
  <2> HIDE DEF a
  <2>3. Mailed(a, q, Append(a.mbox, SetJob(config)))
    BY <2>1, <2>2, SetPortConfigMailed
  <2>6. DOMAIN q = PortFields /\ q.cm = a.cm /\ \A f \in PortFields \ {"mbox"} : q[f] = a[f]
    BY <1>3, <2>3 DEF Mailed
  <2>7. \A f \in PortFields \ {"cm", "mbox"} : q[f] = p[f]
    BY <1>3, <2>2, <2>6
  <2> QED
    BY <1>7, <2>2, <2>3, <2>6, <2>7 DEF q, Mailed, ShortMail
<1> QED
  BY <1>5, <1>6, <1>7 DEF ConfigRecords

\* What an event changes: nothing; the port is lost, or has a fault; data storage is
\* started; it is done; the port becomes operational; a configuration is handed on.
Handed == {"OD_STOP", "DS_DELETE", "DS_INIT", "SM_SET_PORT_CFG_REQ"}

\* A job of the given type is among the new ones
Posts(m, n, type) == \E k \in Len(m) + 1 .. Len(n) : n[k].type = type

Directs(p, q, event, config) ==
  \/ /\ Touches(p, q, {"cm"}, {})
     /\ q.cm.state = p.cm.state /\ q.cm.config = p.cm.config /\ q.cm.status = p.cm.status
  \/ /\ Touches(p, q, {"cm", "lost"}, {}) /\ q.lost = TRUE
     /\ q.cm.state = "CheckPortMode" /\ q.cm.status = "NO_DEV"
     /\ p.cm.state \notin {"Port_DIDO", "Port_Deactivated"} /\ event # "CFG_CHANGE"
     /\ p.cm.state = "DS_ParamManager" => event = "DS_Fault"
  \/ /\ Touches(p, q, {"cm"}, {})
     /\ q.cm.state = "PortFault" /\ q.cm.status = "PORT_DIAG"
     /\ p.cm.state \notin {"Port_DIDO", "Port_Deactivated"} /\ event # "CFG_CHANGE"
     /\ p.cm.state = "DS_ParamManager" => event = "DS_Fault"
  \/ /\ Touches(p, q, {"cm"}, {"DS_STARTUP"}) /\ event = "SM_COMREADY"
     /\ Posts(p.mbox, q.mbox, "DS_STARTUP")
     /\ p.cm.state = "SM_Startup" /\ q.cm.state = "DS_ParamManager" /\ q.cm.status = "PREOP"
  \/ /\ Touches(p, q, {"cm"}, {"SM_OPERATE_REQ"}) /\ event = "DS_Ready"
     /\ p.cm.state = "DS_ParamManager" /\ q.cm.state = "WaitingOnOperate"
     /\ q.cm.status = p.cm.status
  \/ /\ Touches(p, q, {"cm"}, {"OD_START"})
     /\ p.cm.state = "WaitingOnOperate" /\ q.cm.state = "Port_Active" /\ q.cm.status = "OP"
  \/ /\ Touches(p, q, {"cm"}, Handed) /\ event = "CFG_CHANGE"
     /\ Posts(p.mbox, q.mbox, "OD_STOP")
     /\ p.cm.state # "DS_ParamManager"
     /\ q.cm.state \in {"SM_Startup", "Port_DIDO", "Port_Deactivated"}
     /\ q.cm.status \in {p.cm.status, "DIDO", "DEACTIVATED"}
     /\ \A i \in Len(p.mbox) + 1 .. Len(q.mbox) :
           q.mbox[i].type = "SM_SET_PORT_CFG_REQ" => q.mbox[i].config = config

LEMMA CheckModeDirects ==
  ASSUME NEW p, PortOK(p), NEW config \in ConfigRecords
  PROVE  LET q == CheckMode(p, config) IN
         /\ Touches(p, q, {"cm"}, Handed) /\ Posts(p.mbox, q.mbox, "OD_STOP")
         /\ q.cm.state \in {"SM_Startup", "Port_DIDO", "Port_Deactivated"}
         /\ q.cm.status \in {p.cm.status, "DIDO", "DEACTIVATED"}
         /\ \A i \in Len(p.mbox) + 1 .. Len(q.mbox) :
               q.mbox[i].type = "SM_SET_PORT_CFG_REQ" => q.mbox[i].config = config
<1> DEFINE q == CheckMode(p, config)
           m == p.mbox
           set == SetJob(config)
           init == InitJob(config)
           short == Append(Append(m, StopJob), set)
           plain == Append(Append(Append(m, StopJob), init), set)
           long == Append(Append(Append(Append(m, StopJob), DeleteJob), init), set)
           Good(job) == /\ job \in JobSet /\ job.type \in Handed
                        /\ job.type = "SM_SET_PORT_CFG_REQ" => job.config = config
<1>1. m \in Seq(JobSet) /\ Len(m) \in Nat
  BY DEF PortOK
<1>2. /\ DOMAIN q = PortFields
      /\ \A f \in PortFields \ {"cm", "mbox"} : q[f] = p[f]
      /\ q.mbox \in {short, plain, long}
      /\ q.cm.state \in {"SM_Startup", "Port_DIDO", "Port_Deactivated"}
      /\ q.cm.status \in {p.cm.status, "DIDO", "DEACTIVATED"}
  <2>1. /\ DOMAIN q = PortFields
        /\ \A f \in PortFields \ {"cm", "mbox"} : q[f] = p[f]
        /\ \/ q.mbox = ShortMail(m, config) \/ q.mbox = PlainMail(m, config)
           \/ q.mbox = LongMail(m, config)
        /\ q.cm.state \in {"SM_Startup", "Port_DIDO", "Port_Deactivated"}
        /\ q.cm.status \in {p.cm.status, "DIDO", "DEACTIVATED"}
    BY CheckModeMailbox
  <2>2. short = ShortMail(m, config) /\ plain = PlainMail(m, config) /\ long = LongMail(m, config)
    BY DEF ShortMail, PlainMail, LongMail
  <2> HIDE DEF q, short, plain, long
  <2> QED
    BY <2>1, <2>2
<1>3. Good(set) /\ Good(init) /\ Good(StopJob) /\ Good(DeleteJob)
  BY CmJobTypes DEF SetJob, InitJob, StopJob, DeleteJob, Handed
<1> HIDE DEF q, m, set, init
<1>4. ASSUME NEW n \in {short, plain, long}
      PROVE  /\ n \in Seq(JobSet) /\ Kept(m, n)
             /\ \A i \in Len(m) + 1 .. Len(n) : n[i] \in {set, init, StopJob, DeleteJob}
             /\ Len(m) + 1 \in Len(m) + 1 .. Len(n) /\ n[Len(m) + 1] = StopJob
  <2> HIDE DEF Good
  <2>0. set \in JobSet /\ init \in JobSet /\ StopJob \in JobSet /\ DeleteJob \in JobSet
    BY <1>3 DEF Good
  <2>1. CASE n = short
    <3>1. /\ n \in Seq(JobSet) /\ Len(n) = Len(m) + 2
          /\ \A i \in 1..Len(m) : n[i] = m[i]
          /\ n[Len(m) + 1] = StopJob /\ n[Len(m) + 2] = set
      BY <1>1, <2>0, <2>1
    <3>2. \A i \in Len(m) + 1 .. Len(n) : i = Len(m) + 1 \/ i = Len(m) + 2
      BY <1>1, <3>1
    <3> HIDE DEF short
    <3> QED
      BY <1>1, <3>1, <3>2 DEF Kept
  <2>2. CASE n = plain
    <3>1. /\ n \in Seq(JobSet) /\ Len(n) = Len(m) + 3
          /\ \A i \in 1..Len(m) : n[i] = m[i]
          /\ n[Len(m) + 1] = StopJob /\ n[Len(m) + 2] = init /\ n[Len(m) + 3] = set
      BY <1>1, <2>0, <2>2
    <3>2. \A i \in Len(m) + 1 .. Len(n) :
             i = Len(m) + 1 \/ i = Len(m) + 2 \/ i = Len(m) + 3
      BY <1>1, <3>1
    <3> HIDE DEF plain
    <3> QED
      BY <1>1, <3>1, <3>2 DEF Kept
  <2>3. CASE n = long
    <3>1. /\ n \in Seq(JobSet) /\ Len(n) = Len(m) + 4
          /\ \A i \in 1..Len(m) : n[i] = m[i]
          /\ n[Len(m) + 1] = StopJob /\ n[Len(m) + 2] = DeleteJob
          /\ n[Len(m) + 3] = init /\ n[Len(m) + 4] = set
      BY <1>1, <2>0, <2>3
    <3>2. \A i \in Len(m) + 1 .. Len(n) :
             i = Len(m) + 1 \/ i = Len(m) + 2 \/ i = Len(m) + 3 \/ i = Len(m) + 4
      BY <1>1, <3>1
    <3> HIDE DEF long
    <3> QED
      BY <1>1, <3>1, <3>2 DEF Kept
  <2> QED
    BY <2>1, <2>2, <2>3
<1>5. /\ q.mbox \in Seq(JobSet) /\ Kept(m, q.mbox)
      /\ \A i \in Len(m) + 1 .. Len(q.mbox) : q.mbox[i] \in {set, init, StopJob, DeleteJob}
      /\ Len(m) + 1 \in Len(m) + 1 .. Len(q.mbox) /\ q.mbox[Len(m) + 1] = StopJob
  BY <1>2, <1>4
<1> HIDE DEF short, plain, long
<1>6. \A i \in Len(m) + 1 .. Len(q.mbox) :
        /\ q.mbox[i].type \in Handed
        /\ q.mbox[i].type = "SM_SET_PORT_CFG_REQ" => q.mbox[i].config = config
  BY <1>3, <1>5
<1>7. \A f \in PortFields \ ({"cm"} \union {"mbox"}) : q[f] = p[f]
  BY <1>2
<1>8. Touches(p, q, {"cm"}, Handed)
  BY <1>2, <1>5, <1>6, <1>7 DEF Touches, Shaped, m
<1>9. Posts(m, q.mbox, "OD_STOP")
  BY <1>5 DEF Posts, StopJob
<1> QED
  BY <1>2, <1>6, <1>8, <1>9 DEF q, m

\* The actions, but for a change of the configuration
Shows(q, state, status) == q.cm.state = state /\ q.cm.status = status

LEMMA CmActDirects ==
  ASSUME NEW p, PortOK(p), NEW job
  PROVE  /\ CmAct(p, "ignore", job) = p
         /\ CmAct(p, "check_mode", job) = CheckMode(p, job.config)
         /\ LET q == CmAct(p, "comlost", job) IN
            /\ Touches(p, q, {"cm", "lost"}, {}) /\ q.lost = TRUE
            /\ Shows(q, p.cm.state, "NO_DEV")
         /\ LET q == CmAct(p, "port_fault", job) IN
            \/ /\ Touches(p, q, {"cm", "lost"}, {}) /\ q.lost = TRUE
               /\ Shows(q, "CheckPortMode", "NO_DEV")
            \/ /\ Touches(p, q, {"cm"}, {})
               /\ Shows(q, p.cm.state, "PORT_DIAG")
         /\ LET q == CmAct(p, "start_ds", job) IN
            /\ Touches(p, q, {"cm"}, {"DS_STARTUP"}) /\ Posts(p.mbox, q.mbox, "DS_STARTUP")
            /\ Shows(q, p.cm.state, "PREOP")
         /\ LET q == CmAct(p, "ds_ready", job) IN
            /\ Touches(p, q, {"cm"}, {"SM_OPERATE_REQ"})
            /\ Shows(q, p.cm.state, p.cm.status)
         /\ LET q == CmAct(p, "sm_operate", job) IN
            /\ Touches(p, q, {"cm"}, {"OD_START"})
            /\ Shows(q, p.cm.state, "OP")
<1>0. /\ DOMAIN p = PortFields /\ DOMAIN p.cm = {"state", "config", "status"} /\ Shaped(p)
  BY OKShaped DEF PortOK, CmOK
<1>1. CmAct(p, "ignore", job) = p /\ CmAct(p, "check_mode", job) = CheckMode(p, job.config)
  BY DEF CmAct
<1>2. LET q == Comlost(p) IN
      /\ DOMAIN q = PortFields /\ DOMAIN q.cm = {"state", "config", "status"}
      /\ \A f \in PortFields \ {"cm", "lost"} : q[f] = p[f]
      /\ q.cm.state = p.cm.state /\ q.cm.status = "NO_DEV" /\ q.lost = TRUE
  BY <1>0 DEF Comlost, PortFields
<1>3. LET q == CmAct(p, "comlost", job) IN
      /\ Touches(p, q, {"cm", "lost"}, {}) /\ q.lost = TRUE
      /\ q.cm.state = p.cm.state /\ q.cm.status = "NO_DEV"
  <2> DEFINE q == Comlost(p)
  <2>1. CmAct(p, "comlost", job) = q
    BY DEF CmAct
  <2> HIDE DEF q
  <2>2. Touches(p, q, {"cm", "lost"}, {})
    BY <1>0, <1>2, TouchesFields DEF q
  <2> QED
    BY <1>2, <2>1, <2>2 DEF q
<1>4. LET q == CmAct(p, "port_fault", job) IN
      \/ /\ Touches(p, q, {"cm", "lost"}, {}) /\ q.lost = TRUE
         /\ q.cm.state = "CheckPortMode" /\ q.cm.status = "NO_DEV"
      \/ /\ Touches(p, q, {"cm"}, {})
         /\ q.cm.state = p.cm.state /\ q.cm.status = "PORT_DIAG"
  <2> DEFINE q == CmAct(p, "port_fault", job)
  <2>1. q = PortFault(p, job)
    BY DEF CmAct
  <2> HIDE DEF q
  <2>2. CASE job.type = "DS_FAULT" /\ job.fault = "COM_ERR"
    <3> DEFINE c == Comlost(p)
    <3>1. q = [c EXCEPT !.cm.state = "CheckPortMode"]
      BY <2>1, <2>2 DEF PortFault
    <3>2. /\ DOMAIN c = PortFields /\ DOMAIN c.cm = {"state", "config", "status"}
          /\ \A f \in PortFields \ {"cm", "lost"} : c[f] = p[f]
          /\ c.cm.status = "NO_DEV" /\ c.lost = TRUE
      BY <1>2
    <3> HIDE DEF c
    <3>3. /\ DOMAIN q = PortFields /\ \A f \in PortFields \ {"cm"} : q[f] = c[f]
          /\ q.cm.state = "CheckPortMode" /\ q.cm.status = "NO_DEV" /\ q.lost = TRUE
      BY <3>1, <3>2 DEF PortFields
    <3>4. \A f \in PortFields \ {"cm", "lost"} : q[f] = p[f]
      BY <3>2, <3>3
    <3>5. Touches(p, q, {"cm", "lost"}, {})
      BY <1>0, <3>3, <3>4, TouchesFields
    <3> QED
      BY <3>3, <3>5 DEF q
  <2>3. CASE ~(job.type = "DS_FAULT" /\ job.fault = "COM_ERR")
    <3>1. /\ DOMAIN q = PortFields /\ \A f \in PortFields \ {"cm"} : q[f] = p[f]
          /\ q.cm.state = p.cm.state /\ q.cm.status = "PORT_DIAG"
      BY <1>0, <2>1, <2>3 DEF PortFault, PortFields
    <3>2. Touches(p, q, {"cm"}, {})
      BY <1>0, <3>1, TouchesFields
    <3> QED
      BY <3>1, <3>2 DEF q
  <2> QED
    BY <2>2, <2>3
<1>5. ASSUME NEW s \in PortStatus, NEW type \in {"DS_STARTUP", "OD_START"}
      PROVE  LET q == Post([p EXCEPT !.cm.status = s], [type |-> type]) IN
             /\ Touches(p, q, {"cm"}, {type}) /\ Posts(p.mbox, q.mbox, type)
             /\ q.cm.state = p.cm.state /\ q.cm.status = s
  <2> DEFINE q == [p EXCEPT !.cm.status = s]
             job1 == [type |-> type]
  <2>1. /\ DOMAIN q = PortFields /\ \A f \in PortFields \ {"cm"} : q[f] = p[f]
        /\ q.cm.state = p.cm.state /\ q.cm.status = s /\ q.mbox = p.mbox
    BY <1>0 DEF PortFields
  <2>2. job1 \in JobSet /\ job1.type \in {type}
    <3>1. p.cm.config \in ConfigRecords
      BY DEF PortOK, CmOK
    <3> QED
      BY <1>5, <3>1, CmJobTypes
  <2> HIDE DEF q, job1
  <2>3. Touches(p, q, {"cm"}, {type})
    BY <1>0, <2>1, TouchesFields
  <2>4. Touches(q, Post(q, job1), {"cm"}, {type})
    BY <2>2, <2>3, TouchesShaped, TouchesPost
  <2>5. Touches(p, Post(q, job1), {"cm"}, {type})
    BY <1>0, <2>3, <2>4, TouchesTwice
  <2>6. Post(q, job1).cm = q.cm /\ Post(q, job1).mbox = Append(p.mbox, job1)
    BY <2>1 DEF Post, PortFields
  <2>7. Posts(p.mbox, Append(p.mbox, job1), type)
    BY <1>0, <2>2 DEF Posts, Shaped
  <2> QED
    BY <2>1, <2>5, <2>6, <2>7 DEF q, job1
<1>6. LET q == CmAct(p, "start_ds", job) IN
      /\ Touches(p, q, {"cm"}, {"DS_STARTUP"}) /\ Posts(p.mbox, q.mbox, "DS_STARTUP")
      /\ q.cm.state = p.cm.state /\ q.cm.status = "PREOP"
  <2>1. CmAct(p, "start_ds", job) =
          Post([p EXCEPT !.cm.status = "PREOP"], [type |-> "DS_STARTUP"])
    BY DEF CmAct
  <2> QED
    BY <1>5, <2>1 DEF PortStatus
<1>7. LET q == CmAct(p, "ds_ready", job) IN
      Touches(p, q, {"cm"}, {"SM_OPERATE_REQ"}) /\ q.cm = p.cm
  <2> DEFINE job1 == [type |-> "SM_OPERATE_REQ"]
  <2>1. CmAct(p, "ds_ready", job) = Post(p, job1)
    BY DEF CmAct, SM_Operate
  <2>2. job1 \in JobSet /\ job1.type = "SM_OPERATE_REQ"
    BY CmJobTypes DEF PortOK, CmOK
  <2> HIDE DEF job1
  <2>3. Touches(p, Post(p, job1), {"cm"}, {"SM_OPERATE_REQ"})
    BY <1>0, <2>2, TouchesPost
  <2>4. Post(p, job1).cm = p.cm
    BY <1>0 DEF Post, PortFields
  <2> QED
    BY <2>1, <2>3, <2>4
<1>8. LET q == CmAct(p, "sm_operate", job) IN
      /\ Touches(p, q, {"cm"}, {"OD_START"})
      /\ q.cm.state = p.cm.state /\ q.cm.status = "OP"
  <2>1. CmAct(p, "sm_operate", job) =
          Post([p EXCEPT !.cm.status = "OP"], [type |-> "OD_START"])
    BY DEF CmAct
  <2> QED
    BY <1>5, <2>1 DEF PortStatus
<1> QED
  BY <1>1, <1>3, <1>4, <1>6, <1>7, <1>8 DEF Shows

LEMMA CmRowsFrom ==
  ASSUME NEW row \in CmTransitions
  PROVE  /\ row[4] = "start_ds" => row[2] = "SM_COMREADY"
         /\ row[4] \in {"comlost", "port_fault"} =>
              row[1] \notin {"Port_DIDO", "Port_Deactivated"} /\ row[2] # "CFG_CHANGE"
  BY SMTT(60) DEF CmTransitions

LEMMA CmRowDirects ==
  ASSUME NEW p, Shaped(p), NEW row \in CmTransitions, row[1] = p.cm.state,
         NEW q, PortOK(q), q.cm.state = row[3],
         q.cm.status = p.cm.status, q.cm.config = p.cm.config, q.mbox = p.mbox,
         \A f \in PortFields \ {"cm"} : q[f] = p[f],
         NEW job, NEW config, config = job.config,
         row[2] = "CFG_CHANGE" => config \in ConfigRecords,
         NEW r, r = CmAct(q, row[4], job)
  PROVE  Directs(p, r, row[2], config)
<1>0. DOMAIN q = PortFields /\ Shaped(p)
  BY DEF PortOK
<1>2. /\ row[4] = "start_ds" => row[2] = "SM_COMREADY"
      /\ row[4] \in {"comlost", "port_fault"} =>
           p.cm.state \notin {"Port_DIDO", "Port_Deactivated"} /\ row[2] # "CFG_CHANGE"
  BY CmRowsFrom
<1>6. Touches(p, q, {"cm"}, {}) /\ Touches(p, p, {}, {})
  BY <1>0, TouchesFields, TouchesNot
<1>7. ASSUME NEW F, NEW T, Touches(q, r, F, T), "cm" \in F PROVE Touches(p, r, F, T)
  <2>1. Touches(p, q, F, T)
    BY <1>6, <1>7, TouchesMore
  <2> QED
    BY <1>0, <1>7, <2>1, TouchesTwice
<1>8. CASE row[4] = "ignore" /\ row[3] = row[1]
  <2>1. r = CmAct(q, "ignore", job)
    BY <1>8
  <2>2. r = q
    BY <2>1, CmActDirects
  <2> QED
    BY <1>6, <1>8, <2>2 DEF Directs, Shows
<1>9. CASE row[4] = "comlost" /\ row[3] = "CheckPortMode" /\ row[1] # "DS_ParamManager"
  <2>1. /\ Touches(q, r, {"cm", "lost"}, {}) /\ r.lost = TRUE
        /\ Shows(r, q.cm.state, "NO_DEV")
    <3>1. r = CmAct(q, "comlost", job)
      BY <1>9
    <3> QED
      BY ONLY PortOK(q), <3>1, CmActDirects
  <2>2. Touches(p, r, {"cm", "lost"}, {})
    BY <1>7, <2>1
  <2> QED
    BY <1>2, <1>9, <2>1, <2>2 DEF Directs, Shows
<1>10. CASE /\ row[4] = "port_fault" /\ row[3] = "PortFault"
            /\ row[1] = "DS_ParamManager" => row[2] = "DS_Fault"
  <2>1. \/ /\ Touches(q, r, {"cm", "lost"}, {}) /\ r.lost = TRUE
           /\ Shows(r, "CheckPortMode", "NO_DEV")
        \/ /\ Touches(q, r, {"cm"}, {})
           /\ Shows(r, q.cm.state, "PORT_DIAG")
    <3>1. r = CmAct(q, "port_fault", job)
      BY <1>10
    <3> QED
      BY ONLY PortOK(q), <3>1, CmActDirects
  <2>2. CASE /\ Touches(q, r, {"cm", "lost"}, {}) /\ r.lost = TRUE
             /\ Shows(r, "CheckPortMode", "NO_DEV")
    <3>1. Touches(p, r, {"cm", "lost"}, {})
      BY <1>7, <2>2
    <3> QED
      BY <1>2, <1>10, <2>2, <3>1 DEF Directs, Shows
  <2>3. CASE /\ Touches(q, r, {"cm"}, {})
             /\ Shows(r, q.cm.state, "PORT_DIAG")
    <3>1. Touches(p, r, {"cm"}, {})
      BY <1>7, <2>3
    <3> QED
      BY <1>2, <1>10, <2>3, <3>1 DEF Directs, Shows
  <2> QED
    BY <2>1, <2>2, <2>3
<1>11. CASE row[4] = "start_ds" /\ row[1] = "SM_Startup" /\ row[3] = "DS_ParamManager"
  <2>1. /\ Touches(q, r, {"cm"}, {"DS_STARTUP"}) /\ Posts(q.mbox, r.mbox, "DS_STARTUP")
        /\ Shows(r, q.cm.state, "PREOP")
    <3>1. r = CmAct(q, "start_ds", job)
      BY <1>11
    <3> QED
      BY ONLY PortOK(q), <3>1, CmActDirects
  <2>2. Touches(p, r, {"cm"}, {"DS_STARTUP"})
    BY <1>7, <2>1
  <2> QED
    BY <1>2, <1>11, <2>1, <2>2 DEF Directs, Shows
<1>12. CASE /\ row[4] = "ds_ready" /\ row[1] = "DS_ParamManager" /\ row[2] = "DS_Ready"
            /\ row[3] = "WaitingOnOperate"
  <2>1. Touches(q, r, {"cm"}, {"SM_OPERATE_REQ"}) /\ Shows(r, q.cm.state, q.cm.status)
    <3>1. r = CmAct(q, "ds_ready", job)
      BY <1>12
    <3> QED
      BY ONLY PortOK(q), <3>1, CmActDirects
  <2>2. Touches(p, r, {"cm"}, {"SM_OPERATE_REQ"})
    BY <1>7, <2>1
  <2> QED
    BY <1>12, <2>1, <2>2 DEF Directs, Shows
<1>13. CASE row[4] = "sm_operate" /\ row[1] = "WaitingOnOperate" /\ row[3] = "Port_Active"
  <2>1. /\ Touches(q, r, {"cm"}, {"OD_START"})
        /\ Shows(r, q.cm.state, "OP")
    <3>1. r = CmAct(q, "sm_operate", job)
      BY <1>13
    <3> QED
      BY ONLY PortOK(q), <3>1, CmActDirects
  <2>2. Touches(p, r, {"cm"}, {"OD_START"})
    BY <1>7, <2>1
  <2> QED
    BY <1>13, <2>1, <2>2 DEF Directs, Shows
<1>14. CASE /\ row[4] = "check_mode" /\ row[2] = "CFG_CHANGE"
            /\ row[1] # "DS_ParamManager"
  <2>0. r = CmAct(q, "check_mode", job)
    BY <1>14
  <2>1. r = CheckMode(q, config) /\ config \in ConfigRecords
    <3>1. r = CheckMode(q, job.config)
      BY ONLY PortOK(q), <2>0, CmActDirects
    <3> QED
      BY <1>14, <3>1
  <2>2. /\ Touches(q, r, {"cm"}, Handed) /\ Posts(q.mbox, r.mbox, "OD_STOP")
        /\ r.cm.state \in {"SM_Startup", "Port_DIDO", "Port_Deactivated"}
        /\ r.cm.status \in {q.cm.status, "DIDO", "DEACTIVATED"}
        /\ \A i \in Len(q.mbox) + 1 .. Len(r.mbox) :
              r.mbox[i].type = "SM_SET_PORT_CFG_REQ" => r.mbox[i].config = config
    BY ONLY PortOK(q), <2>1, CheckModeDirects
  <2>3. Touches(p, r, {"cm"}, Handed)
    BY <1>7, <2>2
  <2> QED
    BY <1>14, <2>2, <2>3 DEF Directs, Shows
<1> QED
  BY <1>8, <1>9, <1>10, <1>11, <1>12, <1>13, <1>14, CmRowsKinds

LEMMA CmEventDirects ==
  ASSUME NEW p, PortOK(p), NEW event, NEW job,
         event = "CFG_CHANGE" => job.config \in ConfigRecords
  PROVE  Directs(p, CmEvent(p, event, job), event, job.config)
<1> SUFFICES ASSUME NEW r, r = CmEvent(p, event, job), NEW config, config = job.config
             PROVE  Directs(p, r, event, config)
  OBVIOUS
<1> DEFINE rows == {row \in CmTransitions : row[1] = p.cm.state /\ row[2] = event}
<1>0. /\ DOMAIN p = PortFields /\ DOMAIN p.cm = {"state", "config", "status"} /\ Shaped(p)
  BY OKShaped DEF PortOK, CmOK
<1>1. CASE rows = {}
  <2>1. r = p
    BY <1>1 DEF CmEvent
  <2>2. Touches(p, p, {"cm"}, {})
    BY <1>0, TouchesNot
  <2> QED
    BY <2>1, <2>2 DEF Directs, Shows
<1>2. CASE rows # {}
  <2> DEFINE row == CHOOSE x \in rows : TRUE
             q == [p EXCEPT !.cm.state = row[3]]
  <2>1. row \in rows
    BY <1>2
  <2>2. r = CmAct(q, row[4], job)
    BY <1>2 DEF CmEvent
  <2> HIDE DEF row
  <2>3. row \in CmTransitions /\ row[1] = p.cm.state /\ row[2] = event
    BY <2>1
  <2>4. /\ q.cm.state = row[3] /\ q.cm.status = p.cm.status /\ q.mbox = p.mbox
        /\ q.cm.config = p.cm.config
        /\ DOMAIN q = PortFields /\ \A f \in PortFields \ {"cm"} : q[f] = p[f]
    BY <1>0 DEF PortFields
  <2>5. PortOK(q)
    BY <2>3, CmRows, SetCmState, StillPortOK
  <2> HIDE DEF q
  <2>6. Directs(p, r, row[2], config)
    BY <1>0, <2>2, <2>3, <2>4, <2>5, CmRowDirects
  <2> QED
    BY <2>3, <2>6
<1> QED
  BY <1>1, <1>2

\* The callbacks of the configuration manager
LEMMA CmCallbacksDirect ==
  ASSUME NEW p, PortOK(p), NEW job
  PROVE  /\ job.config \in ConfigRecords =>
              Directs(p, CmPortConfiguration(p, job), "CFG_CHANGE", job.config)
         /\ Directs(p, CmDsReady(p, job), "DS_Ready", job.config)
         /\ Directs(p, CmDsFault(p, job), "DS_Fault", job.config)
         /\ job.mode \in PortModes =>
              \/ \E event : /\ event \notin {"DS_Ready", "DS_Fault", "CFG_CHANGE"}
                            /\ event = "SM_COMREADY" => job.mode = "COMREADY"
                            /\ Directs(p, CmPortModeInd(p, job), event, job.config)
              \/ /\ job.mode = "INACTIVE"
                 /\ Touches(p, CmPortModeInd(p, job), {"cm"}, {})
                 /\ CmPortModeInd(p, job).cm.state = p.cm.state
                 /\ CmPortModeInd(p, job).cm.status = "DEACTIVATED"
<1>0. /\ DOMAIN p = PortFields /\ DOMAIN p.cm = {"state", "config", "status"} /\ Shaped(p)
  BY OKShaped DEF PortOK, CmOK
<1>1. /\ job.config \in ConfigRecords =>
              Directs(p, CmPortConfiguration(p, job), "CFG_CHANGE", job.config)
      /\ Directs(p, CmDsReady(p, job), "DS_Ready", job.config)
      /\ Directs(p, CmDsFault(p, job), "DS_Fault", job.config)
  BY CmEventDirects DEF CmPortConfiguration, CmDsReady, CmDsFault
<1>2. SUFFICES ASSUME job.mode \in PortModes, NEW q, q = CmPortModeInd(p, job)
               PROVE  \/ \E event : /\ event \notin {"DS_Ready", "DS_Fault", "CFG_CHANGE"}
                                    /\ event = "SM_COMREADY" => job.mode = "COMREADY"
                                    /\ Directs(p, q, event, job.config)
                      \/ /\ job.mode = "INACTIVE"
                         /\ Touches(p, q, {"cm"}, {})
                         /\ q.cm.state = p.cm.state /\ q.cm.status = "DEACTIVATED"
  BY <1>1
<1>3. CASE job.mode = "INACTIVE"
  <2>1. q = [p EXCEPT !.cm.status = "DEACTIVATED"]
    BY <1>2, <1>3 DEF CmPortModeInd, Faults
  <2>2. /\ DOMAIN q = PortFields /\ \A f \in PortFields \ {"cm"} : q[f] = p[f]
        /\ q.cm.state = p.cm.state /\ q.cm.status = "DEACTIVATED"
    BY <1>0, <2>1 DEF PortFields
  <2> QED
    BY <1>0, <1>3, <2>2, TouchesFields
<1>4. CASE job.mode # "INACTIVE"
  <2>1. \/ q = CmEvent(p, "SM_COMREADY", job) /\ job.mode = "COMREADY"
        \/ q \in {CmEvent(p, "SM_FAULT", job), CmEvent(p, "SM_OPERATE", job),
                  CmEvent(p, "SM_COMLOST", job), p}
    BY <1>2, <1>4 DEF CmPortModeInd, PortModes, Faults
  <2>2. /\ Directs(p, CmEvent(p, "SM_COMREADY", job), "SM_COMREADY", job.config)
        /\ Directs(p, CmEvent(p, "SM_FAULT", job), "SM_FAULT", job.config)
        /\ Directs(p, CmEvent(p, "SM_OPERATE", job), "SM_OPERATE", job.config)
        /\ Directs(p, CmEvent(p, "SM_COMLOST", job), "SM_COMLOST", job.config)
    BY CmEventDirects
  <2>3. Directs(p, p, "SM_COMLOST", job.config)
    BY <1>0, TouchesNot DEF Directs
  <2> QED
    BY <2>1, <2>2, <2>3
<1> QED
  BY <1>3, <1>4

\* What data storage does: it changes only itself, and asks for services or reports.
DsPosted == {"AL_REQ", "DS_READY", "DS_FAULT"}
DsTouches(p, q) == Touches(p, q, {"ds"}, DsPosted)

LEMMA DsTouchesShaped == ASSUME NEW p, NEW q, DsTouches(p, q) PROVE Shaped(q)
  BY TouchesShaped DEF DsTouches

LEMMA DsTouchesTwice ==
  ASSUME NEW p, Shaped(p), NEW q, NEW r, DsTouches(p, q), DsTouches(q, r)
  PROVE  DsTouches(p, r)
  BY TouchesTwice DEF DsTouches

LEMMA DsFieldsTouch ==
  ASSUME NEW p, Shaped(p), NEW T
  PROVE  /\ \A v : Touches(p, [p EXCEPT !.ds.event = v], {"ds"}, T)
         /\ \A v : Touches(p, [p EXCEPT !.ds.enable = v], {"ds"}, T)
         /\ \A v : Touches(p, [p EXCEPT !.ds.answer = v], {"ds"}, T)
         /\ \A v : Touches(p, [p EXCEPT !.ds.fault = v], {"ds"}, T)
         /\ \A v : Touches(p, [p EXCEPT !.ds.pos = v], {"ds"}, T)
         /\ \A v, w : Touches(p, [p EXCEPT !.ds.id = v, !.ds.valid = w], {"ds"}, T)
         /\ \A v, w : Touches(p, [p EXCEPT !.ds.state = v, !.ds.event = w], {"ds"}, T)
<1>1. DOMAIN p = PortFields
  BY DEF Shaped
<1>2. "mbox" \notin {"ds"}
  OBVIOUS
<1>3. ASSUME NEW q, DOMAIN q = PortFields, \A f \in PortFields \ {"ds"} : q[f] = p[f]
      PROVE  Touches(p, q, {"ds"}, T)
  BY <1>2, <1>3, TouchesFields
<1>4. ASSUME NEW v PROVE Touches(p, [p EXCEPT !.ds.event = v], {"ds"}, T)
  BY <1>1, <1>3 DEF PortFields
<1>5. ASSUME NEW v PROVE Touches(p, [p EXCEPT !.ds.enable = v], {"ds"}, T)
  BY <1>1, <1>3 DEF PortFields
<1>6. ASSUME NEW v PROVE Touches(p, [p EXCEPT !.ds.answer = v], {"ds"}, T)
  BY <1>1, <1>3 DEF PortFields
<1>7. ASSUME NEW v PROVE Touches(p, [p EXCEPT !.ds.fault = v], {"ds"}, T)
  BY <1>1, <1>3 DEF PortFields
<1>8. ASSUME NEW v PROVE Touches(p, [p EXCEPT !.ds.pos = v], {"ds"}, T)
  BY <1>1, <1>3 DEF PortFields
<1>9. ASSUME NEW v, NEW w PROVE Touches(p, [p EXCEPT !.ds.id = v, !.ds.valid = w], {"ds"}, T)
  BY <1>1, <1>3 DEF PortFields
<1>10. ASSUME NEW v, NEW w PROVE Touches(p, [p EXCEPT !.ds.state = v, !.ds.event = w], {"ds"}, T)
  BY <1>1, <1>3 DEF PortFields
<1> QED
  BY <1>4, <1>5, <1>6, <1>7, <1>8, <1>9, <1>10

LEMMA RaisesTouch ==
  ASSUME NEW p, Shaped(p), NEW q, NEW T, Touches(p, q, {"ds"}, T), NEW event
  PROVE  Touches(p, Raises(q, event), {"ds"}, T)
<1>1. Shaped(q)
  BY TouchesShaped
<1>2. Touches(q, Raises(q, event), {"ds"}, T)
  BY <1>1, DsFieldsTouch DEF Raises
<1> QED
  BY <1>2, TouchesTwice

\* Services asked for, reports, and events raised
LEMMA DsServicesTouch ==
  ASSUME NEW p, Shaped(p), NEW q, DsTouches(p, q)
  PROVE  /\ DsTouches(p, DsRead(q)) /\ DsTouches(p, DsWrite(q)) /\ DsTouches(p, DS_Ready(q))
         /\ \A fault \in DsFaults : DsTouches(p, DS_Fault(q, fault))
         /\ \A event : DsTouches(p, Raises(q, event))
<1>0. Shaped(q)
  BY DsTouchesShaped
<1>1. ASSUME NEW direction \in Directions
      PROVE  DsTouches(p, AL_ReadWrite_req(q, direction, "ISDU", "DS"))
  <2> DEFINE job == [type |-> "AL_REQ", direction |-> direction, index |-> "ISDU", who |-> "DS"]
  <2>1. job \in [type : {"AL_REQ"}, direction : Directions, index : {"ISDU"}, who : {"SM", "DS"}]
    OBVIOUS
  <2>2. job \in JobSet
    BY <2>1 DEF JobSet, QuietJobs
  <2>3. job.type \in DsPosted
    BY DEF DsPosted
  <2>4. DsTouches(q, Post(q, job))
    BY <1>0, <2>2, <2>3, TouchesPost DEF DsTouches
  <2> QED
    BY <2>4, DsTouchesTwice DEF AL_ReadWrite_req
<1>2. [type |-> "DS_READY"] \in JobSet
  BY DEF JobSet, QuietJobs
<1>3. ASSUME NEW fault \in DsFaults PROVE [type |-> "DS_FAULT", fault |-> fault] \in JobSet
  BY DEF JobSet, QuietJobs
<1>4. DsTouches(p, DS_Ready(q))
  <2>1. DsTouches(q, DS_Ready(q))
    BY <1>0, <1>2, TouchesPost DEF DS_Ready, DsPosted, DsTouches
  <2> QED
    BY <2>1, DsTouchesTwice
<1>5. ASSUME NEW fault \in DsFaults PROVE DsTouches(p, DS_Fault(q, fault))
  <2>1. DsTouches(q, DS_Fault(q, fault))
    BY <1>0, <1>3, TouchesPost DEF DS_Fault, DsPosted, DsTouches
  <2> QED
    BY <2>1, DsTouchesTwice
<1>6. \A event : DsTouches(p, Raises(q, event))
  BY RaisesTouch DEF DsTouches
<1> QED
  BY <1>1, <1>4, <1>5, <1>6 DEF DsRead, DsWrite, Directions

\* The actions of data storage
LEMMA DsActTouch ==
  ASSUME NEW p, Shaped(p), NEW action \in DsActions, NEW event,
         action = "fault" => event \in DsFaultKinds,
         action = "upload" => event \in {"DO_UPLOAD", "READ_DONE"}
  PROVE  DsTouches(p, DsAct(p, action, event))
<1> SUFFICES ASSUME NEW r, r = DsAct(p, action, event) PROVE DsTouches(p, r)
  OBVIOUS
<1>1. /\ DsTouches(p, p)
      /\ \A v, w : DsTouches(p, [p EXCEPT !.ds.id = v, !.ds.valid = w])
      /\ \A v : /\ DsTouches(p, [p EXCEPT !.ds.pos = v])
                /\ DsTouches(p, [p EXCEPT !.ds.fault = v])
                /\ DsTouches(p, [p EXCEPT !.ds.enable = v])
  BY TouchesNot, DsFieldsTouch DEF DsTouches
<1>2. ASSUME NEW q, DsTouches(p, q)
      PROVE  /\ DsTouches(p, DsRead(q)) /\ DsTouches(p, DsWrite(q))
             /\ DsTouches(p, DS_Ready(q))
             /\ \A fault \in DsFaults : DsTouches(p, DS_Fault(q, fault))
             /\ \A e : DsTouches(p, Raises(q, e))
  BY <1>2, DsServicesTouch
<1>3. {"UP", "DOWN", "ID", "SIZE", "LOCK"} \subseteq DsFaults
  BY DEF DsFaults
<1>4. CASE action \in {"none", "off", "ready", "readparam", "init_dl", "dl_done"}
  <2>1. r \in {p, DsRead(p), DsWrite(p), DS_Ready(p), Raises(DS_Ready(p), "READY")}
    BY <1>4 DEF DsAct
  <2> QED
    BY <1>1, <1>2, <2>1
<1>5. CASE action = "delete"
  <2>1. r = [p EXCEPT !.ds.id = "nobody", !.ds.valid = FALSE]
    BY <1>5 DEF DsAct
  <2>2. \A v, w : DsTouches(p, [p EXCEPT !.ds.id = v, !.ds.valid = w])
    BY <1>1
  <2>3. DsTouches(p, [p EXCEPT !.ds.id = "nobody", !.ds.valid = FALSE])
    BY ONLY <2>2, ZenonT(60)
  <2> QED
    BY ONLY <2>1, <2>3, ZenonT(60)
<1>6. CASE action \in {"reinit", "chk_id", "chk_mem_size", "chk_upload", "chk_validity",
                       "chk_csum", "ul_fault", "dl_fault"}
  <2>1. r \in {DsRead(p), DsWrite(p)} \/ \E e : r = Raises(p, e)
    <3>1. CASE action = "reinit"
      BY <3>1 DEF DsAct
    <3>2. CASE action = "chk_id"
      BY <3>2 DEF DsAct
    <3>3. CASE action = "chk_mem_size"
      BY <3>3 DEF DsAct
    <3>4. CASE action = "chk_upload"
      <4>1. r = CASE p.ds.answer = "locked" -> Raises(p, "FAULT_LOCK")
                  [] p.ds.answer = "upload" /\ p.ds.upload -> DsWrite(p)
                  [] OTHER -> DsRead(p)
        BY <3>4 DEF DsAct
      <4>2. r \in {Raises(p, "FAULT_LOCK"), DsWrite(p), DsRead(p)}
        BY <4>1
      <4> QED
        BY <4>2
    <3>5. CASE action = "chk_validity"
      BY <3>5 DEF DsAct
    <3>6. CASE action = "chk_csum"
      BY <3>6 DEF DsAct
    <3>7. CASE action = "ul_fault"
      BY <3>7 DEF DsAct
    <3>8. CASE action = "dl_fault"
      BY <3>8 DEF DsAct
    <3> QED
      BY <1>6, <3>1, <3>2, <3>3, <3>4, <3>5, <3>6, <3>7, <3>8
  <2> QED
    BY <1>1, <1>2, <2>1
<1>7. CASE action = "upload"
  <2>1. event \in {"DO_UPLOAD", "READ_DONE"} /\ r = DsUploadAction(p, event)
    BY <1>7 DEF DsAct
  <2>2. \/ \E v : r = Raises([p EXCEPT !.ds.pos = v], "MORE_DATA")
        \/ r = Raises(DsRead(p), "STORE_DATA")
    BY <2>1 DEF DsUploadAction
  <2> QED
    BY <1>1, <1>2, <2>2
<1>8. CASE action = "decompose_set"
  <2>1. r = DsDecomposeAction(p, event)
    BY <1>8 DEF DsAct
  <2>2. \E e : r \in {Raises(p, e), Raises([p EXCEPT !.ds.pos = 0], e)}
    BY <2>1 DEF DsDecomposeAction
  <2> QED
    BY <1>1, <1>2, <2>2
<1>9. CASE action = "write_param"
  <2>1. \E v : r = DsWrite([p EXCEPT !.ds.pos = v])
    BY <1>9 DEF DsAct
  <2> QED
    BY <1>1, <1>2, <2>1
<1>10. CASE action = "fault"
  <2>1. event \in DsFaultKinds /\ r = DsFaultAction(p, event)
    BY <1>10 DEF DsAct
  <2>2. \/ r \in {DsWrite([p EXCEPT !.ds.fault = "UP"]), DsWrite([p EXCEPT !.ds.fault = "DOWN"])}
        \/ r \in {Raises(DS_Fault(p, "ID"), "FAULT_DONE"), Raises(DS_Fault(p, "SIZE"), "FAULT_DONE"),
                  Raises(DS_Fault([p EXCEPT !.ds.enable = FALSE], "LOCK"), "FAULT_DONE")}
    BY <2>1 DEF DsFaultAction, DsFaultKinds
  <2> QED
    BY <1>1, <1>2, <1>3, <2>2
<1> QED
  BY <1>4, <1>5, <1>6, <1>7, <1>8, <1>9, <1>10 DEF DsActions

LEMMA DsTurnTouch == ASSUME NEW p, Shaped(p) PROVE DsTouches(p, DsTurn(p))
<1> DEFINE rows == {row \in DsTransitions : row[1] = p.ds.state /\ row[2] = p.ds.event}
<1>1. CASE rows = {}
  <2>1. DsTurn(p) = Raises(p, "NONE")
    BY <1>1 DEF DsTurn
  <2> QED
    BY <2>1, TouchesNot, RaisesTouch DEF DsTouches
<1>2. CASE rows # {}
  <2> DEFINE row == CHOOSE r \in rows : TRUE
             q == [p EXCEPT !.ds.state = row[3], !.ds.event = "NONE"]
             event == p.ds.event
  <2>1. row \in rows
    BY <1>2
  <2>2. DsTurn(p) = DsAct(q, row[4], event)
    BY <1>2 DEF DsTurn
  <2>3. /\ row[4] \in DsActions
        /\ row[4] = "fault" => event \in DsFaultKinds
        /\ row[4] = "upload" => event \in {"DO_UPLOAD", "READ_DONE"}
    BY <2>1, DsRows
  <2>4. DsTouches(p, q) /\ Shaped(q)
    BY DsFieldsTouch, TouchesShaped DEF DsTouches
  <2> HIDE DEF row, q, event
  <2>5. DsTouches(q, DsAct(q, row[4], event))
    BY <2>3, <2>4, DsActTouch
  <2> QED
    BY <2>2, <2>4, <2>5, DsTouchesTwice
<1> QED
  BY <1>1, <1>2

LEMMA DsEventTouch ==
  ASSUME NEW p, Shaped(p), NEW q, DsTouches(p, q), NEW event
  PROVE  DsTouches(p, DsEvent(q, event))
<1>1. ASSUME NEW r, DsTouches(p, r) PROVE DsTouches(p, DsTurn(r))
  BY <1>1, DsTouchesShaped, DsTouchesTwice, DsTurnTouch
<1>2. DsTouches(p, Raises(q, event))
  BY DsServicesTouch
<1> QED
  BY <1>1, <1>2 DEF DsEvent

\* The callbacks of data storage change nothing but data storage, and post only services
\* for the application layer and reports to the configuration manager.
LEMMA DsCallbacksTouch ==
  ASSUME NEW p, PortOK(p), NEW job
  PROVE  /\ DsTouches(p, DsStartup(p, job))
         /\ DsTouches(p, DsInit(p, job))
         /\ DsTouches(p, DsDelete(p, job))
         /\ \A answer : /\ DsTouches(p, DsReadCnf(p, job, answer))
                        /\ DsTouches(p, DsWriteCnf(p, job, answer))
<1>0. Shaped(p) /\ p.ds.fault \in DsFaults /\ DOMAIN p = PortFields
  BY OKShaped DEF PortOK, DsOK
<1>1. DsTouches(p, p)
  BY <1>0, TouchesNot DEF DsTouches
<1>2. ASSUME NEW q, DsTouches(p, q), NEW event PROVE DsTouches(p, DsEvent(q, event))
  BY <1>0, <1>2, DsEventTouch
<1>3. DsTouches(p, DsStartup(p, job)) /\ DsTouches(p, DsDelete(p, job))
  BY <1>1, <1>2 DEF DsStartup, DsDelete
<1>4. DsTouches(p, DsInit(p, job))
  <2> DEFINE manual == job.config.mode = "CFGCOM"
             a == manual /\ job.config.check = "V11_BAK_RESTORE"
             b == manual /\ job.config.check \in {"V11_RESTORE", "V11_BAK_RESTORE"}
             c == p.ds.enable \/ b
             d == IF manual THEN "configured" ELSE "nobody"
             q == [p EXCEPT !.ds.upload = a, !.ds.download = b, !.ds.enable = c,
                            !.ds.fault = "NONE", !.ds.pending = d]
  <2>1. DsInit(p, job) = DsEvent(q, "INIT")
    BY <1>0 DEF DsInit, PortFields, PortOK, DsOK
  <2> HIDE DEF a, b, c, d
  <2>2. DOMAIN q = PortFields /\ \A f \in PortFields \ {"ds"} : q[f] = p[f]
    BY <1>0 DEF PortFields
  <2> HIDE DEF q
  <2>3. DsTouches(p, q)
    BY <1>0, <2>2, TouchesFields DEF DsTouches
  <2> QED
    BY <1>2, <2>1, <2>3
<1>5. ASSUME NEW answer PROVE DsTouches(p, DsReadCnf(p, job, answer))
  <2> DEFINE q == [p EXCEPT !.ds.answer = answer]
             error == ~job.ok \/ answer = "negative"
             checksum == IF error THEN DsEvent(q, "COM_ERR") ELSE q
             done == CASE job.ok /\ answer = "garbled"  -> DsEvent(q, "COM_ERR")
                       [] p.ds.state = "CheckIdentity"  ->
                            DsEvent(q, IF error THEN "FAULT_ID" ELSE "PASSED")
                       [] p.ds.state = "CheckMemSize"   ->
                            DsEvent(q, IF error THEN "FAULT_SIZE" ELSE "PASSED")
                       [] p.ds.state = "ReadParameter"  ->
                            DsEvent(q, IF error THEN "DEV_ERR" ELSE "READ_DONE")
                       [] p.ds.state = "CheckUpload"    -> DsEvent(checksum, "NO_UPLOAD")
                       [] p.ds.state = "StoreDataSet"   -> DsWrite(checksum)
                       [] p.ds.state = "Download_Done"  -> DsEvent(checksum, "READY")
                       [] OTHER -> q
  <2>1. DsReadCnf(p, job, answer) = [done EXCEPT !.ds.answer = "plain"]
    BY DEF DsReadCnf
  <2>2. \/ \E e : done \in {DsEvent(q, e), DsEvent(checksum, e)}
        \/ done \in {DsWrite(checksum), q}
    OBVIOUS
  <2>3. DsTouches(p, q)
    BY <1>0, DsFieldsTouch DEF DsTouches
  <2> HIDE DEF q, done
  <2>4. DsTouches(p, checksum)
    BY <1>2, <2>3
  <2> HIDE DEF checksum
  <2>5. DsTouches(p, DsWrite(checksum))
    BY <1>0, <2>4, DsServicesTouch
  <2>6. DsTouches(p, done) /\ Shaped(done)
    BY <1>2, <2>2, <2>3, <2>4, <2>5, DsTouchesShaped
  <2>7. DsTouches(done, [done EXCEPT !.ds.answer = "plain"])
    BY <2>6, DsFieldsTouch DEF DsTouches
  <2> QED
    BY <1>0, <2>1, <2>6, <2>7, DsTouchesTwice
<1>6. ASSUME NEW answer PROVE DsTouches(p, DsWriteCnf(p, job, answer))
  <2> DEFINE stored == [p EXCEPT !.ds.id = p.ds.pending, !.ds.valid = TRUE]
             reported == DS_Fault(p, p.ds.fault)
             r == DsWriteCnf(p, job, answer)
  <2>1. \/ \E e : r \in {DsEvent(p, e), DsEvent(stored, e), DsEvent(reported, e)}
        \/ r \in {DsRead(p), p}
    BY DEF DsWriteCnf
  <2>2. DsTouches(p, stored) /\ DsTouches(p, reported) /\ DsTouches(p, DsRead(p))
    BY <1>0, <1>1, DsFieldsTouch, DsServicesTouch DEF DsTouches
  <2> HIDE DEF r, stored, reported
  <2>3. DsTouches(p, r)
    BY <1>1, <1>2, <2>1, <2>2
  <2> QED
    BY <2>3 DEF r
<1> QED
  BY <1>3, <1>4, <1>5, <1>6

=============================================================================
