---------------------------- MODULE PagingProofs ----------------------------
(***************************************************************************)
(* Proofs about the two components that answer in pages.  EventLog, for    *)
(* any number of goroutines, any capacity of the buffer, the batch and the *)
(* trail, and any settings: the access log and the audit trail.  Listing,  *)
(* for any keys and parameters: ListObjects over a bucket that changes.    *)
(***************************************************************************)
EXTENDS EventLog, Listing, FiniteSetTheorems, SequenceTheorems, WellFoundedInduction, TLAPS

Event == [id : Nat, ts : Nat]
Record == [id : Nat, ts : Nat, seq : Nat]

\* Records with different sequence numbers, as bolt's keys make them.
Keyed(S) ==
  /\ S \subseteq Record /\ IsFiniteSet(S)
  /\ \A e, f \in S : e.seq = f.seq => e = f

Newer(S, e) == {f \in S : Before(e, f)}
Older(S, e) == {f \in S : Before(f, e)}
-----------------------------------------------------------------------------
\* The order of the keys.
LEMMA BeforeFacts ==
  /\ \A e \in Record : ~Before(e, e)
  /\ \A e, f, g \in Record : Before(e, f) /\ Before(f, g) => Before(e, g)
  /\ \A e, f \in Record : Before(e, f) \/ Before(f, e) \/ e.seq = f.seq
BY DEF Before, Record

\* A part of a set of records is one.
LEMMA KeyedSubset ==
  ASSUME NEW S, Keyed(S), NEW T \in SUBSET S
  PROVE  Keyed(T)
BY FS_Subset DEF Keyed

\* Among different records of a set one comes first.
LEMMA Total ==
  ASSUME NEW S, Keyed(S), NEW e \in S, NEW f \in S, e # f
  PROVE  Before(e, f) \/ Before(f, e)
BY BeforeFacts DEF Keyed

\* Strict inclusion has a minimum in every set of subsets of a finite set.
LEMMA Smallest ==
  ASSUME NEW S, IsFiniteSet(S), NEW U, U \subseteq SUBSET S, U # {}
  PROVE  \E x \in U : \A y \in U : ~(y \subseteq x /\ y # x)
<1>1. IsWellFoundedOn(StrictSubsetOrdering(S), SUBSET S)
  BY FS_StrictSubsetOrderingWellFounded, FS_FiniteSubsetsOfFinite
<1>2. PICK x \in U : \A y \in U : ~(<<y, x>> \in StrictSubsetOrdering(S))
  BY <1>1, WFMin
<1>3. ASSUME NEW y \in U, y \subseteq x, y # x PROVE FALSE
  <2>1. <<y, x>> \in (SUBSET S) \X (SUBSET S)
    OBVIOUS
  <2>2. <<y, x>> \in StrictSubsetOrdering(S)
    BY <1>3, <2>1 DEF StrictSubsetOrdering
  <2> QED BY <1>2, <2>2
<1> QED BY <1>3

\* Some records have a newest one ...
LEMMA NewestExists ==
  ASSUME NEW S, Keyed(S), NEW T \in SUBSET S, T # {}
  PROVE  \E x \in T : \A y \in T : y # x => Before(y, x)
<1> DEFINE U == {Newer(S, e) : e \in T}
<1>1. U \subseteq SUBSET S /\ U # {}
  <2>1. \A e \in T : Newer(S, e) \in SUBSET S
    BY DEF Newer
  <2> QED BY <2>1
<1>2. PICK x \in T : \A y \in T : ~(Newer(S, y) \subseteq Newer(S, x) /\ Newer(S, y) # Newer(S, x))
  <2>1. IsFiniteSet(S)
    BY DEF Keyed
  <2> HIDE DEF U
  <2>2. PICK m \in U : \A n \in U : ~(n \subseteq m /\ n # m)
    BY <1>1, <2>1, Smallest
  <2> QED BY <2>2 DEF U
<1>3. ASSUME NEW y \in T, y # x, Before(x, y) PROVE FALSE
  <2>1. x \in Record /\ y \in Record /\ S \subseteq Record
    BY DEF Keyed
  <2>2. Newer(S, y) \subseteq Newer(S, x)
    BY <1>3, <2>1, BeforeFacts DEF Newer
  <2>3. y \in Newer(S, x) /\ y \notin Newer(S, y)
    BY <1>3, <2>1, BeforeFacts DEF Newer
  <2> QED BY <1>2, <2>2, <2>3
<1> QED BY <1>3, Total

\* ... and an oldest one.
LEMMA OldestExists ==
  ASSUME NEW S, Keyed(S), NEW T \in SUBSET S, T # {}
  PROVE  \E x \in T : \A y \in T : y # x => Before(x, y)
<1> DEFINE U == {Older(S, e) : e \in T}
<1>1. U \subseteq SUBSET S /\ U # {}
  <2>1. \A e \in T : Older(S, e) \in SUBSET S
    BY DEF Older
  <2> QED BY <2>1
<1>2. PICK x \in T : \A y \in T : ~(Older(S, y) \subseteq Older(S, x) /\ Older(S, y) # Older(S, x))
  <2>1. IsFiniteSet(S)
    BY DEF Keyed
  <2> HIDE DEF U
  <2>2. PICK m \in U : \A n \in U : ~(n \subseteq m /\ n # m)
    BY <1>1, <2>1, Smallest
  <2> QED BY <2>2 DEF U
<1>3. ASSUME NEW y \in T, y # x, Before(y, x) PROVE FALSE
  <2>1. x \in Record /\ y \in Record /\ S \subseteq Record
    BY DEF Keyed
  <2>2. Older(S, y) \subseteq Older(S, x)
    BY <1>3, <2>1, BeforeFacts DEF Older
  <2>3. y \in Older(S, x) /\ y \notin Older(S, y)
    BY <1>3, <2>1, BeforeFacts DEF Older
  <2> QED BY <1>2, <2>2, <2>3
<1> QED BY <1>3, Total
-----------------------------------------------------------------------------
(***************************************************************************)
(* What pruneByCount leaves: the newest records, as many as the cap        *)
(* allows.                                                                 *)
(***************************************************************************)
LEMMA PruneByCountFacts ==
  ASSUME NEW S, Keyed(S), NEW max \in Nat \ {0}
  PROVE  LET P == PruneByCount(S, max)
         IN /\ P \subseteq S /\ Cardinality(P) \in Nat /\ Cardinality(P) <= max
            /\ P # S => Cardinality(P) = max
            /\ \A e \in S \ P, f \in P : Before(e, f)
<1> DEFINE P == PruneByCount(S, max)
<1>0. P = {e \in S : Cardinality(Newer(S, e)) < max}
  BY DEF PruneByCount, Newer
<1>1. P \in SUBSET S /\ IsFiniteSet(S) /\ S \subseteq Record
  BY <1>0 DEF Keyed
<1> HIDE DEF P
<1>2. IsFiniteSet(P) /\ Cardinality(P) \in Nat
  BY <1>1, FS_Subset, FS_CardinalityType
<1>3. ASSUME NEW e \in S
      PROVE  IsFiniteSet(Newer(S, e)) /\ Cardinality(Newer(S, e)) \in Nat
  <2>1. Newer(S, e) \in SUBSET S
    BY DEF Newer
  <2> QED BY <1>1, <2>1, FS_Subset, FS_CardinalityType
<1>4. Cardinality(P) <= max
  <2>1. CASE P = {}
    BY <2>1, FS_EmptySet
  <2>2. CASE P # {}
    <3>1. PICK x \in P : \A y \in P : y # x => Before(x, y)
      BY <1>1, <2>2, OldestExists
    <3>2. P \ {x} \in SUBSET Newer(S, x)
      BY <1>1, <3>1 DEF Newer
    <3>3. Cardinality(P \ {x}) <= Cardinality(Newer(S, x)) /\ Cardinality(Newer(S, x)) \in Nat
      BY <1>1, <1>3, <3>2, FS_Subset
    <3>4. Cardinality(P \ {x}) = Cardinality(P) - 1
      BY <1>2, FS_RemoveElement
    <3>5. Cardinality(Newer(S, x)) < max
      BY <1>0
    <3> QED BY <1>2, <3>3, <3>4, <3>5
  <2> QED BY <2>1, <2>2
<1>5. ASSUME P # S PROVE Cardinality(P) = max
  <2>1. S \ P \in SUBSET S /\ S \ P # {}
    BY <1>1, <1>5
  <2>2. PICK x \in S \ P : \A y \in S \ P : y # x => Before(y, x)
    BY <2>1, NewestExists
  <2>3. Newer(S, x) \in SUBSET P
    <3>1. ASSUME NEW y \in Newer(S, x), y \notin P PROVE FALSE
      <4>1. y \in S /\ Before(x, y)
        BY <3>1 DEF Newer
      <4>2. y = x \/ Before(y, x)
        BY <2>2, <3>1, <4>1
      <4> QED BY <1>1, <4>1, <4>2, BeforeFacts
    <3> QED BY <3>1
  <2>4. Cardinality(Newer(S, x)) <= Cardinality(P) /\ Cardinality(Newer(S, x)) \in Nat
    BY <1>2, <1>3, <2>3, FS_Subset
  <2>5. ~(Cardinality(Newer(S, x)) < max)
    BY <1>0
  <2> QED BY <1>2, <1>4, <2>4, <2>5
<1>6. ASSUME NEW e \in S \ P, NEW f \in P PROVE Before(e, f)
  <2>1. CASE Before(f, e)
    <3>1. Newer(S, e) \in SUBSET Newer(S, f)
      BY <1>1, <2>1, BeforeFacts DEF Newer
    <3>2. /\ Cardinality(Newer(S, e)) <= Cardinality(Newer(S, f))
          /\ Cardinality(Newer(S, e)) \in Nat /\ Cardinality(Newer(S, f)) \in Nat
      BY <1>1, <1>3, <3>1, FS_Subset
    <3>3. ~(Cardinality(Newer(S, e)) < max) /\ Cardinality(Newer(S, f)) < max
      BY <1>0
    <3> QED BY <3>2, <3>3
  <2>2. e \in S /\ f \in S /\ e # f
    BY <1>1
  <2> QED BY <2>1, <2>2, Total
<1> QED BY <1>1, <1>2, <1>4, <1>5, <1>6 DEF P

\* What pruneByAge leaves: nothing older than the cap.
LEMMA PruneByAgeFacts ==
  ASSUME NEW S, Keyed(S), NEW age \in Nat, now \in Nat
  PROVE  LET P == PruneByAge(S, age)
         IN /\ P \subseteq S
            /\ age > 0 => \A e \in P : e.ts + age >= now
            /\ \A e \in S \ P, f \in P : Before(e, f)
<1>1. \A e \in S : e.ts \in Nat
  BY DEF Keyed, Record
<1> QED BY <1>1 DEF PruneByAge, Before

\* pruneBucket: both, one after the other.
LEMMA PruneDataFacts ==
  ASSUME NEW S, Keyed(S), conf \in Setting, now \in Nat
  PROVE  LET P == PruneData(S)
         IN /\ P \subseteq S
            /\ conf.count > 0 => Cardinality(P) <= conf.count
            /\ conf.age > 0 => \A e \in P : e.ts + conf.age >= now
            /\ \A e \in S \ P, f \in P : Before(e, f)
<1> DEFINE A == PruneByAge(S, conf.age)
           P == PruneByCount(A, conf.count)
<1>0. conf.count \in Nat /\ conf.age \in Nat
  BY DEF Setting
<1>1. /\ A \subseteq S
      /\ conf.age > 0 => \A e \in A : e.ts + conf.age >= now
      /\ \A e \in S \ A, f \in A : Before(e, f)
  BY <1>0, PruneByAgeFacts
<1> HIDE DEF A
<1>2. Keyed(A)
  BY <1>1, KeyedSubset
<1>3. P \subseteq A /\ \A e \in A \ P, f \in P : Before(e, f)
  <2>1. CASE conf.count = 0
    BY <2>1 DEF PruneByCount
  <2>2. CASE conf.count # 0
    BY <1>0, <1>2, <2>2, PruneByCountFacts
  <2> QED BY <2>1, <2>2
<1>4. conf.count > 0 => Cardinality(P) <= conf.count
  BY <1>0, <1>2, PruneByCountFacts
<1>5. PruneData(S) = P
  BY DEF PruneData, A
<1> HIDE DEF P
<1>6. \A e \in S \ P, f \in P : Before(e, f)
  BY <1>1, <1>3
<1> QED BY <1>1, <1>3, <1>4, <1>5, <1>6
-----------------------------------------------------------------------------
\* What the flusher and the requests share.
queueVars == <<made, buf, dropped, flushVars, storeVars>>

\* The queues hold events and the bucket records, each with a key of its own.
Typed ==
  /\ buf \in Seq(Event) /\ batch \in Seq(Event)
  /\ Keyed(data) /\ drained \in Nat /\ cut \in Nat
  /\ acting \in [Admins -> Nat]

\* Nothing carries a time that is yet to come.
Past ==
  /\ \A w \in Workers : start[w] <= now
  /\ \A i \in 1 .. Len(buf) : buf[i].ts <= now
  /\ \A i \in 1 .. Len(batch) : batch[i].ts <= now
  /\ \A a \in Admins : acting[a] <= now
  /\ \A e \in data \cup appended : e.ts <= now

(***************************************************************************)
(* Events move from the buffer to the batch to the bucket in the order in  *)
(* which they were made, so that no two have the same sequence number.     *)
(***************************************************************************)
Increasing(q) == \A i, j \in 1 .. Len(q) : i < j => q[i].id < q[j].id
InOrder ==
  /\ Increasing(buf) /\ Increasing(batch)
  /\ \A i \in 1 .. Len(buf) : buf[i].id <= made /\ \A j \in 1 .. Len(batch) : batch[j].id < buf[i].id
  /\ \A j \in 1 .. Len(batch) : batch[j].id <= made
  /\ \A e \in data : /\ e.seq = e.id /\ e.id <= made
                     /\ \A i \in 1 .. Len(buf) : e.id < buf[i].id
                     /\ \A j \in 1 .. Len(batch) : e.id < batch[j].id

Account == made = Len(buf) + Len(batch) + Cardinality(data) + pruned + dropped + reported

(***************************************************************************)
(* The final drain goes round at most ChanCap + 1 times: the events that   *)
(* it will not reach came after it began.                                  *)
(***************************************************************************)
Draining ==
  /\ fpc \in {"select", "drain"} => Len(batch) < MaxBatch
  /\ fpc \in {"swap", "drainSwap", "lastSwap", "done"} => batch = <<>>
  /\ fpc \in {"select", "flush", "swap"} => drained = 0
  /\ fpc \in {"drain", "drainFlush", "drainSwap"} =>
       \A i \in 1 .. Len(buf) : i + drained > ChanCap => buf[i].id > cut
  /\ fpc \in {"lastFlush", "lastSwap", "done"} => \A i \in 1 .. Len(buf) : buf[i].id > cut

\* Audit events have different sequence numbers, up to their number.
Trail ==
  /\ Keyed(appended) /\ \A e \in appended : e.seq <= Cardinality(appended)
  /\ AuditTrail

Inv == TypeOK /\ Typed /\ Past /\ InOrder /\ Account /\ Draining /\ Trail
-----------------------------------------------------------------------------
\* The numbers and the queues, one by one.
LEMMA InvFacts ==
  ASSUME Inv
  PROVE  /\ ChanCap \in Nat /\ ChanCap >= 1 /\ MaxBatch \in Nat /\ MaxBatch >= 1
         /\ now \in Nat /\ made \in Nat /\ dropped \in Nat /\ pruned \in Nat /\ reported \in Nat
         /\ drained \in Nat /\ cut \in Nat /\ cut <= made
         /\ conf \in Setting
         /\ Len(buf) \in Nat /\ DOMAIN buf = 1 .. Len(buf) /\ Len(buf) <= ChanCap
         /\ Len(batch) \in Nat /\ DOMAIN batch = 1 .. Len(batch) /\ Len(batch) <= MaxBatch
         /\ \A i \in 1 .. Len(buf) : buf[i] \in Event
         /\ \A i \in 1 .. Len(batch) : batch[i] \in Event
         /\ data \subseteq Record /\ IsFiniteSet(data) /\ Cardinality(data) \in Nat
<1>1. buf \in Seq(Event) /\ batch \in Seq(Event) /\ Keyed(data)
  BY DEF Inv, Typed
<1>2. /\ Len(buf) \in Nat /\ DOMAIN buf = 1 .. Len(buf)
      /\ Len(batch) \in Nat /\ DOMAIN batch = 1 .. Len(batch)
      /\ \A i \in 1 .. Len(buf) : buf[i] \in Event
      /\ \A i \in 1 .. Len(batch) : batch[i] \in Event
  BY <1>1, LenProperties, ElementOfSeq
<1>3. data \subseteq Record /\ IsFiniteSet(data) /\ Cardinality(data) \in Nat
  BY <1>1, FS_CardinalityType DEF Keyed
<1> QED BY <1>2, <1>3, EventLogAssumption DEF Inv, TypeOK, Typed

\* One event more, in one place more.
LEMMA AccountStep ==
  ASSUME Inv, made' = made + 1, batch' = batch, data' = data, pruned' = pruned, reported' = reported,
         \/ Len(buf') = Len(buf) + 1 /\ dropped' = dropped
         \/ buf' = buf /\ dropped' = dropped + 1
  PROVE  Account'
<1> DEFINE a == Len(buf)
           b == Len(batch)
           c == Cardinality(data)
<1>1. /\ a \in Nat /\ b \in Nat /\ c \in Nat /\ pruned \in Nat /\ dropped \in Nat
      /\ reported \in Nat /\ made \in Nat
  BY InvFacts
<1>2. made = a + b + c + pruned + dropped + reported
  BY DEF Inv, Account
<1>3. \/ Len(buf') = a + 1 /\ dropped' = dropped
      \/ Len(buf') = a /\ dropped' = dropped + 1
  OBVIOUS
<1>4. Len(batch') = b /\ Cardinality(data') = c
  OBVIOUS
<1> HIDE DEF a, b, c
<1>5. made' = Len(buf') + b + c + pruned + dropped' + reported
  BY <1>1, <1>2, <1>3
<1> QED BY <1>4, <1>5 DEF Account

\* Steps that leave the queues alone.
LEMMA QueueFrame ==
  ASSUME Inv, UNCHANGED queueVars
  PROVE  InOrder' /\ Account' /\ Draining'
<1>1. UNCHANGED <<made, buf, dropped, batch, fpc, drained, cut, data, pruned, reported>>
  BY DEF queueVars, flushVars, storeVars
<1>2. InOrder'
  BY <1>1 DEF Inv, InOrder, Increasing
<1>3. Account'
  BY <1>1 DEF Inv, Account
<1>4. Draining'
  BY <1>1 DEF Inv, Draining
<1> QED BY <1>2, <1>3, <1>4

\* Steps of the flusher and of requests leave the trail alone.
LEMMA TrailFrame ==
  ASSUME Trail, UNCHANGED <<audit, appended>>
  PROVE  Trail'
BY DEF Trail, AuditTrail

\* A new event at the end of the buffer.
LEMMA Appended ==
  ASSUME Inv, NEW e \in Event
  PROVE  /\ Append(buf, e) \in Seq(Event) /\ Len(Append(buf, e)) = Len(buf) + 1
         /\ \A i \in 1 .. Len(buf) : Append(buf, e)[i] = buf[i]
         /\ Append(buf, e)[Len(buf) + 1] = e
         /\ \A i \in 1 .. Len(Append(buf, e)) : i \in 1 .. Len(buf) \/ i = Len(buf) + 1
<1>1. buf \in Seq(Event)
  BY DEF Inv, Typed
<1> QED BY <1>1, AppendProperties, LenProperties

\* A request ends with an event.
LEMMA EnqueueSteps ==
  ASSUME Inv, NEW w \in Workers, start[w] > 0, Enqueue([id |-> made + 1, ts |-> start[w]]),
         made' = made + 1, start' = [start EXCEPT ![w] = 0], UNCHANGED <<now, conf, flushVars, storeVars>>,
         UNCHANGED auditVars, UNCHANGED <<load, phase>>
  PROVE  Inv'
<1>0. /\ ChanCap \in Nat /\ now \in Nat /\ made \in Nat /\ dropped \in Nat /\ Len(buf) \in Nat
      /\ cut \in Nat /\ cut <= made /\ Len(buf) <= ChanCap /\ Len(batch) \in Nat
      /\ \A i \in 1 .. Len(buf) : buf[i].id \in Nat
      /\ \A i \in 1 .. Len(batch) : batch[i].id \in Nat
      /\ \A x \in data : x.id \in Nat
  BY InvFacts DEF Event, Record
<1>1. UNCHANGED <<batch, fpc, drained, cut, data, pruned, reported, audit, acting, appended>>
  BY DEF flushVars, storeVars, auditVars
<1>2. PICK n \in Nat : n = made + 1
  BY <1>0
<1>3. PICK e \in Event : e = [id |-> made + 1, ts |-> start[w]]
  <2>1. [id |-> made + 1, ts |-> start[w]] \in Event
    BY <1>0 DEF Event, Inv, TypeOK
  <2> QED BY <2>1
<1>4. e.id = made + 1 /\ e.ts <= now
  BY <1>3 DEF Inv, Past
<1>5. start' \in [Workers -> Nat] /\ \A v \in Workers : start'[v] <= now
  <2>1. start \in [Workers -> Nat]
    BY DEF Inv, TypeOK
  <2> QED BY <1>0, <2>1 DEF Inv, Past
<1>6. CASE Len(buf) < ChanCap
  <2>1. buf' = Append(buf, e) /\ dropped' = dropped
    BY <1>3, <1>6 DEF Enqueue
  <2>2. /\ buf' \in Seq(Event) /\ Len(buf') = Len(buf) + 1
        /\ \A i \in 1 .. Len(buf) : buf'[i] = buf[i]
        /\ buf'[Len(buf) + 1] = e
        /\ \A i \in 1 .. Len(buf') : i \in 1 .. Len(buf) \/ i = Len(buf) + 1
    BY <2>1, Appended
  <2>3. TypeOK'
    BY <1>0, <1>1, <1>2, <1>5, <1>6, <2>1, <2>2 DEF Inv, TypeOK
  <2>4. Typed'
    BY <1>1, <2>2 DEF Inv, Typed, Keyed
  <2>5. Past'
    BY <1>1, <1>4, <1>5, <2>2 DEF Inv, Past
  <2>6. InOrder'
    <3>1. Increasing(buf')
      <4> SUFFICES ASSUME NEW i \in 1 .. Len(buf'), NEW j \in 1 .. Len(buf'), i < j
                   PROVE  buf'[i].id < buf'[j].id
        BY DEF Increasing
      <4>1. i \in 1 .. Len(buf)
        BY <1>0, <2>2
      <4>2. buf[i].id <= made /\ \A k \in 1 .. Len(buf) : i < k => buf[i].id < buf[k].id
        BY <4>1 DEF Inv, InOrder, Increasing
      <4>3. CASE j \in 1 .. Len(buf)
        BY <2>2, <4>1, <4>2, <4>3
      <4>4. CASE j = Len(buf) + 1
        BY <1>0, <1>4, <2>2, <4>1, <4>2, <4>4
      <4> QED BY <2>2, <4>3, <4>4
    <3>2. ASSUME NEW i \in 1 .. Len(buf')
          PROVE  /\ buf'[i].id <= made' /\ \A j \in 1 .. Len(batch) : batch[j].id < buf'[i].id
                 /\ \A x \in data : x.id < buf'[i].id
      <4>1. CASE i \in 1 .. Len(buf)
        BY <1>0, <2>2, <4>1 DEF Inv, InOrder
      <4>2. CASE i = Len(buf) + 1
        BY <1>0, <1>4, <2>2, <4>2 DEF Inv, InOrder
      <4> QED BY <2>2, <4>1, <4>2
    <3>3. (\A j \in 1 .. Len(batch) : batch[j].id <= made') /\ (\A x \in data : x.id <= made')
      BY <1>0 DEF Inv, InOrder
    <3>4. Increasing(batch)'
      BY <1>1 DEF Inv, InOrder, Increasing
    <3> QED BY <1>1, <3>1, <3>2, <3>3, <3>4 DEF Inv, InOrder, Increasing
  <2>7. Account'
    BY <1>1, <2>1, <2>2, AccountStep
  <2>8. Draining'
    <3>1. \A i \in 1 .. Len(buf') : buf'[i].id > cut \/ (i \in 1 .. Len(buf) /\ buf'[i] = buf[i])
      BY <1>0, <1>4, <2>2
    <3> QED BY <1>1, <3>1 DEF Inv, Draining
  <2>9. Trail'
    BY <1>1, TrailFrame DEF Inv
  <2> QED BY <2>3, <2>4, <2>5, <2>6, <2>7, <2>8, <2>9 DEF Inv
<1>7. CASE ~(Len(buf) < ChanCap)
  <2>1. buf' = buf /\ dropped' = dropped + 1
    BY <1>7 DEF Enqueue
  <2>2. TypeOK'
    BY <1>0, <1>1, <1>5, <2>1 DEF Inv, TypeOK
  <2>3. Typed' /\ Past'
    BY <1>1, <1>5, <2>1 DEF Inv, Typed, Keyed, Past
  <2>4. InOrder'
    <3>1. /\ \A i \in 1 .. Len(buf) : buf[i].id <= made'
          /\ \A i \in 1 .. Len(batch) : batch[i].id <= made'
          /\ \A x \in data : x.id <= made'
      BY <1>0 DEF Inv, InOrder
    <3> QED BY <1>1, <2>1, <3>1 DEF Inv, InOrder, Increasing
  <2>5. Account'
    BY <1>1, <2>1, AccountStep
  <2>6. Draining'
    BY <1>1, <2>1 DEF Inv, Draining
  <2>7. Trail'
    BY <1>1, TrailFrame DEF Inv
  <2> QED BY <2>2, <2>3, <2>4, <2>5, <2>6, <2>7 DEF Inv
<1> QED BY <1>6, <1>7
-----------------------------------------------------------------------------
(***************************************************************************)
(* The flusher takes the first event of the buffer.                        *)
(***************************************************************************)
Takes == buf # <<>> /\ batch' = Append(batch, Head(buf)) /\ buf' = Tail(buf)

\* Both queues afterwards.
LEMMA TakesFacts ==
  ASSUME Inv, Takes
  PROVE  /\ buf' \in Seq(Event) /\ batch' \in Seq(Event) /\ Len(buf) >= 1
         /\ Len(buf') = Len(buf) - 1 /\ Len(batch') = Len(batch) + 1
         /\ \A i \in 1 .. Len(buf') : i + 1 \in 1 .. Len(buf) /\ buf'[i] = buf[i + 1]
         /\ \A i \in 1 .. Len(batch) : batch'[i] = batch[i]
         /\ batch'[Len(batch) + 1] = buf[1] /\ buf[1] \in Event
         /\ \A i \in 1 .. Len(batch') : i \in 1 .. Len(batch) \/ i = Len(batch) + 1
<1>1. buf \in Seq(Event) /\ batch \in Seq(Event) /\ Len(buf) \in Nat /\ Len(batch) \in Nat
  BY InvFacts DEF Inv, Typed
<1>2. Len(buf) \in Nat \ {0}
  BY <1>1, EmptySeq DEF Takes
<1>3. /\ Head(buf) \in Event /\ buf' \in Seq(Event) /\ Len(buf') = Len(buf) - 1
      /\ \A i \in 1 .. Len(buf') : buf'[i] = buf[i + 1]
  BY <1>1, HeadTailProperties DEF Takes
<1>4. Head(buf) = buf[1]
  BY <1>1, <1>2
<1>5. /\ batch' \in Seq(Event) /\ Len(batch') = Len(batch) + 1
      /\ \A i \in 1 .. Len(batch) : batch'[i] = batch[i]
      /\ batch'[Len(batch) + 1] = Head(buf)
  BY <1>1, <1>3, AppendProperties DEF Takes
<1>6. Len(buf) >= 1 /\ \A i \in 1 .. Len(buf') : i + 1 \in 1 .. Len(buf)
  BY <1>1, <1>2, <1>3
<1>7. \A i \in 1 .. Len(batch') : i \in 1 .. Len(batch) \/ i = Len(batch) + 1
  BY <1>1, <1>5
<1> QED BY <1>3, <1>4, <1>5, <1>6, <1>7

\* The order of the events does not change.
LEMMA TakesOrder ==
  ASSUME Inv, Takes, UNCHANGED <<made, data>>
  PROVE  InOrder'
<1>0. Len(buf) \in Nat /\ Len(batch) \in Nat /\ 1 \in 1 .. Len(buf)
  BY InvFacts, TakesFacts
<1>1. Increasing(buf)'
  <2> SUFFICES ASSUME NEW i \in 1 .. Len(buf'), NEW j \in 1 .. Len(buf'), i < j
               PROVE  buf'[i].id < buf'[j].id
    BY DEF Increasing
  <2>1. buf'[i] = buf[i + 1] /\ buf'[j] = buf[j + 1] /\ i + 1 \in 1 .. Len(buf)
        /\ j + 1 \in 1 .. Len(buf) /\ i + 1 < j + 1
    BY TakesFacts
  <2> QED BY <2>1 DEF Inv, InOrder, Increasing
<1>2. Increasing(batch)'
  <2> SUFFICES ASSUME NEW i \in 1 .. Len(batch'), NEW j \in 1 .. Len(batch'), i < j
               PROVE  batch'[i].id < batch'[j].id
    BY DEF Increasing
  <2>1. i \in 1 .. Len(batch) /\ batch'[i] = batch[i]
    BY <1>0, TakesFacts
  <2>2. CASE j \in 1 .. Len(batch)
    <3>1. batch'[j] = batch[j]
      BY <2>2, TakesFacts
    <3> QED BY <2>1, <2>2, <3>1 DEF Inv, InOrder, Increasing
  <2>3. CASE j = Len(batch) + 1
    <3>1. batch'[j] = buf[1]
      BY <2>3, TakesFacts
    <3> QED BY <1>0, <2>1, <3>1 DEF Inv, InOrder
  <2> QED BY <2>2, <2>3, TakesFacts
<1>3. ASSUME NEW j \in 1 .. Len(batch')
      PROVE  /\ batch'[j].id <= made /\ \A e \in data : e.id < batch'[j].id
             /\ \A i \in 1 .. Len(buf') : batch'[j].id < buf'[i].id
  <2>1. \A i \in 1 .. Len(buf') : i + 1 \in 1 .. Len(buf) /\ buf'[i] = buf[i + 1] /\ 1 < i + 1
    BY <1>0, TakesFacts
  <2>2. CASE j \in 1 .. Len(batch)
    <3>1. batch'[j] = batch[j]
      BY <2>2, TakesFacts
    <3> QED BY <2>1, <2>2, <3>1 DEF Inv, InOrder
  <2>3. CASE j = Len(batch) + 1
    <3>1. batch'[j] = buf[1]
      BY <2>3, TakesFacts
    <3> QED BY <1>0, <2>1, <3>1 DEF Inv, InOrder, Increasing
  <2> QED BY <2>2, <2>3, TakesFacts
<1>4. ASSUME NEW i \in 1 .. Len(buf')
      PROVE  buf'[i].id <= made /\ \A e \in data : e.id < buf'[i].id
  <2>1. i + 1 \in 1 .. Len(buf) /\ buf'[i] = buf[i + 1]
    BY TakesFacts
  <2> QED BY <2>1 DEF Inv, InOrder
<1>5. \A e \in data : e.seq = e.id /\ e.id <= made
  BY DEF Inv, InOrder
<1> QED BY <1>1, <1>2, <1>3, <1>4, <1>5 DEF InOrder

\* What holds after the flusher has taken an event.
LEMMA TakesSteps ==
  ASSUME Inv, Takes, Len(batch) < MaxBatch,
         UNCHANGED <<load, now, conf, start, made, dropped, cut, storeVars, auditVars, phase>>
  PROVE  /\ Typed' <=> drained' \in Nat
         /\ TypeOK' <=> drained' <= ChanCap + 1 /\ fpc' \in
              {"select", "flush", "swap", "drain", "drainFlush", "drainSwap",
               "lastFlush", "lastSwap", "done"}
         /\ Past' /\ InOrder' /\ Account' /\ Trail'
<1>0. UNCHANGED <<data, pruned, reported, audit, acting, appended>>
  BY DEF storeVars, auditVars
<1>1. Typed' <=> drained' \in Nat
  BY <1>0, TakesFacts DEF Inv, Typed, Keyed
<1>2. Len(buf') <= ChanCap /\ Len(batch') <= MaxBatch
  <2>1. /\ Len(buf) \in Nat /\ Len(batch) \in Nat /\ ChanCap \in Nat /\ MaxBatch \in Nat
        /\ Len(buf) <= ChanCap
    BY InvFacts
  <2>2. Len(buf') = Len(buf) - 1 /\ Len(batch') = Len(batch) + 1
    BY TakesFacts
  <2> QED BY <2>1, <2>2
<1>3. TypeOK' <=> drained' <= ChanCap + 1 /\ fpc' \in
        {"select", "flush", "swap", "drain", "drainFlush", "drainSwap",
         "lastFlush", "lastSwap", "done"}
  BY <1>0, <1>2 DEF Inv, TypeOK
<1>4. Past'
  <2>1. \A i \in 1 .. Len(buf') : buf'[i].ts <= now
    BY TakesFacts DEF Inv, Past
  <2>2. 1 \in 1 .. Len(buf)
    BY InvFacts, TakesFacts
  <2>3. \A i \in 1 .. Len(batch') : batch'[i].ts <= now
    BY <2>2, TakesFacts DEF Inv, Past
  <2> QED BY <1>0, <2>1, <2>3 DEF Inv, Past
<1>5. InOrder'
  BY <1>0, TakesOrder
<1>6. Account'
  <2> DEFINE a == Len(buf)
             b == Len(batch)
             c == Cardinality(data)
  <2>1. /\ a \in Nat /\ b \in Nat /\ c \in Nat /\ pruned \in Nat /\ dropped \in Nat
        /\ reported \in Nat /\ made \in Nat
    BY InvFacts
  <2>2. made = a + b + c + pruned + dropped + reported
    BY DEF Inv, Account
  <2>3. Len(buf') = a - 1 /\ Len(batch') = b + 1 /\ Cardinality(data') = c /\ a >= 1
    BY <1>0, TakesFacts
  <2> HIDE DEF a, b, c
  <2>4. made = (a - 1) + (b + 1) + c + pruned + dropped + reported
    BY <2>1, <2>2, <2>3
  <2> QED BY <1>0, <2>3, <2>4 DEF Account
<1>7. Trail'
  BY <1>0, TrailFrame DEF Inv
<1> QED BY <1>1, <1>3, <1>4, <1>5, <1>6, <1>7

LEMMA ReceiveSteps == ASSUME Inv, Receive PROVE Inv'
<1>0. /\ Len(batch) \in Nat /\ MaxBatch \in Nat /\ drained \in Nat /\ drained = 0 /\ ChanCap \in Nat
      /\ Len(batch) < MaxBatch /\ fpc = "select"
  BY InvFacts DEF Receive, Inv, Draining
<1>1. Takes /\ drained' = drained
  BY DEF Receive, Takes
<1>2. /\ Typed' <=> drained' \in Nat
      /\ TypeOK' <=> drained' <= ChanCap + 1 /\ fpc' \in
              {"select", "flush", "swap", "drain", "drainFlush", "drainSwap",
               "lastFlush", "lastSwap", "done"}
      /\ Past' /\ InOrder' /\ Account' /\ Trail'
  BY <1>0, <1>1, TakesSteps DEF Receive
<1>3. \/ fpc' = "flush" /\ Len(batch) + 1 >= MaxBatch
      \/ fpc' = "select" /\ Len(batch) + 1 < MaxBatch
  BY <1>0 DEF Receive
<1>4. Draining'
  <2>1. Len(batch') = Len(batch) + 1
    BY <1>1, TakesFacts
  <2> QED BY <1>0, <1>1, <1>3, <2>1 DEF Draining
<1> QED BY <1>0, <1>1, <1>2, <1>3, <1>4 DEF Inv

LEMMA DrainSteps == ASSUME Inv, Drain PROVE Inv'
<1>0. /\ Len(batch) \in Nat /\ MaxBatch \in Nat /\ drained \in Nat /\ ChanCap \in Nat
      /\ Len(batch) < MaxBatch /\ fpc = "drain" /\ Len(buf) \in Nat /\ Len(buf) <= ChanCap
      /\ cut \in Nat
  BY InvFacts DEF Drain, Inv, Draining
<1>d. \A i \in 1 .. Len(buf) : i + drained > ChanCap => buf[i].id > cut
  BY <1>0 DEF Inv, Draining
<1>1. CASE buf # <<>> /\ drained <= ChanCap
  <2>1. Takes /\ drained' = drained + 1 /\ drained' \in Nat /\ drained' <= ChanCap + 1
    BY <1>0, <1>1 DEF Drain, Takes
  <2>2. /\ Typed' <=> drained' \in Nat
        /\ TypeOK' <=> drained' <= ChanCap + 1 /\ fpc' \in
                {"select", "flush", "swap", "drain", "drainFlush", "drainSwap",
                 "lastFlush", "lastSwap", "done"}
        /\ Past' /\ InOrder' /\ Account' /\ Trail'
    BY <1>0, <2>1, TakesSteps DEF Drain
  <2>3. \/ fpc' = "drainFlush" /\ Len(batch) + 1 >= MaxBatch
        \/ fpc' = "drain" /\ Len(batch) + 1 < MaxBatch
    BY <1>0, <1>1 DEF Drain
  <2>4. Draining'
    <3>1. Len(batch') = Len(batch) + 1 /\ cut' = cut
      BY <2>1, TakesFacts DEF Drain
    <3>2. ASSUME NEW i \in 1 .. Len(buf'), i + drained' > ChanCap PROVE buf'[i].id > cut
      <4>1. i + 1 \in 1 .. Len(buf) /\ buf'[i] = buf[i + 1]
        BY <2>1, TakesFacts
      <4>2. (i + 1) + drained > ChanCap
        BY <1>0, <2>1, <3>2
      <4> QED BY <1>d, <4>1, <4>2
    <3> QED BY <1>0, <2>3, <3>1, <3>2 DEF Draining
  <2> QED BY <2>1, <2>2, <2>3, <2>4 DEF Inv
<1>2. CASE ~(buf # <<>> /\ drained <= ChanCap)
  <2>1. /\ fpc' = "lastFlush"
        /\ UNCHANGED <<load, now, conf, start, made, buf, dropped, batch, drained, cut, data, pruned,
                       reported, audit, acting, appended, phase>>
    BY <1>2 DEF Drain, storeVars, auditVars
  <2>2. \A i \in 1 .. Len(buf) : buf[i].id > cut
    <3>1. CASE buf = <<>>
      <4>1. Len(buf) = 0
        BY <3>1, EmptySeq
      <4> QED BY <4>1
    <3>2. CASE drained > ChanCap
      BY <1>0, <1>d, <3>2
    <3> QED BY <1>0, <1>2, <3>1, <3>2
  <2>3. TypeOK'
    BY <2>1 DEF Inv, TypeOK
  <2>4. Typed' /\ Past'
    BY <2>1 DEF Inv, Typed, Keyed, Past
  <2>5. InOrder' /\ Account'
    BY <2>1 DEF Inv, InOrder, Increasing, Account
  <2>6. Draining'
    BY <2>1, <2>2 DEF Draining
  <2>7. Trail'
    BY <2>1, TrailFrame DEF Inv
  <2> QED BY <2>3, <2>4, <2>5, <2>6, <2>7 DEF Inv
<1> QED BY <1>1, <1>2
-----------------------------------------------------------------------------
\* A batch of n events becomes n records, with keys that are not yet there.
LEMMA StoredFacts ==
  ASSUME Inv
  PROVE  /\ Keyed(data \cup Stored(batch))
         /\ \A e \in Stored(batch) : /\ e.seq = e.id /\ e.id <= made /\ e.ts <= now
                                     /\ \A k \in 1 .. Len(buf) : e.id < buf[k].id
         /\ Cardinality(data \cup Stored(batch)) = Cardinality(data) + Len(batch)
<1> DEFINE n == Len(batch)
           rec == [k \in 1 .. n |-> [id |-> batch[k].id, ts |-> batch[k].ts, seq |-> batch[k].id]]
           T == Stored(batch)
<1>1. n \in Nat /\ DOMAIN batch = 1 .. n
  BY InvFacts
<1>2. \A k \in 1 .. n : batch[k].id \in Nat /\ batch[k].ts \in Nat
  BY InvFacts DEF Event
<1>3. T = {rec[k] : k \in 1 .. n}
  BY <1>1 DEF Stored
<1>4. ASSUME NEW k \in 1 .. n
      PROVE  /\ rec[k] \in Record /\ rec[k].seq = batch[k].id /\ rec[k].id = batch[k].id
             /\ rec[k].ts = batch[k].ts
  BY <1>2 DEF Record
<1>5. DOMAIN rec = 1 .. n /\ rec \in [1 .. n -> T]
  BY <1>3
<1> HIDE DEF rec, T
<1>6. ASSUME NEW j \in 1 .. n, NEW k \in 1 .. n, rec[j].seq = rec[k].seq PROVE j = k
  <2>1. batch[j].id = batch[k].id /\ batch[j].id \in Nat
    BY <1>2, <1>4, <1>6
  <2>2. (j < k => batch[j].id < batch[k].id) /\ (k < j => batch[k].id < batch[j].id)
    BY DEF Inv, InOrder, Increasing
  <2> QED BY <1>1, <2>1, <2>2
<1>7. rec \in Bijection(1 .. n, T)
  <2>1. IsInjective(rec)
    BY <1>5, <1>6 DEF IsInjective
  <2>2. \A t \in T : \E k \in 1 .. n : rec[k] = t
    BY <1>3
  <2> QED BY <1>5, <2>1, <2>2 DEF Bijection, Injection, Surjection
<1>8. Cardinality(T) = n /\ IsFiniteSet(T)
  <2>1. ExistsBijection(1 .. n, T)
    BY <1>7 DEF ExistsBijection
  <2> QED BY <1>1, <2>1, FS_CountingElements, FS_NatBijection
<1>9. ASSUME NEW e \in T
      PROVE  /\ e \in Record /\ e.seq = e.id /\ e.id <= made /\ e.ts <= now
             /\ \A k \in 1 .. Len(buf) : e.id < buf[k].id
             /\ \A d \in data : d.seq < e.seq
  <2>1. PICK k \in 1 .. n : e = rec[k]
    BY <1>3
  <2>2. e \in Record /\ e.seq = batch[k].id /\ e.id = batch[k].id /\ e.ts = batch[k].ts
    BY <1>4, <2>1
  <2>3. /\ batch[k].id <= made /\ batch[k].ts <= now
        /\ \A j \in 1 .. Len(buf) : batch[k].id < buf[j].id
        /\ \A d \in data : d.seq < batch[k].id
    BY DEF Inv, InOrder, Past
  <2> QED BY <2>2, <2>3
<1>10. \A e, f \in T : e.seq = f.seq => e = f
  BY <1>3, <1>6
<1>11. Keyed(data) /\ data \subseteq Record /\ IsFiniteSet(data) /\ Cardinality(data) \in Nat
  BY InvFacts DEF Inv, Typed
<1>12. \A d \in data, e \in T : d.seq # e.seq
  <2>1. \A d \in data, e \in T : d.seq \in Nat /\ e.seq \in Nat /\ d.seq < e.seq
    BY <1>9, <1>11 DEF Record
  <2> QED BY <2>1
<1>13. data \cap T = {}
  BY <1>12
<1>14. IsFiniteSet(data \cup T) /\ Cardinality(data \cup T) = Cardinality(data) + n
  <2>1. /\ IsFiniteSet(data \cup T)
        /\ Cardinality(data \cup T) = Cardinality(data) + Cardinality(T) - Cardinality(data \cap T)
    BY <1>8, <1>11, FS_Union
  <2>2. Cardinality(data \cap T) = 0
    BY <1>13, FS_EmptySet
  <2> QED BY <1>1, <1>8, <1>11, <2>1, <2>2
<1>15. Keyed(data \cup T)
  BY <1>9, <1>10, <1>11, <1>12, <1>14 DEF Keyed
<1> QED BY <1>9, <1>14, <1>15 DEF T

\* flushEvents empties the batch, into the bucket or into the log.
LEMMA FlushSteps == ASSUME Inv, Flush PROVE Inv'
<1> DEFINE all == data \cup Stored(batch)
<1>0. /\ UNCHANGED <<load, now, conf, start, made, buf, dropped, drained, cut, audit, acting,
                     appended, phase>>
      /\ batch' = <<>> /\ fpc' = Swapping(fpc) /\ fpc \in {"flush", "drainFlush", "lastFlush"}
  BY DEF Flush, auditVars
<1>1. /\ Keyed(all) /\ Cardinality(all) = Cardinality(data) + Len(batch)
      /\ Len(batch) \in Nat /\ Cardinality(data) \in Nat /\ IsFiniteSet(all)
      /\ conf \in Setting /\ now \in Nat
  BY StoredFacts, InvFacts DEF Keyed
<1>2. \A e \in all : /\ e.seq = e.id /\ e.id <= made /\ e.ts <= now
                     /\ \A k \in 1 .. Len(buf) : e.id < buf[k].id
  BY StoredFacts DEF Inv, InOrder, Past
<1>3. batch' \in Seq(Event) /\ Len(batch') = 0
  BY <1>0, EmptySeq
<1>4. \/ /\ data' \subseteq all
         /\ pruned' = pruned + (Cardinality(all) - Cardinality(data'))
         /\ reported' = reported
      \/ reported' = reported + Len(batch) /\ UNCHANGED <<data, pruned>>
  <2> HIDE DEF all
  <2>1. PruneData(all) \subseteq all
    BY <1>1, PruneDataFacts
  <2>2. data \subseteq all
    BY DEF all
  <2>3. \/ /\ data' = IF batch = <<>> THEN data ELSE PruneData(all)
           /\ pruned' = pruned + (Cardinality(all) - Cardinality(data'))
           /\ reported' = reported
        \/ reported' = reported + Len(batch) /\ UNCHANGED <<data, pruned>>
    BY DEF Flush, all
  <2> QED BY <2>1, <2>2, <2>3
<1> HIDE DEF all
<1>5. data' \subseteq all
  BY <1>4 DEF all
<1>6. Keyed(data') /\ Cardinality(data') \in Nat /\ Cardinality(data') <= Cardinality(all)
  <2>1. Keyed(data')
    BY <1>1, <1>5, KeyedSubset
  <2> QED BY <1>1, <1>5, <2>1, FS_Subset, FS_CardinalityType
<1>7. /\ pruned' \in Nat /\ reported' \in Nat
      /\ made = Len(buf) + Cardinality(data') + pruned' + dropped + reported'
  <2> DEFINE a == Len(buf)
             b == Len(batch)
             c == Cardinality(data)
             d == Cardinality(data')
             x == Cardinality(all)
  <2>1. /\ a \in Nat /\ b \in Nat /\ c \in Nat /\ pruned \in Nat /\ dropped \in Nat
        /\ reported \in Nat /\ made \in Nat
        /\ made = a + b + c + pruned + dropped + reported
    BY InvFacts DEF Inv, Account
  <2>2. d \in Nat /\ d <= x /\ x = c + b
    BY <1>1, <1>6
  <2>3. CASE pruned' = pruned + (x - d) /\ reported' = reported
    <3> HIDE DEF a, b, c, d, x
    <3>1. x - d \in Nat /\ pruned' \in Nat
      BY <2>1, <2>2, <2>3
    <3>2. made = a + d + pruned' + dropped + reported'
      BY <2>1, <2>2, <2>3, <3>1
    <3> QED BY <2>1, <2>3, <3>1, <3>2 DEF a, d
  <2>4. CASE reported' = reported + b /\ pruned' = pruned /\ d = c
    <3> HIDE DEF a, b, c, d, x
    <3>1. made = a + d + pruned' + dropped + reported'
      BY <2>1, <2>2, <2>4
    <3>2. pruned' \in Nat /\ reported' \in Nat
      BY <2>1, <2>4
    <3> QED BY <3>1, <3>2 DEF a, d
  <2> QED BY <1>4, <2>3, <2>4
<1>8. fpc' \in {"swap", "drainSwap", "lastSwap"}
      /\ (fpc' = "swap" => fpc = "flush") /\ (fpc' = "drainSwap" => fpc = "drainFlush")
      /\ (fpc' = "lastSwap" => fpc = "lastFlush")
  BY <1>0 DEF Swapping
<1>9. TypeOK'
  <2>1. \A e \in data' \cup audit' : e.ts <= now'
    BY <1>0, <1>2, <1>5 DEF Inv, TypeOK
  <2>2. Len(batch') <= MaxBatch
    BY <1>3, InvFacts
  <2> QED BY <1>0, <1>7, <1>8, <2>1, <2>2 DEF Inv, TypeOK
<1>10. Typed'
  <2>1. Keyed(data)'
    BY <1>6 DEF Keyed
  <2> QED BY <1>0, <1>3, <2>1 DEF Inv, Typed
<1>e. 1 .. Len(batch') = {}
  BY <1>3
<1>11. Past'
  BY <1>0, <1>2, <1>5, <1>e DEF Inv, Past
<1>12. InOrder'
  <2>1. Increasing(batch)' /\ Increasing(buf)'
    BY <1>0, <1>e DEF Inv, InOrder, Increasing
  <2> QED BY <1>0, <1>2, <1>5, <1>e, <2>1 DEF Inv, InOrder
<1>13. Account'
  <2>1. /\ Len(buf) \in Nat /\ Cardinality(data') \in Nat /\ dropped \in Nat /\ Len(batch') = 0
        /\ Len(buf') = Len(buf) /\ made' = made /\ dropped' = dropped
    BY <1>0, <1>3, <1>6, InvFacts
  <2>2. made = Len(buf) + 0 + Cardinality(data') + pruned' + dropped + reported'
    BY <1>7, <2>1
  <2> QED BY <2>1, <2>2 DEF Account
<1>14. Draining'
  BY <1>0, <1>8 DEF Inv, Draining
<1>15. Trail'
  BY <1>0, TrailFrame DEF Inv
<1> QED BY <1>9, <1>10, <1>11, <1>12, <1>13, <1>14, <1>15 DEF Inv

\* The drops go from the counter to the log.
LEMMA SwapSteps == ASSUME Inv, Swap PROVE Inv'
<1>0. /\ UNCHANGED <<load, now, conf, start, made, buf, batch, drained, cut, data, pruned, audit,
                     acting, appended, phase>>
      /\ dropped' = 0 /\ reported' = reported + dropped /\ fpc' = AfterFlush(fpc)
      /\ fpc \in {"swap", "drainSwap", "lastSwap"}
  BY DEF Swap, auditVars
<1>1. /\ (fpc = "swap" /\ fpc' = "select") \/ (fpc = "drainSwap" /\ fpc' = "drain")
         \/ (fpc = "lastSwap" /\ fpc' = "done")
      /\ batch = <<>> /\ Len(batch) < MaxBatch
  <2>1. batch = <<>>
    BY <1>0 DEF Inv, Draining
  <2>2. Len(batch) = 0
    BY <2>1, EmptySeq
  <2> QED BY <1>0, <2>1, <2>2, InvFacts DEF AfterFlush
<1>2. TypeOK'
  BY <1>0, <1>1, InvFacts DEF Inv, TypeOK
<1>3. Typed' /\ Past' /\ InOrder'
  BY <1>0 DEF Inv, Typed, Keyed, Past, InOrder, Increasing
<1>4. Account'
  <2> DEFINE a == Len(buf)
             b == Len(batch)
             c == Cardinality(data)
  <2>1. /\ a \in Nat /\ b \in Nat /\ c \in Nat /\ pruned \in Nat /\ dropped \in Nat
        /\ reported \in Nat /\ made \in Nat
        /\ made = a + b + c + pruned + dropped + reported
    BY InvFacts DEF Inv, Account
  <2>2. Len(buf') = a /\ Len(batch') = b /\ Cardinality(data') = c
    BY <1>0
  <2> HIDE DEF a, b, c
  <2>3. made = a + b + c + pruned + 0 + (reported + dropped)
    BY <2>1
  <2> QED BY <1>0, <2>2, <2>3 DEF Account
<1>5. Draining'
  BY <1>0, <1>1 DEF Inv, Draining
<1>6. Trail'
  BY <1>0, TrailFrame DEF Inv
<1> QED BY <1>2, <1>3, <1>4, <1>5, <1>6 DEF Inv
-----------------------------------------------------------------------------
LEMMA MinFacts ==
  ASSUME NEW a \in Nat, NEW b \in Nat
  PROVE  Min({a, b}) = IF a <= b THEN a ELSE b
<1>1. \E x \in {a, b} : \A y \in {a, b} : x <= y
  OBVIOUS
<1>2. Min({a, b}) \in {a, b} /\ \A y \in {a, b} : Min({a, b}) <= y
  BY <1>1 DEF Min
<1> QED BY <1>2

(***************************************************************************)
(* AppendEvent: one more event, and if the trail was full the oldest goes, *)
(* which may be the new one.                                               *)
(***************************************************************************)
LEMMA AppendTrail ==
  ASSUME Trail, NEW e \in Record, e.seq = Cardinality(appended) + 1,
         appended' = appended \cup {e}, audit' = PruneByCount(audit \cup {e}, MaxControl)
  PROVE  Trail'
<1> DEFINE S == audit \cup {e}
<1>0. /\ MaxControl \in Nat \ {0} /\ Keyed(appended) /\ IsFiniteSet(appended)
      /\ Cardinality(appended) \in Nat /\ audit \subseteq appended /\ appended \subseteq Record
  BY EventLogAssumption, FS_CardinalityType DEF Trail, Keyed, AuditTrail
<1>1. \A f \in appended : f.seq \in Nat /\ f.seq <= Cardinality(appended) /\ f.seq # e.seq
  BY <1>0 DEF Trail, Record
<1>2. e \notin appended
  BY <1>1
<1>3. IsFiniteSet(appended') /\ Cardinality(appended') = Cardinality(appended) + 1
  BY <1>0, <1>2, FS_AddElement
<1>4. Keyed(appended')
  BY <1>0, <1>1, <1>3 DEF Keyed
<1>5. \A f \in appended' : f.seq <= Cardinality(appended')
  BY <1>0, <1>1, <1>3
<1>6. Keyed(S) /\ S \subseteq appended' /\ IsFiniteSet(S)
  <2>1. S \in SUBSET appended'
    BY <1>0
  <2> QED BY <1>4, <2>1, KeyedSubset DEF Keyed
<1>7. /\ audit' \subseteq S /\ Cardinality(audit') \in Nat /\ Cardinality(audit') <= MaxControl
      /\ audit' # S => Cardinality(audit') = MaxControl
      /\ \A x \in S \ audit', f \in audit' : Before(x, f)
  <2> HIDE DEF S
  <2>1. audit' = PruneByCount(S, MaxControl)
    BY DEF S
  <2> QED BY <1>0, <1>6, <2>1, PruneByCountFacts
<1>8. /\ IsFiniteSet(audit) /\ Cardinality(audit) \in Nat /\ Cardinality(S) = Cardinality(audit) + 1
  BY <1>0, <1>2, FS_Subset, FS_CardinalityType, FS_AddElement
<1>9. Cardinality(audit) = IF Cardinality(appended) <= MaxControl THEN Cardinality(appended)
                           ELSE MaxControl
  BY <1>0, MinFacts DEF Trail, AuditTrail
<1>10. Cardinality(audit') = Min({Cardinality(appended'), MaxControl})
  <2>1. Min({Cardinality(appended'), MaxControl}) =
          IF Cardinality(appended) + 1 <= MaxControl THEN Cardinality(appended) + 1 ELSE MaxControl
    <3>1. Cardinality(appended) + 1 \in Nat
      BY <1>0
    <3> QED BY <1>0, <1>3, <3>1, MinFacts
  <2>2. CASE audit' = S
    BY <1>0, <1>7, <1>8, <1>9, <2>1, <2>2
  <2>3. CASE audit' # S
    <3>1. Cardinality(audit') <= Cardinality(appended')
      BY <1>3, <1>6, <1>7, FS_Subset
    <3>2. Cardinality(audit') = MaxControl /\ MaxControl <= Cardinality(appended) + 1
      BY <1>3, <1>7, <2>3, <3>1
    <3> QED BY <1>0, <2>1, <3>2
  <2> QED BY <2>2, <2>3
<1>11. ASSUME NEW x \in appended' \ audit', NEW f \in audit' PROVE Before(x, f)
  <2>0. x \in Record /\ f \in Record /\ f \in S
    BY <1>0, <1>6, <1>7
  <2>1. CASE x \in S
    BY <1>7, <2>1
  <2>2. CASE x \notin S
    <3>1. x \in appended \ audit /\ \A g \in audit : Before(x, g)
      BY <2>2 DEF Trail, AuditTrail
    <3>2. CASE f \in audit
      BY <3>1, <3>2
    <3>3. CASE f = e
      <4>1. Cardinality(audit) = MaxControl
        <5>1. audit # appended /\ audit \in SUBSET appended
          BY <1>0, <3>1
        <5>2. Cardinality(audit) # Cardinality(appended)
          BY <1>0, <5>1, FS_Subset
        <5> QED BY <1>9, <5>2
      <4>2. audit' # S
        BY <1>0, <1>7, <1>8, <4>1
      <4>3. PICK r \in S : r \notin audit'
        BY <1>7, <4>2
      <4>4. r \in audit /\ Before(r, f) /\ r \in Record
        BY <1>0, <1>7, <3>3, <4>3
      <4> QED BY <2>0, <3>1, <4>4, BeforeFacts
    <3> QED BY <2>0, <3>2, <3>3
  <2> QED BY <2>1, <2>2
<1>12. audit' \subseteq appended'
  BY <1>6, <1>7
<1>13. Keyed(appended)'
  BY <1>4 DEF Keyed
<1> QED BY <1>5, <1>10, <1>11, <1>12, <1>13 DEF Trail, AuditTrail, Before

\* An admin action reads the clock or appends its event.
LEMMA AuditSteps ==
  ASSUME Inv, NEW a \in Admins, RecordAudit(a) \/ AppendEvent(a)
  PROVE  Inv'
<1>0. UNCHANGED <<load, now, conf, start, made, buf, dropped, batch, fpc, drained, cut, data,
                  pruned, reported, phase>>
  BY DEF RecordAudit, AppendEvent, flushVars, storeVars
<1>1. UNCHANGED queueVars
  BY <1>0 DEF queueVars, flushVars, storeVars
<1>2. acting \in [Admins -> Nat] /\ now \in Nat /\ \A b \in Admins : acting[b] <= now
  BY InvFacts DEF Inv, Typed, Past
<1>3. acting' \in [Admins -> Nat] /\ \A b \in Admins : acting'[b] <= now
  BY <1>2 DEF RecordAudit, AppendEvent
<1>4. Trail' /\ \A e \in appended' : e.ts <= now
  <2>0. \A e \in appended : e.ts <= now
    BY DEF Inv, Past
  <2>1. CASE UNCHANGED <<audit, appended>>
    BY <2>0, <2>1, TrailFrame DEF Inv
  <2>2. CASE ~UNCHANGED <<audit, appended>>
    <3> DEFINE q == Cardinality(appended) + 1
               e == [id |-> q, ts |-> acting[a], seq |-> q]
    <3>1. AppendEvent(a)
      BY <2>2 DEF RecordAudit
    <3>2. appended' = appended \cup {e} /\ audit' = PruneByCount(audit \cup {e}, MaxControl)
      BY <2>2, <3>1 DEF AppendEvent
    <3>3. Trail /\ q \in Nat
      BY FS_CardinalityType DEF Inv, Trail, Keyed
    <3>4. e \in Record /\ e.seq = q /\ e.ts <= now
      BY <1>2, <3>3 DEF Record
    <3> HIDE DEF e
    <3>5. Trail'
      BY <3>2, <3>3, <3>4, AppendTrail
    <3> QED BY <2>0, <3>2, <3>4, <3>5
  <2> QED BY <2>1, <2>2
<1>5. \A e \in audit' : e.ts <= now
  BY <1>4 DEF Trail, AuditTrail
<1>6. TypeOK'
  BY <1>0, <1>5 DEF Inv, TypeOK
<1>7. Typed' /\ Past'
  BY <1>0, <1>3, <1>4 DEF Inv, Typed, Keyed, Past
<1> QED BY <1>1, <1>4, <1>6, <1>7, QueueFrame DEF Inv

\* Steps that move no event.
LEMMA OtherSteps ==
  ASSUME Inv, UNCHANGED <<load, queueVars, auditVars>>, now' \in Nat, now <= now',
         conf' \in Settings, start' \in [Workers -> Nat], \A w \in Workers : start'[w] <= now',
         phase' \in {"running", "stopping", "exited", "killed"}
  PROVE  Inv'
<1>0. UNCHANGED <<load, made, buf, dropped, batch, fpc, drained, cut, data, pruned, reported, audit,
                  acting, appended>>
  BY DEF queueVars, flushVars, storeVars, auditVars
<1>1. now \in Nat
  BY InvFacts
<1>2. \A t \in Nat : t <= now => t <= now'
  BY <1>1
<1>3. /\ \A e \in data \cup appended : e.ts <= now'
      /\ \A k \in 1 .. Len(buf) : buf[k].ts <= now'
      /\ \A k \in 1 .. Len(batch) : batch[k].ts <= now'
      /\ \A a \in Admins : acting[a] <= now'
  <2>1. /\ \A e \in data \cup appended : e.ts \in Nat
        /\ \A k \in 1 .. Len(buf) : buf[k].ts \in Nat
        /\ \A k \in 1 .. Len(batch) : batch[k].ts \in Nat
        /\ \A a \in Admins : acting[a] \in Nat
    BY InvFacts DEF Inv, Typed, Trail, Keyed, Record, Event
  <2> QED BY <1>2, <2>1 DEF Inv, Past
<1>4. audit \subseteq appended
  BY DEF Inv, Trail, AuditTrail
<1>5. TypeOK'
  BY <1>0, <1>3, <1>4 DEF Inv, TypeOK
<1>6. Typed' /\ Past'
  BY <1>0, <1>3 DEF Inv, Typed, Keyed, Past
<1>7. Trail'
  BY <1>0, TrailFrame DEF Inv
<1> QED BY <1>5, <1>6, <1>7, QueueFrame DEF Inv

\* The flusher turns to another part of its loop.
LEMMA TurnSteps ==
  ASSUME Inv, TickerFires \/ ContextDone
  PROVE  Inv'
<1>0. /\ UNCHANGED <<load, now, conf, start, made, buf, dropped, batch, drained, data, pruned,
                     reported, audit, acting, appended, phase>>
      /\ fpc = "select"
      /\ (fpc' = "flush" /\ cut' = cut) \/ (fpc' = "drain" /\ cut' = made)
  BY DEF TickerFires, ContextDone, storeVars, auditVars
<1>1. TypeOK'
  BY <1>0, InvFacts DEF Inv, TypeOK
<1>2. Typed' /\ Past' /\ InOrder' /\ Account'
  BY <1>0, InvFacts DEF Inv, Typed, Keyed, Past, InOrder, Increasing, Account
<1>3. Draining'
  <2>1. drained = 0 /\ Len(batch) < MaxBatch
    BY <1>0 DEF Inv, Draining
  <2>2. \A i \in 1 .. Len(buf) : ~(i + drained > ChanCap)
    BY <2>1, InvFacts
  <2> QED BY <1>0, <2>1, <2>2 DEF Draining
<1>4. Trail'
  BY <1>0, TrailFrame DEF Inv
<1> QED BY <1>1, <1>2, <1>3, <1>4 DEF Inv

\* Every step keeps the invariant.
LEMMA Steps == Inv /\ [Next]_vars => Inv'
<1> SUFFICES ASSUME Inv, [Next]_vars PROVE Inv'
  OBVIOUS
<1>0. /\ now \in Nat /\ now <= now /\ conf \in Settings /\ start \in [Workers -> Nat]
      /\ \A w \in Workers : start[w] <= now
      /\ phase \in {"running", "stopping", "exited", "killed"}
  BY InvFacts DEF Inv, TypeOK, Past
<1>1. ASSUME NEW w \in Workers, Begin(w) PROVE Inv'
  <2>1. UNCHANGED <<load, queueVars, auditVars, now, conf, phase>>
    BY <1>1 DEF Begin, queueVars, flushVars, storeVars
  <2>2. start' \in [Workers -> Nat] /\ \A v \in Workers : start'[v] <= now'
    BY <1>0, <1>1 DEF Begin
  <2> QED BY <1>0, <2>1, <2>2, OtherSteps
<1>2. ASSUME NEW w \in Workers, End(w) PROVE Inv'
  <2>1. /\ UNCHANGED <<load, now, conf, flushVars, storeVars, auditVars, phase>>
        /\ start' = [start EXCEPT ![w] = 0] /\ start[w] > 0
    BY <1>2 DEF End
  <2>2. CASE made' = made + 1 /\ Enqueue([id |-> made + 1, ts |-> start[w]])
    BY <2>1, <2>2, EnqueueSteps
  <2>3. CASE UNCHANGED <<made, buf, dropped>>
    <3>1. UNCHANGED queueVars
      BY <2>1, <2>3 DEF queueVars
    <3>2. start' \in [Workers -> Nat] /\ \A v \in Workers : start'[v] <= now'
      BY <1>0, <2>1
    <3> QED BY <1>0, <2>1, <3>1, <3>2, OtherSteps
  <2> QED BY <1>2, <2>2, <2>3 DEF End
<1>3. CASE SetAccessLog
  <2>1. UNCHANGED <<load, queueVars, auditVars, now, start, phase>> /\ conf' \in Settings
    BY <1>3 DEF SetAccessLog, queueVars, flushVars, storeVars
  <2> QED BY <1>0, <2>1, OtherSteps
<1>4. CASE Signal \/ Exit \/ ExitLate \/ UNCHANGED vars
  <2>1. /\ UNCHANGED <<load, queueVars, auditVars, now, start, conf>>
        /\ phase' \in {"running", "stopping", "exited", "killed"}
    BY <1>0, <1>4 DEF Signal, Exit, ExitLate, vars, queueVars, flushVars, storeVars, auditVars
  <2> QED BY <1>0, <2>1, OtherSteps
<1>5. CASE Tick
  <2>1. UNCHANGED <<load, queueVars, auditVars, start, conf, phase>> /\ now' \in Nat /\ now <= now'
    BY <1>0, <1>5 DEF Tick, queueVars, flushVars, storeVars
  <2>2. \A w \in Workers : start'[w] <= now'
    BY <1>0, <2>1
  <2> QED BY <1>0, <2>1, <2>2, OtherSteps
<1> QED BY <1>1, <1>2, <1>3, <1>4, <1>5, ReceiveSteps, DrainSteps, FlushSteps, SwapSteps, TurnSteps,
           AuditSteps DEF Next, Flusher

\* The invariant holds in every reachable state.
LEMMA Invariance == Spec => []Inv
<1>1. Init => Inv
  <2> SUFFICES ASSUME Init PROVE Inv
    OBVIOUS
  <2>0. /\ ChanCap \in Nat \ {0} /\ MaxBatch \in Nat \ {0} /\ MaxControl \in Nat \ {0}
        /\ IsFiniteSet({}) /\ Cardinality({}) = 0
        /\ Len(buf) = 0 /\ Len(batch) = 0 /\ buf \in Seq(Event) /\ batch \in Seq(Event)
    BY EventLogAssumption, FS_EmptySet, EmptySeq DEF Init
  <2>1. 1 .. Len(buf) = {} /\ 1 .. Len(batch) = {}
    BY <2>0
  <2>2. TypeOK
    BY <2>0 DEF Init, TypeOK
  <2>3. Typed
    BY <2>0 DEF Init, Typed, Keyed
  <2>4. Past /\ InOrder
    BY <2>1 DEF Init, Past, InOrder, Increasing
  <2>5. Account
    BY <2>0 DEF Init, Account
  <2>6. Draining
    BY <2>0, <2>1 DEF Init, Draining
  <2>7. Trail
    <3>1. Min({0, MaxControl}) = 0
      BY <2>0, MinFacts
    <3> QED BY <2>0, <3>1 DEF Init, Trail, AuditTrail, Keyed
  <2> QED BY <2>2, <2>3, <2>4, <2>5, <2>6, <2>7 DEF Inv
<1> QED BY <1>1, Steps, PTL DEF Spec

(***************************************************************************)
(* "the drop is counted and logged, never silent", for any sizes and any   *)
(* number of requests, with failing transactions and a shutdown at any     *)
(* moment: every event is in one place, the bounds of the buffer and the   *)
(* batch hold, and what the final drain leaves came after it began.        *)
(***************************************************************************)
THEOREM EventsAreAccounted == Spec => []EveryEventAccounted
<1>1. Inv => EveryEventAccounted
  <2> SUFFICES ASSUME Inv PROVE EveryEventAccounted
    OBVIOUS
  <2>1. DOMAIN buf = 1 .. Len(buf)
    BY InvFacts
  <2> QED BY <2>1 DEF Inv, Account, Draining, EveryEventAccounted
<1> QED BY <1>1, Invariance, PTL

(***************************************************************************)
(* "oldest records are pruned first": whatever the order in which          *)
(* concurrent admin actions read the clock and append their events, the    *)
(* trail holds the newest ones, as many as maxControlEvents allows.  This  *)
(* is the first half of AuditReadable.                                     *)
(***************************************************************************)
THEOREM TrailKeepsNewest == Spec => []AuditTrail
<1>1. Inv => AuditTrail
  BY DEF Inv, Trail
<1> QED BY <1>1, Invariance, PTL

(***************************************************************************)
(* "so both ceilings hold", after every flush, for any settings and        *)
(* whatever settings held before: and what goes is older than what stays.  *)
(***************************************************************************)
THEOREM FlushesKeepNewest == Spec => FlushKeepsNewest
<1> DEFINE Keeps ==
             data' # data =>
               /\ conf.count > 0 => Cardinality(data') <= conf.count
               /\ conf.age > 0 => \A e \in data' : e.ts + conf.age >= now
               /\ \A e \in (data \cup Stored(batch)) \ data', f \in data' : Before(e, f)
<1>1. Inv /\ [Next]_vars => Keeps
  <2> SUFFICES ASSUME Inv, [Next]_vars, data' # data
               PROVE  /\ conf.count > 0 => Cardinality(data') <= conf.count
                      /\ conf.age > 0 => \A e \in data' : e.ts + conf.age >= now
                      /\ \A e \in (data \cup Stored(batch)) \ data', f \in data' : Before(e, f)
    OBVIOUS
  <2>1. Flush
    <3>1. UNCHANGED storeVars => data' = data
      BY DEF storeVars
    <3>2. \A w \in Workers : ~Begin(w) /\ ~End(w)
      BY <3>1 DEF Begin, End
    <3>3. \A a \in Admins : ~RecordAudit(a) /\ ~AppendEvent(a)
      BY <3>1 DEF RecordAudit, AppendEvent
    <3>4. ~SetAccessLog /\ ~Receive /\ ~TickerFires /\ ~ContextDone /\ ~Drain /\ ~Swap
      BY <3>1 DEF SetAccessLog, Receive, TickerFires, ContextDone, Drain, Swap
    <3>5. ~Signal /\ ~Exit /\ ~ExitLate /\ ~Tick /\ ~UNCHANGED vars
      BY <3>1 DEF Signal, Exit, ExitLate, Tick, vars
    <3> QED BY <3>2, <3>3, <3>4, <3>5 DEF Next, Flusher
  <2> DEFINE all == data \cup Stored(batch)
  <2>2. data' = PruneData(all)
    BY <2>1 DEF Flush
  <2>3. Keyed(all) /\ conf \in Setting /\ now \in Nat
    BY StoredFacts, InvFacts
  <2> HIDE DEF all
  <2>4. /\ conf.count > 0 => Cardinality(data') <= conf.count
        /\ conf.age > 0 => \A e \in data' : e.ts + conf.age >= now
        /\ \A e \in all \ data', f \in data' : Before(e, f)
    BY <2>2, <2>3, PruneDataFacts
  <2> QED BY <2>4 DEF all
<1>2. Inv /\ [Next]_vars => [Keeps]_vars
  BY <1>1
<1> HIDE DEF Keeps
<1>3. Spec => [][Keeps]_vars
  BY <1>2, Invariance, PTL DEF Spec
<1> QED BY <1>3 DEF FlushKeepsNewest, Keeps
-----------------------------------------------------------------------------
(***************************************************************************)
(* Paging.  The pages are a recursive function of their number; that there *)
(* is one, and what it has read after n pages, follows from the least      *)
(* number for which it would not be so.                                    *)
(***************************************************************************)
LEMMA Least ==
  ASSUME NEW T \in SUBSET Nat, T # {}
  PROVE  \E i \in T : \A j \in T : i <= j
<1>1. \E i \in T : \A j \in T : ~ (<<j, i>> \in OpToRel(<, Nat))
  BY NatLessThanWellFounded, WFMin
<1>2. \E i \in T : \A j \in T : ~ (j < i)
  BY <1>1 DEF OpToRel
<1> QED BY <1>2

Pages(S, limit, n, f) ==
  f = [k \in 0 .. n |-> IF k = 0 THEN {} ELSE NextPage(S, limit, f[k - 1])]

LEMMA PagesExist ==
  ASSUME NEW S, NEW limit
  PROVE  \A n \in Nat : \E f : Pages(S, limit, n, f)
<1> DEFINE T == {n \in Nat : ~ \E f : Pages(S, limit, n, f)}
<1> SUFFICES ASSUME T # {} PROVE FALSE
  OBVIOUS
<1>1. T \in SUBSET Nat
  OBVIOUS
<1> HIDE DEF T
<1>2. PICK m \in T : \A j \in T : m <= j
  BY <1>1, Least
<1> USE DEF T
<1>3. CASE m = 0
  <2> DEFINE f == [k \in 0 .. 0 |-> {}]
  <2>1. Pages(S, limit, 0, f)
    BY DEF Pages
  <2> QED BY <1>2, <1>3, <2>1
<1>4. CASE m # 0
  <2>1. m - 1 \in Nat /\ m \in Nat
    BY <1>2, <1>4
  <2>2. PICK g : Pages(S, limit, m - 1, g)
    BY <1>2, <2>1
  <2>3. g = [k \in 0 .. m - 1 |-> IF k = 0 THEN {} ELSE NextPage(S, limit, g[k - 1])]
    BY <2>2 DEF Pages
  <2> DEFINE f == [k \in 0 .. m |-> IF k = m THEN NextPage(S, limit, g[m - 1]) ELSE g[k]]
  <2>4. \A k \in 0 .. m : f[k] = IF k = 0 THEN {} ELSE NextPage(S, limit, f[k - 1])
    <3> TAKE k \in 0 .. m
    <3>1. CASE k = m
      BY <2>1, <1>4, <3>1
    <3>2. CASE k # m
      <4>1. k \in 0 .. m - 1 /\ f[k] = g[k] /\ (k # 0 => k - 1 \in 0 .. m /\ k - 1 # m)
        BY <2>1, <3>2
      <4>2. k # 0 => f[k - 1] = g[k - 1]
        BY <4>1
      <4> HIDE DEF f
      <4>3. g[k] = IF k = 0 THEN {} ELSE NextPage(S, limit, g[k - 1])
        BY <2>3, <4>1
      <4> QED BY <4>1, <4>2, <4>3
    <3> QED BY <3>1, <3>2
  <2>5. Pages(S, limit, m, f)
    <3>1. f = [k \in 0 .. m |-> f[k]]
      OBVIOUS
    <3> HIDE DEF f
    <3> QED BY <2>4, <3>1 DEF Pages
  <2> QED BY <1>2, <2>5
<1> QED BY <1>3, <1>4

LEMMA PagedFacts ==
  ASSUME NEW S, NEW limit, NEW n \in Nat
  PROVE  \E f : Pages(S, limit, n, f) /\ Paged(S, limit, n) = f[n]
<1> DEFINE f == CHOOSE g : Pages(S, limit, n, g)
<1>1. Pages(S, limit, n, f)
  BY PagesExist
<1>2. Paged(S, limit, n) = f[n]
  BY DEF Paged, Pages
<1> QED BY <1>1, <1>2

\* Records that all have a time of their own, up to the last one there is.
Timed(S) ==
  /\ Keyed(S)
  /\ \A e \in S : e.ts \in 1 .. MaxTime + 1
  /\ \A e, f \in S : e.ts = f.ts => e = f

\* Read from the newest on.
FromTop(X, S) == X \subseteq S /\ \A e \in X, g \in S \ X : g.ts < e.ts

\* The cursor is the time of the oldest record read.
LEMMA CursorFacts ==
  ASSUME NEW S, Timed(S), NEW X \in SUBSET S, X # {}
  PROVE  LET oldest == Min({e.ts : e \in X} \cup {MaxTime + 1}) IN
         /\ oldest \in Nat \ {0}
         /\ \A e \in X : oldest <= e.ts
         /\ \E e \in X : oldest = e.ts
<1> DEFINE T == {e.ts : e \in X} \cup {MaxTime + 1}
<1>1. MaxTime + 1 \in Nat /\ \A e \in X : e.ts \in 1 .. MaxTime + 1
  BY EventLogAssumption DEF Timed
<1>2. T \in SUBSET Nat /\ T # {}
  BY <1>1
<1>3. \A e \in X : e.ts \in T
  OBVIOUS
<1>4. \A t \in T : t = MaxTime + 1 \/ \E e \in X : t = e.ts
  OBVIOUS
<1> HIDE DEF T
<1>5. Min(T) \in T /\ \A t \in T : Min(T) <= t
  BY <1>2, Least DEF Min
<1>6. \A e \in X : Min(T) <= e.ts
  BY <1>3, <1>5
<1>7. \E e \in X : Min(T) = e.ts
  <2>1. CASE Min(T) = MaxTime + 1
    <3>1. PICK e \in X : TRUE
      OBVIOUS
    <3> QED BY <1>1, <1>6, <2>1, <3>1
  <2>2. CASE \E e \in X : Min(T) = e.ts
    BY <2>2
  <2> QED BY <1>4, <1>5, <2>1, <2>2
<1>8. Min(T) \in Nat \ {0}
  BY <1>1, <1>7
<1> QED BY <1>6, <1>7, <1>8 DEF T

\* A page of one record shows the newest one that was not read yet.
LEMMA NextPageFacts ==
  ASSUME NEW S, Timed(S), NEW X, FromTop(X, S)
  PROVE  /\ FromTop(NextPage(S, 1, X), S)
         /\ X = S => NextPage(S, 1, X) = S
         /\ X # S => \E x \in S \ X : NextPage(S, 1, X) = X \cup {x}
<1> DEFINE oldest == Min({e.ts : e \in X} \cup {MaxTime + 1})
           before == IF X = {} THEN 0 ELSE oldest
           older == {e \in S : before = 0 \/ e.ts < before}
           read == {e \in older : Cardinality({f \in older : Before(e, f)}) < 1}
<1>1. /\ Keyed(S) /\ X \subseteq S /\ \A e \in X, g \in S \ X : g.ts < e.ts
      /\ S \subseteq Record /\ IsFiniteSet(S) /\ \A e \in S : e.ts \in Nat
      /\ \A e, f \in S : e.ts = f.ts => e = f
  BY DEF Timed, FromTop, Keyed, Record
<1>2. older = S \ X
  <2>1. CASE X = {}
    BY <2>1
  <2>2. CASE X # {}
    <3>1. /\ oldest \in Nat \ {0}
          /\ \A e \in X : oldest <= e.ts
          /\ \E e \in X : oldest = e.ts
      BY <1>1, <2>2, CursorFacts
    <3> HIDE DEF oldest
    <3>2. \A e \in X : ~(e.ts < oldest)
      BY <1>1, <3>1
    <3>3. PICK o \in X : oldest = o.ts
      BY <3>1
    <3>4. \A g \in S \ X : g.ts < oldest
      BY <1>1, <3>3
    <3> QED BY <1>1, <2>2, <3>1, <3>2, <3>4
  <2> QED BY <2>1, <2>2
<1>3. NextPage(S, 1, X) = X \cup read
  BY DEF NextPage, Query
<1> HIDE DEF older
<1>4. \A e \in older : Cardinality({f \in older : Before(e, f)}) < 1 <=> \A f \in older : ~Before(e, f)
  <2> TAKE e \in older
  <2> DEFINE newer == {f \in older : Before(e, f)}
  <2>1. IsFiniteSet(newer)
    BY <1>1, <1>2, FS_Subset
  <2>2. Cardinality(newer) \in Nat /\ (Cardinality(newer) = 0 <=> newer = {})
    BY <2>1, FS_CardinalityType, FS_EmptySet
  <2> QED BY <2>2
<1>5. read = {e \in older : \A f \in older : ~Before(e, f)}
  BY <1>4
<1> HIDE DEF read
<1>6. CASE X = S
  BY <1>1, <1>2, <1>3, <1>5, <1>6 DEF FromTop
<1>7. CASE X # S
  <2>1. older \in SUBSET S /\ older # {}
    BY <1>1, <1>2, <1>7
  <2>2. PICK x \in older : \A y \in older : y # x => Before(y, x)
    BY <1>1, <2>1, NewestExists
  <2>3. \A y \in older : ~Before(x, y)
    BY <1>1, <2>1, <2>2, BeforeFacts
  <2>4. read = {x}
    BY <1>5, <2>2, <2>3
  <2>5. NextPage(S, 1, X) = X \cup {x} /\ x \in S \ X
    BY <1>2, <1>3, <2>2, <2>4
  <2>6. \A g \in S \ (X \cup {x}) : g.ts < x.ts
    <3> TAKE g \in S \ (X \cup {x})
    <3>1. Before(g, x) /\ g.ts # x.ts /\ g \in S /\ x \in S
      BY <1>1, <1>2, <2>2, <2>5
    <3> QED BY <1>1, <3>1 DEF Before
  <2>7. FromTop(X \cup {x}, S)
    BY <1>1, <2>5, <2>6 DEF FromTop
  <2> QED BY <1>7, <2>5, <2>7
<1> QED BY <1>6, <1>7

\* So there are enough pages of one record for as many records.
LEMMA PagesShowAll ==
  ASSUME NEW S, Timed(S), NEW n \in Nat, Cardinality(S) <= n
  PROVE  Paged(S, 1, n) = S
<1>1. PICK f : Pages(S, 1, n, f) /\ Paged(S, 1, n) = f[n]
  BY PagedFacts
<1>2. \A k \in 0 .. n : f[k] = IF k = 0 THEN {} ELSE NextPage(S, 1, f[k - 1])
  BY <1>1 DEF Pages
<1>3. IsFiniteSet(S) /\ Cardinality(S) \in Nat
  BY FS_CardinalityType DEF Timed, Keyed
<1> DEFINE Good(k) == FromTop(f[k], S) /\ (f[k] = S \/ Cardinality(f[k]) = k)
           T == {k \in 0 .. n : ~Good(k)}
<1>4. ASSUME T # {} PROVE FALSE
  <2>1. T \in SUBSET Nat
    OBVIOUS
  <2> HIDE DEF T
  <2>2. PICK m \in T : \A j \in T : m <= j
    BY <1>4, <2>1, Least
  <2>3. m \in 0 .. n /\ ~Good(m)
    BY <2>2 DEF T
  <2>4. CASE m = 0
    <3>1. f[0] = {} /\ Cardinality({}) = 0
      BY <1>2, FS_EmptySet
    <3> QED BY <2>3, <2>4, <3>1 DEF FromTop
  <2>5. CASE m # 0
    <3>1. m - 1 \in 0 .. n /\ ~(m <= m - 1)
      BY <2>3, <2>5
    <3>2. Good(m - 1)
      BY <2>2, <3>1 DEF T
    <3> DEFINE X == f[m - 1]
    <3>3. f[m] = NextPage(S, 1, X)
      BY <1>2, <2>3, <2>5
    <3>4. FromTop(X, S) /\ (X = S \/ Cardinality(X) = m - 1)
      BY <3>2
    <3> HIDE DEF X
    <3>5. CASE X = S
      BY <2>3, <3>3, <3>4, <3>5, NextPageFacts
    <3>6. CASE X # S
      <4>1. PICK x \in S \ X : f[m] = X \cup {x}
        BY <3>3, <3>4, <3>6, NextPageFacts
      <4>2. IsFiniteSet(X)
        BY <1>3, <3>4, FS_Subset DEF FromTop
      <4>3. Cardinality(f[m]) = m
        <5>1. Cardinality(X \cup {x}) = Cardinality(X) + 1 /\ x \notin X
          BY <4>1, <4>2, FS_AddElement
        <5> QED BY <2>3, <3>4, <3>6, <4>1, <5>1
      <4>4. FromTop(f[m], S)
        BY <3>3, <3>4, NextPageFacts
      <4> QED BY <2>3, <4>3, <4>4
    <3> QED BY <3>5, <3>6
  <2> QED BY <2>4, <2>5
<1>5. FromTop(f[n], S) /\ (f[n] = S \/ Cardinality(f[n]) = n)
  BY <1>4
<1>6. CASE Cardinality(f[n]) = n
  <2>1. f[n] \in SUBSET S
    BY <1>5 DEF FromTop
  <2>2. Cardinality(f[n]) <= Cardinality(S) /\ (Cardinality(f[n]) = Cardinality(S) => f[n] = S)
    BY <1>3, <2>1, FS_Subset
  <2> QED BY <1>1, <1>3, <1>6, <2>2
<1> QED BY <1>1, <1>5, <1>6
-----------------------------------------------------------------------------
\* The clock begins at 1, and every append uses up one action of the load.
Clocked ==
  /\ now \in 1 .. MaxTime + 1
  /\ \A e \in appended : e.ts \in 1 .. now
  /\ Cardinality(appended) <= load.actions

LEMMA ClockedSteps == Inv /\ Clocked /\ [Next]_vars => Clocked'
<1> SUFFICES ASSUME Inv, Clocked, [Next]_vars PROVE Clocked'
  OBVIOUS
<1>0. now \in Nat /\ MaxTime \in Nat /\ Loads \subseteq [events : Nat, actions : Nat]
  BY InvFacts, EventLogAssumption
<1>1. ASSUME UNCHANGED <<load, now, appended>> PROVE Clocked'
  BY <1>1 DEF Clocked
<1>2. CASE Tick
  <2>1. now' \in 1 .. MaxTime + 1 /\ now <= now' /\ UNCHANGED <<load, appended>>
    BY <1>0, <1>2 DEF Tick, Clocked, auditVars
  <2> QED BY <1>0, <2>1 DEF Clocked
<1>3. ASSUME NEW a \in Admins, AppendEvent(a) PROVE Clocked'
  <2> DEFINE q == Cardinality(appended) + 1
             e == [id |-> q, ts |-> acting[a], seq |-> q]
  <2>1. UNCHANGED <<load, now>> /\ acting[a] > 0
    BY <1>3 DEF AppendEvent
  <2>2. CASE appended' = appended \cup {e} /\ q <= load.actions
    <3>1. IsFiniteSet(appended) /\ Cardinality(appended) \in Nat /\ load.actions \in Nat
      BY <1>0, FS_CardinalityType DEF Inv, TypeOK, Trail, Keyed
    <3>2. e.ts \in 1 .. now
      BY <1>0, <2>1 DEF Inv, Typed, Past
    <3> HIDE DEF e
    <3>3. Cardinality(appended') <= Cardinality(appended) + 1 /\ Cardinality(appended') \in Nat
      <4> DEFINE n == Cardinality(appended)
      <4>1. Cardinality(appended \cup {e}) = n \/ Cardinality(appended \cup {e}) = n + 1
        BY <3>1, FS_AddElement
      <4>2. Cardinality(appended') = n \/ Cardinality(appended') = n + 1
        BY <2>2, <4>1
      <4> HIDE DEF n
      <4> QED BY <3>1, <4>2 DEF n
    <3>4. Cardinality(appended') <= load.actions
      BY <2>2, <3>1, <3>3
    <3> QED BY <2>1, <2>2, <3>2, <3>4 DEF Clocked
  <2> QED BY <1>1, <1>3, <2>1, <2>2 DEF AppendEvent
<1>4. ASSUME NEW w \in Workers, Begin(w) \/ End(w) PROVE Clocked'
  BY <1>1, <1>4 DEF Begin, End, auditVars
<1>5. ASSUME NEW a \in Admins, RecordAudit(a) PROVE Clocked'
  BY <1>1, <1>5 DEF RecordAudit
<1>6. CASE Flusher
  BY <1>1, <1>6 DEF Flusher, Receive, TickerFires, ContextDone, Drain, Flush, Swap, auditVars
<1>7. CASE SetAccessLog \/ Signal \/ Exit \/ ExitLate \/ UNCHANGED vars
  BY <1>1, <1>7 DEF SetAccessLog, Signal, Exit, ExitLate, auditVars, vars
<1> QED BY <1>2, <1>3, <1>4, <1>5, <1>6, <1>7 DEF Next

(***************************************************************************)
(* GetAuditHandler, for any number of concurrent admin actions and any     *)
(* maxControlEvents: the trail keeps the newest actions, and a client that *)
(* pages through it with the time of the oldest event it has seen reads    *)
(* every one of them, as long as no two happened at the same time.         *)
(***************************************************************************)
THEOREM AuditReadableHolds == Spec => []AuditReadable
<1>1. Init => Clocked
  <2> SUFFICES ASSUME Init PROVE Clocked
    OBVIOUS
  <2>1. MaxTime \in Nat /\ load.actions \in Nat /\ Cardinality({}) = 0
    BY EventLogAssumption, FS_EmptySet DEF Init
  <2> QED BY <2>1 DEF Init, Clocked
<1>2. Inv /\ Clocked => AuditReadable
  <2> SUFFICES ASSUME Inv, Clocked, \A e, f \in audit : e.ts = f.ts => e = f
               PROVE  Paged(audit, 1, load.actions) = audit
    BY DEF Inv, Trail, AuditReadable, PagingComplete
  <2>1. /\ Keyed(appended) /\ audit \in SUBSET appended /\ load.actions \in Nat
        /\ now \in Nat /\ MaxTime \in Nat
    BY InvFacts, EventLogAssumption DEF Inv, TypeOK, Trail, AuditTrail
  <2>2. Keyed(audit)
    BY <2>1, KeyedSubset
  <2>3. Timed(audit)
    <3>1. \A e \in audit : e.ts \in 1 .. MaxTime + 1
      BY <2>1 DEF Clocked
    <3> QED BY <2>2, <3>1 DEF Timed
  <2>4. Cardinality(audit) <= load.actions
    <3>1. /\ Cardinality(audit) \in Nat /\ Cardinality(appended) \in Nat
          /\ Cardinality(audit) <= Cardinality(appended)
      BY <2>1, <2>2, FS_Subset, FS_CardinalityType DEF Keyed
    <3> QED BY <2>1, <3>1 DEF Clocked
  <2> QED BY <2>1, <2>3, <2>4, PagesShowAll
<1> QED BY <1>1, <1>2, ClockedSteps, Invariance, PTL DEF Spec
-----------------------------------------------------------------------------
(***************************************************************************)
(* The order of the keys in a listing.                                     *)
(***************************************************************************)
Words == Seq(Nat) \ {<<>>}

\* The first place at which two words differ decides.
Differ(s, t, i) ==
  /\ i \in 1 .. Len(t) /\ i <= Len(s) + 1
  /\ \A j \in 1 .. i - 1 : s[j] = t[j]
  /\ i <= Len(s) => s[i] < t[i]

LEMMA LessDiffers ==
  ASSUME NEW s \in Seq(Nat), NEW t \in Seq(Nat)
  PROVE  Less(s, t) <=> \E i \in Nat : Differ(s, t, i)
<1>1. ASSUME NEW i \in 1 .. Len(t), i <= Len(s) + 1
      PROVE  SubSeq(s, 1, i - 1) = SubSeq(t, 1, i - 1) <=> \A j \in 1 .. i - 1 : s[j] = t[j]
  <2>1. /\ SubSeq(s, 1, i - 1) \in Seq(Nat) /\ SubSeq(t, 1, i - 1) \in Seq(Nat)
        /\ Len(SubSeq(s, 1, i - 1)) = i - 1 /\ Len(SubSeq(t, 1, i - 1)) = i - 1
        /\ \A j \in 1 .. i - 1 : SubSeq(s, 1, i - 1)[j] = s[j] /\ SubSeq(t, 1, i - 1)[j] = t[j]
    <3>1. \A j \in 1 .. i - 1 : s[j] \in Nat /\ t[j] \in Nat
      BY <1>1
    <3> QED BY <1>1, <3>1, SubSeqProperties
  <2> QED BY <2>1, SeqEqual
<1> QED BY <1>1 DEF Less, Differ

LEMMA LessIrreflexive == \A s \in Seq(Nat) : ~Less(s, s)
BY LessDiffers DEF Differ

LEMMA LessTransitive ==
  ASSUME NEW s \in Seq(Nat), NEW t \in Seq(Nat), NEW u \in Seq(Nat), Less(s, t), Less(t, u)
  PROVE  Less(s, u)
<1>1. PICK i \in Nat : Differ(s, t, i)
  BY LessDiffers
<1>2. PICK j \in Nat : Differ(t, u, j)
  BY LessDiffers
<1>3. /\ \A k \in 1 .. Len(s) : s[k] \in Nat
      /\ \A k \in 1 .. Len(t) : t[k] \in Nat
      /\ \A k \in 1 .. Len(u) : u[k] \in Nat
  OBVIOUS
<1>4. i \in 1 .. Len(t) /\ i <= Len(s) + 1 /\ j \in 1 .. Len(u) /\ j <= Len(t) + 1
  BY <1>1, <1>2 DEF Differ
<1>5. (\A k \in 1 .. i - 1 : s[k] = t[k]) /\ (\A k \in 1 .. j - 1 : t[k] = u[k])
  BY <1>1, <1>2 DEF Differ
<1>6. (i <= Len(s) => s[i] < t[i]) /\ (j <= Len(t) => t[j] < u[j])
  BY <1>1, <1>2 DEF Differ
<1>7. CASE i < j
  <2>1. i \in 1 .. Len(u) /\ t[i] = u[i]
    BY <1>4, <1>5, <1>7
  <2>2. \A k \in 1 .. i - 1 : s[k] = u[k]
    BY <1>4, <1>5, <1>7
  <2> QED BY <1>4, <1>6, <2>1, <2>2, LessDiffers DEF Differ
<1>8. CASE i = j
  <2>1. \A k \in 1 .. i - 1 : s[k] = u[k]
    BY <1>5, <1>8
  <2>2. t[i] < u[i]
    BY <1>4, <1>6, <1>8
  <2>3. ASSUME i <= Len(s) PROVE s[i] < u[i]
    <3>1. s[i] \in Nat /\ t[i] \in Nat /\ u[i] \in Nat
      BY <1>3, <1>4, <1>8, <2>3
    <3> QED BY <1>6, <2>2, <2>3, <3>1
  <2> QED BY <1>4, <1>8, <2>1, <2>3, LessDiffers DEF Differ
<1>9. CASE j < i
  <2>1. j <= Len(s) + 1 /\ j \in 1 .. i - 1
    BY <1>4, <1>9
  <2>2. \A k \in 1 .. j - 1 : s[k] = u[k]
    BY <1>4, <1>5, <1>9
  <2>3. s[j] = t[j] /\ t[j] < u[j]
    BY <1>4, <1>5, <1>6, <1>9
  <2> QED BY <1>4, <2>1, <2>2, <2>3, LessDiffers DEF Differ
<1> QED BY <1>7, <1>8, <1>9

LEMMA LessTotal ==
  ASSUME NEW s \in Seq(Nat), NEW t \in Seq(Nat), s # t
  PROVE  Less(s, t) \/ Less(t, s)
<1> DEFINE D == {i \in Nat \ {0} : i > Len(s) \/ i > Len(t) \/ s[i] # t[i]}
<1>1. Len(s) + 1 \in D /\ D \subseteq Nat
  OBVIOUS
<1>2. PICK i \in D : \A j \in D : i <= j
  BY <1>1, Least
<1>3. i \in Nat \ {0} /\ \A j \in 1 .. i - 1 : j <= Len(s) /\ j <= Len(t) /\ s[j] = t[j]
  BY <1>2
<1>4. i <= Len(s) + 1 /\ i <= Len(t) + 1
  BY <1>3
<1>5. CASE i > Len(s) /\ i > Len(t)
  <2>1. Len(s) = Len(t) /\ \A j \in 1 .. Len(s) : s[j] = t[j]
    BY <1>3, <1>4, <1>5
  <2> QED BY <2>1, SeqEqual
<1>6. CASE i <= Len(t) /\ (i > Len(s) \/ s[i] < t[i])
  <2>1. Differ(s, t, i)
    BY <1>3, <1>4, <1>6 DEF Differ
  <2> QED BY <2>1, <1>3, LessDiffers
<1>7. CASE i <= Len(s) /\ (i > Len(t) \/ t[i] < s[i])
  <2>1. Differ(t, s, i)
    BY <1>3, <1>4, <1>7 DEF Differ
  <2> QED BY <2>1, <1>3, LessDiffers
<1>8. i <= Len(s) /\ i <= Len(t) => s[i] \in Nat /\ t[i] \in Nat /\ s[i] # t[i]
  BY <1>2, <1>3
<1> QED BY <1>3, <1>5, <1>6, <1>7, <1>8

(***************************************************************************)
(* Sorting a finite set by the number of elements below each: the ranks    *)
(* are different numbers, as many as there are elements, so each is taken. *)
(***************************************************************************)
LEMMA SortedFacts ==
  ASSUME NEW E, E \subseteq Seq(Nat), IsFiniteSet(E)
  PROVE  /\ Sorted(E) \in Seq(E) /\ Len(Sorted(E)) = Cardinality(E) /\ Cardinality(E) \in Nat
         /\ \A e \in E : \E i \in 1 .. Len(Sorted(E)) : Sorted(E)[i] = e
         /\ \A i, j \in 1 .. Len(Sorted(E)) : i < j => Less(Sorted(E)[i], Sorted(E)[j])
<1> DEFINE n == Cardinality(E)
           Below(e) == {f \in E : Less(f, e)}
           rank == [e \in E |-> Cardinality(Below(e)) + 1]
<1>1. n \in Nat
  BY FS_CardinalityType
<1>2. ASSUME NEW e \in E
      PROVE  /\ IsFiniteSet(Below(e)) /\ Cardinality(Below(e)) \in Nat
             /\ rank[e] \in 1 .. n /\ rank[e] = Cardinality(Below(e)) + 1
  <2>1. Below(e) \in SUBSET E /\ e \notin Below(e)
    BY LessIrreflexive
  <2> HIDE DEF Below
  <2>2. IsFiniteSet(Below(e)) /\ Cardinality(Below(e)) \in Nat
    BY <2>1, FS_Subset, FS_CardinalityType
  <2>3. Cardinality(Below(e)) <= n /\ Cardinality(Below(e)) # n
    BY <2>1, FS_Subset
  <2> QED BY <1>1, <2>2, <2>3
<1>3. ASSUME NEW e \in E, NEW f \in E, Less(e, f) PROVE rank[e] < rank[f]
  <2>1. Below(e) \in SUBSET Below(f) /\ e \in Below(f) /\ e \notin Below(e)
    BY <1>3, LessTransitive, LessIrreflexive
  <2> HIDE DEF Below
  <2>2. Cardinality(Below(e)) <= Cardinality(Below(f)) /\ Cardinality(Below(e)) # Cardinality(Below(f))
    BY <1>2, <2>1, FS_Subset
  <2> QED BY <1>2, <2>2
<1> HIDE DEF rank
<1>4. ASSUME NEW e \in E, NEW f \in E, rank[e] = rank[f] PROVE e = f
  <2>1. rank[e] \in 1 .. n /\ rank[f] \in 1 .. n
    BY <1>2
  <2>2. ~(rank[e] < rank[f]) /\ ~(rank[f] < rank[e])
    BY <1>1, <1>4, <2>1
  <2> QED BY <1>3, <2>2, LessTotal
<1>5. \A i \in 1 .. n : \E e \in E : rank[e] = i
  <2>1. rank \in Injection(E, 1 .. n)
    <3>1. rank \in [E -> 1 .. n]
      BY <1>2 DEF rank
    <3> QED BY <1>4, <3>1 DEF Injection, IsInjective
  <2>2. IsFiniteSet(1 .. n) /\ Cardinality(1 .. n) = n
    BY <1>1, FS_Interval
  <2>3. rank \in Surjection(E, 1 .. n)
    BY <2>1, <2>2, FS_Injection
  <2> QED BY <2>3 DEF Surjection
<1>6. ASSUME NEW i \in 1 .. n PROVE Sorted(E)[i] \in E /\ rank[Sorted(E)[i]] = i
  <2>1. Sorted(E)[i] = CHOOSE e \in E : Cardinality(Below(e)) = i - 1
    BY DEF Sorted
  <2>2. \E e \in E : Cardinality(Below(e)) = i - 1
    <3>1. PICK e \in E : rank[e] = i
      BY <1>5
    <3>2. rank[e] = Cardinality(Below(e)) + 1 /\ Cardinality(Below(e)) \in Nat
      BY <1>2
    <3> HIDE DEF Below
    <3> QED BY <3>1, <3>2
  <2> HIDE DEF Below
  <2>3. Sorted(E)[i] \in E /\ Cardinality(Below(Sorted(E)[i])) = i - 1
    BY <2>1, <2>2
  <2> QED BY <1>1, <1>2, <2>3
<1>7. Sorted(E) \in Seq(E) /\ Len(Sorted(E)) = n
  <2>1. Sorted(E) \in [1 .. n -> E]
    BY <1>6 DEF Sorted
  <2> QED BY <1>1, <2>1
<1>8. \A e \in E : Sorted(E)[rank[e]] = e
  BY <1>2, <1>4, <1>6
<1>9. ASSUME NEW i \in 1 .. n, NEW j \in 1 .. n, i < j PROVE Less(Sorted(E)[i], Sorted(E)[j])
  <2>1. /\ Sorted(E)[i] \in E /\ Sorted(E)[j] \in E
        /\ rank[Sorted(E)[i]] = i /\ rank[Sorted(E)[j]] = j
    BY <1>6
  <2>2. Sorted(E)[i] # Sorted(E)[j] /\ ~(j < i)
    BY <1>9, <2>1
  <2> QED BY <1>3, <2>1, <2>2, LessTotal
<1> QED BY <1>1, <1>2, <1>7, <1>8, <1>9
-----------------------------------------------------------------------------
(***************************************************************************)
(* The pages of a listing.                                                 *)
(***************************************************************************)
\* An entry the client has not seen yet.
Ahead(e) == cursor = <<>> \/ Less(cursor, e)

\* An entry of the listing: a key that was there, or the common prefix of one.
Witnessed(e) == \E k \in ever : Matches(k) /\ EntryOf(k) = e

ListingTyped ==
  /\ files \subseteq Keys /\ staged \subseteq Keys /\ left \subseteq Keys
  /\ IsFiniteSet(files) /\ IsFiniteSet(staged) /\ IsFiniteSet(left)
  /\ query \in [prefix : Seq(Nat), delimiter : BOOLEAN, max : 1 .. ListMaxKeys]
  /\ pc \in {"ask", "walk", "resolve", "done"}
  /\ met \subseteq Words /\ IsFiniteSet(met)
  /\ page \in Seq(Words) /\ out \in Seq(Words) /\ more \in BOOLEAN
  /\ cursor \in Seq(Nat) /\ lastKey \in Seq(Nat)
  /\ Len(page) <= ListMaxKeys /\ next \in 1 .. Len(page) + 1

\* What was there all along is in what the walk has found, and so on up.
Nested ==
  /\ stable \subseteq Names /\ Names \subseteq ever /\ through \subseteq met /\ met \subseteq ever
  /\ pc \in {"walk", "resolve"} => stable \subseteq through

\* The client's entries, the cursor and the page, one behind the other.
EntriesInOrder ==
  /\ \A i, j \in 1 .. Len(out) : i < j => Less(out[i], out[j])
  /\ pc # "done" => \/ cursor = <<>> /\ out = <<>>
                    \/ /\ cursor # <<>>
                       /\ \A i \in 1 .. Len(out) : out[i] = cursor \/ Less(out[i], cursor)
  /\ pc = "resolve" =>
       /\ \A i, j \in 1 .. Len(page) : i < j => Less(page[i], page[j])
       /\ \A i \in 1 .. Len(page) : Ahead(page[i])
       /\ more => Len(page) \in Nat \ {0} /\ lastKey = page[Len(page)]

\* What a stable key is listed under is out already, or still ahead.
Coming ==
  \A k \in stable : Matches(k) =>
    \/ EntryOf(k) \in ToSet(out)
    \/ /\ pc # "done" /\ Ahead(EntryOf(k))
       /\ pc = "resolve" => EntryOf(k) \in ToSet(page) \/ (more /\ Less(lastKey, EntryOf(k)))

AllWitnessed ==
  /\ \A e \in ToSet(out) : Witnessed(e)
  /\ pc = "resolve" => \A e \in ToSet(page) : Witnessed(e)

ListingInv == ListingTyped /\ Nested /\ EntriesInOrder /\ Coming /\ AllWitnessed

\* Among numbers with a bound one is the greatest.
LEMMA Greatest ==
  ASSUME NEW n \in Nat, NEW T \in SUBSET (0 .. n), T # {}
  PROVE  \E i \in T : \A j \in T : j <= i
<1>1. {n - i : i \in T} \in SUBSET Nat /\ {n - i : i \in T} # {}
  <2>1. \A i \in T : n - i \in Nat
    OBVIOUS
  <2> QED BY <2>1
<1>2. PICK m \in {n - i : i \in T} : \A j \in {n - i : i \in T} : m <= j
  BY <1>1, Least
<1>3. PICK i \in T : m = n - i
  BY <1>2
<1>4. \A j \in T : n - i <= n - j
  BY <1>2, <1>3
<1> QED BY <1>4

\* A part of a word is a sequence of numbers.
LEMMA PartOf ==
  ASSUME NEW k \in Seq(Nat), NEW a \in Nat \ {0}, NEW b \in Nat, b <= Len(k)
  PROVE  SubSeq(k, a, b) \in Seq(Nat) /\ (a <= b => SubSeq(k, a, b) # <<>>)
<1>1. \A i \in a .. b : k[i] \in Nat
  OBVIOUS
<1>2. /\ SubSeq(k, a, b) \in Seq(Nat)
      /\ Len(SubSeq(k, a, b)) = IF a <= b THEN b - a + 1 ELSE 0
  BY <1>1, SubSeqProperties
<1> QED BY <1>2

\* The name of a temporary file.
LEMMA TempWord == \A k \in Keys : Temp(k) \in Words
<1> SUFFICES ASSUME NEW k \in Keys PROVE Temp(k) \in Words
  OBVIOUS
<1> DEFINE slashes == {0} \cup {i \in DOMAIN k : k[i] = Slash}
           d == CHOOSE i \in slashes : \A j \in slashes : j <= i
<1>1. k \in Seq(Nat) /\ Len(k) \in Nat
  BY ListingAssumption
<1>2. slashes \in SUBSET (0 .. Len(k)) /\ slashes # {}
  BY <1>1
<1>3. \E i \in slashes : \A j \in slashes : j <= i
  <2> HIDE DEF slashes
  <2> QED BY <1>1, <1>2, Greatest
<1>4. d \in 0 .. Len(k)
  <2> HIDE DEF slashes
  <2> QED BY <1>2, <1>3
<1>5. Temp(k) = SubSeq(k, 1, d) \o <<Dot>> \o SubSeq(k, d + 1, Len(k))
  BY DEF Temp
<1> HIDE DEF d
<1>6. SubSeq(k, 1, d) \in Seq(Nat) /\ SubSeq(k, d + 1, Len(k)) \in Seq(Nat) /\ <<Dot>> \in Seq(Nat)
  BY <1>1, <1>4, PartOf DEF Dot
<1>7. SubSeq(k, 1, d) \o <<Dot>> \in Seq(Nat) /\ SubSeq(k, 1, d) \o <<Dot>> # <<>>
  BY <1>6
<1> HIDE DEF Dot
<1> QED BY <1>5, <1>6, <1>7 DEF Words

\* The entry of a word is one.
LEMMA EntryWord ==
  ASSUME query.prefix \in Seq(Nat), NEW k \in Words
  PROVE  EntryOf(k) \in Words
<1> DEFINE cuts == {i \in (Len(query.prefix) + 1) .. Len(k) : k[i] = Slash}
           c == CHOOSE i \in cuts : \A j \in cuts : i <= j
<1>1. k \in Seq(Nat) /\ Len(k) \in Nat /\ Len(query.prefix) \in Nat
  BY DEF Words
<1>2. cuts \in SUBSET Nat /\ \A i \in cuts : i \in 1 .. Len(k)
  BY <1>1
<1>3. CASE query.delimiter /\ cuts # {}
  <2>1. \E i \in cuts : \A j \in cuts : i <= j
    <3> HIDE DEF cuts
    <3> QED BY <1>2, <1>3, Least
  <2>2. c \in 1 .. Len(k)
    <3> HIDE DEF cuts
    <3> QED BY <1>2, <2>1
  <2>3. EntryOf(k) = SubSeq(k, 1, c)
    BY <1>3 DEF EntryOf
  <2> HIDE DEF c
  <2>4. 1 \in Nat \ {0} /\ c \in Nat /\ 1 <= c /\ c <= Len(k)
    BY <1>1, <2>2
  <2>5. SubSeq(k, 1, c) \in Seq(Nat) /\ SubSeq(k, 1, c) # <<>>
    BY <1>1, <2>4, PartOf
  <2> QED BY <2>3, <2>5 DEF Words
<1>4. CASE ~(query.delimiter /\ cuts # {})
  BY <1>4 DEF EntryOf
<1> QED BY <1>3, <1>4

\* The files of a bucket, with a name each.
LEMMA NamesFacts ==
  ASSUME NEW f \in SUBSET Keys, NEW s \in SUBSET Keys, NEW l \in SUBSET Keys,
         IsFiniteSet(f), IsFiniteSet(s), IsFiniteSet(l)
  PROVE  /\ f \cup {Temp(k) : k \in s \cup l} \subseteq Words
         /\ IsFiniteSet(f \cup {Temp(k) : k \in s \cup l})
<1> DEFINE temp == [k \in s \cup l |-> Temp(k)]
           Temps == {Temp(k) : k \in s \cup l}
<1>1. IsFiniteSet(s \cup l)
  BY FS_Union
<1>2. temp \in Surjection(s \cup l, Temps)
  BY DEF Surjection
<1>3. IsFiniteSet(Temps)
  <2> HIDE DEF temp, Temps
  <2> QED BY <1>1, <1>2, FS_Surjection
<1>4. Keys \subseteq Words
  BY ListingAssumption DEF Words
<1>5. Temps \subseteq Words
  BY TempWord
<1>6. f \cup Temps \subseteq Words /\ IsFiniteSet(f \cup Temps)
  <2> HIDE DEF Temps
  <2> QED BY <1>3, <1>4, <1>5, FS_Union
<1> QED BY <1>6

\* The sorted stream of entries a page is cut from.
LEMMA MergedFacts ==
  ASSUME ListingTyped, NEW S, S \subseteq Words, IsFiniteSet(S)
  PROVE  /\ Merged(S) \in Seq(Words) /\ Len(Merged(S)) \in Nat
         /\ \A i, j \in 1 .. Len(Merged(S)) : i < j => Less(Merged(S)[i], Merged(S)[j])
         /\ \A i \in 1 .. Len(Merged(S)) :
              Ahead(Merged(S)[i]) /\ \E k \in S : Matches(k) /\ EntryOf(k) = Merged(S)[i]
         /\ \A k \in S : Matches(k) /\ Ahead(EntryOf(k)) =>
              \E i \in 1 .. Len(Merged(S)) : Merged(S)[i] = EntryOf(k)
<1> DEFINE Found == {k \in S : Matches(k)}
           entry == [k \in Found |-> EntryOf(k)]
           Entries == {EntryOf(k) : k \in Found}
           E == AfterCursor(Entries)
<1>1. IsFiniteSet(Found)
  BY FS_Subset
<1>2. entry \in Surjection(Found, Entries)
  BY DEF Surjection
<1>3. IsFiniteSet(Entries)
  <2> HIDE DEF entry, Entries, Found
  <2> QED BY <1>1, <1>2, FS_Surjection
<1>4. Entries \subseteq Words
  <2>1. query.prefix \in Seq(Nat)
    BY DEF ListingTyped
  <2> QED BY <2>1, EntryWord
<1>5. E = {e \in Entries : Ahead(e)}
  BY DEF AfterCursor, Ahead
<1>6. Merged(S) = Sorted(E)
  BY DEF Merged
<1> HIDE DEF Entries
<1>7. E \in SUBSET Entries
  BY <1>5
<1> HIDE DEF E
<1>8. E \subseteq Words /\ E \subseteq Seq(Nat) /\ IsFiniteSet(E)
  BY <1>3, <1>4, <1>7, FS_Subset DEF Words
<1>9. /\ Sorted(E) \in Seq(E) /\ Len(Sorted(E)) \in Nat
      /\ \A e \in E : \E i \in 1 .. Len(Sorted(E)) : Sorted(E)[i] = e
      /\ \A i, j \in 1 .. Len(Sorted(E)) : i < j => Less(Sorted(E)[i], Sorted(E)[j])
  BY <1>8, SortedFacts
<1>10. Sorted(E) \in Seq(Words) /\ \A i \in 1 .. Len(Sorted(E)) : Sorted(E)[i] \in E
  <2>1. \A i \in 1 .. Len(Sorted(E)) : Sorted(E)[i] \in E
    BY <1>9, ElementOfSeq
  <2>2. Sorted(E) \in Seq(Words)
    BY <1>8, <1>9, SeqMonotonic
  <2> QED BY <2>1, <2>2
<1>11. \A i \in 1 .. Len(Sorted(E)) :
         Ahead(Sorted(E)[i]) /\ \E k \in S : Matches(k) /\ EntryOf(k) = Sorted(E)[i]
  BY <1>5, <1>10 DEF Entries
<1>12. \A k \in S : Matches(k) /\ Ahead(EntryOf(k)) =>
         \E i \in 1 .. Len(Sorted(E)) : Sorted(E)[i] = EntryOf(k)
  BY <1>5, <1>9 DEF Entries
<1> QED BY <1>6, <1>9, <1>10, <1>11, <1>12

\* A page and where the next one begins.
Cut(S) ==
  /\ page' \in Seq(Words) /\ Len(page') <= query.max /\ more' \in BOOLEAN /\ lastKey' \in Seq(Nat)
  /\ \A i, j \in 1 .. Len(page') : i < j => Less(page'[i], page'[j])
  /\ \A i \in 1 .. Len(page') :
       Ahead(page'[i]) /\ \E k \in S : Matches(k) /\ EntryOf(k) = page'[i]
  /\ more' => Len(page') = query.max /\ lastKey' = page'[Len(page')]
  /\ \A k \in S : Matches(k) /\ Ahead(EntryOf(k)) =>
       \/ \E i \in 1 .. Len(page') : page'[i] = EntryOf(k)
       \/ more' /\ Less(lastKey', EntryOf(k))

LEMMA PageCut ==
  ASSUME ListingTyped, NEW S, S \subseteq Words, IsFiniteSet(S), MakePage(S)
  PROVE  Cut(S)
<1> DEFINE all == Merged(S)
           max == query.max
<1>1. /\ all \in Seq(Words) /\ Len(all) \in Nat
      /\ \A i, j \in 1 .. Len(all) : i < j => Less(all[i], all[j])
      /\ \A i \in 1 .. Len(all) : Ahead(all[i]) /\ \E k \in S : Matches(k) /\ EntryOf(k) = all[i]
      /\ \A k \in S : Matches(k) /\ Ahead(EntryOf(k)) => \E i \in 1 .. Len(all) : all[i] = EntryOf(k)
  BY MergedFacts
<1>2. max \in 1 .. ListMaxKeys /\ max \in Nat \ {0}
  BY ListingAssumption DEF ListingTyped
<1>3. /\ more' = (Len(all) > max)
      /\ page' = IF more' THEN SubSeq(all, 1, max) ELSE all
      /\ lastKey' = IF more' THEN all[max] ELSE <<>>
  BY DEF MakePage
<1> HIDE DEF all, max
<1>4. CASE Len(all) <= max
  <2>1. ~(Len(all) > max)
    BY <1>1, <1>2, <1>4
  <2>2. more' = FALSE /\ page' = all /\ lastKey' = <<>>
    <3>1. (Len(all) > max) = FALSE
      BY <2>1
    <3>2. more' = FALSE
      BY <1>3, <3>1
    <3> QED BY <1>3, <3>2
  <2>3. <<>> \in Seq(Nat)
    OBVIOUS
  <2>4. Len(page') <= query.max
    BY <1>4, <2>2 DEF max
  <2>5. /\ more' \in BOOLEAN /\ lastKey' \in Seq(Nat)
        /\ more' => Len(page') = query.max /\ lastKey' = page'[Len(page')]
    BY <2>2, <2>3
  <2> QED BY <1>1, <2>2, <2>4, <2>5 DEF Cut
<1>5. CASE Len(all) > max
  <2>1. more' /\ page' = SubSeq(all, 1, max) /\ lastKey' = all[max]
    BY <1>3, <1>5
  <2>2. \A i \in 1 .. max : all[i] \in Words
    BY <1>1, <1>2, <1>5, ElementOfSeq
  <2>3. /\ page' \in Seq(Words) /\ Len(page') = max
        /\ \A i \in 1 .. max : page'[i] = all[i]
    <3>1. /\ SubSeq(all, 1, max) \in Seq(Words)
          /\ Len(SubSeq(all, 1, max)) = IF 1 <= max THEN max - 1 + 1 ELSE 0
          /\ \A i \in 1 .. max - 1 + 1 : SubSeq(all, 1, max)[i] = all[1 + i - 1]
      BY <1>2, <2>2, SubSeqProperties
    <3> QED BY <1>2, <2>1, <3>1
  <2>4. lastKey' \in Seq(Nat) /\ lastKey' = page'[Len(page')]
    BY <1>2, <2>1, <2>2, <2>3 DEF Words
  <2>5. ASSUME NEW k \in S, Matches(k), Ahead(EntryOf(k))
        PROVE  (\E i \in 1 .. Len(page') : page'[i] = EntryOf(k)) \/ Less(lastKey', EntryOf(k))
    <3>1. PICK i \in 1 .. Len(all) : all[i] = EntryOf(k)
      BY <1>1, <2>5
    <3>2. CASE i <= max
      BY <1>2, <2>3, <3>1, <3>2
    <3>3. CASE i > max
      BY <1>1, <1>2, <1>5, <2>1, <3>1, <3>3
    <3> QED BY <1>2, <3>1, <3>2, <3>3
  <2>6. \A i, j \in 1 .. max : i < j => Less(page'[i], page'[j])
    BY <1>1, <1>2, <1>5, <2>3
  <2>7. ASSUME NEW i \in 1 .. max
        PROVE  Ahead(page'[i]) /\ \E k \in S : Matches(k) /\ EntryOf(k) = page'[i]
    <3>1. i \in 1 .. Len(all) /\ page'[i] = all[i]
      BY <1>1, <1>2, <1>5, <2>3
    <3> QED BY <1>1, <3>1
  <2> QED BY <1>2, <2>1, <2>3, <2>4, <2>5, <2>6, <2>7 DEF Cut, max
<1> QED BY <1>1, <1>2, <1>4, <1>5
-----------------------------------------------------------------------------
LEMMA SameQuery ==
  ASSUME query' = query
  PROVE  \A k : Matches(k)' = Matches(k) /\ EntryOf(k)' = EntryOf(k)
BY DEF Matches, EntryOf

\* A step that leaves the page alone, or gives it up, with fewer stable names
\* and more names seen.
LEMMA PageKept ==
  ASSUME EntriesInOrder, Coming, AllWitnessed, UNCHANGED <<query, cursor, page, more, lastKey, out>>,
         pc' = pc \/ (pc # "done" /\ pc' \notin {"done", "resolve"}),
         stable' \subseteq stable, ever \subseteq ever'
  PROVE  EntriesInOrder' /\ Coming' /\ AllWitnessed'
<1>1. \A k : Matches(k)' = Matches(k) /\ EntryOf(k)' = EntryOf(k)
  BY SameQuery
<1>2. EntriesInOrder'
  BY DEF EntriesInOrder, Ahead
<1>3. Coming'
  BY <1>1 DEF Coming, Ahead
<1>4. \A e : Witnessed(e) => Witnessed(e)'
  BY <1>1 DEF Witnessed
<1>5. AllWitnessed'
  BY <1>4 DEF AllWitnessed
<1> QED BY <1>2, <1>3, <1>5

\* Objects and temporary files come and go.
LEMMA ChangeListing ==
  ASSUME ListingInv, NEW k \in Keys, Upload(k) \/ Commit(k) \/ Delete(k)
  PROVE  ListingInv'
<1> USE DEF ListingInv
<1>1. /\ UNCHANGED <<query, cursor, pc, page, next, more, lastKey, out>> /\ Observe
  BY DEF Upload, Commit, Delete, pageVars
<1>2. /\ files' \in SUBSET Keys /\ staged' \in SUBSET Keys /\ left' \in SUBSET Keys
      /\ IsFiniteSet(files') /\ IsFiniteSet(staged') /\ IsFiniteSet(left')
  <2>1. CASE Upload(k)
    BY <2>1, FS_AddElement DEF Upload, ListingTyped
  <2>2. CASE Commit(k)
    BY <2>2, FS_AddElement, FS_RemoveElement DEF Commit, ListingTyped
  <2>3. CASE Delete(k)
    BY <2>3, FS_RemoveElement DEF Delete, ListingTyped
  <2> QED BY <2>1, <2>2, <2>3
<1>3. Names' \subseteq Words /\ IsFiniteSet(Names')
  BY <1>2, NamesFacts DEF Names
<1>4. ListingTyped'
  <2>1. met' \subseteq Words /\ IsFiniteSet(met')
    BY <1>1, <1>3, FS_Union DEF Observe, ListingTyped
  <2> QED BY <1>1, <1>2, <2>1 DEF ListingTyped
<1>5. Nested'
  BY <1>1 DEF Nested, Observe
<1>6. EntriesInOrder' /\ Coming' /\ AllWitnessed'
  BY <1>1, PageKept DEF Observe
<1> QED BY <1>4, <1>5, <1>6

\* A crash takes the page and leaves every file where it is.
LEMMA CrashListing ==
  ASSUME ListingInv, Crash
  PROVE  ListingInv'
<1> USE DEF ListingInv
<1>1. Names' = Names
  BY DEF Crash, Names
<1>2. ListingTyped'
  <2>1. IsFiniteSet(left') /\ IsFiniteSet(staged')
    BY FS_Union, FS_EmptySet DEF Crash, ListingTyped
  <2> QED BY <2>1 DEF Crash, ListingTyped, pageVars
<1>3. Nested'
  BY <1>1 DEF Nested, Crash
<1>4. EntriesInOrder' /\ Coming' /\ AllWitnessed'
  BY PageKept DEF Crash, pageVars
<1> QED BY <1>2, <1>3, <1>4

LEMMA WalkListing ==
  ASSUME ListingInv, Walk
  PROVE  ListingInv'
<1> USE DEF ListingInv
<1>1. Names' = Names
  BY DEF Walk, Names
<1>2. Names \subseteq Words /\ IsFiniteSet(Names)
  BY NamesFacts DEF Names, ListingTyped
<1>3. ListingTyped'
  BY <1>2 DEF Walk, ListingTyped, pageVars
<1>4. Nested'
  BY <1>1 DEF Nested, Walk
<1>5. EntriesInOrder' /\ Coming' /\ AllWitnessed'
  BY PageKept DEF Walk, pageVars
<1> QED BY <1>3, <1>4, <1>5

LEMMA EndWalkListing ==
  ASSUME ListingInv, EndWalk
  PROVE  ListingInv'
<1> USE DEF ListingInv
<1>1. PICK extra \in SUBSET (met \ through) : MakePage(through \cup extra)
  BY DEF EndWalk
<1> DEFINE S == through \cup extra
<1>2. S \subseteq met /\ S \subseteq Words /\ IsFiniteSet(S)
  BY FS_Subset DEF Nested, ListingTyped
<1>3. Cut(S)
  BY <1>1, <1>2, PageCut
<1>4. /\ pc = "walk" /\ pc' = "resolve" /\ next' = 1
      /\ UNCHANGED <<files, staged, left, query, cursor, through, met, out, stable, ever>>
  BY DEF EndWalk
<1>5. \A k : Matches(k)' = Matches(k) /\ EntryOf(k)' = EntryOf(k)
  BY <1>4, SameQuery
<1>6. ListingTyped'
  <2>1. /\ page' \in Seq(Words) /\ more' \in BOOLEAN /\ lastKey' \in Seq(Nat)
        /\ Len(page') <= ListMaxKeys /\ next' \in 1 .. Len(page') + 1
    BY <1>3, <1>4, ListingAssumption DEF Cut, ListingTyped
  <2> QED BY <1>4, <2>1 DEF ListingTyped
<1>7. Nested'
  BY <1>4 DEF Nested, Names
<1>8. EntriesInOrder'
  BY <1>3, <1>4 DEF EntriesInOrder, Ahead, Cut, ListingTyped
<1>9. Coming'
  <2> SUFFICES ASSUME NEW k \in stable, Matches(k), EntryOf(k) \notin ToSet(out)
               PROVE  /\ Ahead(EntryOf(k))
                      /\ EntryOf(k) \in ToSet(page') \/ (more' /\ Less(lastKey', EntryOf(k)))
    BY <1>4, <1>5 DEF Coming, Ahead
  <2>1. Ahead(EntryOf(k)) /\ k \in S
    BY <1>4 DEF Coming, Nested
  <2> QED BY <1>3, <2>1 DEF Cut, ToSet
<1>10. AllWitnessed'
  <2>1. \A e : Witnessed(e) => Witnessed(e)'
    BY <1>4, <1>5 DEF Witnessed
  <2>2. \A e \in ToSet(page') : \E k \in S : Matches(k) /\ EntryOf(k) = e
    BY <1>3 DEF Cut, ToSet
  <2>3. \A e \in ToSet(page') : Witnessed(e)
    BY <1>2, <2>2 DEF Witnessed, Nested
  <2> QED BY <1>4, <2>1, <2>3 DEF AllWitnessed
<1> QED BY <1>6, <1>7, <1>8, <1>9, <1>10

LEMMA ResolveListing ==
  ASSUME ListingInv, Resolve
  PROVE  ListingInv'
<1> USE DEF ListingInv
<1>1. UNCHANGED <<files, staged, left, query, cursor, through, met, page, more, lastKey, out, stable,
                  ever>>
  BY DEF Resolve
<1>2. (pc' = pc /\ next' = next + 1) \/ (pc' = "ask" /\ next' = next)
  BY DEF Resolve
<1>3. pc = "resolve" /\ next <= Len(page)
  BY DEF Resolve
<1>4. ListingTyped'
  BY <1>1, <1>2, <1>3 DEF ListingTyped
<1>5. Nested'
  BY <1>1, <1>2 DEF Nested, Names
<1>6. EntriesInOrder' /\ Coming' /\ AllWitnessed'
  BY <1>1, <1>2, <1>3, PageKept
<1> QED BY <1>4, <1>5, <1>6

\* The client's entries with a page behind them.
LEMMA RespondListing ==
  ASSUME ListingInv, Respond
  PROVE  ListingInv'
<1> USE DEF ListingInv
<1>1. /\ UNCHANGED <<files, staged, left, query, through, met, page, next, more, lastKey, stable, ever>>
      /\ pc = "resolve" /\ out' = out \o page
      /\ pc' = IF more THEN "ask" ELSE "done"
      /\ cursor' = IF more THEN lastKey ELSE cursor
  BY DEF Respond, pageVars
<1>2. \A k : Matches(k)' = Matches(k) /\ EntryOf(k)' = EntryOf(k)
  BY <1>1, SameQuery
<1>3. /\ out \in Seq(Words) /\ page \in Seq(Words) /\ Len(out) \in Nat /\ Len(page) \in Nat
      /\ \A i \in 1 .. Len(out) : out[i] \in Words
      /\ \A i \in 1 .. Len(page) : page[i] \in Words
  BY ElementOfSeq DEF ListingTyped
<1>4. /\ out' \in Seq(Words) /\ Len(out') = Len(out) + Len(page)
      /\ \A i \in 1 .. Len(out) : out'[i] = out[i]
      /\ \A i \in 1 .. Len(page) : out'[Len(out) + i] = page[i]
  BY <1>1, <1>3, ConcatProperties
<1>5. \A i \in 1 .. Len(out') :
        \/ i \in 1 .. Len(out)
        \/ i - Len(out) \in 1 .. Len(page) /\ out'[i] = page[i - Len(out)]
  <2> SUFFICES ASSUME NEW i \in 1 .. Len(out'), i \notin 1 .. Len(out)
               PROVE  i - Len(out) \in 1 .. Len(page) /\ out'[i] = page[i - Len(out)]
    OBVIOUS
  <2>1. i - Len(out) \in 1 .. Len(page) /\ i = Len(out) + (i - Len(out))
    BY <1>3, <1>4
  <2> QED BY <1>4, <2>1
<1>6. \A e : e \in ToSet(out') <=> e \in ToSet(out) \/ e \in ToSet(page)
  <2>1. \A e \in ToSet(out') : e \in ToSet(out) \/ e \in ToSet(page)
    BY <1>3, <1>4, <1>5 DEF ToSet
  <2>2. ToSet(out) \subseteq ToSet(out')
    BY <1>3, <1>4 DEF ToSet
  <2>3. ASSUME NEW i \in 1 .. Len(page) PROVE page[i] \in ToSet(out')
    <3>1. Len(out) + i \in 1 .. Len(out')
      BY <1>3, <1>4
    <3> QED BY <1>4, <3>1 DEF ToSet
  <2>4. ToSet(page) \subseteq ToSet(out')
    BY <1>3, <2>3 DEF ToSet
  <2> QED BY <2>1, <2>2, <2>4
<1>7. \A i \in 1 .. Len(out), j \in 1 .. Len(page) : Less(out[i], page[j])
  <2> SUFFICES ASSUME NEW i \in 1 .. Len(out), NEW j \in 1 .. Len(page)
               PROVE  Less(out[i], page[j])
    OBVIOUS
  <2>1. cursor # <<>> /\ (out[i] = cursor \/ Less(out[i], cursor)) /\ Less(cursor, page[j])
    BY <1>1 DEF EntriesInOrder, Ahead
  <2>2. out[i] \in Seq(Nat) /\ page[j] \in Seq(Nat) /\ cursor \in Seq(Nat)
    BY <1>3 DEF Words, ListingTyped
  <2> QED BY <2>1, <2>2, LessTransitive
<1>8. more => /\ cursor' = page[Len(page)] /\ Len(page) \in 1 .. Len(page)
              /\ cursor' \in Words /\ cursor' = lastKey
  <2> SUFFICES ASSUME more PROVE /\ cursor' = page[Len(page)] /\ Len(page) \in 1 .. Len(page)
                                 /\ cursor' \in Words /\ cursor' = lastKey
    OBVIOUS
  <2>1. Len(page) \in Nat \ {0} /\ cursor' = lastKey /\ lastKey = page[Len(page)]
    BY <1>1 DEF EntriesInOrder
  <2>2. Len(page) \in 1 .. Len(page)
    BY <2>1
  <2> QED BY <1>3, <2>1, <2>2
<1>9. ListingTyped'
  <2>1. cursor' \in Seq(Nat)
    BY <1>1 DEF ListingTyped
  <2> QED BY <1>1, <1>4, <2>1 DEF ListingTyped
<1>10. Nested'
  BY <1>1 DEF Nested, Names
<1>11. EntriesInOrder'
  <2>1. ASSUME NEW i \in 1 .. Len(out'), NEW j \in 1 .. Len(out'), i < j PROVE Less(out'[i], out'[j])
    <3>1. CASE j \in 1 .. Len(out)
      <4>1. i \in 1 .. Len(out)
        BY <1>3, <2>1, <3>1
      <4> QED BY <1>1, <1>4, <2>1, <3>1, <4>1 DEF EntriesInOrder
    <3>2. CASE i \in 1 .. Len(out) /\ j \notin 1 .. Len(out)
      BY <1>4, <1>5, <1>7, <3>2
    <3>3. CASE i \notin 1 .. Len(out) /\ j \notin 1 .. Len(out)
      <4>1. i - Len(out) < j - Len(out)
        BY <1>3, <2>1
      <4>2. /\ i - Len(out) \in 1 .. Len(page) /\ out'[i] = page[i - Len(out)]
            /\ j - Len(out) \in 1 .. Len(page) /\ out'[j] = page[j - Len(out)]
        BY <1>5, <3>3
      <4> QED BY <1>1, <4>1, <4>2 DEF EntriesInOrder
    <3> QED BY <3>1, <3>2, <3>3
  <2>2. ASSUME pc' # "done", NEW i \in 1 .. Len(out')
        PROVE  out'[i] = cursor' \/ Less(out'[i], cursor')
    <3>1. more
      BY <1>1, <2>2
    <3>2. CASE i \in 1 .. Len(out)
      BY <1>4, <1>7, <1>8, <3>1, <3>2
    <3>3. CASE i \notin 1 .. Len(out)
      <4>1. i - Len(out) \in 1 .. Len(page) /\ out'[i] = page[i - Len(out)]
        BY <1>5, <3>3
      <4>2. i - Len(out) = Len(page) \/ i - Len(out) < Len(page)
        BY <1>3, <4>1
      <4>3. \A a, b \in 1 .. Len(page) : a < b => Less(page[a], page[b])
        BY <1>1 DEF EntriesInOrder
      <4> QED BY <1>8, <3>1, <4>1, <4>2, <4>3
    <3> QED BY <3>2, <3>3
  <2>3. pc' # "done" => cursor' # <<>>
    BY <1>1, <1>8 DEF Words
  <2>4. pc' # "resolve"
    BY <1>1
  <2> QED BY <2>1, <2>2, <2>3, <2>4 DEF EntriesInOrder
<1>12. Coming'
  <2> SUFFICES ASSUME NEW k \in stable, Matches(k), EntryOf(k) \notin ToSet(out')
               PROVE  pc' = "ask" /\ Less(cursor', EntryOf(k))
    BY <1>1, <1>2 DEF Coming, Ahead
  <2>1. more /\ Less(lastKey, EntryOf(k))
    BY <1>1, <1>6 DEF Coming
  <2> QED BY <1>1, <2>1
<1>13. AllWitnessed'
  <2>1. \A e : Witnessed(e) => Witnessed(e)'
    BY <1>1, <1>2 DEF Witnessed
  <2>2. \A e \in ToSet(out') : Witnessed(e)
    BY <1>1, <1>6 DEF AllWitnessed
  <2>3. pc' # "resolve"
    BY <1>1
  <2> QED BY <2>1, <2>2, <2>3 DEF AllWitnessed
<1> QED BY <1>9, <1>10, <1>11, <1>12, <1>13

LEMMA ListingStarts == ListingInit => ListingInv
<1> SUFFICES ASSUME ListingInit PROVE ListingInv
  OBVIOUS
<1>1. IsFiniteSet({}) /\ <<>> \in Seq(Nat) /\ <<>> \in Seq(Words) /\ Len(<<>>) = 0
  BY FS_EmptySet
<1>2. query \in [prefix : Seq(Nat), delimiter : BOOLEAN, max : 1 .. ListMaxKeys]
  <2>1. \A n \in MaxKeysArgs : ParseMaxKeys(n) \in 1 .. ListMaxKeys
    BY ListingAssumption DEF ParseMaxKeys
  <2> QED BY <2>1, ListingAssumption DEF ListingInit
<1>3. ListingTyped
  <2>1. Len(<<>>) <= ListMaxKeys /\ 1 \in 1 .. Len(<<>>) + 1
    BY ListingAssumption
  <2>2. page = <<>> /\ out = <<>> /\ cursor = <<>> /\ lastKey = <<>> /\ next = 1
    BY DEF ListingInit
  <2> QED BY <1>1, <1>2, <2>1, <2>2 DEF ListingInit, ListingTyped
<1>4. Nested
  BY DEF ListingInit, Nested
<1>5. EntriesInOrder /\ Coming /\ AllWitnessed
  <2>1. ToSet(<<>>) = {}
    BY DEF ToSet
  <2> QED BY <1>1, <2>1 DEF ListingInit, EntriesInOrder, Coming, AllWitnessed, Ahead
<1> QED BY <1>3, <1>4, <1>5 DEF ListingInv

\* The listing is ordered, complete and sound at every step.
LEMMA ListingInvariant == ListingSpec => []ListingInv
<1>1. ListingInv /\ [ListingNext]_listingVars => ListingInv'
  <2> SUFFICES ASSUME ListingInv, [ListingNext]_listingVars PROVE ListingInv'
    OBVIOUS
  <2>1. ASSUME NEW k \in Keys, Upload(k) \/ Commit(k) \/ Delete(k) PROVE ListingInv'
    BY <2>1, ChangeListing
  <2>2. CASE UNCHANGED listingVars
    <3> USE <2>2 DEF ListingInv
    <3>1. /\ UNCHANGED <<files, staged, left, query, cursor, pc, through, met, page, next, more, lastKey,
                        out, stable, ever>>
      BY DEF listingVars, pageVars
    <3>2. ListingTyped' /\ Nested'
      BY <3>1 DEF ListingTyped, Nested, Names
    <3>3. EntriesInOrder' /\ Coming' /\ AllWitnessed'
      BY <3>1, PageKept
    <3> QED BY <3>2, <3>3
  <2> QED BY <2>1, <2>2, CrashListing, WalkListing, EndWalkListing, ResolveListing, RespondListing
          DEF ListingNext, Done
<1> QED BY <1>1, ListingStarts, PTL DEF ListingSpec

(***************************************************************************)
(* ListObjectsHandler, for any set of keys, any prefix, delimiter and page *)
(* size, any number of uploads, deletes and crashes between and during the *)
(* pages: the client gets every entry at most once and in byte order.      *)
(***************************************************************************)
THEOREM ListingOrderedHolds == ListingSpec => []ListingOrdered
<1>1. ListingInv => ListingOrdered
  <2> SUFFICES ASSUME ListingInv, NEW i \in 1 .. Len(out) - 1 PROVE Less(out[i], out[i + 1])
    BY DEF ListingOrdered
  <2>1. i \in 1 .. Len(out) /\ i + 1 \in 1 .. Len(out) /\ i < i + 1
    BY DEF ListingInv, ListingTyped
  <2> QED BY <2>1 DEF ListingInv, EntriesInOrder
<1> QED BY <1>1, ListingInvariant, PTL

(***************************************************************************)
(* ListObjectsHandler, over all pages of any listing: a key that was there *)
(* from the first request to the last answer is not missed, and nothing is *)
(* listed that was not there at some time meanwhile.                       *)
(***************************************************************************)
THEOREM ListingExactHolds == ListingSpec => []ListingExact
<1>1. ListingInv => ListingTypeOK
  BY DEF ListingInv, ListingTyped, Nested, ListingTypeOK
<1>2. ListingInv => ListingComplete
  BY DEF ListingInv, Coming, ListingComplete
<1>3. ListingInv => ListingSound
  BY DEF ListingInv, AllWitnessed, Witnessed, Matches, ListingSound
<1>4. ListingInv => ListingExact
  BY <1>1, <1>2, <1>3 DEF ListingExact
<1> QED BY <1>4, ListingInvariant, PTL
=============================================================================
