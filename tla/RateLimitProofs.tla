--------------------------- MODULE RateLimitProofs ---------------------------
(***************************************************************************)
(* Proofs about RateLimit for any number of clients, any settings and any  *)
(* size of the table.                                                      *)
(***************************************************************************)
EXTENDS RateLimit, FiniteSetTheorems, SequenceTheorems, TLAPS

\* A bucket gave its last token no later than its client was seen.
Clock == \A i \in IPs : /\ last[i] <= seen[i] /\ seen[i] <= now
                        /\ \A k \in 1 .. Len(hist[i]) : hist[i][k] <= last[i]

\* What a bucket has given from its k-th admission on, and still holds.
Drawn(i, k) == Since(i, k) + tokens[i]
Supply(i, k) == store.burst + store.rps * (last[i] - hist[i][k])

(***************************************************************************)
(* From the last time it was full, a bucket has given or still holds all   *)
(* that flowed into it.                                                    *)
(***************************************************************************)
Spent == \A i \in known : \E k \in 1 .. Len(hist[i]) : Drawn(i, k) >= Supply(i, k)

\* The invariant for ThrottledIsSpent.
SpentInv == TypeOK /\ Clock /\ Spent /\ ThrottledIsSpent

(***************************************************************************)
(* A bucket never gives more than flowed into it, and a client whose       *)
(* bucket the janitor took has been away long enough to refill one.        *)
(***************************************************************************)
Within ==
  \A i \in IPs : \A k \in 1 .. Len(hist[i]) :
    /\ i \in known => Drawn(i, k) <= Supply(i, k)
    /\ i \notin known => Since(i, k) <= store.rps * (now - hist[i][k])

\* limiterTTL is long enough to fill a bucket.
FillsInTTL(s) == s.burst <= s.rps * (TTL + 1)

\* The invariant for AdmittedBound.
WithinInv == TypeOK /\ Clock /\ Within /\ FillsInTTL(store)

-----------------------------------------------------------------------------
\* The refill of two stretches of time.
LEMMA RefillFacts ==
  ASSUME NEW r \in Nat, NEW h \in Nat, NEW l \in Nat, NEW n \in Nat, h <= l, l <= n
  PROVE  /\ r * (n - h) = r * (n - l) + r * (l - h)
         /\ r * (n - l) \in Nat /\ r * (l - h) \in Nat
         /\ (n - l) * r = r * (n - l)
<1>1. PICK a \in Nat, b \in Nat : n - l = a /\ l - h = b /\ n - h = a + b
  <2> WITNESS n - l \in Nat, l - h \in Nat
  <2> QED OBVIOUS
<1>2. r * (a + b) = r * a + r * b /\ r * a \in Nat /\ r * b \in Nat /\ a * r = r * a
  OBVIOUS
<1> QED BY <1>1, <1>2

\* More time, more refill.
LEMMA RefillMonotone ==
  ASSUME NEW r \in Nat, NEW a \in Nat, NEW b \in Nat, a <= b
  PROVE  r * a <= r * b
<1>1. PICK c \in Nat : b = a + c
  <2> WITNESS b - a \in Nat
  <2> QED OBVIOUS
<1>2. r * (a + c) = r * a + r * c /\ r * c \in Nat /\ r * a \in Nat
  OBVIOUS
<1> QED BY <1>1, <1>2

\* One more admission.
LEMMA AppendFacts ==
  ASSUME NEW h \in Seq(Nat), NEW n \in Nat
  PROVE  /\ Append(h, n) \in Seq(Nat) /\ Len(Append(h, n)) = Len(h) + 1
         /\ Append(h, n)[Len(h) + 1] = n
         /\ \A k \in 1 .. Len(h) : Append(h, n)[k] = h[k]
         /\ Len(h) \in Nat /\ \A k \in 1 .. Len(h) : h[k] \in Nat
BY AppendProperties, LenProperties, ElementOfSeq

\* Settings always come out positive.
LEMMA ClampFacts ==
  ASSUME NEW c \in Config
  PROVE  Clamp(c) \in [rps : Nat \ {0}, burst : Nat \ {0}]
BY DEF Clamp, Config

\* The variables, one by one.
LEMMA TypeFacts ==
  ASSUME TypeOK
  PROVE  /\ now \in Nat
         /\ store.rps \in Nat /\ store.rps >= 1 /\ store.burst \in Nat /\ store.burst >= 1
         /\ \A i \in IPs : /\ tokens[i] \in Nat /\ last[i] \in Nat /\ seen[i] \in Nat
                           /\ hist[i] \in Seq(Nat) /\ Len(hist[i]) \in Nat
                           /\ \A k \in 1 .. Len(hist[i]) : hist[i][k] \in Nat
<1>1. \A i \in IPs : hist[i] \in Seq(Nat)
  BY DEF TypeOK
<1>2. ASSUME NEW i \in IPs PROVE Len(hist[i]) \in Nat /\ \A k \in 1 .. Len(hist[i]) : hist[i][k] \in Nat
  BY <1>1, LenProperties, ElementOfSeq
<1> QED BY <1>1, <1>2 DEF TypeOK

\* The tokens of a bucket now.
LEMMA AvailableFacts ==
  ASSUME TypeOK, Clock, NEW i \in IPs
  PROVE  /\ Available(i) \in Nat
         /\ LET filled == tokens[i] + store.rps * (now - last[i])
            IN /\ filled \in Nat
               /\ Available(i) <= filled /\ Available(i) <= store.burst
               /\ Available(i) = filled \/ Available(i) = store.burst
<1>1. last[i] \in Nat /\ now \in Nat /\ last[i] <= now /\ tokens[i] \in Nat
      /\ store.rps \in Nat /\ store.burst \in Nat
  BY TypeFacts DEF Clock
<1>2. (now - last[i]) * store.rps = store.rps * (now - last[i]) /\ store.rps * (now - last[i]) \in Nat
  BY <1>1, RefillFacts
<1> QED BY <1>1, <1>2 DEF Available
-----------------------------------------------------------------------------
\* What the admission of i leaves of the history.
LEMMA AdmittedHistory ==
  ASSUME TypeOK, NEW i \in IPs, hist'[i] = Append(hist[i], now), last'[i] = now, now' = now
  PROVE  /\ hist'[i] \in Seq(Nat) /\ Len(hist'[i]) = Len(hist[i]) + 1
         /\ hist'[i][Len(hist[i]) + 1] = now
         /\ \A k \in 1 .. Len(hist[i]) : hist'[i][k] = hist[i][k]
         /\ \A k \in 1 .. Len(hist'[i]) : k \in 1 .. Len(hist[i]) \/ k = Len(hist[i]) + 1
BY AppendFacts, TypeFacts

\* Admissions are in the past.
LEMMA PastFacts ==
  ASSUME TypeOK, Clock, NEW i \in IPs
  PROVE  /\ last[i] <= now /\ last[i] \in Nat /\ now \in Nat
         /\ \A k \in 1 .. Len(hist[i]) :
              hist[i][k] \in Nat /\ hist[i][k] <= last[i] /\ hist[i][k] <= now
<1>1. last[i] \in Nat /\ seen[i] \in Nat /\ now \in Nat /\ last[i] <= seen[i] /\ seen[i] <= now
  BY TypeFacts DEF Clock
<1>2. last[i] <= now
  BY <1>1
<1>3. ASSUME NEW k \in 1 .. Len(hist[i])
      PROVE  hist[i][k] \in Nat /\ hist[i][k] <= last[i] /\ hist[i][k] <= now
  <2>1. hist[i][k] \in Nat /\ hist[i][k] <= last[i]
    BY TypeFacts DEF Clock
  <2> QED BY <1>1, <1>2, <2>1
<1> QED BY <1>1, <1>2, <1>3

\* The clock of a client that has just been admitted.
LEMMA AdmittedClock ==
  ASSUME TypeOK, Clock, NEW i \in IPs, hist'[i] = Append(hist[i], now),
         last'[i] = now, seen'[i] = now, now' = now
  PROVE  /\ last'[i] <= seen'[i] /\ seen'[i] <= now'
         /\ \A k \in 1 .. Len(hist'[i]) : hist'[i][k] <= last'[i]
<1>1. now \in Nat
  BY TypeFacts
<1>2. ASSUME NEW k \in 1 .. Len(hist'[i]) PROVE hist'[i][k] <= now
  <2>1. CASE k \in 1 .. Len(hist[i])
    BY <2>1, AdmittedHistory, PastFacts
  <2>2. CASE k = Len(hist[i]) + 1
    BY <1>1, <2>2, AdmittedHistory
  <2> QED BY <2>1, <2>2, AdmittedHistory
<1> QED BY <1>1, <1>2

\* Types and clocks after every step.
LEMMA TypeClock == TypeOK /\ Clock /\ [Next]_vars => TypeOK' /\ Clock'
<1> SUFFICES ASSUME TypeOK, Clock, [Next]_vars PROVE TypeOK' /\ Clock'
  OBVIOUS
<1>1. ASSUME NEW i \in IPs, Admit(i) PROVE TypeOK' /\ Clock'
  <2>1. /\ seen' = [seen EXCEPT ![i] = now] /\ UNCHANGED <<now, known, store, cfg, pending>>
        /\ out' \in IPs \X {"admitted", "throttled"}
    BY <1>1 DEF Admit
  <2>2. CASE UNCHANGED <<tokens, last, hist>>
    <3>1. TypeOK'
      BY <2>1, <2>2 DEF TypeOK, TableBounded
    <3>2. Clock'
      BY <2>1, <2>2, TypeFacts DEF TypeOK, Clock
    <3> QED BY <3>1, <3>2
  <2>3. CASE /\ Available(i) >= 1
             /\ tokens' = [tokens EXCEPT ![i] = Available(i) - 1]
             /\ last' = [last EXCEPT ![i] = now]
             /\ hist' = [hist EXCEPT ![i] = Append(@, now)]
    <3>1. Available(i) - 1 \in Nat
      BY <2>3, AvailableFacts
    <3>2. hist'[i] = Append(hist[i], now) /\ last'[i] = now /\ Append(hist[i], now) \in Seq(Nat)
      BY <2>3, TypeFacts, AppendFacts DEF TypeOK
    <3>3. TypeOK'
      BY <2>1, <2>3, <3>1, <3>2 DEF TypeOK, TableBounded
    <3>4. Clock'
      <4> SUFFICES ASSUME NEW j \in IPs
                   PROVE  /\ last'[j] <= seen'[j] /\ seen'[j] <= now'
                          /\ \A k \in 1 .. Len(hist'[j]) : hist'[j][k] <= last'[j]
        BY DEF Clock
      <4>1. CASE j # i
        BY <2>1, <2>3, <4>1 DEF TypeOK, Clock
      <4>2. CASE j = i
        <5>1. seen'[i] = now /\ now' = now
          BY <2>1 DEF TypeOK
        <5> QED BY <3>2, <4>2, <5>1, AdmittedClock
      <4> QED BY <4>1, <4>2
    <3> QED BY <3>3, <3>4
  <2> QED BY <1>1, <2>2, <2>3 DEF Admit
<1>2. ASSUME NEW i \in IPs, AdmitNew(i) PROVE TypeOK' /\ Clock'
  <2>1. PICK v \in Victims(i) :
          /\ known' = (known \ {v}) \cup {i}
          /\ hist' = [hist EXCEPT ![v] = IF v = i THEN @ ELSE <<>>, ![i] = Append(@, now)]
    BY <1>2 DEF AdmitNew
  <2>2. /\ tokens' = [tokens EXCEPT ![i] = store.burst - 1]
        /\ last' = [last EXCEPT ![i] = now]
        /\ seen' = [seen EXCEPT ![i] = now]
        /\ out' = <<i, "admitted">>
        /\ UNCHANGED <<now, store, cfg, pending>>
        /\ i \notin known
    BY <1>2 DEF AdmitNew
  <2>3. v \in IPs /\ known \subseteq IPs
    BY DEF Victims, TypeOK
  <2>4. /\ hist'[i] = Append(hist[i], now)
        /\ \A j \in IPs \ {i} : hist'[j] = hist[j] \/ hist'[j] = <<>>
        /\ hist' \in [IPs -> Seq(Nat)]
    BY <2>1, <2>3, TypeFacts, AppendFacts, EmptySeq DEF TypeOK
  <2>5. Cardinality(known') <= Limit
    <3>1. IsFiniteSet(known) /\ Cardinality(known) \in Nat /\ Limit \in Nat /\ Limit >= 1
      BY <2>3, RateLimitAssumption, FS_Subset, FS_CardinalityType
    <3>2. IsFiniteSet(known \ {v})
      BY <3>1, FS_Subset
    <3>3. Cardinality(known \ {v}) \in Nat /\ Cardinality(known') = Cardinality(known \ {v}) + 1
      <4>1. i \notin known \ {v}
        BY <2>2
      <4> QED BY <2>1, <3>2, <4>1, FS_CardinalityType, FS_AddElement
    <3>4. CASE Cardinality(known) >= Limit
      <4>1. v \in known
        BY <3>4 DEF Victims
      <4>2. Cardinality(known \ {v}) = Cardinality(known) - 1
        BY <3>1, <4>1, FS_RemoveElement
      <4> QED BY <3>1, <3>3, <4>2 DEF TypeOK, TableBounded
    <3>5. CASE ~(Cardinality(known) >= Limit)
      <4>1. Cardinality(known \ {v}) <= Cardinality(known)
        BY <3>1, FS_Subset
      <4> QED BY <3>1, <3>3, <3>5, <4>1
    <3> QED BY <3>4, <3>5
  <2>6. store.burst - 1 \in Nat
    BY TypeFacts
  <2>7. TypeOK'
    BY <2>1, <2>2, <2>3, <2>4, <2>5, <2>6 DEF TypeOK, TableBounded
  <2>8. Clock'
    <3> SUFFICES ASSUME NEW j \in IPs
                 PROVE  /\ last'[j] <= seen'[j] /\ seen'[j] <= now'
                        /\ \A k \in 1 .. Len(hist'[j]) : hist'[j][k] <= last'[j]
      BY DEF Clock
    <3>1. CASE j # i
      <4>1. last'[j] = last[j] /\ seen'[j] = seen[j] /\ now' = now
        BY <2>2, <3>1 DEF TypeOK
      <4>2. CASE hist'[j] = hist[j]
        BY <4>1, <4>2 DEF Clock
      <4>3. CASE hist'[j] = <<>>
        BY <4>1, <4>3 DEF Clock
      <4> QED BY <2>4, <3>1, <4>2, <4>3
    <3>2. CASE j = i
      <4>1. last'[i] = now /\ seen'[i] = now /\ now' = now
        BY <2>2 DEF TypeOK
      <4> QED BY <2>4, <3>2, <4>1, AdmittedClock
    <3> QED BY <3>1, <3>2
  <2> QED BY <2>7, <2>8
<1>3. CASE Reap
  <2>1. known' \subseteq known /\ UNCHANGED <<now, tokens, last, seen, store, cfg, pending, out, hist>>
    BY <1>3 DEF Reap
  <2>2. Cardinality(known') <= Limit
    <3>1. IsFiniteSet(known) /\ Cardinality(known) \in Nat /\ IsFiniteSet(known')
      BY <2>1, RateLimitAssumption, FS_Subset, FS_CardinalityType DEF TypeOK
    <3>2. Cardinality(known') <= Cardinality(known) /\ Cardinality(known') \in Nat
      BY <2>1, <3>1, FS_Subset, FS_CardinalityType
    <3> QED BY <3>1, <3>2, RateLimitAssumption DEF TypeOK, TableBounded
  <2> QED BY <2>1, <2>2 DEF TypeOK, TableBounded, Clock
<1>4. CASE Reconfigure
  <2>1. PICK c \in Configs : pending' = c /\ store' = Clamp(c)
    BY <1>4 DEF Reconfigure
  <2>2. c \in Config /\ Clamp(c) \in [rps : Nat \ {0}, burst : Nat \ {0}]
    BY RateLimitAssumption, ClampFacts
  <2>3. /\ known' = {} /\ out' = None /\ hist' = [i \in IPs |-> <<>>]
        /\ UNCHANGED <<now, tokens, last, seen, cfg>>
    BY <1>4 DEF Reconfigure
  <2>4. Cardinality(known') <= Limit
    BY <2>3, FS_EmptySet, RateLimitAssumption
  <2>5. TypeOK'
    BY <2>1, <2>2, <2>3, <2>4, EmptySeq DEF TypeOK, TableBounded
  <2>6. Clock'
    BY <2>3 DEF Clock
  <2> QED BY <2>5, <2>6
<1>5. CASE Publish
  BY <1>5 DEF Publish, TypeOK, TableBounded, Clock, table
<1>6. CASE Tick
  <2>1. TypeOK'
    BY <1>6 DEF Tick, TypeOK, TableBounded, table
  <2>2. Clock'
    BY <1>6, TypeFacts DEF Tick, Clock, table
  <2> QED BY <2>1, <2>2
<1>7. CASE UNCHANGED vars
  BY <1>7 DEF vars, table, TypeOK, TableBounded, Clock
<1> QED BY <1>1, <1>2, <1>3, <1>4, <1>5, <1>6, <1>7 DEF Next

\* The initial states.
LEMMA InitTypeClock == Init => TypeOK /\ Clock
<1> SUFFICES ASSUME Init PROVE TypeOK /\ Clock
  OBVIOUS
<1>1. Cardinality(known) <= Limit
  BY FS_EmptySet, RateLimitAssumption DEF Init
<1>2. TypeOK
  BY <1>1, RateLimitAssumption, ClampFacts, EmptySeq DEF Init, TypeOK, TableBounded
<1>3. Clock
  BY DEF Init, Clock
<1> QED BY <1>2, <1>3

(***************************************************************************)
(* "the map never exceeds maxLimiterEntries entries", for any number of    *)
(* clients, and the settings of the store are positive whatever is applied. *)
(***************************************************************************)
THEOREM TypeCorrect == Spec => []TypeOK
BY InitTypeClock, TypeClock, PTL DEF Spec
-----------------------------------------------------------------------------
\* A client is admitted: what its bucket has given and what flowed into it.
LEMMA AdmittedSums ==
  ASSUME TypeOK, Clock, NEW i \in IPs, hist'[i] = Append(hist[i], now),
         last'[i] = now, now' = now, store' = store, tokens'[i] \in Nat,
         NEW n \in Nat, n = Len(hist[i])
  PROVE  /\ \A k \in 1 .. Len(hist'[i]) : k \in 1 .. n \/ k = n + 1
         /\ \A k \in 1 .. n : /\ k \in 1 .. Len(hist'[i])
                              /\ Drawn(i, k)' = Since(i, k) + 1 + tokens'[i]
                              /\ Supply(i, k)' = store.burst + store.rps * (now - hist[i][k])
         /\ n + 1 \in 1 .. Len(hist'[i])
         /\ Drawn(i, n + 1)' = 1 + tokens'[i]
         /\ Supply(i, n + 1)' = store.burst
<1>1. now \in Nat /\ store.rps \in Nat /\ store.burst \in Nat
  BY TypeFacts
<1>2. /\ Len(hist'[i]) = n + 1 /\ hist'[i][n + 1] = now
      /\ \A k \in 1 .. n : hist'[i][k] = hist[i][k]
  BY AdmittedHistory
<1>3. ASSUME NEW k \in 1 .. n
      PROVE  /\ k \in 1 .. Len(hist'[i])
             /\ Drawn(i, k)' = Since(i, k) + 1 + tokens'[i]
             /\ Supply(i, k)' = store.burst + store.rps * (now - hist[i][k])
  <2>1. k \in 1 .. Len(hist'[i])
    BY <1>1, <1>2
  <2>2. (n + 1) - k + 1 = n - k + 1 + 1
    BY <1>1
  <2>3. Drawn(i, k)' = Since(i, k) + 1 + tokens'[i]
    BY <1>2, <2>2 DEF Drawn, Since
  <2>4. Supply(i, k)' = store.burst + store.rps * (now - hist[i][k])
    BY <1>2 DEF Supply
  <2> QED BY <2>1, <2>3, <2>4
<1>4. Drawn(i, n + 1)' = 1 + tokens'[i]
  <2>1. (n + 1) - (n + 1) + 1 = 1
    BY <1>1
  <2> QED BY <1>2, <2>1 DEF Drawn, Since
<1>5. Supply(i, n + 1)' = store.burst
  <2>1. store.rps * (now - now) = 0
    BY <1>1
  <2> QED BY <1>1, <1>2, <2>1 DEF Supply
<1>6. /\ n + 1 \in 1 .. Len(hist'[i])
      /\ \A k \in 1 .. Len(hist'[i]) : k \in 1 .. n \/ k = n + 1
  BY <1>1, <1>2
<1> QED BY <1>3, <1>4, <1>5, <1>6

\* A client that is not touched has the same sums.
LEMMA SameSums ==
  ASSUME NEW i \in IPs, hist'[i] = hist[i], last'[i] = last[i], tokens'[i] = tokens[i],
         store' = store
  PROVE  /\ Len(hist'[i]) = Len(hist[i])
         /\ \A k : Since(i, k)' = Since(i, k) /\ Drawn(i, k)' = Drawn(i, k)
                   /\ Supply(i, k)' = Supply(i, k)
BY DEF Since, Drawn, Supply

\* The sums are numbers, and what flowed in until now.
LEMMA SumFacts ==
  ASSUME TypeOK, Clock, NEW i \in IPs, NEW k \in 1 .. Len(hist[i])
  PROVE  /\ Since(i, k) \in Nat /\ tokens[i] \in Nat
         /\ Drawn(i, k) = Since(i, k) + tokens[i]
         /\ store.rps * (last[i] - hist[i][k]) \in Nat
         /\ store.rps * (now - last[i]) \in Nat /\ store.burst \in Nat /\ store.burst >= 1
         /\ Supply(i, k) = store.burst + store.rps * (last[i] - hist[i][k])
         /\ store.rps * (now - hist[i][k])
              = store.rps * (now - last[i]) + store.rps * (last[i] - hist[i][k])
<1>1. /\ hist[i][k] \in Nat /\ last[i] \in Nat /\ now \in Nat /\ store.rps \in Nat
      /\ hist[i][k] <= last[i] /\ last[i] <= now
  BY TypeFacts, PastFacts
<1>2. Len(hist[i]) \in Nat /\ tokens[i] \in Nat /\ store.burst \in Nat /\ store.burst >= 1
  BY TypeFacts
<1>3. Since(i, k) \in Nat
  BY <1>2 DEF Since
<1>4. /\ store.rps * (last[i] - hist[i][k]) \in Nat /\ store.rps * (now - last[i]) \in Nat
      /\ store.rps * (now - hist[i][k])
              = store.rps * (now - last[i]) + store.rps * (last[i] - hist[i][k])
  <2> DEFINE r == store.rps
             l == last[i]
             h == hist[i][k]
  <2>1. h \in Nat /\ l \in Nat /\ now \in Nat /\ r \in Nat /\ h <= l /\ l <= now
    BY <1>1
  <2> HIDE DEF r, l, h
  <2>2. r * (now - h) = r * (now - l) + r * (l - h) /\ r * (now - l) \in Nat /\ r * (l - h) \in Nat
    BY <2>1, RefillFacts, SMTT(30)
  <2> QED BY <2>2 DEF r, l, h
<1> QED BY <1>2, <1>3, <1>4 DEF Drawn, Supply

\* The two outcomes of a request of a known client.
LEMMA AdmitFacts ==
  ASSUME TypeOK, Clock, NEW i \in IPs, Admit(i)
  PROVE  /\ i \in known /\ UNCHANGED <<now, known, store>>
         /\ \A j \in IPs \ {i} : tokens'[j] = tokens[j] /\ last'[j] = last[j] /\ hist'[j] = hist[j]
         /\ \/ Available(i) < 1 /\ UNCHANGED <<tokens, last, hist>> /\ out' = <<i, "throttled">>
            \/ /\ Available(i) >= 1 /\ tokens'[i] = Available(i) - 1 /\ tokens'[i] \in Nat
               /\ last'[i] = now /\ hist'[i] = Append(hist[i], now) /\ out' = <<i, "admitted">>
<1>1. CASE Available(i) < 1 /\ UNCHANGED <<tokens, last, hist>> /\ out' = <<i, "throttled">>
  BY <1>1 DEF Admit
<1>2. CASE /\ Available(i) >= 1
           /\ tokens' = [tokens EXCEPT ![i] = Available(i) - 1]
           /\ last' = [last EXCEPT ![i] = now]
           /\ hist' = [hist EXCEPT ![i] = Append(@, now)]
           /\ out' = <<i, "admitted">>
  <2>1. Available(i) - 1 \in Nat
    BY <1>2, AvailableFacts
  <2> QED BY <1>2, <2>1 DEF Admit, TypeOK
<1> QED BY <1>1, <1>2 DEF Admit

\* A new client is admitted, in the place of another if the table is full.
LEMMA AdmitNewFacts ==
  ASSUME TypeOK, Clock, NEW i \in IPs, AdmitNew(i)
  PROVE  /\ i \notin known /\ i \in known' /\ UNCHANGED <<now, store>> /\ out' = <<i, "admitted">>
         /\ tokens'[i] = store.burst - 1 /\ tokens'[i] \in Nat
         /\ last'[i] = now /\ hist'[i] = Append(hist[i], now)
         /\ \A j \in IPs \ {i} : /\ tokens'[j] = tokens[j] /\ last'[j] = last[j]
                                 /\ \/ hist'[j] = hist[j] /\ (j \in known' <=> j \in known)
                                    \/ hist'[j] = <<>> /\ j \notin known'
<1>1. PICK v \in Victims(i) :
        /\ known' = (known \ {v}) \cup {i}
        /\ hist' = [hist EXCEPT ![v] = IF v = i THEN @ ELSE <<>>, ![i] = Append(@, now)]
  BY DEF AdmitNew
<1>2. v \in IPs
  BY DEF Victims, TypeOK
<1>3. hist'[i] = Append(hist[i], now)
  BY <1>1, <1>2 DEF TypeOK
<1>4. ASSUME NEW j \in IPs \ {i}
      PROVE  \/ hist'[j] = hist[j] /\ (j \in known' <=> j \in known)
             \/ hist'[j] = <<>> /\ j \notin known'
  BY <1>1, <1>2 DEF TypeOK
<1>5. store.burst - 1 \in Nat
  BY TypeFacts
<1> QED BY <1>1, <1>3, <1>4, <1>5 DEF AdmitNew, TypeOK
-----------------------------------------------------------------------------
\* An admitted client has drawn all that flowed in since its bucket was full.
LEMMA AdmittedSpent ==
  ASSUME TypeOK, Clock, NEW i \in IPs, hist'[i] = Append(hist[i], now),
         last'[i] = now, now' = now, store' = store, tokens'[i] \in Nat,
         \/ tokens'[i] = store.burst - 1
         \/ /\ tokens'[i] = (tokens[i] + store.rps * (now - last[i])) - 1
            /\ \E k \in 1 .. Len(hist[i]) : Drawn(i, k) >= Supply(i, k)
  PROVE  \E k \in 1 .. Len(hist'[i]) : Drawn(i, k)' >= Supply(i, k)'
<1>1. PICK n \in Nat : n = Len(hist[i])
  BY TypeFacts
<1>2. store.burst \in Nat
  BY TypeFacts
<1>3. CASE tokens'[i] = store.burst - 1
  <2>1. /\ n + 1 \in 1 .. Len(hist'[i])
        /\ Drawn(i, n + 1)' = 1 + (store.burst - 1) /\ Supply(i, n + 1)' = store.burst
    BY <1>1, <1>3, AdmittedSums
  <2>2. 1 + (store.burst - 1) >= store.burst
    BY <1>2
  <2> QED BY <2>1, <2>2
<1>4. CASE /\ tokens'[i] = (tokens[i] + store.rps * (now - last[i])) - 1
           /\ \E k \in 1 .. Len(hist[i]) : Drawn(i, k) >= Supply(i, k)
  <2>1. PICK k \in 1 .. n : Drawn(i, k) >= Supply(i, k)
    BY <1>1, <1>4
  <2> DEFINE a == store.rps * (now - last[i])
             b == store.rps * (last[i] - hist[i][k])
             c == store.rps * (now - hist[i][k])
  <2>2. /\ Since(i, k) \in Nat /\ tokens[i] \in Nat /\ a \in Nat /\ b \in Nat /\ c = a + b
        /\ Since(i, k) + tokens[i] >= store.burst + b
    BY <1>1, <2>1, SumFacts
  <2>3. /\ k \in 1 .. Len(hist'[i])
        /\ Drawn(i, k)' = Since(i, k) + 1 + tokens'[i]
        /\ Supply(i, k)' = store.burst + c
    BY <1>1, AdmittedSums
  <2>4. tokens'[i] = (tokens[i] + a) - 1
    BY <1>4
  <2>5. \A x, t, u, v, y \in Nat : x + t >= y + v => x + 1 + ((t + u) - 1) >= y + (u + v)
    OBVIOUS
  <2> HIDE DEF a, b, c
  <2>6. Since(i, k) + 1 + ((tokens[i] + a) - 1) >= store.burst + (a + b)
    BY <1>2, <2>2, <2>5
  <2>7. Drawn(i, k)' >= Supply(i, k)'
    BY <2>2, <2>3, <2>4, <2>6
  <2> QED BY <2>3, <2>7
<1> QED BY <1>3, <1>4

\* A throttled client has nothing left of what flowed in.
LEMMA ThrottledNow ==
  ASSUME SpentInv, NEW i \in known, Available(i) < 1
  PROVE  \E k \in 1 .. Len(hist[i]) : Since(i, k) >= Allowance(i, k)
<1>0. TypeOK /\ Clock /\ i \in IPs
  BY DEF SpentInv, TypeOK
<1>1. PICK k \in 1 .. Len(hist[i]) : Drawn(i, k) >= Supply(i, k)
  BY DEF SpentInv, Spent
<1> DEFINE a == store.rps * (now - last[i])
           b == store.rps * (last[i] - hist[i][k])
           c == store.rps * (now - hist[i][k])
<1>2. /\ Since(i, k) \in Nat /\ tokens[i] \in Nat /\ a \in Nat /\ b \in Nat /\ c = a + b
      /\ Since(i, k) + tokens[i] >= store.burst + b
      /\ store.burst \in Nat /\ store.burst >= 1
  BY <1>0, <1>1, SumFacts
<1>3. Available(i) \in Nat /\ (Available(i) = tokens[i] + a \/ Available(i) = store.burst)
  BY <1>0, AvailableFacts
<1>4. Allowance(i, k) = store.burst + c
  BY DEF Allowance
<1> HIDE DEF a, b, c
<1>5. Since(i, k) >= Allowance(i, k)
  BY <1>2, <1>3, <1>4
<1> QED BY <1>5

\* Every step keeps the account.
LEMMA SpentSteps == SpentInv /\ [Next]_vars => SpentInv'
<1> SUFFICES ASSUME SpentInv, [Next]_vars PROVE Spent' /\ ThrottledIsSpent'
  BY TypeClock DEF SpentInv
<1>0. TypeOK /\ Clock /\ Spent /\ ThrottledIsSpent /\ known \subseteq IPs
  BY DEF SpentInv, TypeOK
<1>n. \A i \in IPs : None # <<i, "throttled">>
  BY RateLimitAssumption
<1>s. ASSUME NEW j \in known, hist'[j] = hist[j], last'[j] = last[j], tokens'[j] = tokens[j],
             store' = store
      PROVE  \E k \in 1 .. Len(hist'[j]) : Drawn(j, k)' >= Supply(j, k)'
  <2>1. PICK k \in 1 .. Len(hist[j]) : Drawn(j, k) >= Supply(j, k)
    BY <1>0 DEF Spent
  <2> QED BY <1>0, <1>s, <2>1, SameSums
<1>1. ASSUME NEW i \in IPs, Admit(i) PROVE Spent' /\ ThrottledIsSpent'
  <2>1. /\ i \in known /\ UNCHANGED <<now, known, store>>
        /\ \A j \in IPs \ {i} : tokens'[j] = tokens[j] /\ last'[j] = last[j] /\ hist'[j] = hist[j]
    BY <1>0, <1>1, AdmitFacts
  <2>2. CASE Available(i) < 1 /\ UNCHANGED <<tokens, last, hist>> /\ out' = <<i, "throttled">>
    <3>1. Spent'
      BY <1>0, <2>1, <2>2 DEF Spent, Drawn, Supply, Since
    <3>2. \E k \in 1 .. Len(hist[i]) : Since(i, k) >= Allowance(i, k)
      BY <2>1, <2>2, ThrottledNow
    <3>3. ThrottledIsSpent'
      BY <2>1, <2>2, <3>2 DEF ThrottledIsSpent, Since, Allowance
    <3> QED BY <3>1, <3>3
  <2>3. CASE /\ Available(i) >= 1 /\ tokens'[i] = Available(i) - 1 /\ tokens'[i] \in Nat
             /\ last'[i] = now /\ hist'[i] = Append(hist[i], now) /\ out' = <<i, "admitted">>
    <3>1. \/ tokens'[i] = store.burst - 1
          \/ tokens'[i] = (tokens[i] + store.rps * (now - last[i])) - 1
      <4>1. \/ Available(i) = tokens[i] + store.rps * (now - last[i])
            \/ Available(i) = store.burst
        BY <1>0, AvailableFacts
      <4> QED BY <2>3, <4>1
    <3>2. \E k \in 1 .. Len(hist[i]) : Drawn(i, k) >= Supply(i, k)
      BY <1>0, <2>1 DEF Spent
    <3>3. \E k \in 1 .. Len(hist'[i]) : Drawn(i, k)' >= Supply(i, k)'
      BY <1>0, <2>1, <2>3, <3>1, <3>2, AdmittedSpent
    <3>4. Spent'
      BY <1>0, <1>s, <2>1, <3>3 DEF Spent
    <3>5. ThrottledIsSpent'
      BY <2>3 DEF ThrottledIsSpent
    <3> QED BY <3>4, <3>5
  <2> QED BY <1>0, <1>1, <2>2, <2>3, AdmitFacts
<1>2. ASSUME NEW i \in IPs, AdmitNew(i) PROVE Spent' /\ ThrottledIsSpent'
  <2>1. /\ UNCHANGED <<now, store>> /\ out' = <<i, "admitted">>
        /\ tokens'[i] = store.burst - 1 /\ tokens'[i] \in Nat
        /\ last'[i] = now /\ hist'[i] = Append(hist[i], now)
        /\ \A j \in IPs \ {i} : /\ tokens'[j] = tokens[j] /\ last'[j] = last[j]
                                /\ \/ hist'[j] = hist[j] /\ (j \in known' <=> j \in known)
                                   \/ hist'[j] = <<>> /\ j \notin known'
    BY <1>0, <1>2, AdmitNewFacts
  <2>2. known' \subseteq IPs
    BY <1>0, TypeClock DEF TypeOK
  <2>3. \E k \in 1 .. Len(hist'[i]) : Drawn(i, k)' >= Supply(i, k)'
    BY <1>0, <2>1, AdmittedSpent
  <2>4. ASSUME NEW j \in known' PROVE \E k \in 1 .. Len(hist'[j]) : Drawn(j, k)' >= Supply(j, k)'
    <3>1. CASE j = i
      BY <2>3, <3>1
    <3>2. CASE j # i
      BY <1>s, <2>1, <2>2, <3>2
    <3> QED BY <3>1, <3>2
  <2>5. ThrottledIsSpent'
    BY <2>1 DEF ThrottledIsSpent
  <2> QED BY <2>4, <2>5 DEF Spent
<1>3. CASE Reap \/ Publish \/ UNCHANGED vars
  <2>1. known' \subseteq known /\ UNCHANGED <<now, tokens, last, store, out, hist>>
    BY <1>3 DEF Reap, Publish, vars, table
  <2>2. Spent'
    BY <1>0, <2>1 DEF Spent, Drawn, Supply, Since
  <2>3. ThrottledIsSpent'
    BY <1>0, <2>1 DEF ThrottledIsSpent, Since, Allowance
  <2> QED BY <2>2, <2>3
<1>4. CASE Reconfigure
  BY <1>4, <1>n DEF Reconfigure, Spent, ThrottledIsSpent
<1>5. CASE Tick
  <2>1. UNCHANGED <<known, tokens, last, store, hist>> /\ out' = None
    BY <1>5 DEF Tick, table
  <2>2. Spent'
    BY <1>0, <2>1 DEF Spent, Drawn, Supply, Since
  <2>3. ThrottledIsSpent'
    BY <1>n, <2>1 DEF ThrottledIsSpent
  <2> QED BY <2>2, <2>3
<1> QED BY <1>1, <1>2, <1>3, <1>4, <1>5 DEF Next

(***************************************************************************)
(* For any settings and any number of clients: a client is throttled only  *)
(* after it has used up its burst and all the refill since.                *)
(***************************************************************************)
THEOREM ThrottlingIsEarned == Spec => []ThrottledIsSpent
<1>1. Init => SpentInv
  <2> SUFFICES ASSUME Init PROVE Spent /\ ThrottledIsSpent
    BY InitTypeClock DEF SpentInv
  <2>1. \A i \in IPs : None # <<i, "throttled">>
    BY RateLimitAssumption
  <2> QED BY <2>1 DEF Init, Spent, ThrottledIsSpent
<1>2. SpentInv => ThrottledIsSpent
  BY DEF SpentInv
<1> QED BY <1>1, <1>2, SpentSteps, PTL DEF Spec
-----------------------------------------------------------------------------
\* A bucket of any settings that can be applied fills within the TTL.
Refills == \A c \in Configs \cup {Startup} : FillsInTTL(Clamp(c))

\* An admitted client has drawn no more than flowed in.
LEMMA AdmittedWithin ==
  ASSUME TypeOK, Clock, NEW i \in IPs, hist'[i] = Append(hist[i], now),
         last'[i] = now, now' = now, store' = store, tokens'[i] \in Nat,
         tokens'[i] + 1 <= store.burst,
         \A k \in 1 .. Len(hist[i]) :
           Since(i, k) + (tokens'[i] + 1) <= store.burst + store.rps * (now - hist[i][k])
  PROVE  \A k \in 1 .. Len(hist'[i]) : Drawn(i, k)' <= Supply(i, k)'
<1>1. PICK n \in Nat : n = Len(hist[i])
  BY TypeFacts
<1>2. store.burst \in Nat
  BY TypeFacts
<1>3. ASSUME NEW k \in 1 .. n PROVE Drawn(i, k)' <= Supply(i, k)'
  <2>1. /\ Drawn(i, k)' = Since(i, k) + 1 + tokens'[i]
        /\ Supply(i, k)' = store.burst + store.rps * (now - hist[i][k])
    BY <1>1, AdmittedSums
  <2>2. Since(i, k) \in Nat
    BY <1>1, SumFacts
  <2>3. Since(i, k) + 1 + tokens'[i] = Since(i, k) + (tokens'[i] + 1)
    BY <2>2
  <2> QED BY <1>1, <2>1, <2>3
<1>4. Drawn(i, n + 1)' <= Supply(i, n + 1)'
  <2>1. Drawn(i, n + 1)' = 1 + tokens'[i] /\ Supply(i, n + 1)' = store.burst
    BY <1>1, AdmittedSums
  <2> QED BY <1>2, <2>1
<1>5. \A k \in 1 .. Len(hist'[i]) : k \in 1 .. n \/ k = n + 1
  BY <1>1, AdmittedSums
<1> QED BY <1>3, <1>4, <1>5

\* A client that the janitor drops has been away for longer than the TTL.
LEMMA ReapedWithin ==
  ASSUME WithinInv, NEW i \in known, seen[i] < now - TTL, NEW k \in 1 .. Len(hist[i])
  PROVE  Since(i, k) <= store.rps * (now - hist[i][k])
<1>0. TypeOK /\ Clock /\ i \in IPs /\ TTL \in Nat
  BY RateLimitAssumption DEF WithinInv, TypeOK
<1>1. Drawn(i, k) <= Supply(i, k)
  BY <1>0 DEF WithinInv, Within
<1> DEFINE r == store.rps
           a == r * (now - last[i])
           b == r * (last[i] - hist[i][k])
           c == r * (now - hist[i][k])
<1>2. /\ Since(i, k) \in Nat /\ tokens[i] \in Nat /\ a \in Nat /\ b \in Nat /\ c = a + b
      /\ Since(i, k) + tokens[i] <= store.burst + b
      /\ store.burst \in Nat
  BY <1>0, <1>1, SumFacts
<1>3. PICK d \in Nat : d = now - last[i] /\ TTL + 1 <= d
  <2>1. last[i] \in Nat /\ seen[i] \in Nat /\ now \in Nat /\ last[i] <= seen[i] /\ seen[i] <= now
    BY <1>0, TypeFacts DEF Clock
  <2>2. now - last[i] \in Nat /\ TTL + 1 <= now - last[i]
    BY <1>0, <2>1
  <2> QED BY <2>2
<1>4. r \in Nat
  BY <1>0, TypeFacts
<1>5. r * (TTL + 1) <= r * d
  BY <1>0, <1>3, <1>4, RefillMonotone
<1>6. store.burst <= r * (TTL + 1) /\ r * (TTL + 1) \in Nat
  BY <1>0, <1>4 DEF WithinInv, FillsInTTL
<1>7. a = r * d
  BY <1>3
<1> HIDE DEF a, b, c, r
<1>8. store.burst <= a
  BY <1>2, <1>5, <1>6, <1>7
<1>9. Since(i, k) <= c
  BY <1>2, <1>8
<1> QED BY <1>9 DEF c, r

\* The account of a client that a step does not touch.
LEMMA SameWithin ==
  ASSUME WithinInv, NEW j \in IPs, hist'[j] = hist[j], last'[j] = last[j],
         tokens'[j] = tokens[j], store' = store, now' \in Nat, now <= now',
         j \in known' <=> j \in known, NEW k \in 1 .. Len(hist'[j])
  PROVE  /\ j \in known' => Drawn(j, k)' <= Supply(j, k)'
         /\ j \notin known' => Since(j, k)' <= store'.rps * (now' - hist'[j][k])
<1>0. TypeOK /\ Clock /\ Within
  BY DEF WithinInv
<1>1. /\ k \in 1 .. Len(hist[j])
      /\ Since(j, k)' = Since(j, k) /\ Drawn(j, k)' = Drawn(j, k) /\ Supply(j, k)' = Supply(j, k)
  BY SameSums
<1>2. CASE j \in known
  BY <1>0, <1>1, <1>2 DEF Within
<1>3. CASE j \notin known
  <2>1. Since(j, k) <= store.rps * (now - hist[j][k]) /\ Since(j, k) \in Nat
    BY <1>0, <1>1, <1>3, SumFacts DEF Within
  <2>2. store.rps \in Nat /\ now \in Nat /\ hist[j][k] \in Nat /\ hist[j][k] <= now
    BY <1>0, <1>1, TypeFacts, PastFacts
  <2>3. PICK a \in Nat, b \in Nat : a = now - hist[j][k] /\ b = now' - hist[j][k] /\ a <= b
    <3>1. /\ now - hist[j][k] \in Nat /\ now' - hist[j][k] \in Nat
          /\ now - hist[j][k] <= now' - hist[j][k]
      BY <2>2
    <3> QED BY <3>1
  <2>4. store.rps * a <= store.rps * b /\ store.rps * a \in Nat /\ store.rps * b \in Nat
    <3>1. \A r \in Nat : r * a \in Nat /\ r * b \in Nat
      OBVIOUS
    <3> QED BY <2>2, <2>3, <3>1, RefillMonotone
  <2>5. Since(j, k) <= store.rps * b
    <3> DEFINE x == store.rps * a
               y == store.rps * b
    <3>1. Since(j, k) <= x /\ x <= y /\ x \in Nat /\ y \in Nat
      BY <2>1, <2>3, <2>4
    <3> HIDE DEF x, y
    <3>2. Since(j, k) <= y
      BY <2>1, <3>1
    <3> QED BY <3>2 DEF y
  <2> QED BY <1>1, <1>3, <2>3, <2>5
<1> QED BY <1>2, <1>3

\* Every step keeps the account.
LEMMA WithinSteps == Refills /\ WithinInv /\ [Next]_vars => WithinInv'
<1> SUFFICES ASSUME Refills, WithinInv, [Next]_vars PROVE Within' /\ FillsInTTL(store)'
  BY TypeClock DEF WithinInv
<1>0. TypeOK /\ Clock /\ Within /\ FillsInTTL(store) /\ now \in Nat /\ known \subseteq IPs
  BY DEF WithinInv, TypeOK
<1> DEFINE Sound(j) == \A k \in 1 .. Len(hist'[j]) :
             /\ j \in known' => Drawn(j, k)' <= Supply(j, k)'
             /\ j \notin known' => Since(j, k)' <= store'.rps * (now' - hist'[j][k])
<1>w. (\A j \in IPs : Sound(j)) => Within'
  BY DEF Within
<1>f. store' = store => FillsInTTL(store)'
  BY <1>0 DEF FillsInTTL
<1>e. ASSUME NEW j \in IPs, hist'[j] = <<>> PROVE Sound(j)
  <2>1. 1 .. Len(hist'[j]) = {}
    BY <1>e
  <2> QED BY <2>1
<1>s. ASSUME NEW j \in IPs, hist'[j] = hist[j], last'[j] = last[j], tokens'[j] = tokens[j],
             store' = store, now' = now, j \in known' <=> j \in known
      PROVE  Sound(j)
  <2>1. now' \in Nat /\ now <= now'
    BY <1>0, <1>s
  <2> QED BY <1>s, <2>1, SameWithin
<1>1. ASSUME NEW i \in IPs, Admit(i) PROVE Within' /\ FillsInTTL(store)'
  <2>1. /\ i \in known /\ UNCHANGED <<now, known, store>>
        /\ \A j \in IPs \ {i} : tokens'[j] = tokens[j] /\ last'[j] = last[j] /\ hist'[j] = hist[j]
    BY <1>0, <1>1, AdmitFacts
  <2>2. CASE UNCHANGED <<tokens, last, hist>>
    <3> HIDE DEF Sound
    <3> QED BY <1>s, <1>w, <1>f, <2>1, <2>2
  <2>3. CASE /\ Available(i) >= 1 /\ tokens'[i] = Available(i) - 1 /\ tokens'[i] \in Nat
             /\ last'[i] = now /\ hist'[i] = Append(hist[i], now)
    <3>1. /\ Available(i) \in Nat /\ Available(i) <= store.burst
          /\ Available(i) <= tokens[i] + store.rps * (now - last[i])
      BY <1>0, AvailableFacts
    <3>2. tokens'[i] + 1 = Available(i)
      BY <2>3, <3>1
    <3>3. ASSUME NEW k \in 1 .. Len(hist[i])
          PROVE  Since(i, k) + (tokens'[i] + 1) <= store.burst + store.rps * (now - hist[i][k])
      <4> DEFINE a == store.rps * (now - last[i])
                 b == store.rps * (last[i] - hist[i][k])
                 c == store.rps * (now - hist[i][k])
      <4>1. Drawn(i, k) <= Supply(i, k)
        BY <1>0, <2>1 DEF Within
      <4>2. /\ Since(i, k) \in Nat /\ tokens[i] \in Nat /\ a \in Nat /\ b \in Nat /\ c = a + b
            /\ Since(i, k) + tokens[i] <= store.burst + b
            /\ store.burst \in Nat
        BY <1>0, <4>1, SumFacts
      <4>3. Available(i) <= tokens[i] + a
        BY <3>1
      <4> HIDE DEF a, b, c
      <4>4. Since(i, k) + Available(i) <= store.burst + c
        BY <3>1, <4>2, <4>3
      <4> QED BY <3>2, <4>4 DEF c
    <3>4. \A k \in 1 .. Len(hist'[i]) : Drawn(i, k)' <= Supply(i, k)'
      BY <1>0, <2>1, <2>3, <3>1, <3>2, <3>3, AdmittedWithin
    <3>5. Sound(i)
      BY <2>1, <3>4
    <3> HIDE DEF Sound
    <3> QED BY <1>s, <1>w, <1>f, <2>1, <3>5
  <2> QED BY <1>0, <1>1, <2>2, <2>3, AdmitFacts
<1>2. ASSUME NEW i \in IPs, AdmitNew(i) PROVE Within' /\ FillsInTTL(store)'
  <2>1. /\ i \notin known /\ i \in known' /\ UNCHANGED <<now, store>>
        /\ tokens'[i] = store.burst - 1 /\ tokens'[i] \in Nat
        /\ last'[i] = now /\ hist'[i] = Append(hist[i], now)
        /\ \A j \in IPs \ {i} : /\ tokens'[j] = tokens[j] /\ last'[j] = last[j]
                                /\ \/ hist'[j] = hist[j] /\ (j \in known' <=> j \in known)
                                   \/ hist'[j] = <<>> /\ j \notin known'
    BY <1>0, <1>2, AdmitNewFacts
  <2>2. store.burst \in Nat /\ tokens'[i] + 1 = store.burst
    BY <1>0, <2>1, TypeFacts
  <2>3. ASSUME NEW k \in 1 .. Len(hist[i])
        PROVE  Since(i, k) + (tokens'[i] + 1) <= store.burst + store.rps * (now - hist[i][k])
    <3> DEFINE c == store.rps * (now - hist[i][k])
    <3>1. Since(i, k) \in Nat /\ c \in Nat
      BY <1>0, SumFacts
    <3>2. Since(i, k) <= c
      BY <1>0, <2>1 DEF Within
    <3> HIDE DEF c
    <3>3. Since(i, k) + store.burst <= store.burst + c
      BY <2>2, <3>1, <3>2
    <3> QED BY <2>2, <3>3 DEF c
  <2>4. \A k \in 1 .. Len(hist'[i]) : Drawn(i, k)' <= Supply(i, k)'
    BY <1>0, <2>1, <2>2, <2>3, AdmittedWithin
  <2>5. Sound(i)
    BY <2>1, <2>4
  <2> HIDE DEF Sound
  <2> QED BY <1>e, <1>s, <1>w, <1>f, <2>1, <2>5
<1>3. CASE Reap
  <2>1. /\ known' = {i \in known : seen[i] >= now - TTL}
        /\ UNCHANGED <<now, tokens, last, store, hist>>
    BY <1>3 DEF Reap
  <2>2. ASSUME NEW j \in IPs PROVE Sound(j)
    <3>1. CASE j \in known' <=> j \in known
      <4> HIDE DEF Sound
      <4> QED BY <1>s, <2>1, <3>1
    <3>2. CASE j \in known /\ j \notin known'
      <4>1. seen[j] < now - TTL
        BY <1>0, <2>1, <3>2, TypeFacts, RateLimitAssumption
      <4>2. \A k \in 1 .. Len(hist[j]) : Since(j, k) <= store.rps * (now - hist[j][k])
        BY <3>2, <4>1, ReapedWithin
      <4> QED BY <2>1, <3>2, <4>2 DEF Since
    <3> QED BY <2>1, <3>1, <3>2
  <2> HIDE DEF Sound
  <2> QED BY <1>w, <1>f, <2>1, <2>2
<1>4. CASE Reconfigure
  <2>1. \A j \in IPs : hist'[j] = <<>>
    BY <1>4 DEF Reconfigure
  <2>2. FillsInTTL(store)'
    BY <1>4 DEF Reconfigure, Refills, FillsInTTL
  <2> HIDE DEF Sound
  <2> QED BY <1>e, <1>w, <2>1, <2>2
<1>5. CASE Tick
  <2>1. UNCHANGED <<known, tokens, last, store, hist>> /\ now' \in Nat /\ now <= now'
    BY <1>0, <1>5 DEF Tick, table
  <2>2. ASSUME NEW j \in IPs PROVE Sound(j)
    BY <2>1, SameWithin
  <2> HIDE DEF Sound
  <2> QED BY <1>w, <1>f, <2>1, <2>2
<1>6. CASE Publish \/ UNCHANGED vars
  <2>1. UNCHANGED <<now, known, tokens, last, store, hist>>
    BY <1>6 DEF Publish, vars, table
  <2> HIDE DEF Sound
  <2> QED BY <1>s, <1>w, <1>f, <2>1
<1> QED BY <1>1, <1>2, <1>3, <1>4, <1>5, <1>6 DEF Next

\* The account bounds what was admitted.
LEMMA WithinBounds == WithinInv => AdmittedBound
<1> SUFFICES ASSUME WithinInv, NEW i \in IPs, NEW k \in 1 .. Len(hist[i])
             PROVE  Since(i, k) <= Allowance(i, k)
  BY DEF AdmittedBound
<1>0. TypeOK /\ Clock /\ Within
  BY DEF WithinInv
<1> DEFINE a == store.rps * (now - last[i])
           b == store.rps * (last[i] - hist[i][k])
           c == store.rps * (now - hist[i][k])
<1>1. /\ Since(i, k) \in Nat /\ tokens[i] \in Nat /\ a \in Nat /\ b \in Nat /\ c = a + b
      /\ Drawn(i, k) = Since(i, k) + tokens[i] /\ Supply(i, k) = store.burst + b
      /\ store.burst \in Nat
  BY <1>0, SumFacts
<1>2. Since(i, k) + tokens[i] <= store.burst + b \/ Since(i, k) <= c
  BY <1>0, <1>1 DEF Within
<1>3. Allowance(i, k) = store.burst + c
  BY DEF Allowance
<1> HIDE DEF a, b, c
<1> QED BY <1>1, <1>2, <1>3

(***************************************************************************)
(* When every bucket can fill within limiterTTL, no client that is not     *)
(* evicted gets more than its burst and the refill over any stretch of     *)
(* time, whatever the janitor drops in between.                            *)
(***************************************************************************)
THEOREM AdmissionIsBounded == ASSUME Refills PROVE Spec => []AdmittedBound
<1>1. Init => WithinInv
  <2> SUFFICES ASSUME Init PROVE Within /\ FillsInTTL(store)
    BY InitTypeClock DEF WithinInv
  <2> QED BY DEF Init, Within, Refills
<1>2. WithinInv /\ [Next]_vars => WithinInv'
  BY WithinSteps
<1> QED BY <1>1, <1>2, WithinBounds, PTL DEF Spec
=============================================================================
