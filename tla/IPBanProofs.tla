---------------------------- MODULE IPBanProofs ----------------------------
(***************************************************************************)
(* Proofs about IPBan for any number of addresses, requests and admins,    *)
(* any settings and any size of the tables.                                *)
(***************************************************************************)
EXTENDS IPBan, FiniteSetTheorems, SequenceTheorems, TLAPS

Failure == [at : Nat, start : Nat]

(***************************************************************************)
(* Failures are kept in the order they came, inside the window they were   *)
(* counted in.  Two of them were counted in one window, and then there are *)
(* fewer than the maximum between them, or in windows that do not overlap. *)
(***************************************************************************)
InWindows(h) ==
  /\ \A l \in DOMAIN h : /\ h[l].start <= h[l].at
                         /\ h[l].at < h[l].start + store.window
  /\ \A j, l \in DOMAIN h : j <= l =>
       /\ h[j].at <= h[l].at
       /\ \/ h[j].start = h[l].start /\ l - j + 1 < store.max
          \/ h[j].start + store.window <= h[l].start

(***************************************************************************)
(* The last c failures were counted in the window that starts at s and the *)
(* others in windows that had ended by then.                               *)
(***************************************************************************)
LastWindow(h, c, s) ==
  /\ c <= Len(h)
  /\ \A l \in DOMAIN h : /\ l > Len(h) - c => h[l].start = s
                         /\ l <= Len(h) - c => h[l].start + store.window <= s

\* Nothing is from the future, and the counter agrees with the history.
Agrees(i) ==
  /\ \A l \in DOMAIN hist[i] : hist[i][l].at <= now
  /\ fails[i].count > 0 => LastWindow(hist[i], fails[i].count, fails[i].start)
  /\ fails[i].count = 0 => LastWindow(hist[i], 0, now)

HistorySound == \A i \in IPs : InWindows(hist[i]) /\ Agrees(i)

\* The inductive invariant.
Inv == TablesSound /\ HistorySound

-----------------------------------------------------------------------------
\* What the settings are.
LEMMA ConfigFacts ==
  ASSUME NEW c \in Config
  PROVE  /\ c.max \in Nat /\ c.max >= 1 /\ c.window \in Nat /\ c.window >= 1
         /\ c.ban \in Nat /\ c.ban >= 1
BY DEF Config

\* The indices and the entries of a history.
LEMMA EntryFacts ==
  ASSUME NEW h \in Seq(Failure)
  PROVE  /\ Len(h) \in Nat /\ DOMAIN h = 1 .. Len(h)
         /\ \A l \in 1 .. Len(h) : h[l] \in Failure /\ h[l].at \in Nat /\ h[l].start \in Nat
<1>1. Len(h) \in Nat /\ DOMAIN h = 1 .. Len(h)
  BY LenProperties
<1>2. \A l \in 1 .. Len(h) : h[l] \in Failure
  BY ElementOfSeq
<1> QED BY <1>1, <1>2 DEF Failure

\* A sequence without its first d elements.
LEMMA SuffixFacts ==
  ASSUME NEW S, NEW h \in Seq(S), NEW d \in 0 .. Len(h)
  PROVE  /\ SubSeq(h, d + 1, Len(h)) \in Seq(S)
         /\ Len(SubSeq(h, d + 1, Len(h))) = Len(h) - d
         /\ \A l \in 1 .. Len(h) - d : SubSeq(h, d + 1, Len(h))[l] = h[l + d]
<1>1. Len(h) \in Nat /\ d \in Nat /\ d <= Len(h) /\ \A l \in 1 .. Len(h) : h[l] \in S
  BY LenProperties, ElementOfSeq
<1>2. d + 1 \in Int /\ Len(h) \in Int /\ \A l \in d + 1 .. Len(h) : h[l] \in S
  BY <1>1
<1>3. /\ SubSeq(h, d + 1, Len(h)) \in Seq(S)
      /\ Len(SubSeq(h, d + 1, Len(h))) = IF d + 1 <= Len(h) THEN Len(h) - (d + 1) + 1 ELSE 0
      /\ \A l \in 1 .. Len(h) - (d + 1) + 1 : SubSeq(h, d + 1, Len(h))[l] = h[d + 1 + l - 1]
  BY <1>2, SubSeqProperties
<1>4. ASSUME NEW l \in 1 .. Len(h) - d PROVE SubSeq(h, d + 1, Len(h))[l] = h[l + d]
  <2>1. l \in 1 .. Len(h) - (d + 1) + 1 /\ d + 1 + l - 1 = l + d
    BY <1>1
  <2> QED BY <1>3, <2>1
<1> QED BY <1>1, <1>3, <1>4

\* The history keeps the last c failures when they are younger than a window.
LEMMA RecentFacts ==
  ASSUME NEW h \in Seq(Failure), NEW c \in 0 .. Len(h),
         \A l \in DOMAIN h : l > Len(h) - c => ~(now - h[l].at > store.window)
  PROVE  \E d \in 0 .. Len(h) - c : Recent(h) = SubSeq(h, d + 1, Len(h))
<1> DEFINE n == Len(h) - c
<1>1. n \in Nat /\ DOMAIN h = 1 .. Len(h) /\ Len(h) \in Nat
  BY LenProperties
<1>2. IsFiniteSet(1 .. n) /\ Cardinality(1 .. n) = n
  <2> HIDE DEF n
  <2>1. 1 \in Int /\ n \in Int /\ (IF 1 > n THEN 0 ELSE n - 1 + 1) = n
    BY <1>1
  <2> QED BY <2>1, FS_Interval
<1>3. Old(h) \subseteq 1 .. n
  BY <1>1 DEF Old
<1>4. IsFiniteSet(Old(h)) /\ Cardinality(Old(h)) <= n
  BY <1>2, <1>3, FS_Subset
<1>5. Cardinality(Old(h)) \in Nat
  BY <1>4, FS_CardinalityType
<1>6. Cardinality(Old(h)) \in 0 .. n
  BY <1>1, <1>4, <1>5
<1> QED BY <1>6 DEF Recent

\* One more failure in the window that starts at s, after c others.
LEMMA CountedFacts ==
  ASSUME store \in Config, now \in Nat,
         NEW h \in Seq(Failure), InWindows(h), \A l \in DOMAIN h : h[l].at <= now,
         NEW c \in Nat, NEW s \in Nat, LastWindow(h, c, s),
         s <= now, now < s + store.window, c + 1 < store.max
  PROVE  LET g == Append(Recent(h), [at |-> now, start |-> s])
         IN /\ g \in Seq(Failure)
            /\ InWindows(g) /\ LastWindow(g, c + 1, s)
            /\ \A l \in DOMAIN g : g[l].at <= now
<1> DEFINE W == store.window
           M == store.max
           e == [at |-> now, start |-> s]
<1>0. W \in Nat /\ W >= 1 /\ M \in Nat /\ M >= 1
  BY ConfigFacts
<1>1. /\ Len(h) \in Nat /\ DOMAIN h = 1 .. Len(h) /\ c \in 0 .. Len(h)
      /\ \A l \in 1 .. Len(h) : h[l].at \in Nat /\ h[l].start \in Nat
  BY EntryFacts DEF LastWindow
<1>2. \A l \in DOMAIN h : l > Len(h) - c => ~(now - h[l].at > W)
  BY <1>0, <1>1 DEF InWindows, LastWindow
<1>3. PICK d \in 0 .. Len(h) - c : Recent(h) = SubSeq(h, d + 1, Len(h))
  BY <1>1, <1>2, RecentFacts
<1>4. d \in 0 .. Len(h)
  BY <1>1, <1>3
<1> DEFINE r == Recent(h)
           n == Len(h) - d
           g == Append(r, e)
<1>5. /\ n \in Nat /\ c <= n /\ d \in Nat
      /\ r \in Seq(Failure) /\ Len(r) = n
      /\ \A l \in 1 .. n : r[l] = h[l + d]
  <2>1. n \in Nat /\ c <= n /\ d \in Nat
    BY <1>1, <1>3
  <2>2. /\ SubSeq(h, d + 1, Len(h)) \in Seq(Failure)
        /\ Len(SubSeq(h, d + 1, Len(h))) = Len(h) - d
        /\ \A l \in 1 .. Len(h) - d : SubSeq(h, d + 1, Len(h))[l] = h[l + d]
    BY <1>4, SuffixFacts
  <2> QED BY <1>3, <2>1, <2>2
<1>6. e \in Failure /\ e.at = now /\ e.start = s
  BY DEF Failure
<1> HIDE DEF r, e
<1>7. /\ g \in Seq(Failure) /\ Len(g) = n + 1 /\ DOMAIN g = 1 .. n + 1
      /\ g[n + 1] = e
      /\ \A l \in 1 .. n : g[l] = r[l]
  BY <1>5, <1>6, AppendProperties, LenProperties
<1>8. \A l \in 1 .. n : g[l] = h[l + d] /\ l + d \in DOMAIN h
  BY <1>1, <1>5, <1>7
<1> HIDE DEF g
<1>9. \A l \in 1 .. n + 1 : l \in 1 .. n \/ l = n + 1
  BY <1>5
<1>10. \A l \in DOMAIN g : /\ g[l].start <= g[l].at /\ g[l].at < g[l].start + W
                           /\ g[l].at <= now
  <2>1. ASSUME NEW l \in 1 .. n
        PROVE  g[l].start <= g[l].at /\ g[l].at < g[l].start + W /\ g[l].at <= now
    BY <1>8 DEF InWindows
  <2>2. g[n + 1].start <= g[n + 1].at /\ g[n + 1].at < g[n + 1].start + W /\ g[n + 1].at <= now
    BY <1>6, <1>7
  <2> QED BY <1>7, <1>9, <2>1, <2>2
<1>11. LastWindow(g, c + 1, s)
  <2>1. ASSUME NEW l \in 1 .. n
        PROVE  /\ l > (n + 1) - (c + 1) => g[l].start = s
               /\ l <= (n + 1) - (c + 1) => g[l].start + W <= s
    <3>1. /\ l + d > Len(h) - c => h[l + d].start = s
          /\ l + d <= Len(h) - c => h[l + d].start + W <= s
      BY <1>8 DEF LastWindow
    <3>2. /\ l > (n + 1) - (c + 1) => l + d > Len(h) - c
          /\ l <= (n + 1) - (c + 1) => l + d <= Len(h) - c
      BY <1>1, <1>5
    <3> QED BY <1>8, <3>1, <3>2
  <2>2. ~(n + 1 <= (n + 1) - (c + 1)) /\ c + 1 <= n + 1
    BY <1>5
  <2> QED BY <1>6, <1>7, <1>9, <2>1, <2>2 DEF LastWindow
<1>12. ASSUME NEW j \in DOMAIN g, NEW l \in DOMAIN g, j <= l
       PROVE  /\ g[j].at <= g[l].at
              /\ \/ g[j].start = g[l].start /\ l - j + 1 < M
                 \/ g[j].start + W <= g[l].start
  <2>1. CASE l \in 1 .. n
    <3>1. j \in 1 .. n /\ j \in Nat /\ l \in Nat
      BY <1>5, <1>7, <1>12, <2>1
    <3>2. j + d <= l + d /\ (l + d) - (j + d) + 1 = l - j + 1
      BY <1>5, <1>12, <3>1
    <3> QED BY <1>8, <2>1, <3>1, <3>2 DEF InWindows
  <2>2. CASE l = n + 1
    <3>1. g[l].at = now /\ g[l].start = s /\ g[j].at <= now
      BY <1>6, <1>7, <1>10, <2>2
    <3>2. CASE j > (n + 1) - (c + 1)
      <4>1. g[j].start = s
        BY <1>7, <1>11, <3>2 DEF LastWindow
      <4>2. l - j + 1 < M
        BY <1>0, <1>5, <1>7, <2>2, <3>2
      <4> QED BY <3>1, <4>1, <4>2
    <3>3. CASE j <= (n + 1) - (c + 1)
      <4>1. g[j].start + W <= s
        BY <1>7, <1>11, <3>3 DEF LastWindow
      <4> QED BY <3>1, <4>1
    <3>4. j > (n + 1) - (c + 1) \/ j <= (n + 1) - (c + 1)
      BY <1>5, <1>7
    <3> QED BY <3>2, <3>3, <3>4
  <2> QED BY <1>7, <1>9, <2>1, <2>2
<1>13. InWindows(g)
  BY <1>10, <1>12 DEF InWindows
<1> QED BY <1>7, <1>10, <1>11, <1>13 DEF g, r, e

-----------------------------------------------------------------------------
\* The parts of the invariant, as facts about the variables.
LEMMA InvFacts ==
  ASSUME Inv
  PROVE  /\ TypeOK /\ TablesBounded /\ CountersSound /\ HistorySound
         /\ store.max \in Nat /\ store.max >= 1 /\ store.window \in Nat /\ store.window >= 1
         /\ store.ban \in Nat /\ store.ban >= 1 /\ now \in Nat
         /\ \A i \in IPs : /\ fails[i] \in [count : Nat, start : Nat] /\ bans[i] \in Nat
                           /\ fails[i].count \in Nat /\ fails[i].start \in Nat
                           /\ hist[i] \in Seq(Failure)
BY ConfigFacts DEF Inv, TablesSound, TypeOK, Failure

\* Subsets of the addresses have a size.
LEMMA SizeFacts ==
  ASSUME NEW S \in SUBSET IPs
  PROVE  /\ IsFiniteSet(S) /\ Cardinality(S) \in Nat
         /\ \A T \in SUBSET S : Cardinality(T) <= Cardinality(S)
         /\ \A x \in S : Cardinality(S \ {x}) = Cardinality(S) - 1
         /\ \A x \in IPs : Cardinality(S \cup {x}) <= Cardinality(S) + 1
<1>1. IsFiniteSet(S)
  BY IPBanAssumption, FS_Subset
<1>2. Cardinality(S) \in Nat
  BY <1>1, FS_CardinalityType
<1>3. \A T \in SUBSET S : Cardinality(T) <= Cardinality(S)
  BY <1>1, FS_Subset
<1>4. \A x \in S : Cardinality(S \ {x}) = Cardinality(S) - 1
  BY <1>1, FS_RemoveElement
<1>5. ASSUME NEW x \in IPs PROVE Cardinality(S \cup {x}) <= Cardinality(S) + 1
  <2>1. Cardinality(S \cup {x}) = IF x \in S THEN Cardinality(S) ELSE Cardinality(S) + 1
    BY <1>1, FS_AddElement
  <2> QED BY <1>2, <2>1
<1> QED BY <1>1, <1>2, <1>3, <1>4, <1>5

(***************************************************************************)
(* The counters and the history as failEntryLocked leaves them: i has a    *)
(* counter whose window is running, at most one other lost its own, and    *)
(* there is room for i.                                                    *)
(***************************************************************************)
Ready(i, f, g) ==
  /\ f \in [IPs -> [count : Nat, start : Nat]]
  /\ g \in [IPs -> Seq(Failure)]
  /\ \A j \in IPs \ {i} : \/ f[j] = fails[j] /\ g[j] = hist[j]
                          \/ f[j] = NoEntry /\ g[j] = <<>>
  /\ g[i] = hist[i]
  /\ f[i].start <= now /\ now < f[i].start + store.window
  /\ f[i].count < store.max
  /\ LastWindow(hist[i], f[i].count, f[i].start)
  /\ Cardinality({j \in IPs : f[j].count > 0} \cup {i}) <= Limit

\* An old window has ended before now.
LEMMA EndedWindow ==
  ASSUME Inv, NEW i \in IPs, ~Live(i)
  PROVE  LastWindow(hist[i], 0, now)
<1>1. /\ Len(hist[i]) \in Nat /\ DOMAIN hist[i] = 1 .. Len(hist[i])
      /\ \A l \in DOMAIN hist[i] : hist[i][l].start \in Nat
  BY InvFacts, EntryFacts
<1>2. Agrees(i)
  BY InvFacts DEF HistorySound
<1>3. CASE fails[i].count = 0
  BY <1>2, <1>3 DEF Agrees
<1>4. CASE fails[i].count > 0
  <2>1. now >= fails[i].start + store.window
    BY <1>4, InvFacts DEF Live
  <2>2. LastWindow(hist[i], fails[i].count, fails[i].start)
    BY <1>2, <1>4 DEF Agrees
  <2>3. ASSUME NEW l \in DOMAIN hist[i] PROVE hist[i][l].start + store.window <= now
    <3>1. \/ hist[i][l].start = fails[i].start
          \/ hist[i][l].start + store.window <= fails[i].start
      BY <1>1, <2>2, InvFacts DEF LastWindow
    <3>2. hist[i][l].start \in Nat /\ fails[i].start \in Nat /\ store.window \in Nat /\ now \in Nat
      BY <1>1, InvFacts
    <3> QED BY <2>1, <3>1, <3>2
  <2>4. \A l \in DOMAIN hist[i] : ~(l > Len(hist[i]) - 0)
    BY <1>1
  <2> QED BY <1>1, <2>3, <2>4 DEF LastWindow
<1> QED BY <1>3, <1>4, InvFacts

\* A counter whose window is running is ready.
LEMMA LiveReady ==
  ASSUME Inv, NEW i \in IPs, Live(i)
  PROVE  Ready(i, fails, hist)
<1>1. fails[i].count > 0 /\ now < fails[i].start + store.window /\ i \in Counting
  BY InvFacts DEF Live, Counting
<1>2. fails[i].start <= now /\ fails[i].count < store.max
  BY <1>1, InvFacts DEF CountersSound
<1>3. LastWindow(hist[i], fails[i].count, fails[i].start)
  BY <1>1, InvFacts DEF HistorySound, Agrees
<1>4. {j \in IPs : fails[j].count > 0} \cup {i} = Counting
  BY <1>1 DEF Counting
<1>5. Cardinality(Counting) <= Limit
  BY InvFacts DEF TablesBounded
<1> QED BY <1>1, <1>2, <1>3, <1>4, <1>5, InvFacts DEF Ready, TypeOK, Failure

\* So is a new one, in the place of the oldest if the table is full.
LEMMA NewReady ==
  ASSUME Inv, NEW i \in IPs, ~Live(i), NEW v \in FailVictims(i)
  PROVE  Ready(i, [fails EXCEPT ![v] = NoEntry, ![i] = [count |-> 0, start |-> now]],
               IF v = i THEN hist ELSE [hist EXCEPT ![v] = <<>>])
<1> DEFINE f == [fails EXCEPT ![v] = NoEntry, ![i] = [count |-> 0, start |-> now]]
           g == IF v = i THEN hist ELSE [hist EXCEPT ![v] = <<>>]
           rest == {j \in IPs : f[j].count > 0}
<1>0. v \in IPs /\ Counting \in SUBSET IPs
  BY DEF FailVictims, Oldest, Counting
<1>1. /\ f \in [IPs -> [count : Nat, start : Nat]]
      /\ f[i] = [count |-> 0, start |-> now]
      /\ v # i => f[v] = NoEntry
      /\ \A j \in IPs \ {i, v} : f[j] = fails[j]
  BY <1>0, InvFacts DEF TypeOK, NoEntry
<1>2. /\ g \in [IPs -> Seq(Failure)]
      /\ g[i] = hist[i]
      /\ v # i => g[v] = <<>>
      /\ \A j \in IPs \ {i, v} : g[j] = hist[j]
  BY <1>0, InvFacts, EmptySeq DEF TypeOK, Failure
<1>3. rest \subseteq Counting \ {i, v}
  BY <1>1 DEF NoEntry, Counting
<1>4. Cardinality(Counting) <= Limit /\ Cardinality(Counting) \in Nat /\ Limit \in Nat /\ Limit >= 1
  BY <1>0, InvFacts, SizeFacts, IPBanAssumption DEF TablesBounded
<1> HIDE DEF f, g, rest
<1>5. Cardinality(rest \cup {i}) <= Limit
  <2>1. CASE Cardinality(Counting) >= Limit /\ v \in Counting
    <3>1. Cardinality(Counting \ {v}) = Cardinality(Counting) - 1
      BY <1>0, <2>1, SizeFacts
    <3>2. Cardinality(rest) <= Cardinality(Counting \ {v})
      BY <1>0, <1>3, SizeFacts
    <3>3. Cardinality(rest \cup {i}) <= Cardinality(rest) + 1
      BY <1>0, <1>3, SizeFacts
    <3>4. Cardinality(rest) \in Nat /\ Cardinality(rest \cup {i}) \in Nat
      BY <1>0, <1>3, SizeFacts
    <3> QED BY <1>4, <3>1, <3>2, <3>3, <3>4
  <2>2. CASE Cardinality(Counting) < Limit
    <3>2. Cardinality(rest) <= Cardinality(Counting)
      BY <1>0, <1>3, SizeFacts
    <3>3. Cardinality(rest \cup {i}) <= Cardinality(rest) + 1
      BY <1>0, <1>3, SizeFacts
    <3>4. Cardinality(rest) \in Nat /\ Cardinality(rest \cup {i}) \in Nat
      BY <1>0, <1>3, SizeFacts
    <3> QED BY <1>4, <2>2, <3>2, <3>3, <3>4
  <2>3. CASE i \in Counting
    <3>1. rest \cup {i} \subseteq Counting
      BY <1>3, <2>3
    <3> QED BY <1>0, <1>4, <3>1, SizeFacts
  <2>4. \/ Cardinality(Counting) >= Limit /\ v \in Counting
        \/ Cardinality(Counting) < Limit
        \/ i \in Counting
    BY <1>4, InvFacts DEF FailVictims, Oldest, Counting
  <2> QED BY <2>1, <2>2, <2>3, <2>4
<1>6. /\ f[i].start <= now /\ now < f[i].start + store.window
      /\ f[i].count < store.max
      /\ LastWindow(hist[i], f[i].count, f[i].start)
  BY <1>1, InvFacts, EndedWindow
<1>7. \A j \in IPs \ {i} : \/ f[j] = fails[j] /\ g[j] = hist[j]
                           \/ f[j] = NoEntry /\ g[j] = <<>>
  BY <1>1, <1>2
<1>8. Ready(i, f, g)
  BY <1>1, <1>2, <1>5, <1>6, <1>7 DEF Ready, rest
<1> QED BY <1>8 DEF f, g

-----------------------------------------------------------------------------
\* The tables and the history, apart from the requests.
TablesTyped ==
  /\ fails \in [IPs -> [count : Nat, start : Nat]]
  /\ bans \in [IPs -> Nat]
  /\ hist \in [IPs -> Seq(Failure)]
Tables == TablesTyped /\ TablesBounded /\ CountersSound /\ HistorySound

\* An address whose counter and history stay, or go together, stays sound.
LEMMA KeptHistory ==
  ASSUME Inv, NEW j \in IPs, UNCHANGED <<now, store>>,
         \/ fails'[j] = fails[j] /\ hist'[j] = hist[j]
         \/ fails'[j] = NoEntry /\ hist'[j] = <<>>
  PROVE  InWindows(hist[j])' /\ Agrees(j)'
<1>1. CASE fails'[j] = fails[j] /\ hist'[j] = hist[j]
  BY <1>1, InvFacts DEF HistorySound, InWindows, Agrees, LastWindow
<1>2. CASE fails'[j] = NoEntry /\ hist'[j] = <<>>
  <2>1. DOMAIN <<>> = {} /\ Len(<<>>) = 0
    OBVIOUS
  <2> QED BY <1>2, <2>1 DEF InWindows, Agrees, LastWindow, NoEntry
<1> QED BY <1>1, <1>2

\* The failure is counted.
LEMMA CountBelow ==
  ASSUME Inv, NEW i \in IPs, NEW f, NEW g, Ready(i, f, g), f[i].count + 1 < store.max,
         fails' = [f EXCEPT ![i].count = @ + 1],
         bans' = [bans EXCEPT ![i] = 0],
         hist' = [g EXCEPT ![i] = Append(Recent(@), [at |-> now, start |-> f[i].start])],
         UNCHANGED <<now, store>>
  PROVE  Tables'
<1>0. f[i].count \in Nat /\ f[i].start \in Nat /\ f[i] \in [count : Nat, start : Nat]
  BY DEF Ready
<1> DEFINE e == Append(Recent(hist[i]), [at |-> now, start |-> f[i].start])
<1>1. /\ e \in Seq(Failure)
      /\ InWindows(e) /\ LastWindow(e, f[i].count + 1, f[i].start)
      /\ \A l \in DOMAIN e : e[l].at <= now
  <2>1. /\ hist[i] \in Seq(Failure) /\ InWindows(hist[i])
        /\ \A l \in DOMAIN hist[i] : hist[i][l].at <= now
        /\ store \in Config /\ now \in Nat
    BY InvFacts DEF HistorySound, Agrees, TypeOK
  <2>2. /\ LastWindow(hist[i], f[i].count, f[i].start)
        /\ f[i].start <= now /\ now < f[i].start + store.window
    BY DEF Ready
  <2> QED BY <1>0, <2>1, <2>2, CountedFacts
<1>2. /\ hist'[i] = e
      /\ \A j \in IPs \ {i} : hist'[j] = g[j]
      /\ hist' \in [IPs -> Seq(Failure)]
  BY <1>1 DEF Ready
<1> HIDE DEF e
<1>3. /\ fails'[i] = [count |-> f[i].count + 1, start |-> f[i].start]
      /\ \A j \in IPs \ {i} : fails'[j] = f[j]
      /\ fails' \in [IPs -> [count : Nat, start : Nat]]
  <2> DEFINE x == [count |-> f[i].count + 1, start |-> f[i].start]
  <2>1. f \in [IPs -> [count : Nat, start : Nat]]
    BY DEF Ready
  <2>2. x = [f[i] EXCEPT !.count = @ + 1] /\ x \in [count : Nat, start : Nat]
    BY <1>0
  <2>3. fails' = [f EXCEPT ![i] = x]
    BY <2>2
  <2> HIDE DEF x
  <2>4. fails'[i] = x /\ (\A j \in IPs \ {i} : fails'[j] = f[j])
    BY <2>1, <2>3
  <2>5. fails' \in [IPs -> [count : Nat, start : Nat]]
    BY <2>1, <2>2, <2>3
  <2> QED BY <2>4, <2>5 DEF x
<1>4. /\ bans' \in [IPs -> Nat] /\ bans'[i] = 0
      /\ \A j \in IPs \ {i} : bans'[j] = bans[j]
  BY InvFacts DEF TypeOK
<1>5. TablesBounded'
  <2>1. Counting' \subseteq {j \in IPs : f[j].count > 0} \cup {i}
    BY <1>3 DEF Counting
  <2>2. Cardinality(Counting') <= Limit
    <3> DEFINE S == {j \in IPs : f[j].count > 0} \cup {i}
    <3>1. S \in SUBSET IPs /\ Cardinality(S) <= Limit /\ Counting' \in SUBSET S
      BY <2>1 DEF Ready
    <3> HIDE DEF S
    <3>2. Cardinality(Counting') <= Cardinality(S) /\ Cardinality(S) \in Nat
      BY <3>1, SizeFacts
    <3>3. Counting' \in SUBSET IPs
      BY <3>1
    <3>4. Cardinality(Counting') \in Nat
      BY <3>3, SizeFacts
    <3> QED BY <3>1, <3>2, <3>4, IPBanAssumption
  <2>3. Listed' \subseteq Listed /\ Listed \in SUBSET IPs
    BY <1>4 DEF Listed
  <2>4. Cardinality(Listed') <= Cardinality(Listed) /\ Cardinality(Listed) \in Nat
    BY <2>3, SizeFacts
  <2>5. Cardinality(Listed') \in Nat
    BY <2>3, SizeFacts
  <2> QED BY <2>2, <2>4, <2>5, InvFacts, IPBanAssumption DEF TablesBounded
<1>6. CountersSound'
  <2> SUFFICES ASSUME NEW j \in Counting'
               PROVE  fails'[j].count < store'.max /\ fails'[j].start <= now' /\ j \notin Listed'
    BY DEF CountersSound
  <2>1. CASE j = i
    BY <1>3, <1>4, <2>1 DEF Ready, Listed
  <2>2. CASE j # i
    <3>1. j \in IPs /\ fails'[j] = fails[j] /\ fails[j].count > 0
      BY <1>3, <2>2 DEF Ready, NoEntry, Counting
    <3>2. j \in Counting
      BY <3>1 DEF Counting
    <3> QED BY <1>4, <2>2, <3>1, <3>2, InvFacts DEF CountersSound, Listed
  <2> QED BY <2>1, <2>2
<1>7. HistorySound'
  <2> SUFFICES ASSUME NEW j \in IPs PROVE InWindows(hist[j])' /\ Agrees(j)'
    BY DEF HistorySound
  <2>1. CASE j = i
    <3>1. fails'[i].count = f[i].count + 1 /\ fails'[i].start = f[i].start /\ fails'[i].count > 0
      BY <1>0, <1>3
    <3>2. Agrees(i)'
      BY <1>1, <1>2, <3>1 DEF Agrees, LastWindow
    <3>3. InWindows(hist[i])'
      BY <1>1, <1>2 DEF InWindows
    <3> QED BY <2>1, <3>2, <3>3
  <2>2. CASE j # i
    BY <1>2, <1>3, <2>2, KeptHistory DEF Ready
  <2> QED BY <2>1, <2>2
<1> QED BY <1>2, <1>3, <1>4, <1>5, <1>6, <1>7 DEF Tables, TablesTyped

\* The failure reaches the maximum: the address is banned.
LEMMA CountBan ==
  ASSUME Inv, NEW i \in IPs, NEW f, NEW g, Ready(i, f, g), NEW v \in BanVictims(i),
         fails' = [f EXCEPT ![i] = NoEntry],
         bans' = [bans EXCEPT ![v] = 0, ![i] = now + store.ban],
         hist' = [g EXCEPT ![i] = <<>>],
         UNCHANGED <<now, store>>
  PROVE  Tables'
<1>0. v \in IPs /\ Listed \in SUBSET IPs
  BY DEF BanVictims, Oldest, Listed
<1>1. NoEntry \in [count : Nat, start : Nat] /\ <<>> \in Seq(Failure)
  BY EmptySeq DEF NoEntry
<1>2. /\ hist'[i] = <<>>
      /\ \A j \in IPs \ {i} : hist'[j] = g[j]
      /\ hist' \in [IPs -> Seq(Failure)]
  BY <1>1 DEF Ready
<1>3. /\ fails'[i] = NoEntry
      /\ \A j \in IPs \ {i} : fails'[j] = f[j]
      /\ fails' \in [IPs -> [count : Nat, start : Nat]]
  BY <1>1 DEF Ready
<1>4. /\ bans' \in [IPs -> Nat] /\ bans'[i] = now + store.ban
      /\ \A j \in IPs \ {i} : bans'[j] = IF j = v THEN 0 ELSE bans[j]
  <2> DEFINE t == now + store.ban
  <2>1. bans \in [IPs -> Nat] /\ t \in Nat
    BY InvFacts DEF TypeOK
  <2>2. bans' = [bans EXCEPT ![v] = 0, ![i] = t]
    OBVIOUS
  <2> HIDE DEF t
  <2>3. bans' \in [IPs -> Nat]
    BY <1>0, <2>1, <2>2
  <2>4. bans'[i] = t /\ \A j \in IPs \ {i} : bans'[j] = IF j = v THEN 0 ELSE bans[j]
    BY <1>0, <2>1, <2>2
  <2> QED BY <2>3, <2>4 DEF t
<1>5. Cardinality(Counting') <= Limit
  <2> DEFINE S == {j \in IPs : f[j].count > 0} \cup {i}
  <2>1. S \in SUBSET IPs /\ Cardinality(S) <= Limit /\ Counting' \in SUBSET S
    BY <1>3 DEF Ready, Counting
  <2> HIDE DEF S
  <2>2. Cardinality(Counting') <= Cardinality(S) /\ Cardinality(S) \in Nat
    BY <2>1, SizeFacts
  <2>3. Counting' \in SUBSET IPs
    BY <2>1
  <2>4. Cardinality(Counting') \in Nat
    BY <2>3, SizeFacts
  <2> QED BY <2>1, <2>2, <2>4, IPBanAssumption
<1>6. Cardinality(Listed') <= Limit
  <2> DEFINE others == Listed \ {i}
             T == Listed' \ {i}
  <2>1. T \subseteq others /\ (v # i => T \subseteq others \ {v}) /\ Listed' \subseteq T \cup {i}
    BY <1>4 DEF Listed
  <2>2. others \in SUBSET IPs /\ T \in SUBSET IPs /\ Listed' \in SUBSET IPs
    BY <1>0, <2>1
  <2>3. \/ Cardinality(others) < Limit
        \/ v \in others /\ v # i
    <3>1. Cardinality(others) \in Nat /\ Limit \in Nat
      BY <2>2, SizeFacts, IPBanAssumption
    <3> QED BY <3>1 DEF BanVictims, Oldest
  <2>c. Cardinality(others) <= Cardinality(Listed) /\ Cardinality(Listed) <= Limit
    BY <1>0, SizeFacts, InvFacts DEF TablesBounded
  <2> HIDE DEF others, T
  <2>4. /\ Cardinality(others) \in Nat /\ Cardinality(T) \in Nat /\ Cardinality(Listed') \in Nat
        /\ Cardinality(Listed) \in Nat
        /\ Cardinality(T \cup {i}) \in Nat /\ Limit \in Nat /\ T \cup {i} \in SUBSET IPs
    BY <1>0, <2>2, SizeFacts, IPBanAssumption
  <2>5. Cardinality(T \cup {i}) <= Cardinality(T) + 1
    BY <2>2, SizeFacts
  <2>6. Cardinality(Listed') <= Cardinality(T \cup {i})
    BY <2>1, <2>4, SizeFacts
  <2>7. CASE Cardinality(others) < Limit
    <3>1. Cardinality(T) <= Cardinality(others)
      BY <2>1, <2>2, SizeFacts
    <3> QED BY <2>4, <2>5, <2>6, <2>7, <3>1
  <2>8. CASE v \in others /\ v # i
    <3>1. Cardinality(others \ {v}) = Cardinality(others) - 1
      BY <2>2, <2>8, SizeFacts
    <3>2. Cardinality(T) <= Cardinality(others \ {v})
      BY <2>1, <2>2, <2>8, SizeFacts
    <3> QED BY <2>c, <2>4, <2>5, <2>6, <3>1, <3>2
  <2> QED BY <2>3, <2>7, <2>8
<1>7. CountersSound'
  <2> SUFFICES ASSUME NEW j \in Counting'
               PROVE  fails'[j].count < store'.max /\ fails'[j].start <= now' /\ j \notin Listed'
    BY DEF CountersSound
  <2>1. j \in IPs /\ j # i
    BY <1>3 DEF Counting, NoEntry
  <2>2. fails'[j] = fails[j] /\ fails[j].count > 0
    BY <1>3, <2>1 DEF Ready, NoEntry, Counting
  <2>3. j \in Counting
    BY <2>1, <2>2 DEF Counting
  <2> QED BY <1>4, <2>1, <2>2, <2>3, InvFacts DEF CountersSound, Listed
<1>8. HistorySound'
  <2> SUFFICES ASSUME NEW j \in IPs PROVE InWindows(hist[j])' /\ Agrees(j)'
    BY DEF HistorySound
  <2>1. CASE j = i
    BY <1>2, <1>3, <2>1, KeptHistory
  <2>2. CASE j # i
    BY <1>2, <1>3, <2>2, KeptHistory DEF Ready
  <2> QED BY <2>1, <2>2
<1>9. TablesBounded'
  BY <1>5, <1>6 DEF TablesBounded
<1> QED BY <1>2, <1>3, <1>4, <1>7, <1>8, <1>9 DEF Tables, TablesTyped

-----------------------------------------------------------------------------
\* The clock, the settings and where the requests are.
RequestsTyped ==
  /\ now \in Nat /\ store \in Config /\ cfg \in Config
  /\ pc \in [Workers -> {"idle", "check", "serving"}]
  /\ ip \in [Workers -> IPs \cup {"none"}]
  /\ \A w \in Workers : pc[w] # "idle" => ip[w] \in IPs
  /\ apc \in [Admins -> {"idle", "reconfigure", "publish"}]
  /\ new \in [Admins -> Config]

\* The invariant in two halves.
LEMMA InvHalves == Inv <=> Tables /\ RequestsTyped
BY DEF Inv, TablesSound, TypeOK, Tables, TablesTyped, RequestsTyped, Failure

\* A step that leaves the clock, the settings of the store and the tables alone.
LEMMA TablesKept ==
  ASSUME Tables, UNCHANGED <<now, tables>>
  PROVE  Tables'
BY DEF Tables, TablesTyped, TablesBounded, CountersSound, HistorySound, InWindows,
       LastWindow, Agrees, Counting, Listed, tables

\* A request that is answered leaves no address behind.
LEMMA DoneTyped ==
  ASSUME RequestsTyped, NEW w \in Workers, Done(w),
         UNCHANGED <<now, store, cfg, apc, new>>
  PROVE  RequestsTyped'
<1>1. \A x \in Workers : pc'[x] # "idle" => pc[x] # "idle" /\ ip'[x] = ip[x]
  BY DEF RequestsTyped, Done
<1>2. pc' \in [Workers -> {"idle", "check", "serving"}]
  BY DEF RequestsTyped, Done
<1>3. ip' \in [Workers -> IPs \cup {"none"}]
  BY DEF RequestsTyped, Done
<1> QED BY <1>1, <1>2, <1>3 DEF RequestsTyped

(***************************************************************************)
(* Entries may be dropped from either table: a counter only once its       *)
(* window has ended, a ban at any time.                                    *)
(***************************************************************************)
LEMMA EntriesDropped ==
  ASSUME Inv, UNCHANGED <<now, store, hist>>,
         fails' \in [IPs -> [count : Nat, start : Nat]], bans' \in [IPs -> Nat],
         \A i \in IPs : \/ fails'[i] = fails[i]
                        \/ fails'[i] = NoEntry /\ ~Live(i),
         \A i \in IPs : bans'[i] = bans[i] \/ bans'[i] = 0
  PROVE  Tables'
<1>1. /\ Counting' \subseteq Counting /\ Listed' \subseteq Listed
      /\ Counting \in SUBSET IPs /\ Listed \in SUBSET IPs
      /\ \A i \in Counting' : fails'[i] = fails[i]
  BY DEF Counting, Listed, NoEntry
<1>2. TablesBounded'
  <2>1. Cardinality(Counting') <= Cardinality(Counting) /\ Cardinality(Listed') <= Cardinality(Listed)
    BY <1>1, SizeFacts
  <2>2. /\ Cardinality(Counting) \in Nat /\ Cardinality(Listed) \in Nat
        /\ Counting' \in SUBSET IPs /\ Listed' \in SUBSET IPs
    BY <1>1, SizeFacts
  <2>3. Cardinality(Counting') \in Nat /\ Cardinality(Listed') \in Nat
    BY <2>2, SizeFacts
  <2> QED BY <2>1, <2>2, <2>3, InvFacts, IPBanAssumption DEF TablesBounded
<1>3. CountersSound'
  BY <1>1, InvFacts DEF CountersSound
<1>4. HistorySound'
  <2> SUFFICES ASSUME NEW j \in IPs PROVE InWindows(hist[j])' /\ Agrees(j)'
    BY DEF HistorySound
  <2>1. CASE fails'[j] = fails[j]
    BY <2>1, KeptHistory
  <2>2. CASE fails'[j] = NoEntry /\ ~Live(j)
    <3>1. LastWindow(hist[j], 0, now)
      BY <2>2, EndedWindow
    <3>2. fails'[j].count = 0
      BY <2>2 DEF NoEntry
    <3> QED BY <3>1, <3>2, InvFacts DEF HistorySound, InWindows, Agrees, LastWindow
  <2> QED BY <2>1, <2>2
<1>5. TablesTyped'
  BY InvFacts DEF TablesTyped, TypeOK, Failure
<1> QED BY <1>2, <1>3, <1>4, <1>5 DEF Tables

\* Empty tables are sound under any settings.
Empty == /\ fails = [i \in IPs |-> NoEntry]
         /\ bans = [i \in IPs |-> 0]
         /\ hist = [i \in IPs |-> <<>>]
LEMMA EmptyTables == Empty => Tables
<1> SUFFICES ASSUME Empty PROVE Tables
  OBVIOUS
<1> USE DEF Empty
<1>1. Counting = {} /\ Listed = {}
  BY DEF Counting, Listed, NoEntry
<1>2. TablesBounded
  BY <1>1, FS_EmptySet, IPBanAssumption DEF TablesBounded
<1>3. CountersSound
  BY <1>1 DEF CountersSound
<1>4. TablesTyped
  BY EmptySeq DEF TablesTyped, NoEntry
<1>5. HistorySound
  <2>1. DOMAIN <<>> = {} /\ Len(<<>>) = 0
    OBVIOUS
  <2> QED BY <2>1 DEF HistorySound, InWindows, Agrees, LastWindow, NoEntry
<1> QED BY <1>2, <1>3, <1>4, <1>5 DEF Tables

\* fail, on every path.
LEMMA FailInv ==
  ASSUME Inv, NEW i \in IPs, Fail(i), UNCHANGED <<now, store>>
  PROVE  Tables'
<1>1. ASSUME NEW f, NEW g, Ready(i, f, g), Count(i, f, g) PROVE Tables'
  <2>1. g[i] = hist[i]
    BY <1>1 DEF Ready
  <2>2. CASE f[i].count + 1 < store.max
    <3>1. /\ fails' = [f EXCEPT ![i].count = @ + 1]
          /\ bans' = [bans EXCEPT ![i] = 0]
          /\ hist' = [g EXCEPT ![i] = Append(Recent(@), [at |-> now, start |-> f[i].start])]
      BY <1>1, <2>2 DEF Count
    <3> QED BY <1>1, <2>2, <3>1, CountBelow
  <2>3. CASE ~(f[i].count + 1 < store.max)
    <3>1. PICK v \in BanVictims(i) : bans' = [bans EXCEPT ![v] = 0, ![i] = now + store.ban]
      BY <1>1, <2>3 DEF Count
    <3>2. fails' = [f EXCEPT ![i] = NoEntry] /\ hist' = [g EXCEPT ![i] = <<>>]
      BY <1>1, <2>3 DEF Count
    <3> QED BY <1>1, <3>1, <3>2, CountBan
  <2> QED BY <2>2, <2>3
<1>2. CASE UNCHANGED <<fails, bans, hist>>
  BY <1>2, InvHalves, TablesKept DEF tables
<1>3. CASE Live(i) /\ Count(i, fails, hist)
  BY <1>1, <1>3, LiveReady
<1>4. ASSUME NEW v \in FailVictims(i), ~Live(i),
             Count(i, [fails EXCEPT ![v] = NoEntry, ![i] = [count |-> 0, start |-> now]],
                   IF v = i THEN hist ELSE [hist EXCEPT ![v] = <<>>])
      PROVE  Tables'
  BY <1>1, <1>4, NewReady
<1> QED BY <1>2, <1>3, <1>4 DEF Fail

\* Time goes by.
LEMMA TickInv ==
  ASSUME Inv, Tick
  PROVE  Tables'
<1>1. now \in Nat /\ now' = now + 1 /\ UNCHANGED <<fails, bans, store, hist>>
  BY InvFacts DEF Tick, tables
<1>2. TablesTyped' /\ TablesBounded'
  BY <1>1, InvHalves DEF Tables, TablesTyped, TablesBounded, Counting, Listed
<1>3. CountersSound'
  BY <1>1, InvFacts DEF CountersSound, Counting, Listed
<1>4. HistorySound'
  <2> SUFFICES ASSUME NEW j \in IPs PROVE InWindows(hist[j])' /\ Agrees(j)'
    BY DEF HistorySound
  <2>1. InWindows(hist[j]) /\ Agrees(j)
    BY InvFacts DEF HistorySound
  <2>2. InWindows(hist[j])'
    BY <1>1, <2>1 DEF InWindows
  <2>3. /\ store.window \in Nat
        /\ \A l \in DOMAIN hist[j] : hist[j][l].at \in Nat /\ hist[j][l].start \in Nat
    BY InvFacts, EntryFacts
  <2>4. \A l \in DOMAIN hist[j] : hist[j][l].at <= now'
    BY <1>1, <2>1, <2>3 DEF Agrees
  <2>5. LastWindow(hist[j], 0, now) => LastWindow(hist[j], 0, now)'
    <3> SUFFICES ASSUME LastWindow(hist[j], 0, now) PROVE LastWindow(hist[j], 0, now)'
      OBVIOUS
    <3>1. Len(hist[j]) \in Nat /\ DOMAIN hist[j] = 1 .. Len(hist[j])
      BY InvFacts, EntryFacts
    <3>2. \A l \in DOMAIN hist[j] : ~(l > Len(hist[j]) - 0) /\ hist[j][l].start + store.window <= now
      BY <3>1 DEF LastWindow
    <3>3. \A l \in DOMAIN hist[j] : hist[j][l].start + store.window <= now'
      BY <1>1, <2>3, <3>2
    <3> QED BY <1>1, <3>1, <3>2, <3>3 DEF LastWindow
  <2>6. LastWindow(hist[j], fails[j].count, fails[j].start)
          => LastWindow(hist[j], fails[j].count, fails[j].start)'
    BY <1>1 DEF LastWindow
  <2> QED BY <1>1, <2>1, <2>2, <2>4, <2>5, <2>6 DEF Agrees
<1> QED BY <1>2, <1>3, <1>4 DEF Tables

-----------------------------------------------------------------------------
\* Inv is inductive.
LEMMA Invariant == Spec => []Inv
<1>1. Init => Inv
  <2> SUFFICES ASSUME Init PROVE Tables /\ RequestsTyped
    BY InvHalves
  <2>1. Tables
    BY EmptyTables DEF Init, Empty
  <2>2. RequestsTyped
    BY IPBanAssumption DEF Init, RequestsTyped
  <2> QED BY <2>1, <2>2
<1>2. Inv /\ [Next]_vars => Inv'
  <2> SUFFICES ASSUME Inv, [Next]_vars PROVE Tables' /\ RequestsTyped'
    BY InvHalves, PTL
  <2>0. Tables /\ RequestsTyped
    BY InvHalves
  <2>1. ASSUME NEW w \in Workers, Arrive(w) PROVE Tables' /\ RequestsTyped'
    <3>1. Tables'
      BY <2>0, <2>1, TablesKept DEF Arrive
    <3>2. PICK i \in IPs : ip' = [ip EXCEPT ![w] = i]
      BY <2>1 DEF Arrive
    <3>3. RequestsTyped'
      BY <2>0, <2>1, <3>2 DEF Arrive, RequestsTyped, tables, adminVars
    <3> QED BY <3>1, <3>3
  <2>2. ASSUME NEW w \in Workers, Check(w) PROVE Tables' /\ RequestsTyped'
    <3>1. CASE Done(w) /\ UNCHANGED bans
      BY <2>0, <2>2, <3>1, TablesKept, DoneTyped DEF Check, tables, adminVars
    <3>2. CASE /\ pc' = [pc EXCEPT ![w] = "serving"]
               /\ bans' = [bans EXCEPT ![ip[w]] = 0]
               /\ UNCHANGED ip
      <4>1. ip[w] \in IPs /\ UNCHANGED <<now, fails, store, hist, cfg, apc, new>>
        BY <2>0, <2>2 DEF Check, RequestsTyped, adminVars
      <4>2. bans' \in [IPs -> Nat] /\ \A i \in IPs : bans'[i] = bans[i] \/ bans'[i] = 0
        BY <2>0, <3>2, <4>1 DEF Tables, TablesTyped
      <4>3. Tables'
        BY <2>0, <4>1, <4>2, EntriesDropped DEF Tables, TablesTyped
      <4>4. RequestsTyped'
        BY <2>0, <3>2, <4>1 DEF RequestsTyped
      <4> QED BY <4>3, <4>4
    <3> QED BY <2>2, <3>1, <3>2 DEF Check
  <2>3. ASSUME NEW w \in Workers, Served(w) PROVE Tables' /\ RequestsTyped'
    BY <2>0, <2>3, TablesKept, DoneTyped DEF Served, tables, adminVars
  <2>4. ASSUME NEW w \in Workers, Record(w) PROVE Tables' /\ RequestsTyped'
    <3>1. ip[w] \in IPs
      BY <2>0, <2>4 DEF Record, RequestsTyped
    <3> QED BY <2>0, <2>4, <3>1, FailInv, DoneTyped DEF Record, adminVars
  <2>5. ASSUME NEW a \in Admins, Apply(a) PROVE Tables' /\ RequestsTyped'
    <3>1. Tables'
      BY <2>0, <2>5, TablesKept DEF Apply
    <3>2. PICK c \in Configs : new' = [new EXCEPT ![a] = c]
      BY <2>5 DEF Apply
    <3>3. c \in Config
      BY IPBanAssumption
    <3>4. RequestsTyped'
      BY <2>0, <2>5, <3>2, <3>3 DEF Apply, RequestsTyped, tables
    <3> QED BY <3>1, <3>4
  <2>6. ASSUME NEW a \in Admins, Reconfigure(a) PROVE Tables' /\ RequestsTyped'
    <3>1. Tables'
      <4>1. /\ fails' = [i \in IPs |-> NoEntry]
            /\ bans' = [i \in IPs |-> 0]
            /\ hist' = [i \in IPs |-> <<>>]
        BY <2>6 DEF Reconfigure
      <4>2. Empty'
        BY <4>1 DEF Empty, NoEntry
      <4> QED BY <4>2, EmptyTables, PTL
    <3>2. RequestsTyped'
      BY <2>0, <2>6 DEF Reconfigure, RequestsTyped
    <3> QED BY <3>1, <3>2
  <2>7. ASSUME NEW a \in Admins, Publish(a) PROVE Tables' /\ RequestsTyped'
    <3>1. Tables'
      BY <2>0, <2>7, TablesKept DEF Publish
    <3>2. RequestsTyped'
      BY <2>0, <2>7 DEF Publish, RequestsTyped, tables
    <3> QED BY <3>1, <3>2
  <2>8. CASE Reap
    <3>1. /\ fails' \in [IPs -> [count : Nat, start : Nat]]
          /\ \A i \in IPs : fails'[i] = fails[i] \/ (fails'[i] = NoEntry /\ ~Live(i))
      <4>1. fails \in [IPs -> [count : Nat, start : Nat]] /\ NoEntry \in [count : Nat, start : Nat]
        BY <2>0 DEF Tables, TablesTyped, NoEntry
      <4>2. fails' = [i \in IPs |-> IF Live(i) THEN fails[i] ELSE NoEntry]
        BY <2>8 DEF Reap
      <4>3. \A i \in IPs : fails'[i] = IF Live(i) THEN fails[i] ELSE NoEntry
        BY <4>2
      <4>4. ASSUME NEW i \in IPs PROVE fails'[i] = fails[i] \/ (fails'[i] = NoEntry /\ ~Live(i))
        <5>0. fails'[i] = IF Live(i) THEN fails[i] ELSE NoEntry
          BY <4>3
        <5>1. CASE Live(i)
          BY <5>0, <5>1
        <5>2. CASE ~Live(i)
          BY <4>3, <5>2
        <5> QED BY <5>1, <5>2
      <4>5. \A i \in IPs : fails'[i] \in [count : Nat, start : Nat]
        BY <4>1, <4>4
      <4>6. fails' \in [IPs -> [count : Nat, start : Nat]]
        BY <4>2, <4>5
      <4> QED BY <4>4, <4>6
    <3>2. bans' \in [IPs -> Nat] /\ \A i \in IPs : bans'[i] = bans[i] \/ bans'[i] = 0
      BY <2>0, <2>8 DEF Reap, Tables, TablesTyped
    <3>3. UNCHANGED <<now, store, hist, cfg, pc, ip, apc, new>>
      BY <2>8 DEF Reap, adminVars
    <3>4. Tables'
      BY <3>1, <3>2, <3>3, EntriesDropped
    <3> QED BY <2>0, <3>3, <3>4 DEF RequestsTyped
  <2>9. CASE Tick
    <3>1. RequestsTyped'
      BY <2>0, <2>9 DEF Tick, RequestsTyped, tables, adminVars
    <3> QED BY <2>9, <3>1, TickInv
  <2>10. CASE UNCHANGED vars
    <3>1. UNCHANGED <<now, tables>> /\ UNCHANGED <<now, store, cfg, pc, ip, apc, new>>
      BY <2>10 DEF vars, tables, adminVars
    <3> QED BY <2>0, <3>1, TablesKept DEF RequestsTyped
  <2> QED BY <2>1, <2>2, <2>3, <2>4, <2>5, <2>6, <2>7, <2>8, <2>9, <2>10 DEF Next
<1> QED BY <1>1, <1>2, PTL DEF Spec

(***************************************************************************)
(* Whatever the number of clients and requests and however often the       *)
(* settings change, neither table outgrows maxBanEntries, every counter is *)
(* below the maximum in force and no address has a counter and a ban.      *)
(***************************************************************************)
THEOREM TablesStaySound == Spec => []TablesSound
<1>1. Inv => TablesSound
  BY DEF Inv
<1> QED BY <1>1, Invariant, PTL

(***************************************************************************)
(* The bound the comment on failEntry claims, 2*MaxFailures-2, for every   *)
(* window and every maximum.                                               *)
(***************************************************************************)
THEOREM SqueezeIsBounded == Spec => []SqueezeBound
<1>1. Inv => SqueezeBound
  <2> SUFFICES ASSUME Inv, NEW i \in IPs, NEW j \in DOMAIN hist[i], NEW l \in DOMAIN hist[i],
                      hist[i][l].at - hist[i][j].at <= store.window,
                      ~(l - j < 2 * store.max - 2)
               PROVE  FALSE
    BY DEF SqueezeBound
  <2> DEFINE M == store.max
             W == store.window
             h == hist[i]
             k == j + (M - 1)
             m == k + (M - 1)
  <2>1. /\ M \in Nat /\ M >= 1 /\ W \in Nat /\ W >= 1
        /\ Len(h) \in Nat /\ DOMAIN h = 1 .. Len(h)
        /\ \A x \in DOMAIN h : h[x].at \in Nat /\ h[x].start \in Nat
    BY InvFacts, EntryFacts
  <2>2. InWindows(h)
    BY InvFacts DEF HistorySound
  <2>a. j \in 1 .. Len(h) /\ l \in 1 .. Len(h) /\ ~(l - j < 2 * M - 2)
    BY <2>1
  <2>b. k \in 1 .. Len(h) /\ m \in 1 .. Len(h) /\ j <= k /\ k <= m /\ m <= l
    <3> HIDE DEF M, h
    <3> QED BY <2>1, <2>a
  <2>3. k \in DOMAIN h /\ m \in DOMAIN h /\ j <= k /\ k <= m /\ m <= l
    BY <2>1, <2>b
  <2>4. k - j + 1 = M /\ m - k + 1 = M
    BY <2>1
  <2> HIDE DEF k, m, h
  <2>c. ASSUME NEW x \in DOMAIN h, NEW y \in DOMAIN h, x <= y, y - x + 1 = M
        PROVE  h[x].start + W <= h[y].start
    <3>1. \/ h[x].start = h[y].start /\ y - x + 1 < M
          \/ h[x].start + W <= h[y].start
      BY <2>2, <2>c DEF InWindows
    <3> QED BY <2>1, <2>c, <3>1
  <2>5. h[j].start + W <= h[k].start /\ h[k].start + W <= h[m].start
    <3>1. j \in DOMAIN h
      BY DEF h
    <3> QED BY <2>3, <2>4, <2>c, <3>1
  <2>7. h[j].at < h[j].start + W /\ h[m].start <= h[m].at /\ h[m].at <= h[l].at
    BY <2>2, <2>3 DEF InWindows, h
  <2>8. h[l].at - h[j].at <= W
    BY DEF h
  <2>9. /\ h[j].at \in Nat /\ h[j].start \in Nat /\ h[k].start \in Nat /\ h[m].start \in Nat
        /\ h[m].at \in Nat /\ h[l].at \in Nat
    BY <2>1, <2>3 DEF h
  <2>10. \A a, b, c, d, e, x, w \in Nat :
           ~(a < b + w /\ b + w <= c /\ c + w <= d /\ d <= e /\ e <= x /\ x - a <= w)
    OBVIOUS
  <2>11. W \in Nat
    BY <2>1
  <2> HIDE DEF W
  <2> QED BY <2>5, <2>7, <2>8, <2>9, <2>10, <2>11
<1> QED BY <1>1, Invariant, PTL

-----------------------------------------------------------------------------
\* The failures that a ban of i needs are in its history.
Earned(i) ==
  LET n == Len(hist[i])
  IN /\ n >= store.max - 1
     /\ \A l \in n + 2 - store.max .. n : now - hist[i][l].at < store.window

\* What a failure of i does to the bans.
LEMMA FailBans ==
  ASSUME Inv, NEW i \in IPs, Fail(i)
  PROVE  \/ bans' = bans
         \/ /\ ~Serving(i)
            /\ \/ bans' = [bans EXCEPT ![i] = 0]
               \/ /\ Earned(i)
                  /\ \E v \in BanVictims(i) : bans' = [bans EXCEPT ![v] = 0, ![i] = now + store.ban]
<1> DEFINE goal == \/ bans' = [bans EXCEPT ![i] = 0]
                   \/ /\ Earned(i)
                      /\ \E v \in BanVictims(i) : bans' = [bans EXCEPT ![v] = 0, ![i] = now + store.ban]
<1>1. ASSUME NEW f, NEW g, Ready(i, f, g), Count(i, f, g) PROVE goal
  <2>1. CASE f[i].count + 1 < store.max
    BY <1>1, <2>1 DEF Count
  <2>2. CASE ~(f[i].count + 1 < store.max)
    <3>1. \E v \in BanVictims(i) : bans' = [bans EXCEPT ![v] = 0, ![i] = now + store.ban]
      BY <1>1, <2>2 DEF Count
    <3> DEFINE h == hist[i]
               c == f[i].count
               t == f[i].start
               n == Len(h)
    <3>2. /\ LastWindow(h, c, t) /\ t <= now /\ now < t + store.window /\ c < store.max
          /\ f[i] \in [count : Nat, start : Nat]
      BY <1>1 DEF Ready
    <3>3. c \in Nat /\ t \in Nat /\ store.max \in Nat /\ store.window \in Nat /\ now \in Nat
      BY <3>2, InvFacts
    <3>4. c = store.max - 1
      BY <2>2, <3>2, <3>3
    <3>5. /\ n \in Nat /\ DOMAIN h = 1 .. n
          /\ \A l \in 1 .. n : h[l].at \in Nat /\ h[l].start \in Nat
      BY InvFacts, EntryFacts
    <3> HIDE DEF h, c, t, n
    <3>6. n >= store.max - 1
      BY <3>2, <3>3, <3>4, <3>5 DEF LastWindow, n
    <3>7. ASSUME NEW l \in n + 2 - store.max .. n PROVE now - h[l].at < store.window
      <4>1. l \in 1 .. n /\ l > n - c
        BY <3>3, <3>4, <3>5, <3>6
      <4>2. h[l].start = t
        BY <3>2, <3>5, <4>1 DEF LastWindow, n
      <4>3. h[l].start <= h[l].at
        BY <3>5, <4>1, InvFacts DEF HistorySound, InWindows, h
      <4>4. h[l].at \in Nat
        BY <3>5, <4>1
      <4> QED BY <3>2, <3>3, <4>2, <4>3, <4>4
    <3>8. Earned(i)
      BY <3>6, <3>7 DEF Earned, n, h
    <3> QED BY <3>1, <3>8
  <2> QED BY <2>1, <2>2
<1> HIDE DEF goal
<1>2. CASE Serving(i) /\ UNCHANGED <<fails, bans, hist>>
  BY <1>2
<1>3. CASE ~Serving(i) /\ Live(i) /\ Count(i, fails, hist)
  BY <1>1, <1>3, LiveReady DEF goal
<1>4. ASSUME NEW v \in FailVictims(i), ~Serving(i), ~Live(i),
             Count(i, [fails EXCEPT ![v] = NoEntry, ![i] = [count |-> 0, start |-> now]],
                   IF v = i THEN hist ELSE [hist EXCEPT ![v] = <<>>])
      PROVE  ~Serving(i) /\ goal
  BY <1>1, <1>4, NewReady
<1> QED BY <1>2, <1>3, <1>4 DEF Fail, goal

\* Every step that changes the bans.
LEMMA BanSteps ==
  ASSUME Inv, [Next]_vars
  PROVE  \/ bans' = bans
         \/ \E i \in IPs : ~Serving(i) /\ bans' = [bans EXCEPT ![i] = 0]
         \/ \E i \in IPs : /\ ~Serving(i) /\ Earned(i)
                           /\ \E v \in BanVictims(i) :
                                bans' = [bans EXCEPT ![v] = 0, ![i] = now + store.ban]
         \/ bans' = [i \in IPs |-> IF Serving(i) THEN bans[i] ELSE 0]
         \/ NewSettings /\ bans' = [i \in IPs |-> 0]
<1>0. \A w \in Workers : pc[w] # "idle" => ip[w] \in IPs
  BY InvFacts DEF TypeOK
<1>1. ASSUME NEW w \in Workers, Check(w)
      PROVE  \/ bans' = bans
             \/ \E i \in IPs : ~Serving(i) /\ bans' = [bans EXCEPT ![i] = 0]
  <2>1. ip[w] \in IPs
    BY <1>0, <1>1 DEF Check
  <2> QED BY <1>1, <2>1 DEF Check
<1>2. ASSUME NEW w \in Workers, Record(w)
      PROVE  \/ bans' = bans
             \/ \E i \in IPs : ~Serving(i) /\ bans' = [bans EXCEPT ![i] = 0]
             \/ \E i \in IPs : /\ ~Serving(i) /\ Earned(i)
                               /\ \E v \in BanVictims(i) :
                                    bans' = [bans EXCEPT ![v] = 0, ![i] = now + store.ban]
  <2>1. ip[w] \in IPs /\ Fail(ip[w])
    BY <1>0, <1>2 DEF Record
  <2> QED BY <2>1, FailBans
<1>3. ASSUME NEW a \in Admins, Reconfigure(a)
      PROVE  NewSettings /\ bans' = [i \in IPs |-> 0]
  <2>1. apc \in [Admins -> {"idle", "reconfigure", "publish"}]
    BY InvFacts DEF TypeOK
  <2> QED BY <1>3, <2>1 DEF Reconfigure, NewSettings
<1>4. ASSUME NEW w \in Workers, Arrive(w) \/ Served(w) PROVE bans' = bans
  BY <1>4 DEF Arrive, Served, tables
<1>5. ASSUME NEW a \in Admins, Apply(a) \/ Publish(a) PROVE bans' = bans
  BY <1>5 DEF Apply, Publish, tables
<1>6. CASE Reap
  BY <1>6 DEF Reap
<1>7. CASE Tick \/ UNCHANGED vars
  BY <1>7 DEF Tick, vars, tables
<1> QED BY <1>1, <1>2, <1>3, <1>4, <1>5, <1>6, <1>7 DEF Next

(***************************************************************************)
(* A running ban is neither extended nor lifted before its time, but for   *)
(* new settings and, in a full table, a ban that outlasts it.              *)
(***************************************************************************)
THEOREM BansStand == Spec => BanStands
<1> DEFINE Stands(i) == Serving(i) /\ bans'[i] # bans[i] =>
             bans'[i] = 0 /\ (NewSettings \/ \E j \in IPs \ {i} : EvictedFor(i, j))
<1>1. Inv /\ [Next]_vars => [\A i \in IPs : Stands(i)]_vars
  <2> SUFFICES ASSUME Inv, [Next]_vars, NEW i \in IPs, Serving(i), bans'[i] # bans[i]
               PROVE  bans'[i] = 0 /\ (NewSettings \/ \E j \in IPs \ {i} : EvictedFor(i, j))
    OBVIOUS
  <2>0. bans \in [IPs -> Nat] /\ now \in Nat /\ store.ban \in Nat /\ store.ban >= 1
    BY InvFacts DEF TypeOK
  <2>1. ASSUME NEW j \in IPs, ~Serving(j), bans' = [bans EXCEPT ![j] = 0] PROVE FALSE
    BY <2>0, <2>1
  <2>2. ASSUME NEW j \in IPs, ~Serving(j), NEW v \in BanVictims(j),
               bans' = [bans EXCEPT ![v] = 0, ![j] = now + store.ban]
        PROVE  bans'[i] = 0 /\ \E k \in IPs \ {i} : EvictedFor(i, k)
    <3>1. v \in IPs /\ j # i
      BY <2>2 DEF BanVictims, Oldest, Listed
    <3>2. v = i /\ bans'[i] = 0 /\ bans'[j] = now + store.ban
      BY <2>0, <2>2, <3>1
    <3>3. Cardinality(Listed \ {j}) >= Limit /\ i \in Oldest(Listed \ {j}, bans)
      BY <2>2, <3>1, <3>2 DEF BanVictims
    <3>4. Cardinality(Listed) >= Limit
      <4>1. Listed \in SUBSET IPs /\ Listed \ {j} \in SUBSET IPs /\ Listed \ {j} \in SUBSET Listed
        BY DEF Listed
      <4>2. /\ Cardinality(Listed) \in Nat /\ Cardinality(Listed \ {j}) \in Nat
            /\ Cardinality(Listed \ {j}) <= Cardinality(Listed)
        BY <4>1, SizeFacts
      <4> QED BY <3>3, <4>2, IPBanAssumption
    <3>5. bans'[j] > bans[j]
      BY <2>0, <2>2, <3>2 DEF Serving
    <3>6. \A k \in Listed \ {j} : bans[i] <= bans[k]
      BY <3>3 DEF Oldest
    <3>7. EvictedFor(i, j)
      BY <3>4, <3>5, <3>6 DEF EvictedFor
    <3> QED BY <3>1, <3>2, <3>7
  <2>3. CASE bans' = [j \in IPs |-> IF Serving(j) THEN bans[j] ELSE 0]
    <3>1. bans'[i] = IF Serving(i) THEN bans[i] ELSE 0
      BY <2>3
    <3> QED BY <3>1 DEF Serving
  <2>4. CASE NewSettings /\ bans' = [j \in IPs |-> 0]
    BY <2>4
  <2> QED BY <2>1, <2>2, <2>3, <2>4, BanSteps
<1>2. [][\A i \in IPs : Stands(i)]_vars => BanStands
  BY DEF BanStands
<1> QED BY <1>1, <1>2, Invariant, PTL DEF Spec

(***************************************************************************)
(* No address is banned for fewer than MaxFailures failures within a       *)
(* window, whatever happens between a check and the failure it lets in.    *)
(***************************************************************************)
THEOREM BansAreEarned == Spec => BanIsEarned
<1>1. Inv /\ [Next]_vars => [\A i \in IPs : bans'[i] > bans[i] => Earned(i)]_vars
  <2> SUFFICES ASSUME Inv, [Next]_vars, NEW i \in IPs, bans'[i] > bans[i]
               PROVE  Earned(i)
    OBVIOUS
  <2>0. bans \in [IPs -> Nat] /\ bans[i] \in Nat
    BY InvFacts DEF TypeOK
  <2>1. ASSUME NEW j \in IPs, bans' = [bans EXCEPT ![j] = 0] PROVE FALSE
    BY <2>0, <2>1
  <2>2. ASSUME NEW j \in IPs, Earned(j), NEW v \in BanVictims(j),
               bans' = [bans EXCEPT ![v] = 0, ![j] = now + store.ban]
        PROVE  Earned(i)
    <3>1. v \in IPs
      BY <2>2 DEF BanVictims, Oldest, Listed
    <3>2. i # j => bans'[i] = bans[i] \/ bans'[i] = 0
      BY <2>0, <2>2, <3>1
    <3>3. i = j
      BY <2>0, <3>2
    <3> QED BY <2>2, <3>3
  <2>3. CASE bans' = [j \in IPs |-> IF Serving(j) THEN bans[j] ELSE 0]
    <3>1. bans'[i] = IF Serving(i) THEN bans[i] ELSE 0
      BY <2>3
    <3>2. bans'[i] = bans[i] \/ bans'[i] = 0
      BY <3>1 DEF Serving
    <3> QED BY <2>0, <3>2
  <2>4. CASE bans' = [j \in IPs |-> 0]
    BY <2>0, <2>4
  <2>5. CASE bans' = bans
    BY <2>0, <2>5
  <2> QED BY <2>1, <2>2, <2>3, <2>4, <2>5, BanSteps
<1>2. [][\A i \in IPs : bans'[i] > bans[i] => Earned(i)]_vars => BanIsEarned
  BY DEF BanIsEarned, Earned
<1> QED BY <1>1, <1>2, Invariant, PTL DEF Spec
=============================================================================
