------------------------- MODULE AdminSessionProofs -------------------------
(***************************************************************************)
(* Proofs about AdminSession for any number of goroutines, addresses and   *)
(* users, any mix of requests, and any capacity and lifetime.              *)
(***************************************************************************)
EXTENDS AdminSession, FiniteSetTheorems, SequenceTheorems, TLAPS

Session == [user : Users, created : Nat, seen : Nat]
FailureWindow == [count : Nat \ {0}, start : Nat]

\* Requests that present a secret, and requests that present a session.
WithSecret == [at : {"verify", "fail", "reset", "replace", "create"}, ip : IPs, user : Users,
               right : BOOLEAN, kind : {"login", "header"}, token : 0 .. issued]
WithSession == [at : {"reread", "revoke"}, token : 1 .. issued, user : Users]

(***************************************************************************)
(* Tokens are numbered in the order of their logins, a request names only  *)
(* tokens that were issued, and a login replaces a session only if one     *)
(* came along.                                                             *)
(***************************************************************************)
RequestsSound ==
  /\ issued \in 0 .. mix.logins
  /\ req \in [Workers -> {Idle} \cup WithSecret \cup WithSession]
  /\ \A w \in Workers : req[w].at = "replace" => req[w].token # 0
  /\ role \in [Users -> {"admin", "plain", "gone"}]

\* The table tells the same story as the history.
Faithful(t) ==
  /\ sess[t] \in Session
  /\ sess[t].seen = used[t] /\ sess[t].created = born[t]
  /\ sess[t].created <= sess[t].seen /\ sess[t].seen <= now
  /\ t \notin ended

SessionsSound ==
  /\ DOMAIN sess \subseteq 1 .. issued /\ Cardinality(DOMAIN sess) <= SessionCap
  /\ used \in [Tokens -> Nat] /\ born \in [Tokens -> Nat]
  /\ ended \subseteq 1 .. issued
  /\ \A t \in DOMAIN sess : Faithful(t)

WindowsSound ==
  /\ DOMAIN fails \subseteq IPs
  /\ IsFiniteSet(DOMAIN fails) /\ Cardinality(DOMAIN fails) <= LimiterCap
  /\ \A i \in DOMAIN fails : fails[i] \in FailureWindow /\ fails[i].start <= now

Inv ==
  /\ mix \in Mixes /\ now \in 0 .. MaxTime
  /\ RequestsSound /\ SessionsSound /\ WindowsSound
-----------------------------------------------------------------------------
\* Removing keys from a table.
LEMMA DropFacts ==
  \A f, K : /\ DOMAIN Drop(f, K) = DOMAIN f \ K
            /\ \A x \in DOMAIN Drop(f, K) : Drop(f, K)[x] = f[x]
BY DEF Drop, Restrict

\* Adding a key to a table.
LEMMA PutFacts ==
  \A f, k, v : /\ DOMAIN Put(f, k, v) = DOMAIN f \cup {k}
               /\ Put(f, k, v)[k] = v
               /\ \A x \in DOMAIN f \ {k} : Put(f, k, v)[x] = f[x]
BY DEF Put

\* The bounds, one by one.
LEMMA InvFacts ==
  ASSUME Inv
  PROVE  /\ mix \in Mixes /\ now \in Nat /\ now <= MaxTime /\ MaxTime \in Nat
         /\ mix.ips \subseteq IPs /\ mix.secrets \subseteq BOOLEAN
         /\ mix.logins \in Nat /\ mix.logins <= MaxLogins /\ MaxLogins \in Nat
         /\ issued \in Nat /\ issued <= mix.logins
         /\ 1 .. issued \subseteq Tokens
         /\ SessionCap \in Nat /\ SessionCap >= 1 /\ LimiterCap \in Nat /\ LimiterCap >= 1
         /\ SessionIdle \in Nat /\ SessionTTL \in Nat /\ Window \in Nat
         /\ IsFiniteSet(DOMAIN sess) /\ Cardinality(DOMAIN sess) \in Nat
         /\ Cardinality(DOMAIN fails) \in Nat
<1>1. mix \in Mix
  BY AdminSessionAssumption DEF Inv
<1>2. /\ mix.ips \subseteq IPs /\ mix.secrets \subseteq BOOLEAN
      /\ mix.logins \in 0 .. MaxLogins
  BY <1>1 DEF Mix
<1>3. MaxLogins \in Nat /\ MaxTime \in Nat
  BY AdminSessionAssumption
<1>4. mix.logins \in Nat /\ mix.logins <= MaxLogins /\ issued \in Nat /\ issued <= mix.logins
  BY <1>2, <1>3 DEF Inv, RequestsSound
<1>5. 1 .. issued \subseteq Tokens
  BY <1>3, <1>4 DEF Tokens
<1>6. IsFiniteSet(DOMAIN sess) /\ Cardinality(DOMAIN sess) \in Nat
  <2>1. IsFiniteSet(1 .. issued)
    BY <1>4, FS_Interval
  <2>2. DOMAIN sess \in SUBSET (1 .. issued)
    BY DEF Inv, SessionsSound
  <2> QED BY <2>1, <2>2, FS_Subset, FS_CardinalityType
<1>7. Cardinality(DOMAIN fails) \in Nat
  BY FS_CardinalityType DEF Inv, WindowsSound
<1> QED BY <1>2, <1>3, <1>4, <1>5, <1>6, <1>7, AdminSessionAssumption DEF Inv

\* A worker's next state.
LEMMA GotoFacts ==
  ASSUME Inv, NEW w \in Workers, NEW r, Goto(w, r)
  PROVE  req'[w] = r /\ \A v \in Workers \ {w} : req'[v] = req[v]
BY DEF Goto, Inv, RequestsSound

\* Where a request is tells which kind it is.
LEMMA RequestFacts ==
  ASSUME Inv, NEW w \in Workers
  PROVE  /\ req[w] = Idle <=> req[w].at = "idle"
         /\ req[w].at \in {"verify", "fail", "reset", "replace", "create"} => req[w] \in WithSecret
         /\ req[w].at \in {"reread", "revoke"} => req[w] \in WithSession
<1>1. req[w] \in {Idle} \cup WithSecret \cup WithSession
  BY DEF Inv, RequestsSound
<1> QED BY <1>1 DEF Idle, WithSecret, WithSession
-----------------------------------------------------------------------------
(***************************************************************************)
(* create makes room, and what it takes away is expired, or else the least *)
(* recently used of a full table with no expired session.                  *)
(***************************************************************************)
LEMMA RoomFacts ==
  ASSUME Inv, NEW room \in Rooms
  PROVE  /\ DOMAIN room \subseteq DOMAIN sess
         /\ \A t \in DOMAIN room : room[t] = sess[t]
         /\ IsFiniteSet(DOMAIN room) /\ Cardinality(DOMAIN room) \in Nat
         /\ Cardinality(DOMAIN room) < SessionCap
         /\ \A t \in DOMAIN sess \ DOMAIN room :
              \/ Expired(sess[t])
              \/ /\ Cardinality(DOMAIN sess) = SessionCap
                 /\ \A u \in DOMAIN sess : ~Expired(sess[u]) /\ sess[t].seen <= sess[u].seen
<1> DEFINE old == {t \in DOMAIN sess : Expired(sess[t])}
           pruned == Drop(sess, old)
<1>0. /\ IsFiniteSet(DOMAIN sess) /\ Cardinality(DOMAIN sess) \in Nat /\ SessionCap \in Nat
      /\ Cardinality(DOMAIN sess) <= SessionCap
  BY InvFacts DEF Inv, SessionsSound
<1>1. DOMAIN pruned = DOMAIN sess \ old /\ \A t \in DOMAIN pruned : pruned[t] = sess[t]
  BY DropFacts
<1>2. DOMAIN pruned \in SUBSET DOMAIN sess
  BY <1>1
<1>3. /\ IsFiniteSet(DOMAIN pruned) /\ Cardinality(DOMAIN pruned) \in Nat
      /\ Cardinality(DOMAIN pruned) <= Cardinality(DOMAIN sess)
      /\ Cardinality(DOMAIN sess) = Cardinality(DOMAIN pruned) => DOMAIN sess = DOMAIN pruned
  BY <1>0, <1>2, FS_Subset, FS_CardinalityType
<1>4. \/ Cardinality(DOMAIN sess) < SessionCap /\ room = sess
      \/ Cardinality(DOMAIN pruned) < SessionCap /\ room = pruned
      \/ /\ ~(Cardinality(DOMAIN sess) < SessionCap)
         /\ ~(Cardinality(DOMAIN sess) >= SessionCap /\ Cardinality(DOMAIN pruned) < SessionCap)
         /\ \E v \in Victims(pruned) : room = Drop(pruned, {v})
  BY DEF Rooms
<1>5. CASE Cardinality(DOMAIN sess) < SessionCap /\ room = sess
  BY <1>0, <1>5
<1>6. CASE Cardinality(DOMAIN pruned) < SessionCap /\ room = pruned
  BY <1>1, <1>2, <1>3, <1>6
<1>7. ASSUME ~(Cardinality(DOMAIN sess) < SessionCap),
             ~(Cardinality(DOMAIN sess) >= SessionCap /\ Cardinality(DOMAIN pruned) < SessionCap),
             NEW v \in Victims(pruned), room = Drop(pruned, {v})
      PROVE  /\ DOMAIN room \subseteq DOMAIN sess
             /\ \A t \in DOMAIN room : room[t] = sess[t]
             /\ IsFiniteSet(DOMAIN room) /\ Cardinality(DOMAIN room) \in Nat
             /\ Cardinality(DOMAIN room) < SessionCap
             /\ \A t \in DOMAIN sess \ DOMAIN room :
                  /\ Cardinality(DOMAIN sess) = SessionCap
                  /\ \A u \in DOMAIN sess : ~Expired(sess[u]) /\ sess[t].seen <= sess[u].seen
  <2>1. Cardinality(DOMAIN sess) = SessionCap /\ DOMAIN sess = DOMAIN pruned
    BY <1>0, <1>3, <1>7
  <2>2. \A u \in DOMAIN sess : ~Expired(sess[u]) /\ pruned[u] = sess[u]
    BY <1>1, <2>1
  <2>3. v \in DOMAIN sess /\ \A u \in DOMAIN sess : sess[v].seen <= sess[u].seen
    <3> HIDE DEF pruned
    <3> QED BY <2>1, <2>2 DEF Victims
  <2>4. DOMAIN room = DOMAIN sess \ {v} /\ \A t \in DOMAIN room : room[t] = sess[t]
    <3> HIDE DEF pruned
    <3>1. DOMAIN room = DOMAIN pruned \ {v} /\ \A t \in DOMAIN pruned \ {v} : room[t] = pruned[t]
      BY <1>7, DropFacts
    <3> QED BY <2>1, <2>2, <3>1
  <2>5. IsFiniteSet(DOMAIN room) /\ Cardinality(DOMAIN room) = SessionCap - 1
    BY <1>0, <2>1, <2>3, <2>4, FS_RemoveElement
  <2>6. Cardinality(DOMAIN room) \in Nat /\ Cardinality(DOMAIN room) < SessionCap
    BY <2>5, InvFacts
  <2> QED BY <2>1, <2>2, <2>3, <2>4, <2>5, <2>6
<1> QED BY <1>4, <1>5, <1>6, <1>7

\* fail keeps the table within its capacity, and counts in one window only.
LEMMA AfterFailureFacts ==
  ASSUME Inv, NEW i \in IPs, NEW f \in AfterFailure(i)
  PROVE  /\ DOMAIN f \subseteq IPs
         /\ IsFiniteSet(DOMAIN f) /\ Cardinality(DOMAIN f) <= LimiterCap
         /\ \A j \in DOMAIN f : f[j] \in FailureWindow /\ f[j].start <= now
         /\ \A j \in DOMAIN f \ {i} : j \in DOMAIN fails /\ f[j] = fails[j]
         /\ i \in DOMAIN f
         /\ IF i \in DOMAIN fails /\ now - fails[i].start < Window
            THEN f[i].start = fails[i].start /\ f[i].count = fails[i].count + 1
            ELSE f[i].start = now /\ f[i].count = 1
<1>0. /\ DOMAIN fails \subseteq IPs /\ IsFiniteSet(DOMAIN fails)
      /\ Cardinality(DOMAIN fails) <= LimiterCap
      /\ \A j \in DOMAIN fails : fails[j] \in FailureWindow /\ fails[j].start <= now
      /\ Cardinality(DOMAIN fails) \in Nat /\ LimiterCap \in Nat /\ LimiterCap >= 1 /\ now \in Nat
  BY InvFacts DEF Inv, WindowsSound
<1>1. CASE i \in DOMAIN fails /\ now - fails[i].start < Window
  <2>1. f = [fails EXCEPT ![i].count = @ + 1]
    BY <1>1 DEF AfterFailure
  <2>2. DOMAIN f = DOMAIN fails /\ \A j \in DOMAIN fails \ {i} : f[j] = fails[j]
    BY <2>1
  <2>3. /\ f[i] \in FailureWindow
        /\ f[i].start = fails[i].start /\ f[i].count = fails[i].count + 1
    BY <1>0, <1>1, <2>1 DEF FailureWindow
  <2> QED BY <1>0, <1>1, <2>2, <2>3
<1>2. CASE ~(i \in DOMAIN fails /\ now - fails[i].start < Window)
  <2> DEFINE others == Drop(fails, {i})
             past == {j \in DOMAIN others : now - others[j].start >= Window}
             open == Drop(others, past)
             oldest == {j \in DOMAIN open : \A k \in DOMAIN open : open[j].start <= open[k].start}
             new == [count |-> 1, start |-> now]
  <2>1. PICK g : /\ f = Put(g, i, new)
                 /\ \/ Cardinality(DOMAIN others) < LimiterCap /\ g = others
                    \/ Cardinality(DOMAIN open) < LimiterCap /\ g = open
                    \/ \E j \in oldest : g = Drop(open, {j})
    BY <1>2 DEF AfterFailure
  <2>2. DOMAIN others = DOMAIN fails \ {i} /\ \A j \in DOMAIN others : others[j] = fails[j]
    BY DropFacts
  <2>3. DOMAIN open \subseteq DOMAIN others /\ \A j \in DOMAIN open : open[j] = others[j]
    BY SMT DEF Drop, Restrict
  <2> HIDE DEF others, open, past
  <2>4. /\ IsFiniteSet(DOMAIN others) /\ Cardinality(DOMAIN others) \in Nat
        /\ Cardinality(DOMAIN others) <= Cardinality(DOMAIN fails)
    BY <1>0, <2>2, FS_Subset, FS_CardinalityType
  <2>5. /\ IsFiniteSet(DOMAIN open) /\ Cardinality(DOMAIN open) \in Nat
        /\ Cardinality(DOMAIN open) <= Cardinality(DOMAIN others)
    BY <2>3, <2>4, FS_Subset, FS_CardinalityType
  <2>6. ASSUME NEW j \in oldest, g = Drop(open, {j})
        PROVE  /\ DOMAIN g \subseteq DOMAIN others /\ \A k \in DOMAIN g : g[k] = others[k]
               /\ IsFiniteSet(DOMAIN g) /\ Cardinality(DOMAIN g) < LimiterCap
    <3>1. DOMAIN g = DOMAIN open \ {j} /\ \A k \in DOMAIN g : g[k] = open[k]
      BY <2>6, SMT DEF Drop, Restrict
    <3>2. IsFiniteSet(DOMAIN g) /\ Cardinality(DOMAIN g) = Cardinality(DOMAIN open) - 1
      BY <2>5, <3>1, FS_RemoveElement
    <3> QED BY <1>0, <2>3, <2>4, <2>5, <3>1, <3>2
  <2>7. /\ DOMAIN g \subseteq DOMAIN others /\ \A k \in DOMAIN g : g[k] = others[k]
        /\ IsFiniteSet(DOMAIN g) /\ Cardinality(DOMAIN g) < LimiterCap
    BY <2>1, <2>3, <2>4, <2>5, <2>6
  <2>8. DOMAIN f = DOMAIN g \cup {i} /\ f[i] = new /\ \A k \in DOMAIN g \ {i} : f[k] = g[k]
    BY <2>1, SMT DEF Put
  <2>9. IsFiniteSet(DOMAIN f) /\ Cardinality(DOMAIN f) <= LimiterCap
    <3>1. Cardinality(DOMAIN g) \in Nat
      BY <2>7, FS_CardinalityType
    <3>2. /\ IsFiniteSet(DOMAIN f)
          /\ Cardinality(DOMAIN f) = Cardinality(DOMAIN g)
             \/ Cardinality(DOMAIN f) = Cardinality(DOMAIN g) + 1
      BY <2>7, <2>8, FS_AddElement
    <3> QED BY <1>0, <2>7, <3>1, <3>2
  <2>10. new \in FailureWindow /\ new.start <= now
    BY <1>0 DEF FailureWindow
  <2>11. ASSUME NEW j \in DOMAIN f PROVE f[j] \in FailureWindow /\ f[j].start <= now
    <3>1. CASE j = i
      BY <2>8, <2>10, <3>1
    <3>2. CASE j # i
      <4>1. j \in DOMAIN g /\ f[j] = fails[j] /\ j \in DOMAIN fails
        BY <2>2, <2>7, <2>8, <3>2
      <4> QED BY <1>0, <4>1
    <3> QED BY <3>1, <3>2
  <2>12. DOMAIN f \subseteq IPs
    BY <1>0, <2>2, <2>7, <2>8
  <2>13. \A j \in DOMAIN f \ {i} : j \in DOMAIN fails /\ f[j] = fails[j]
    BY <2>2, <2>7, <2>8
  <2>14. i \in DOMAIN f /\ f[i].start = now /\ f[i].count = 1
    BY <2>8
  <2> QED BY <1>2, <2>9, <2>11, <2>12, <2>13, <2>14
<1> QED BY <1>1, <1>2
-----------------------------------------------------------------------------
\* A worker goes on with its request.
LEMMA RequestStep ==
  ASSUME Inv, NEW w \in Workers, NEW r, Goto(w, r), mix' = mix, role' = role,
         issued' \in Nat, issued <= issued', issued' <= mix.logins,
         \/ r = Idle
         \/ r \in WithSecret' /\ (r.at = "replace" => r.token # 0)
         \/ r \in WithSession'
  PROVE  RequestsSound'
<1>1. issued \in Nat
  BY InvFacts
<1>2. WithSecret \subseteq WithSecret' /\ WithSession \subseteq WithSession'
  BY <1>1 DEF WithSecret, WithSession
<1>3. req' \in [Workers -> {Idle} \cup WithSecret' \cup WithSession']
  BY <1>2 DEF Goto, Inv, RequestsSound
<1>4. \A v \in Workers : req'[v].at = "replace" => req'[v].token # 0
  <2>1. \A v \in Workers \ {w} : req'[v].at = "replace" => req'[v].token # 0
    BY GotoFacts DEF Inv, RequestsSound
  <2>2. r.at = "replace" => r.token # 0
    BY DEF Idle, WithSession
  <2> QED BY <2>1, <2>2, GotoFacts
<1>5. issued' \in 0 .. mix'.logins
  BY InvFacts
<1> QED BY <1>3, <1>4, <1>5 DEF RequestsSound, Inv

\* Nothing happens to the requests.
LEMMA SameRequests ==
  ASSUME Inv, UNCHANGED <<mix, req, issued>>, role' \in [Users -> {"admin", "plain", "gone"}]
  PROVE  RequestsSound'
BY DEF Inv, RequestsSound, WithSecret, WithSession

\* The clock goes on and nothing else happens to the sessions.
LEMMA SameSessions ==
  ASSUME Inv, UNCHANGED <<sess, issued, used, born, ended>>, now' \in Nat, now <= now'
  PROVE  SessionsSound'
<1>1. ASSUME NEW t \in DOMAIN sess PROVE Faithful(t)'
  <2>1. Faithful(t)
    BY DEF Inv, SessionsSound
  <2>2. sess[t].seen \in Nat /\ now \in Nat
    BY <2>1, InvFacts DEF Faithful, Session
  <2> QED BY <2>1, <2>2 DEF Faithful
<1> QED BY <1>1 DEF Inv, SessionsSound

\* ... nor to the failure windows.
LEMMA SameWindows ==
  ASSUME Inv, fails' = fails, now' \in Nat, now <= now'
  PROVE  WindowsSound'
<1>1. ASSUME NEW i \in DOMAIN fails PROVE fails[i].start <= now'
  <2>1. fails[i].start \in Nat /\ fails[i].start <= now /\ now \in Nat
    BY InvFacts DEF Inv, WindowsSound, FailureWindow
  <2> QED BY <2>1
<1> QED BY <1>1 DEF Inv, WindowsSound

\* A session is dropped, and perhaps on record as ended.
LEMMA DroppedSessions ==
  ASSUME Inv, NEW t, sess' = Drop(sess, {t}), ended' \subseteq ended \cup {t},
         ended' \subseteq 1 .. issued, UNCHANGED <<now, issued, used, born>>
  PROVE  SessionsSound'
<1>1. DOMAIN sess' = DOMAIN sess \ {t} /\ \A u \in DOMAIN sess' : sess'[u] = sess[u]
  BY SMT DEF Drop, Restrict
<1>2. Cardinality(DOMAIN sess') <= SessionCap
  <2>1. /\ IsFiniteSet(DOMAIN sess) /\ Cardinality(DOMAIN sess) \in Nat /\ SessionCap \in Nat
        /\ Cardinality(DOMAIN sess) <= SessionCap
    BY InvFacts DEF Inv, SessionsSound
  <2>2. \/ Cardinality(DOMAIN sess') = Cardinality(DOMAIN sess)
        \/ Cardinality(DOMAIN sess') = Cardinality(DOMAIN sess) - 1
    BY <1>1, <2>1, FS_RemoveElement
  <2> QED BY <2>1, <2>2
<1>3. \A u \in DOMAIN sess' : Faithful(u)'
  BY <1>1 DEF Inv, SessionsSound, Faithful
<1> QED BY <1>1, <1>2, <1>3 DEF Inv, SessionsSound

\* A login creates a session with a fresh token.
LEMMA CreatedSession ==
  ASSUME Inv, NEW w \in Workers, Create(w)
  PROVE  SessionsSound'
<1>0. PICK t \in Nat : t = issued + 1
  BY InvFacts
<1> DEFINE s == [user |-> req[w].user, created |-> now, seen |-> now]
<1>1. PICK room \in Rooms : sess' = Put(room, t, s)
  BY <1>0 DEF Create
<1>2. /\ DOMAIN room \subseteq DOMAIN sess /\ \A u \in DOMAIN room : room[u] = sess[u]
      /\ IsFiniteSet(DOMAIN room) /\ Cardinality(DOMAIN room) \in Nat
      /\ Cardinality(DOMAIN room) < SessionCap
  BY RoomFacts
<1>3. t \in Tokens /\ issued' = t /\ issued \in Nat /\ SessionCap \in Nat /\ now \in Nat
  <2>1. issued < mix.logins /\ issued' = t
    BY <1>0 DEF Create
  <2> QED BY <1>0, <2>1, InvFacts DEF Tokens
<1>4. DOMAIN sess \subseteq 1 .. issued /\ ended \subseteq 1 .. issued /\ ended' = ended
  BY DEF Inv, SessionsSound, Create
<1>5. t \notin DOMAIN sess /\ t \notin ended
  BY <1>0, <1>3, <1>4
<1>6. /\ DOMAIN sess' = DOMAIN room \cup {t} /\ sess'[t] = s
      /\ \A u \in DOMAIN room \ {t} : sess'[u] = room[u]
  BY <1>1, SMT DEF Put
<1>7. Cardinality(DOMAIN sess') <= SessionCap
  <2>1. Cardinality(DOMAIN sess') = Cardinality(DOMAIN room) + 1
    BY <1>2, <1>5, <1>6, FS_AddElement
  <2> QED BY <1>2, <1>3, <2>1
<1>8. /\ used' = [used EXCEPT ![t] = now] /\ born' = [born EXCEPT ![t] = now] /\ now' = now
      /\ used \in [Tokens -> Nat] /\ born \in [Tokens -> Nat]
  BY <1>0 DEF Create, Inv, SessionsSound
<1>9. s \in Session
  <2>1. req[w] \in WithSecret
    BY RequestFacts DEF Create
  <2> QED BY <1>3, <2>1 DEF Session, WithSecret
<1>10. Faithful(t)'
  <2>1. used'[t] = now /\ born'[t] = now
    BY <1>3, <1>8
  <2> QED BY <1>3, <1>4, <1>5, <1>6, <1>8, <1>9, <2>1 DEF Faithful
<1>11. ASSUME NEW u \in DOMAIN room PROVE Faithful(u)'
  <2>1. u # t /\ u \in DOMAIN sess /\ sess'[u] = sess[u] /\ u \in Tokens
    BY <1>2, <1>4, <1>5, <1>6, InvFacts
  <2>2. Faithful(u)
    BY <2>1 DEF Inv, SessionsSound
  <2>3. used'[u] = used[u] /\ born'[u] = born[u]
    BY <1>8, <2>1
  <2> QED BY <1>4, <1>8, <2>1, <2>2, <2>3 DEF Faithful
<1>12. used' \in [Tokens -> Nat] /\ born' \in [Tokens -> Nat]
  BY <1>3, <1>8
<1>13. DOMAIN sess' \subseteq 1 .. issued' /\ ended' \subseteq 1 .. issued'
  BY <1>0, <1>2, <1>3, <1>4, <1>6
<1> QED BY <1>6, <1>7, <1>10, <1>11, <1>12, <1>13 DEF SessionsSound

\* A session that is accepted is marked as used.
LEMMA AcceptedSession ==
  ASSUME Inv, NEW t \in DOMAIN sess, sess' = [sess EXCEPT ![t].seen = now],
         used' = [used EXCEPT ![t] = now], UNCHANGED <<now, issued, born, ended>>
  PROVE  SessionsSound'
<1>1. now \in Nat /\ t \in Tokens
  BY InvFacts DEF Inv, SessionsSound
<1>2. /\ Faithful(t) /\ used \in [Tokens -> Nat]
      /\ \A u \in DOMAIN sess : Faithful(u) /\ u \in Tokens
  BY InvFacts DEF Inv, SessionsSound
<1>3. DOMAIN sess' = DOMAIN sess /\ \A u \in DOMAIN sess \ {t} : sess'[u] = sess[u]
  BY SMT
<1>4. sess'[t] \in Session /\ sess'[t].seen = now /\ sess'[t].created = sess[t].created
  BY <1>1, <1>2 DEF Faithful, Session
<1>5. used' \in [Tokens -> Nat] /\ used'[t] = now /\ \A u \in Tokens \ {t} : used'[u] = used[u]
  BY <1>1, <1>2
<1>6. Faithful(t)'
  <2>1. sess[t].created \in Nat /\ sess[t].created <= now
    BY <1>1, <1>2 DEF Faithful, Session
  <2> QED BY <1>1, <1>2, <1>4, <1>5, <2>1 DEF Faithful
<1>7. \A u \in DOMAIN sess \ {t} : Faithful(u)'
  BY <1>2, <1>3, <1>5 DEF Faithful
<1> QED BY <1>3, <1>5, <1>6, <1>7 DEF Inv, SessionsSound
-----------------------------------------------------------------------------
\* Every step keeps the invariant.
LEMMA Steps == Inv /\ [Next]_vars => Inv'
<1> SUFFICES ASSUME Inv, [Next]_vars PROVE Inv'
  OBVIOUS
<1>0. /\ now \in Nat /\ now <= now /\ issued \in Nat /\ issued <= issued /\ issued <= mix.logins
      /\ mix \in Mixes /\ now \in 0 .. MaxTime
  BY InvFacts DEF Inv
<1>1. ASSUME NEW w \in Workers, Credentials(w) PROVE Inv'
  <2>1. /\ UNCHANGED <<mix, now, role, sess, fails, issued, used, born, ended>>
        /\ now' \in Nat /\ now <= now'
    BY <1>0, <1>1 DEF Credentials, history
  <2>2. PICK i \in mix.ips, u \in Users, right \in mix.secrets,
             kind \in mix.kinds \cap {"login", "header"}, old \in 0 .. issued :
          Goto(w, [at |-> "verify", ip |-> i, user |-> u, right |-> right, kind |-> kind,
                   token |-> old])
    BY <1>1 DEF Credentials
  <2> DEFINE r == [at |-> "verify", ip |-> i, user |-> u, right |-> right, kind |-> kind,
                   token |-> old]
  <2>3. r \in WithSecret' /\ r.at # "replace"
    BY <2>1, InvFacts DEF WithSecret
  <2> HIDE DEF r
  <2>4. RequestsSound'
    BY <1>0, <2>1, <2>2, <2>3, RequestStep DEF r
  <2> QED BY <1>0, <2>1, <2>4, SameSessions, SameWindows DEF Inv
<1>2. ASSUME NEW w \in Workers, Verify(w) PROVE Inv'
  <2>1. /\ UNCHANGED <<mix, now, role, sess, fails, issued, used, born, ended>>
        /\ now' \in Nat /\ now <= now'
    BY <1>0, <1>2 DEF Verify
  <2>2. PICK r : Goto(w, r) /\ r \in {Idle, [req[w] EXCEPT !.at = "fail"],
                                           [req[w] EXCEPT !.at = "reset"]}
    BY <1>2 DEF Verify
  <2>3. req[w] \in WithSecret
    BY <1>2, RequestFacts DEF Verify
  <2>4. r = Idle \/ (r \in WithSecret' /\ r.at # "replace")
    BY <2>1, <2>2, <2>3 DEF WithSecret
  <2>5. RequestsSound'
    BY <1>0, <2>1, <2>2, <2>4, RequestStep
  <2> QED BY <1>0, <2>1, <2>5, SameSessions, SameWindows DEF Inv
<1>3. ASSUME NEW w \in Workers, Fail(w) PROVE Inv'
  <2>1. /\ UNCHANGED <<mix, now, role, sess, issued, used, born, ended>>
        /\ now' \in Nat /\ now <= now' /\ Goto(w, Idle) /\ fails' \in AfterFailure(req[w].ip)
    BY <1>0, <1>3 DEF Fail
  <2>2. req[w].ip \in IPs
    <3>1. req[w] \in WithSecret
      BY <1>3, RequestFacts DEF Fail
    <3> QED BY <3>1 DEF WithSecret
  <2>3. WindowsSound'
    BY <2>1, <2>2, AfterFailureFacts DEF WindowsSound
  <2>4. RequestsSound'
    BY <1>0, <2>1, RequestStep
  <2> QED BY <1>0, <2>1, <2>3, <2>4, SameSessions DEF Inv
<1>4. ASSUME NEW w \in Workers, Reset(w) PROVE Inv'
  <2>1. /\ UNCHANGED <<mix, now, role, sess, issued, used, born, ended>>
        /\ now' \in Nat /\ now <= now' /\ fails' = Drop(fails, {req[w].ip})
    BY <1>0, <1>4 DEF Reset
  <2>2. req[w] \in WithSecret
    BY <1>4, RequestFacts DEF Reset
  <2>3. PICK r : /\ Goto(w, r)
                 /\ \/ r = Idle
                    \/ r = [req[w] EXCEPT !.at = "create"]
                    \/ r = [req[w] EXCEPT !.at = "replace"] /\ req[w].token # 0
    <3>1. req[w].kind = "header" \/ req[w].kind = "login"
      BY <2>2 DEF WithSecret
    <3> QED BY <1>4, <3>1 DEF Reset
  <2>4. r = Idle \/ (r \in WithSecret' /\ (r.at = "replace" => r.token # 0))
    BY <2>1, <2>2, <2>3 DEF WithSecret
  <2>5. RequestsSound'
    BY <1>0, <2>1, <2>3, <2>4, RequestStep
  <2>6. WindowsSound'
    <3>1. /\ DOMAIN fails' = DOMAIN fails \ {req[w].ip}
          /\ \A j \in DOMAIN fails' : fails'[j] = fails[j]
      BY <2>1, SMT DEF Drop, Restrict
    <3>2. /\ IsFiniteSet(DOMAIN fails) /\ Cardinality(DOMAIN fails) \in Nat /\ LimiterCap \in Nat
          /\ Cardinality(DOMAIN fails) <= LimiterCap
      BY InvFacts DEF Inv, WindowsSound
    <3>3. /\ IsFiniteSet(DOMAIN fails')
          /\ \/ Cardinality(DOMAIN fails') = Cardinality(DOMAIN fails)
             \/ Cardinality(DOMAIN fails') = Cardinality(DOMAIN fails) - 1
      BY <3>1, <3>2, FS_RemoveElement
    <3>4. Cardinality(DOMAIN fails') <= LimiterCap
      BY <3>2, <3>3
    <3> QED BY <2>1, <3>1, <3>3, <3>4 DEF Inv, WindowsSound
  <2> QED BY <1>0, <2>1, <2>5, <2>6, SameSessions DEF Inv
<1>5. ASSUME NEW w \in Workers, Replace(w) PROVE Inv'
  <2>1. /\ UNCHANGED <<mix, now, role, fails, issued, used, born>>
        /\ now' \in Nat /\ now <= now' /\ Goto(w, [req[w] EXCEPT !.at = "create"])
        /\ sess' = Drop(sess, {req[w].token}) /\ ended' = ended \cup {req[w].token}
    BY <1>0, <1>5 DEF Replace
  <2>2. req[w] \in WithSecret /\ req[w].at = "replace"
    BY <1>5, RequestFacts DEF Replace
  <2>3. req[w].token \in 1 .. issued
    <3>1. req[w].token \in 0 .. issued /\ req[w].token # 0
      BY <2>2 DEF WithSecret, Inv, RequestsSound
    <3> QED BY <1>0, <3>1
  <2>4. [req[w] EXCEPT !.at = "create"] \in WithSecret'
        /\ [req[w] EXCEPT !.at = "create"].at # "replace"
    BY <2>1, <2>2 DEF WithSecret
  <2>5. RequestsSound'
    BY <1>0, <2>1, <2>4, RequestStep
  <2>6. ended' \subseteq 1 .. issued
    BY <2>1, <2>3 DEF Inv, SessionsSound
  <2>7. SessionsSound'
    BY <2>1, <2>6, DroppedSessions
  <2> QED BY <1>0, <2>1, <2>5, <2>7, SameWindows DEF Inv
<1>6. ASSUME NEW w \in Workers, Create(w) PROVE Inv'
  <2>1. /\ UNCHANGED <<mix, now, role, fails>> /\ now' \in Nat /\ now <= now' /\ Goto(w, Idle)
        /\ issued' \in Nat /\ issued <= issued' /\ issued' <= mix.logins
    BY <1>0, <1>6, InvFacts DEF Create
  <2>2. RequestsSound'
    BY <2>1, RequestStep
  <2> QED BY <1>0, <1>6, <2>1, <2>2, SameWindows, CreatedSession DEF Inv
<1>7. ASSUME NEW w \in Workers, Cookie(w) PROVE Inv'
  <2>1. UNCHANGED <<mix, now, role, fails, issued, born, ended>> /\ now' \in Nat /\ now <= now'
    BY <1>0, <1>7 DEF Cookie
  <2>2. PICK t \in 1 .. issued :
          IF t \in DOMAIN sess /\ ~Expired(sess[t])
          THEN /\ sess' = [sess EXCEPT ![t].seen = now]
               /\ used' = [used EXCEPT ![t] = now]
               /\ Goto(w, [at |-> "reread", token |-> t, user |-> sess[t].user])
          ELSE /\ sess' = Drop(sess, {t})
               /\ UNCHANGED <<used, req>>
    BY <1>7 DEF Cookie
  <2>3. CASE t \in DOMAIN sess /\ ~Expired(sess[t])
    <3>1. [at |-> "reread", token |-> t, user |-> sess[t].user] \in WithSession'
      <4>1. sess[t].user \in Users
        BY <2>3 DEF Inv, SessionsSound, Faithful, Session
      <4> QED BY <2>1, <4>1 DEF WithSession
    <3>2. RequestsSound'
      BY <1>0, <2>1, <2>2, <2>3, <3>1, RequestStep
    <3>3. SessionsSound'
      BY <2>1, <2>2, <2>3, AcceptedSession
    <3> QED BY <1>0, <2>1, <3>2, <3>3, SameWindows DEF Inv
  <2>4. CASE ~(t \in DOMAIN sess /\ ~Expired(sess[t]))
    <3>1. sess' = Drop(sess, {t}) /\ UNCHANGED <<used, req>>
      BY <2>2, <2>4
    <3>2. RequestsSound'
      BY <2>1, <3>1, SameRequests DEF Inv, RequestsSound
    <3>3. ended' \subseteq ended \cup {t} /\ ended' \subseteq 1 .. issued
      BY <2>1 DEF Inv, SessionsSound
    <3>4. SessionsSound'
      BY <2>1, <3>1, <3>3, DroppedSessions
    <3> QED BY <1>0, <2>1, <3>2, <3>4, SameWindows DEF Inv
  <2> QED BY <2>3, <2>4
<1>8. ASSUME NEW w \in Workers, ReRead(w) PROVE Inv'
  <2>1. /\ UNCHANGED <<mix, now, role, sess, fails, issued, used, born, ended>>
        /\ now' \in Nat /\ now <= now'
    BY <1>0, <1>8 DEF ReRead, history
  <2>2. PICK r : Goto(w, r) /\ r \in {Idle, [req[w] EXCEPT !.at = "revoke"]}
    BY <1>8 DEF ReRead
  <2>3. req[w] \in WithSession
    BY <1>8, RequestFacts DEF ReRead
  <2>4. r = Idle \/ r \in WithSession'
    BY <2>1, <2>2, <2>3 DEF WithSession
  <2>5. RequestsSound'
    BY <1>0, <2>1, <2>2, <2>4, RequestStep
  <2> QED BY <1>0, <2>1, <2>5, SameSessions, SameWindows DEF Inv
<1>9. ASSUME NEW w \in Workers, Revoke(w) PROVE Inv'
  <2>1. /\ UNCHANGED <<mix, now, role, fails, issued, used, born>>
        /\ now' \in Nat /\ now <= now' /\ Goto(w, Idle)
        /\ sess' = Drop(sess, {req[w].token}) /\ ended' = ended \cup {req[w].token}
    BY <1>0, <1>9 DEF Revoke
  <2>2. req[w].token \in 1 .. issued
    <3>1. req[w] \in WithSession
      BY <1>9, RequestFacts DEF Revoke
    <3> QED BY <3>1 DEF WithSession
  <2>3. RequestsSound'
    BY <1>0, <2>1, RequestStep
  <2>4. ended' \subseteq 1 .. issued
    BY <2>1, <2>2 DEF Inv, SessionsSound
  <2>5. SessionsSound'
    BY <2>1, <2>4, DroppedSessions
  <2> QED BY <1>0, <2>1, <2>3, <2>5, SameWindows DEF Inv
<1>10. ASSUME NEW w \in Workers, Logout(w) PROVE Inv'
  <2>1. UNCHANGED <<mix, now, role, fails, req, issued, used, born>> /\ now' \in Nat /\ now <= now'
    BY <1>0, <1>10 DEF Logout
  <2>2. PICK t \in 1 .. issued : sess' = Drop(sess, {t}) /\ ended' = ended \cup {t}
    BY <1>10 DEF Logout
  <2>3. ended' \subseteq 1 .. issued
    BY <2>2 DEF Inv, SessionsSound
  <2>4. SessionsSound'
    BY <2>1, <2>2, <2>3, DroppedSessions
  <2>5. RequestsSound'
    BY <2>1, SameRequests DEF Inv, RequestsSound
  <2> QED BY <1>0, <2>1, <2>4, <2>5, SameWindows DEF Inv
<1>11. ASSUME NEW u \in Users, ChangeUser(u) PROVE Inv'
  <2>1. /\ UNCHANGED <<mix, now, sess, fails, req, issued, used, born, ended>>
        /\ now' \in Nat /\ now <= now' /\ role' \in [Users -> {"admin", "plain", "gone"}]
    BY <1>0, <1>11 DEF ChangeUser, Inv, RequestsSound
  <2> QED BY <1>0, <2>1, SameRequests, SameSessions, SameWindows DEF Inv
<1>12. CASE Tick \/ UNCHANGED vars
  <2>1. /\ UNCHANGED <<mix, role, sess, fails, req, issued, used, born, ended>>
        /\ now' \in Nat /\ now <= now' /\ now' \in 0 .. MaxTime
    BY <1>0, <1>12, InvFacts DEF Tick, vars, history
  <2>2. RequestsSound'
    BY <2>1, SameRequests DEF Inv, RequestsSound
  <2> QED BY <1>0, <2>1, <2>2, SameSessions, SameWindows DEF Inv
<1> QED BY <1>1, <1>2, <1>3, <1>4, <1>5, <1>6, <1>7, <1>8, <1>9, <1>10, <1>11, <1>12 DEF Next

\* The invariant holds in every reachable state.
LEMMA Invariance == Spec => []Inv
<1>1. Init => Inv
  <2> SUFFICES ASSUME Init PROVE Inv
    OBVIOUS
  <2>1. mix \in Mix /\ mix \in Mixes /\ MaxLogins \in Nat /\ MaxTime \in Nat
        /\ SessionCap \in Nat /\ LimiterCap \in Nat
    BY AdminSessionAssumption DEF Init
  <2>2. mix.logins \in 0 .. MaxLogins
    BY <2>1 DEF Mix
  <2>3. DOMAIN sess = {} /\ DOMAIN fails = {}
    BY DEF Init
  <2>4. IsFiniteSet({}) /\ Cardinality({}) = 0
    BY FS_EmptySet
  <2>5. RequestsSound
    BY <2>1, <2>2 DEF Init, RequestsSound, Idle
  <2>6. SessionsSound
    BY <2>1, <2>3, <2>4 DEF Init, SessionsSound
  <2>7. WindowsSound
    BY <2>1, <2>3, <2>4 DEF WindowsSound
  <2> QED BY <2>1, <2>5, <2>6, <2>7 DEF Init, Inv
<1> QED BY <1>1, Steps, PTL DEF Spec

(***************************************************************************)
(* sessionCap and loginLimiterCap bound the two tables whatever the        *)
(* requests, and no clock of a session or of a window runs ahead.          *)
(***************************************************************************)
THEOREM TypeCorrect == Spec => []TypeOK
<1>1. Inv => TypeOK
  <2> SUFFICES ASSUME Inv PROVE TypeOK
    OBVIOUS
  <2>1. \A t \in DOMAIN sess : sess[t].created <= sess[t].seen /\ sess[t].seen <= now
    BY DEF Inv, SessionsSound, Faithful
  <2>2. \A i \in DOMAIN fails : fails[i].count > 0 /\ fails[i].start <= now
    BY DEF Inv, WindowsSound, FailureWindow
  <2> QED BY <2>1, <2>2 DEF Inv, RequestsSound, SessionsSound, WindowsSound, TypeOK
<1> QED BY <1>1, Invariance, PTL
-----------------------------------------------------------------------------
\* Only cookieAuth lets a session in, and only one that the table holds.
LEMMA OnlyCookieAccepts ==
  ASSUME Inv, [Next]_vars, NEW w \in Workers, NEW t, Accepted(w, t)
  PROVE  t \in DOMAIN sess /\ ~Expired(sess[t])
<1>1. req[w] = Idle /\ req[w].at = "idle" /\ req'[w].at = "reread" /\ req'[w].token = t
  BY DEF Accepted, Idle
<1>2. req'[w] # req[w]
  BY DEF Accepted
<1>3. ASSUME NEW v \in Workers, NEW r, Goto(v, r) PROVE v = w /\ r = req'[w]
  BY <1>2, <1>3, GotoFacts
<1>4. ASSUME NEW v \in Workers, Credentials(v) PROVE FALSE
  <2>1. PICK r : Goto(v, r) /\ r.at = "verify"
    BY <1>4 DEF Credentials
  <2> QED BY <1>1, <1>3, <2>1
<1>5. ASSUME NEW v \in Workers,
             Verify(v) \/ Fail(v) \/ Reset(v) \/ Replace(v) \/ Create(v) \/ ReRead(v) \/ Revoke(v)
      PROVE  FALSE
  <2>1. req[v].at # "idle"
    BY <1>5 DEF Verify, Fail, Reset, Replace, Create, ReRead, Revoke
  <2>2. \E r : Goto(v, r)
    BY <1>5 DEF Verify, Fail, Reset, Replace, Create, ReRead, Revoke
  <2> QED BY <1>1, <1>3, <2>1, <2>2
<1>6. ASSUME NEW v \in Workers, Cookie(v) PROVE t \in DOMAIN sess /\ ~Expired(sess[t])
  <2>1. PICK u \in 1 .. issued :
          IF u \in DOMAIN sess /\ ~Expired(sess[u])
          THEN Goto(v, [at |-> "reread", token |-> u, user |-> sess[u].user])
          ELSE UNCHANGED req
    BY <1>6 DEF Cookie
  <2>2. /\ u \in DOMAIN sess /\ ~Expired(sess[u])
        /\ Goto(v, [at |-> "reread", token |-> u, user |-> sess[u].user])
    BY <1>2, <2>1
  <2>3. req'[w] = [at |-> "reread", token |-> u, user |-> sess[u].user]
    BY <1>3, <2>2
  <2> QED BY <1>1, <2>2, <2>3
<1>7. ASSUME UNCHANGED req PROVE FALSE
  BY <1>2, <1>7
<1>8. CASE \/ \E v \in Workers : Logout(v)
           \/ \E u \in Users : ChangeUser(u)
           \/ Tick \/ UNCHANGED vars
  BY <1>7, <1>8 DEF Logout, ChangeUser, Tick, vars
<1> QED BY <1>4, <1>5, <1>6, <1>8 DEF Next

(***************************************************************************)
(* However requests, logins, logouts and changes of users overlap: a       *)
(* session is accepted only within its idle and absolute lifetime, counted *)
(* from what really happened to it, and never after it was ended.          *)
(***************************************************************************)
THEOREM SessionsAreHonoured == Spec => SessionHonoured
<1> DEFINE Honoured == \A w \in Workers, t \in Tokens :
             Accepted(w, t) => /\ now - used[t] < SessionIdle
                               /\ now - born[t] < SessionTTL
                               /\ t \notin ended
<1>1. Inv /\ [Next]_vars => Honoured
  <2> SUFFICES ASSUME Inv, [Next]_vars, NEW w \in Workers, NEW t \in Tokens, Accepted(w, t)
               PROVE  /\ now - used[t] < SessionIdle
                      /\ now - born[t] < SessionTTL
                      /\ t \notin ended
    OBVIOUS
  <2>1. t \in DOMAIN sess /\ ~Expired(sess[t])
    BY OnlyCookieAccepts
  <2>2. Faithful(t)
    BY <2>1 DEF Inv, SessionsSound
  <2>3. now - sess[t].seen < SessionIdle /\ now - sess[t].created < SessionTTL
    <3>1. /\ sess[t].seen \in Nat /\ sess[t].created \in Nat /\ now \in Nat
          /\ SessionIdle \in Nat /\ SessionTTL \in Nat
      BY <2>2, InvFacts DEF Faithful, Session
    <3> QED BY <2>1, <3>1 DEF Expired
  <2> QED BY <2>2, <2>3 DEF Faithful
<1>2. Inv /\ [Next]_vars => [Honoured]_vars
  BY <1>1
<1> HIDE DEF Honoured
<1>3. Spec => [][Honoured]_vars
  BY <1>2, Invariance, PTL DEF Spec
<1> QED BY <1>3 DEF SessionHonoured, Honoured

\* A session leaves the table by its end, by expiry or to make room.
LEMMA SessionsLost ==
  ASSUME Inv, [Next]_vars, NEW t \in (DOMAIN sess \ DOMAIN sess') \ ended', ~Expired(sess[t])
  PROVE  \E w \in Workers : Create(w)
<1>1. ASSUME NEW u, sess' = Drop(sess, {u}) PROVE u = t
  <2>1. DOMAIN sess' = DOMAIN sess \ {u}
    BY <1>1, SMT DEF Drop, Restrict
  <2> QED BY <2>1
<1>2. ASSUME NEW w \in Workers, Replace(w) \/ Revoke(w) \/ Logout(w) PROVE FALSE
  <2>1. PICK u : sess' = Drop(sess, {u}) /\ u \in ended'
    BY <1>2 DEF Replace, Revoke, Logout
  <2> QED BY <1>1, <2>1
<1>3. ASSUME NEW w \in Workers, Cookie(w) PROVE FALSE
  <2>1. PICK u \in 1 .. issued :
          IF u \in DOMAIN sess /\ ~Expired(sess[u])
          THEN sess' = [sess EXCEPT ![u].seen = now]
          ELSE sess' = Drop(sess, {u})
    BY <1>3 DEF Cookie
  <2>2. CASE u \in DOMAIN sess /\ ~Expired(sess[u])
    <3>1. DOMAIN sess' = DOMAIN sess
      BY <2>1, <2>2
    <3> QED BY <3>1
  <2>3. CASE ~(u \in DOMAIN sess /\ ~Expired(sess[u]))
    BY <1>1, <2>1, <2>3
  <2> QED BY <2>2, <2>3
<1>4. sess' # sess
  OBVIOUS
<1>5. ASSUME NEW w \in Workers,
             Credentials(w) \/ Verify(w) \/ Fail(w) \/ Reset(w) \/ ReRead(w)
      PROVE  FALSE
  BY <1>4, <1>5 DEF Credentials, Verify, Fail, Reset, ReRead
<1>6. ASSUME (\E u \in Users : ChangeUser(u)) \/ Tick \/ UNCHANGED vars PROVE FALSE
  BY <1>4, <1>6 DEF ChangeUser, Tick, vars
<1> QED BY <1>2, <1>3, <1>5, <1>6 DEF Next

(***************************************************************************)
(* For any capacity: a good session that nobody ended is lost only to a    *)
(* login at a full table of good sessions, and only the least recently     *)
(* used one.                                                               *)
(***************************************************************************)
THEOREM OnlyIdlestGoes == Spec => OnlyIdlestEvicted
<1> DEFINE Evicts == \A t \in (DOMAIN sess \ DOMAIN sess') \ ended' :
             ~Expired(sess[t]) =>
               /\ Cardinality(DOMAIN sess) = SessionCap
               /\ \A u \in DOMAIN sess : ~Expired(sess[u]) /\ used[t] <= used[u]
<1>1. Inv /\ [Next]_vars => Evicts
  <2> SUFFICES ASSUME Inv, [Next]_vars, NEW t \in (DOMAIN sess \ DOMAIN sess') \ ended',
                      ~Expired(sess[t])
               PROVE  /\ Cardinality(DOMAIN sess) = SessionCap
                      /\ \A u \in DOMAIN sess : ~Expired(sess[u]) /\ used[t] <= used[u]
    OBVIOUS
  <2>1. PICK w \in Workers : Create(w)
    BY SessionsLost
  <2>2. PICK room \in Rooms : \E n, s : sess' = Put(room, n, s)
    BY <2>1 DEF Create
  <2>3. t \notin DOMAIN room
    <3>1. PICK n, s : sess' = Put(room, n, s)
      BY <2>2
    <3>2. DOMAIN sess' = DOMAIN room \cup {n}
      BY <3>1, SMT DEF Put
    <3> QED BY <3>2
  <2>4. /\ Cardinality(DOMAIN sess) = SessionCap
        /\ \A u \in DOMAIN sess : ~Expired(sess[u]) /\ sess[t].seen <= sess[u].seen
    BY <2>3, RoomFacts
  <2>5. \A u \in DOMAIN sess : sess[u].seen = used[u]
    BY DEF Inv, SessionsSound, Faithful
  <2> QED BY <2>4, <2>5
<1>2. Inv /\ [Next]_vars => [Evicts]_vars
  BY <1>1
<1> HIDE DEF Evicts
<1>3. Spec => [][Evicts]_vars
  BY <1>2, Invariance, PTL DEF Spec
<1> QED BY <1>3 DEF OnlyIdlestEvicted, Evicts
-----------------------------------------------------------------------------
(***************************************************************************)
(* The lockout.  A wrong secret is checked before its failure is counted,  *)
(* so the secrets checked in a window are those counted and those of the   *)
(* requests on their way to being counted; and a request gets past the     *)
(* gate only while the count leaves room for one more.                     *)
(***************************************************************************)
Open(i) == i \in DOMAIN fails /\ now - fails[i].start < Window
Counted(i) == IF Open(i) THEN fails[i].count ELSE 0
Since(i) == IF Open(i) THEN fails[i].start ELSE now
Wrongs(i) == {k \in DOMAIN wrong[i] : wrong[i][k] >= Since(i)}

\* Requests of an address about to be counted, and those past the gate.
Failing(i) == {w \in Workers : req[w].at = "fail" /\ req[w].ip = i}
Checking(i) == {w \in Workers : req[w].at \in {"verify", "fail"} /\ req[w].ip = i}

Limited(i) ==
  /\ wrong[i] \in Seq(Nat) /\ \A k \in DOMAIN wrong[i] : wrong[i][k] <= now
  /\ Cardinality(Wrongs(i)) <= Cardinality(Failing(i)) + Counted(i)
  /\ Counted(i) + Cardinality(Checking(i)) <= MaxFailures + Cardinality(Workers) - 1

LockInv == DOMAIN wrong = IPs /\ \A i \in IPs : Limited(i)
-----------------------------------------------------------------------------
\* The numbers of an address.
LEMMA Sizes ==
  ASSUME Inv, NEW i \in IPs
  PROVE  /\ IsFiniteSet(Failing(i)) /\ Cardinality(Failing(i)) \in Nat
         /\ IsFiniteSet(Checking(i)) /\ Cardinality(Checking(i)) \in Nat
         /\ Cardinality(Failing(i)) <= Cardinality(Checking(i))
         /\ Cardinality(Checking(i)) <= Cardinality(Workers)
         /\ Cardinality(Workers) \in Nat /\ Cardinality(Workers) >= 1
         /\ MaxFailures \in Nat /\ MaxFailures >= 1
         /\ Counted(i) \in Nat /\ Since(i) \in Nat /\ Since(i) <= now /\ now \in Nat
<1>1. IsFiniteSet(Workers) /\ Workers # {} /\ MaxFailures \in Nat \ {0}
  BY AdminSessionAssumption
<1>2. Checking(i) \in SUBSET Workers /\ Failing(i) \in SUBSET Checking(i)
  BY DEF Checking, Failing
<1>3. /\ IsFiniteSet(Checking(i)) /\ Cardinality(Checking(i)) <= Cardinality(Workers)
      /\ IsFiniteSet(Failing(i)) /\ Cardinality(Failing(i)) <= Cardinality(Checking(i))
  BY <1>1, <1>2, FS_Subset
<1>4. Cardinality(Workers) \in Nat /\ Cardinality(Workers) # 0
  BY <1>1, FS_CardinalityType, FS_EmptySet
<1>5. now \in Nat
  BY InvFacts
<1>6. Open(i) => fails[i].count \in Nat /\ fails[i].start \in Nat /\ fails[i].start <= now
  BY DEF Inv, WindowsSound, FailureWindow, Open
<1>7. Counted(i) \in Nat /\ Since(i) \in Nat /\ Since(i) <= now
  BY <1>5, <1>6 DEF Counted, Since
<1> QED BY <1>1, <1>3, <1>4, <1>5, <1>7, FS_CardinalityType

LEMMA WrongSizes ==
  ASSUME NEW i, Limited(i)
  PROVE  IsFiniteSet(Wrongs(i)) /\ Cardinality(Wrongs(i)) \in Nat
<1>1. DOMAIN wrong[i] = 1 .. Len(wrong[i]) /\ Len(wrong[i]) \in Nat
  BY LenProperties DEF Limited
<1>2. IsFiniteSet(DOMAIN wrong[i])
  BY <1>1, FS_Interval
<1>3. Wrongs(i) \in SUBSET DOMAIN wrong[i]
  BY DEF Wrongs
<1> QED BY <1>2, <1>3, FS_Subset, FS_CardinalityType

\* A worker moves.
LEMMA Moves ==
  ASSUME Inv, NEW w \in Workers, NEW r, Goto(w, r), NEW i
  PROVE  /\ Failing(i)' = IF r.at = "fail" /\ r.ip = i THEN Failing(i) \cup {w}
                          ELSE Failing(i) \ {w}
         /\ Checking(i)' = IF r.at \in {"verify", "fail"} /\ r.ip = i THEN Checking(i) \cup {w}
                           ELSE Checking(i) \ {w}
<1>1. req'[w] = r /\ \A v \in Workers \ {w} : req'[v] = req[v]
  BY GotoFacts
<1> QED BY <1>1 DEF Failing, Checking

\* A step that the counts do not notice.
LEMMA Quiet ==
  ASSUME Inv, NEW i \in IPs, Limited(i), now' = now, wrong'[i] = wrong[i],
         Counted(i)' = Counted(i), Since(i)' = Since(i),
         Failing(i)' = Failing(i), Checking(i)' \in SUBSET Checking(i)
  PROVE  Limited(i)'
<1>1. Cardinality(Checking(i)') \in Nat /\ Cardinality(Checking(i)') <= Cardinality(Checking(i))
  BY Sizes, FS_Subset, FS_CardinalityType
<1>2. Wrongs(i)' = Wrongs(i)
  BY DEF Wrongs
<1>3. Counted(i)' + Cardinality(Checking(i)') <= MaxFailures + Cardinality(Workers) - 1
  BY <1>1, Sizes DEF Limited
<1> QED BY <1>2, <1>3 DEF Limited

\* A step after which nothing counts.
LEMMA Forgotten ==
  ASSUME Inv, NEW i \in IPs, Limited(i), now' \in Nat, Counted(i)' = 0,
         \/ wrong'[i] = <<>>
         \/ wrong'[i] = wrong[i] /\ now < now' /\ Since(i)' = now',
         IsFiniteSet(Failing(i)'), Checking(i)' \in SUBSET Checking(i)
  PROVE  Limited(i)'
<1>1. Cardinality(Checking(i)') \in Nat /\ Cardinality(Checking(i)') <= Cardinality(Checking(i))
  BY Sizes, FS_Subset, FS_CardinalityType
<1>2. Counted(i)' + Cardinality(Checking(i)') <= MaxFailures + Cardinality(Workers) - 1
  BY <1>1, Sizes DEF Limited
<1>3. /\ wrong'[i] \in Seq(Nat) /\ \A k \in DOMAIN wrong'[i] : wrong'[i][k] <= now'
      /\ \A k \in DOMAIN wrong'[i] : ~(wrong'[i][k] >= Since(i)')
  <2>1. CASE wrong'[i] = <<>>
    BY <2>1
  <2>2. CASE wrong'[i] = wrong[i] /\ now < now' /\ Since(i)' = now'
    <3>1. \A k \in DOMAIN wrong[i] : wrong[i][k] \in Nat /\ wrong[i][k] <= now
      BY ElementOfSeq, LenProperties DEF Limited
    <3>2. now \in Nat /\ wrong[i] \in Seq(Nat)
      BY Sizes DEF Limited
    <3>3. \A k \in DOMAIN wrong[i] : wrong[i][k] <= now' /\ ~(wrong[i][k] >= now')
      BY <2>2, <3>1, <3>2
    <3> QED BY <2>2, <3>2, <3>3
  <2> QED BY <2>1, <2>2
<1>4. Wrongs(i)' = {}
  BY <1>3 DEF Wrongs
<1>5. Cardinality(Wrongs(i)') = 0 /\ Cardinality(Failing(i)') \in Nat
  BY <1>4, FS_EmptySet, FS_CardinalityType
<1> QED BY <1>2, <1>3, <1>5 DEF Limited
-----------------------------------------------------------------------------
\* checkCredentials: a request passes the gate only if the count leaves room.
LEMMA CredentialsStep ==
  ASSUME Inv, LockInv, NEW w \in Workers, Credentials(w), NEW i \in IPs
  PROVE  Limited(i)'
<1>1. PICK r : /\ Goto(w, r) /\ r.at = "verify" /\ ~Blocked(r.ip)
  <2>1. PICK a \in mix.ips, u \in Users, right \in mix.secrets,
             kind \in mix.kinds \cap {"login", "header"}, old \in 0 .. issued :
          /\ ~Blocked(a)
          /\ Goto(w, [at |-> "verify", ip |-> a, user |-> u, right |-> right, kind |-> kind,
                      token |-> old])
    BY DEF Credentials
  <2> DEFINE r == [at |-> "verify", ip |-> a, user |-> u, right |-> right, kind |-> kind,
                   token |-> old]
  <2>2. r.at = "verify" /\ r.ip = a
    OBVIOUS
  <2> HIDE DEF r
  <2>3. Goto(w, r) /\ ~Blocked(r.ip)
    BY <2>1, <2>2 DEF r
  <2> QED BY <2>2, <2>3
<1>2. UNCHANGED <<now, fails, wrong>> /\ req[w] = Idle
  BY DEF Credentials, history, Free
<1>3. Limited(i) /\ Counted(i)' = Counted(i) /\ Since(i)' = Since(i)
  BY <1>2 DEF LockInv, Counted, Since, Open
<1>4. w \notin Failing(i) /\ w \notin Checking(i)
  BY <1>2 DEF Failing, Checking, Idle
<1>5. Failing(i)' = Failing(i)
  BY <1>1, <1>4, Moves
<1>6. CASE r.ip # i
  <2>1. Checking(i)' = Checking(i)
    BY <1>1, <1>4, <1>6, Moves
  <2> QED BY <1>2, <1>3, <1>5, <2>1, Quiet
<1>7. CASE r.ip = i
  <2>1. Checking(i)' = Checking(i) \cup {w} /\ Checking(i)' \in SUBSET Workers
    <3>1. Checking(i)' = Checking(i) \cup {w}
      BY <1>1, <1>7, Moves
    <3> QED BY <3>1 DEF Checking
  <2>2. /\ Cardinality(Checking(i)') \in Nat
        /\ Cardinality(Checking(i)') <= Cardinality(Workers)
    BY <2>1, AdminSessionAssumption, FS_Subset, FS_CardinalityType
  <2>3. Counted(i) <= MaxFailures - 1
    <3>1. ~Blocked(i)
      BY <1>1, <1>7
    <3>2. CASE Open(i)
      <4>1. ~(fails[i].count >= MaxFailures) /\ Counted(i) = fails[i].count
        BY <3>1, <3>2 DEF Blocked, Open, Counted
      <4> QED BY <4>1, Sizes
    <3>3. CASE ~Open(i)
      BY <3>3, Sizes DEF Counted
    <3> QED BY <3>2, <3>3
  <2>4. Counted(i)' + Cardinality(Checking(i)') <= MaxFailures + Cardinality(Workers) - 1
    BY <1>3, <2>2, <2>3, Sizes
  <2>5. Wrongs(i)' = Wrongs(i)
    BY <1>2, <1>3 DEF Wrongs
  <2> QED BY <1>2, <1>3, <1>5, <2>4, <2>5 DEF Limited
<1> QED BY <1>6, <1>7

\* verifyAdmin: a wrong secret more, and a request more to be counted.
LEMMA VerifyStep ==
  ASSUME Inv, LockInv, NEW w \in Workers, Verify(w), NEW i \in IPs
  PROVE  Limited(i)'
<1> DEFINE bad == role[req[w].user] = "gone" \/ ~req[w].right
<1>1. /\ wrong' = IF bad THEN [wrong EXCEPT ![req[w].ip] = Append(@, now)] ELSE wrong
      /\ UNCHANGED <<now, fails>> /\ req[w].at = "verify"
  BY DEF Verify
<1>2. req[w] \in WithSecret /\ req[w].ip \in IPs
  BY <1>1, RequestFacts DEF WithSecret
<1>3. PICK r : /\ Goto(w, r)
               /\ IF bad THEN r.at = "fail" /\ r.ip = req[w].ip ELSE r.at \in {"idle", "reset"}
  <2>1. CASE bad
    <3>1. Goto(w, [req[w] EXCEPT !.at = "fail"])
      BY <2>1 DEF Verify
    <3>2. [req[w] EXCEPT !.at = "fail"].at = "fail" /\ [req[w] EXCEPT !.at = "fail"].ip = req[w].ip
      BY <1>2 DEF WithSecret
    <3> QED BY <2>1, <3>1, <3>2
  <2>2. CASE ~bad
    <3>1. Goto(w, Idle) \/ Goto(w, [req[w] EXCEPT !.at = "reset"])
      BY <2>2 DEF Verify
    <3>2. [req[w] EXCEPT !.at = "reset"].at = "reset" /\ Idle.at = "idle"
      BY <1>2 DEF WithSecret, Idle
    <3> QED BY <2>2, <3>1, <3>2
  <2> QED BY <2>1, <2>2
<1>4. Limited(i) /\ Counted(i)' = Counted(i) /\ Since(i)' = Since(i)
  BY <1>1 DEF LockInv, Counted, Since, Open
<1>5. w \notin Failing(i) /\ (w \in Checking(i) <=> req[w].ip = i)
  BY <1>1 DEF Failing, Checking
<1> HIDE DEF bad
<1>6. CASE ~bad \/ req[w].ip # i
  <2>1. wrong'[i] = wrong[i]
    BY <1>1, <1>6 DEF LockInv
  <2>2. Failing(i)' = Failing(i) /\ Checking(i)' \in SUBSET Checking(i)
    BY <1>3, <1>5, <1>6, Moves
  <2> QED BY <1>1, <1>4, <2>1, <2>2, Quiet
<1>7. CASE bad /\ req[w].ip = i
  <2>1. wrong'[i] = Append(wrong[i], now)
    BY <1>1, <1>2, <1>7 DEF LockInv
  <2>2. Failing(i)' = Failing(i) \cup {w} /\ Checking(i)' = Checking(i)
    BY <1>3, <1>5, <1>7, Moves
  <2>3. Cardinality(Failing(i)') = Cardinality(Failing(i)) + 1
    BY <1>5, <2>2, Sizes, FS_AddElement
  <2>4. wrong[i] \in Seq(Nat) /\ now \in Nat /\ \A k \in DOMAIN wrong[i] : wrong[i][k] <= now
    BY <1>4, Sizes DEF Limited
  <2> DEFINE n == Len(wrong[i]) + 1
  <2>5. /\ wrong'[i] \in Seq(Nat) /\ DOMAIN wrong'[i] = DOMAIN wrong[i] \cup {n}
        /\ n \notin DOMAIN wrong[i] /\ wrong'[i][n] = now
        /\ \A k \in DOMAIN wrong[i] : wrong'[i][k] = wrong[i][k]
    BY <2>1, <2>4, AppendProperties, LenProperties
  <2> HIDE DEF n
  <2>6. Wrongs(i)' = Wrongs(i) \cup {n} /\ n \notin Wrongs(i)
    <3>1. now >= Since(i)
      BY Sizes
    <3> QED BY <1>4, <2>5, <3>1 DEF Wrongs
  <2>7. Cardinality(Wrongs(i)') = Cardinality(Wrongs(i)) + 1 /\ Cardinality(Wrongs(i)) \in Nat
    BY <1>4, <2>6, WrongSizes, FS_AddElement
  <2>8. Cardinality(Wrongs(i)') <= Cardinality(Failing(i)') + Counted(i)'
    BY <1>4, <2>3, <2>7, Sizes DEF Limited
  <2>9. \A k \in DOMAIN wrong'[i] : wrong'[i][k] <= now
    BY <2>4, <2>5
  <2> QED BY <1>1, <1>4, <2>2, <2>5, <2>8, <2>9 DEF Limited
<1> QED BY <1>6, <1>7

\* failCredentials: a request that was to be counted is counted.
LEMMA FailStep ==
  ASSUME Inv, LockInv, NEW w \in Workers, Fail(w), NEW i \in IPs
  PROVE  Limited(i)'
<1> DEFINE evicted == {j \in DOMAIN fails \ DOMAIN fails' : now - fails[j].start < Window}
<1>1. /\ req[w].at = "fail" /\ fails' \in AfterFailure(req[w].ip) /\ Goto(w, Idle) /\ now' = now
      /\ wrong' = [j \in IPs |-> IF j \in evicted THEN <<>> ELSE wrong[j]]
  BY DEF Fail
<1>2. req[w].ip \in IPs
  BY <1>1, RequestFacts DEF WithSecret
<1> DEFINE a == req[w].ip
<1>3. /\ \A j \in DOMAIN fails' \ {a} : j \in DOMAIN fails /\ fails'[j] = fails[j]
      /\ a \in DOMAIN fails'
      /\ IF a \in DOMAIN fails /\ now - fails[a].start < Window
         THEN fails'[a].start = fails[a].start /\ fails'[a].count = fails[a].count + 1
         ELSE fails'[a].start = now /\ fails'[a].count = 1
  BY <1>1, <1>2, AfterFailureFacts
<1>4. Failing(i)' = Failing(i) \ {w} /\ Checking(i)' = Checking(i) \ {w}
  <2>1. Idle.at = "idle"
    BY DEF Idle
  <2> QED BY <1>1, <2>1, Moves
<1>5. Limited(i)
  BY DEF LockInv
<1>6. CASE i # a
  <2>1. Failing(i)' = Failing(i)
    BY <1>4, <1>6 DEF Failing
  <2>2. CASE i \in evicted
    <3>1. wrong'[i] = <<>> /\ Counted(i)' = 0
      BY <1>1, <2>2 DEF Counted, Open
    <3> QED BY <1>1, <1>4, <1>5, <2>1, <3>1, Sizes, Forgotten
  <2>3. CASE i \notin evicted
    <3>1. wrong'[i] = wrong[i]
      BY <1>1, <2>3
    <3>2. Open(i)' <=> Open(i)
      BY <1>1, <1>3, <1>6, <2>3 DEF Open
    <3>3. Open(i) => fails'[i] = fails[i]
      BY <1>3, <1>6, <3>2 DEF Open
    <3>4. Counted(i)' = Counted(i) /\ Since(i)' = Since(i)
      BY <1>1, <3>2, <3>3 DEF Counted, Since
    <3> QED BY <1>1, <1>4, <1>5, <2>1, <3>1, <3>4, Quiet
  <2> QED BY <2>2, <2>3
<1>7. CASE i = a
  <2>1. w \in Failing(i) /\ w \in Checking(i)
    BY <1>1, <1>7 DEF Failing, Checking
  <2>2. /\ Cardinality(Failing(i)') = Cardinality(Failing(i)) - 1
        /\ Cardinality(Checking(i)') = Cardinality(Checking(i)) - 1
    BY <1>4, <2>1, Sizes, FS_RemoveElement
  <2>3. wrong'[i] = wrong[i]
    BY <1>1, <1>3, <1>7
  <2>4. Counted(i)' = Counted(i) + 1 /\ Since(i)' = Since(i)
    <3>0. now \in Nat /\ Window \in Nat \ {0}
      BY InvFacts, AdminSessionAssumption
    <3>1. CASE Open(i)
      <4>1. Open(i)' /\ fails'[i].start = fails[i].start /\ fails'[i].count = fails[i].count + 1
        BY <1>1, <1>3, <1>7, <3>1 DEF Open
      <4> QED BY <3>1, <4>1 DEF Counted, Since
    <3>2. CASE ~Open(i)
      <4>1. fails'[i].start = now /\ fails'[i].count = 1
        BY <1>3, <1>7, <3>2 DEF Open
      <4>2. Open(i)'
        BY <1>1, <1>3, <1>7, <3>0, <4>1 DEF Open
      <4> QED BY <3>2, <4>1, <4>2 DEF Counted, Since
    <3> QED BY <3>1, <3>2
  <2>5. Wrongs(i)' = Wrongs(i)
    BY <2>3, <2>4 DEF Wrongs
  <2>6. /\ Cardinality(Wrongs(i)') <= Cardinality(Failing(i)') + Counted(i)'
        /\ Counted(i)' + Cardinality(Checking(i)') <= MaxFailures + Cardinality(Workers) - 1
    <3>1. /\ Cardinality(Wrongs(i)) \in Nat
          /\ Cardinality(Wrongs(i)) <= Cardinality(Failing(i)) + Counted(i)
          /\ Counted(i) + Cardinality(Checking(i)) <= MaxFailures + Cardinality(Workers) - 1
      BY <1>5, WrongSizes DEF Limited
    <3>2. Cardinality(Wrongs(i)') = Cardinality(Wrongs(i))
      BY <2>5
    <3> QED BY <2>2, <2>4, <3>1, <3>2, Sizes
  <2> QED BY <1>1, <1>5, <2>3, <2>6 DEF Limited
<1> QED BY <1>6, <1>7

\* A success forgets the failures of its address.
LEMMA ResetStep ==
  ASSUME Inv, LockInv, NEW w \in Workers, Reset(w), NEW i \in IPs
  PROVE  Limited(i)'
<1>1. /\ req[w].at = "reset" /\ fails' = Drop(fails, {req[w].ip}) /\ now' = now
      /\ wrong' = [wrong EXCEPT ![req[w].ip] = <<>>]
  BY DEF Reset
<1>2. req[w] \in WithSecret /\ req[w].ip \in IPs
  BY <1>1, RequestFacts DEF WithSecret
<1>3. PICK r : Goto(w, r) /\ r.at \notin {"verify", "fail"}
  <2>1. \/ Goto(w, Idle)
        \/ Goto(w, [req[w] EXCEPT !.at = "create"])
        \/ Goto(w, [req[w] EXCEPT !.at = "replace"])
    BY DEF Reset
  <2>2. /\ Idle.at = "idle" /\ [req[w] EXCEPT !.at = "create"].at = "create"
        /\ [req[w] EXCEPT !.at = "replace"].at = "replace"
    BY <1>2 DEF WithSecret, Idle
  <2> QED BY <2>1, <2>2
<1>4. Limited(i) /\ w \notin Failing(i) /\ w \notin Checking(i)
  BY <1>1 DEF LockInv, Failing, Checking
<1>5. Failing(i)' = Failing(i) /\ Checking(i)' = Checking(i)
  BY <1>3, <1>4, Moves
<1>6. /\ DOMAIN fails' = DOMAIN fails \ {req[w].ip}
      /\ \A j \in DOMAIN fails' : fails'[j] = fails[j]
  BY <1>1, SMT DEF Drop, Restrict
<1>7. CASE i = req[w].ip
  <2>1. wrong'[i] = <<>> /\ Counted(i)' = 0
    BY <1>1, <1>2, <1>6, <1>7 DEF LockInv, Counted, Open
  <2> QED BY <1>1, <1>4, <1>5, <2>1, Sizes, Forgotten
<1>8. CASE i # req[w].ip
  <2>1. wrong'[i] = wrong[i]
    BY <1>1, <1>8 DEF LockInv
  <2>2. Counted(i)' = Counted(i) /\ Since(i)' = Since(i)
    BY <1>1, <1>6, <1>8 DEF Counted, Since, Open
  <2> QED BY <1>1, <1>4, <1>5, <2>1, <2>2, Quiet
<1> QED BY <1>7, <1>8

\* A window elapses, or a moment passes in which nothing was counted.
LEMMA TickStep ==
  ASSUME Inv, LockInv, Tick, NEW i \in IPs
  PROVE  Limited(i)'
<1>1. now' = now + 1 /\ UNCHANGED <<fails, req, wrong>> /\ now \in Nat /\ Window \in Nat
  BY InvFacts DEF Tick, history
<1>2. Limited(i) /\ Failing(i)' = Failing(i) /\ Checking(i)' = Checking(i)
  BY <1>1 DEF LockInv, Failing, Checking
<1>3. i \in DOMAIN fails => fails[i].start \in Nat
  BY DEF Inv, WindowsSound, FailureWindow
<1>4. CASE Open(i)'
  <2>1. Open(i)
    BY <1>1, <1>3, <1>4 DEF Open
  <2>2. Counted(i)' = Counted(i) /\ Since(i)' = Since(i)
    BY <1>1, <1>4, <2>1 DEF Counted, Since
  <2>3. Wrongs(i)' = Wrongs(i)
    BY <1>1, <2>2 DEF Wrongs
  <2>4. \A k \in DOMAIN wrong[i] : wrong[i][k] <= now'
    <3>1. \A k \in DOMAIN wrong[i] : wrong[i][k] \in Nat /\ wrong[i][k] <= now
      BY <1>2, ElementOfSeq, LenProperties DEF Limited
    <3> QED BY <1>1, <3>1
  <2> QED BY <1>1, <1>2, <2>2, <2>3, <2>4 DEF Limited
<1>5. CASE ~Open(i)'
  <2>1. Counted(i)' = 0 /\ Since(i)' = now'
    BY <1>5 DEF Counted, Since
  <2>2. now' \in Nat /\ now < now'
    BY <1>1
  <2> QED BY <1>1, <1>2, <2>1, <2>2, Sizes, Forgotten
<1> QED BY <1>4, <1>5

\* The other steps neither check a secret nor count a failure.
LEMMA OtherStep ==
  ASSUME Inv, LockInv, UNCHANGED <<now, fails, wrong>>, NEW i \in IPs,
         \/ req' = req
         \/ \E w \in Workers : \E r : /\ Goto(w, r) /\ r.at \notin {"verify", "fail"}
                                      /\ req[w].at # "fail"
  PROVE  Limited(i)'
<1>1. Failing(i)' = Failing(i) /\ Checking(i)' \in SUBSET Checking(i)
  <2>1. CASE req' = req
    BY <2>1 DEF Failing, Checking
  <2>2. ASSUME NEW w \in Workers, NEW r, Goto(w, r), r.at \notin {"verify", "fail"},
               req[w].at # "fail"
        PROVE  Failing(i)' = Failing(i) /\ Checking(i)' \in SUBSET Checking(i)
    <3>1. w \notin Failing(i)
      BY <2>2 DEF Failing
    <3> QED BY <2>2, <3>1, Moves
  <2> QED BY <2>1, <2>2
<1>2. Limited(i) /\ Counted(i)' = Counted(i) /\ Since(i)' = Since(i)
  BY DEF LockInv, Counted, Since, Open
<1> QED BY <1>1, <1>2, Quiet

LEMMA LockSteps == Inv /\ LockInv /\ [Next]_vars => LockInv'
<1> SUFFICES ASSUME Inv, LockInv, [Next]_vars PROVE LockInv'
  OBVIOUS
<1>1. DOMAIN wrong' = IPs
  BY DEF LockInv, Next, Credentials, Verify, Fail, Reset, Replace, Create, Cookie, ReRead, Revoke,
         Logout, ChangeUser, Tick, vars, history
<1>2. ASSUME NEW i \in IPs PROVE Limited(i)'
  <2>1. CASE UNCHANGED vars
    BY <2>1, OtherStep DEF vars, history
  <2>2. ASSUME NEW u \in Users, ChangeUser(u) PROVE Limited(i)'
    BY <2>2, OtherStep DEF ChangeUser
  <2>3. ASSUME NEW w \in Workers, Replace(w) PROVE Limited(i)'
    <3>1. req[w] \in WithSecret
      BY <2>3, RequestFacts DEF Replace
    <3>2. [req[w] EXCEPT !.at = "create"].at = "create"
      BY <3>1 DEF WithSecret
    <3>3. /\ UNCHANGED <<now, fails, wrong>> /\ Goto(w, [req[w] EXCEPT !.at = "create"])
          /\ req[w].at = "replace"
      BY <2>3 DEF Replace
    <3> QED BY <3>2, <3>3, OtherStep
  <2>4. ASSUME NEW w \in Workers, Create(w) PROVE Limited(i)'
    <3>1. Goto(w, Idle) /\ Idle.at = "idle" /\ req[w].at = "create" /\ UNCHANGED <<now, fails, wrong>>
      BY <2>4 DEF Create, Idle
    <3> QED BY <3>1, OtherStep
  <2>5. ASSUME NEW w \in Workers, Cookie(w) PROVE Limited(i)'
    <3>1. req[w] = Idle /\ UNCHANGED <<now, fails, wrong>>
      BY <2>5 DEF Cookie, Free
    <3>2. req' = req \/ \E r : Goto(w, r) /\ r.at = "reread"
      BY <2>5 DEF Cookie
    <3> QED BY <3>1, <3>2, OtherStep DEF Idle
  <2>6. ASSUME NEW w \in Workers, ReRead(w) PROVE Limited(i)'
    <3>1. req[w].at = "reread" /\ UNCHANGED <<now, fails, wrong>>
      BY <2>6 DEF ReRead, history
    <3>2. req[w] \in WithSession
      BY <3>1, RequestFacts
    <3>3. [req[w] EXCEPT !.at = "revoke"].at = "revoke" /\ Idle.at = "idle"
      BY <3>2 DEF WithSession, Idle
    <3>4. Goto(w, Idle) \/ Goto(w, [req[w] EXCEPT !.at = "revoke"])
      BY <2>6 DEF ReRead
    <3> QED BY <3>1, <3>3, <3>4, OtherStep
  <2>7. ASSUME NEW w \in Workers, Revoke(w) PROVE Limited(i)'
    <3>1. Goto(w, Idle) /\ Idle.at = "idle" /\ req[w].at = "revoke" /\ UNCHANGED <<now, fails, wrong>>
      BY <2>7 DEF Revoke, Idle
    <3> QED BY <3>1, OtherStep
  <2>8. ASSUME NEW w \in Workers, Logout(w) PROVE Limited(i)'
    BY <2>8, OtherStep DEF Logout
  <2> QED BY <2>1, <2>2, <2>3, <2>4, <2>5, <2>6, <2>7, <2>8, CredentialsStep, VerifyStep, FailStep,
             ResetStep, TickStep DEF Next
<1> QED BY <1>1, <1>2 DEF LockInv

(***************************************************************************)
(* loginMaxFailures, for any number of goroutines and addresses and any    *)
(* capacity of the table: however the requests overlap, an address gets at *)
(* most that many wrong secrets checked in a window that is open, and one  *)
(* for each other goroutine that was past the gate already.                *)
(***************************************************************************)
THEOREM LockoutBoundHolds == Spec => []LockoutBound
<1>1. Init => LockInv
  <2> SUFFICES ASSUME Init, NEW i \in IPs PROVE Limited(i) /\ DOMAIN wrong = IPs
    BY DEF LockInv, Init
  <2>1. wrong[i] = <<>> /\ DOMAIN wrong = IPs /\ DOMAIN fails = {} /\ \A w \in Workers : req[w] = Idle
    BY DEF Init
  <2>2. Wrongs(i) = {} /\ Failing(i) = {} /\ Checking(i) = {} /\ Counted(i) = 0
    BY <2>1 DEF Wrongs, Failing, Checking, Counted, Open, Idle
  <2>3. /\ Cardinality({}) = 0 /\ MaxFailures \in Nat \ {0} /\ Cardinality(Workers) \in Nat
        /\ Cardinality(Workers) # 0
    BY AdminSessionAssumption, FS_EmptySet, FS_CardinalityType
  <2> QED BY <2>1, <2>2, <2>3 DEF Limited
<1>2. Inv /\ LockInv => LockoutBound
  <2> SUFFICES ASSUME Inv, LockInv, NEW i \in DOMAIN fails, now - fails[i].start < Window
               PROVE  Cardinality({k \in DOMAIN wrong[i] : wrong[i][k] >= fails[i].start})
                        <= MaxFailures + Cardinality(Workers) - 1
    BY DEF LockoutBound
  <2>1. i \in IPs /\ Limited(i)
    BY DEF Inv, WindowsSound, LockInv
  <2>2. Open(i) /\ Since(i) = fails[i].start
    BY DEF Open, Since
  <2>3. Cardinality(Wrongs(i)) <= MaxFailures + Cardinality(Workers) - 1
    <3>1. /\ Cardinality(Wrongs(i)) \in Nat
          /\ Cardinality(Wrongs(i)) <= Cardinality(Failing(i)) + Counted(i)
          /\ Counted(i) + Cardinality(Checking(i)) <= MaxFailures + Cardinality(Workers) - 1
      BY <2>1, WrongSizes DEF Limited
    <3> QED BY <2>1, <3>1, Sizes
  <2> QED BY <2>2, <2>3 DEF Wrongs
<1> QED BY <1>1, <1>2, LockSteps, Invariance, PTL DEF Spec
=============================================================================
