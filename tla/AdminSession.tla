---------------------------- MODULE AdminSession ----------------------------
(***************************************************************************)
(* Authentication on the admin surface: the credential check with its      *)
(* per-address lockout (auth/limiter.go), the login form, header           *)
(* credentials, browser sessions (auth/session.go) and the user records    *)
(* they depend on (storage/storage.go).                                    *)
(*                                                                         *)
(* Both tables have a mutex: an operation on one is a step.  A request     *)
(* takes several steps, and users change in between.  Whether a secret is  *)
(* right and whether the origin check passed are inputs.                   *)
(***************************************************************************)
EXTENDS Integers, Sequences, FiniteSets, Functions

CONSTANTS
  Workers,      \* goroutines serving admin requests
  IPs,          \* client addresses
  Users,        \* access keys
  Mixes,        \* what clients and administrators may do: see Mix
  SessionCap,   \* sessionCap
  SessionIdle,  \* SessionIdleTimeout
  SessionTTL,   \* SessionAbsoluteTTL
  MaxFailures,  \* loginMaxFailures
  Window,       \* LoginFailureWindow
  LimiterCap,   \* loginLimiterCap
  MaxLogins,    \* bound on the number of sessions created, for any mix
  MaxTime       \* bound on the clock

(***************************************************************************)
(* The requests of a behaviour: where they come from, their kinds, the     *)
(* secrets they present (right or wrong), whether users are changed        *)
(* meanwhile, whether requests overlap, and a bound on the logins.         *)
(***************************************************************************)
Mix == [ips : SUBSET IPs,
        kinds : SUBSET {"login", "header", "cookie", "logout"},
        secrets : SUBSET BOOLEAN, roleChanges : BOOLEAN, overlap : BOOLEAN,
        logins : 0 .. MaxLogins]

ASSUME AdminSessionAssumption ==
  /\ Mixes \subseteq Mix
  /\ SessionCap \in Nat \ {0} /\ LimiterCap \in Nat \ {0} /\ MaxFailures \in Nat \ {0}
  /\ SessionIdle \in Nat \ {0} /\ SessionTTL \in Nat \ {0} /\ Window \in Nat \ {0}
  /\ MaxLogins \in Nat /\ MaxTime \in Nat
  /\ IsFiniteSet(Workers) /\ Workers # {}

VARIABLES
  mix,      \* what is done, never changed
  now,      \* the clock
  role,     \* user records: "admin", "plain" or "gone"
  sess,     \* byDigest: the live sessions, by token
  fails,    \* byKey: the failure windows, by address
  req,      \* the request a worker serves
  issued,   \* tokens issued so far; they are 1 .. issued
  used,     \* history: when each token was issued or last accepted
  born,     \* history: when each token was issued
  ended,    \* history: tokens revoked by a logout or a new login
  wrong     \* history: the times of the wrong secrets checked for an address
            \* since its last success or the eviction of its window

history == <<used, born, ended, wrong>>
vars == <<mix, now, role, sess, fails, req, issued, history>>

Tokens == 1 .. MaxLogins
Idle == [at |-> "idle"]
Put(f, k, v) == [x \in DOMAIN f \cup {k} |-> IF x = k THEN v ELSE f[x]]
Drop(f, K) == Restrict(f, DOMAIN f \ K)

Init ==
  /\ mix \in Mixes
  /\ now = 0
  /\ role = [u \in Users |-> "admin"]
  /\ sess = <<>>
  /\ fails = <<>>
  /\ req = [w \in Workers |-> Idle]
  /\ issued = 0
  /\ used = [t \in Tokens |-> 0] /\ born = [t \in Tokens |-> 0]
  /\ ended = {}
  /\ wrong = [i \in IPs |-> <<>>]

Goto(w, r) == req' = [req EXCEPT ![w] = r]

\* A worker that may take a request.
Free(w) == req[w] = Idle /\ (mix.overlap \/ \A v \in Workers : req[v] = Idle)
-----------------------------------------------------------------------------
\* Mutant: the absolute lifetime is forgotten.
ExpiredIdle(s) == now - s.seen >= SessionIdle

\* expired
Expired(s) == now - s.seen >= SessionIdle \/ now - s.created >= SessionTTL

\* Mutant: the oldest session goes.
VictimsFIFO(t) == {u \in DOMAIN t : \A v \in DOMAIN t : t[u].created <= t[v].created}

\* Mutant: nothing is evicted.
VictimsNone(t) == {0}

\* evictLRULocked: the least recently used one, whichever comes first among equals.
Victims(t) == {u \in DOMAIN t : \A v \in DOMAIN t : t[u].seen <= t[v].seen}

\* What create leaves of the table: at the cap the expired sessions go, and if
\* that makes no room one more.
Rooms ==
  LET pruned == Drop(sess, {t \in DOMAIN sess : Expired(sess[t])})
  IN CASE Cardinality(DOMAIN sess) < SessionCap -> {sess}
       [] Cardinality(DOMAIN sess) >= SessionCap /\ Cardinality(DOMAIN pruned) < SessionCap ->
            {pruned}
       [] OTHER -> {Drop(pruned, {v}) : v \in Victims(pruned)}
-----------------------------------------------------------------------------
\* Mutant: one failure more.
BlockedLate(i) ==
  i \in DOMAIN fails /\ now - fails[i].start < Window /\ fails[i].count > MaxFailures

\* blocked
Blocked(i) ==
  i \in DOMAIN fails /\ now - fails[i].start < Window /\ fails[i].count >= MaxFailures

\* fail: a new window takes a place, after elapsed windows and then the oldest went.
AfterFailure(i) ==
  IF i \in DOMAIN fails /\ now - fails[i].start < Window
  THEN {[fails EXCEPT ![i].count = @ + 1]}
  ELSE LET others == Drop(fails, {i})
           open == Drop(others, {j \in DOMAIN others : now - others[j].start >= Window})
           oldest == {j \in DOMAIN open : \A k \in DOMAIN open : open[j].start <= open[k].start}
           left == CASE Cardinality(DOMAIN others) < LimiterCap -> {others}
                     [] Cardinality(DOMAIN others) >= LimiterCap
                          /\ Cardinality(DOMAIN open) < LimiterCap -> {open}
                     [] OTHER -> {Drop(open, {j}) : j \in oldest}
       IN {Put(f, i, [count |-> 1, start |-> now]) : f \in left}
-----------------------------------------------------------------------------
(***************************************************************************)
(* checkCredentials, for header credentials and for the login form.        *)
(***************************************************************************)
Credentials(w) ==
  /\ Free(w)
  /\ \E i \in mix.ips, u \in Users, right \in mix.secrets,
        kind \in mix.kinds \cap {"login", "header"},
        old \in 0 .. issued :
       /\ ~Blocked(i)
       /\ kind = "header" => old = 0
       /\ Goto(w, [at |-> "verify", ip |-> i, user |-> u, right |-> right, kind |-> kind,
                   token |-> old])
  /\ UNCHANGED <<mix, now, role, sess, fails, issued, history>>

\* verifyAdmin: an unknown user is a wrong secret; missing rights are not counted.
Verify(w) ==
  /\ req[w].at = "verify"
  /\ LET r == req[w]
         bad == role[r.user] = "gone" \/ ~r.right
     IN /\ wrong' = IF bad THEN [wrong EXCEPT ![r.ip] = Append(@, now)] ELSE wrong
        /\ Goto(w, CASE bad -> [r EXCEPT !.at = "fail"]
                     [] ~bad /\ role[r.user] = "plain" -> Idle
                     [] OTHER -> [r EXCEPT !.at = "reset"])
  /\ UNCHANGED <<mix, now, role, sess, fails, issued, used, born, ended>>

\* failCredentials
Fail(w) ==
  /\ req[w].at = "fail"
  /\ fails' \in AfterFailure(req[w].ip)
  /\ LET evicted == {i \in DOMAIN fails \ DOMAIN fails' : now - fails[i].start < Window}
     IN wrong' = [i \in IPs |-> IF i \in evicted THEN <<>> ELSE wrong[i]]
  /\ Goto(w, Idle)
  /\ UNCHANGED <<mix, now, role, sess, issued, used, born, ended>>

\* A success forgets the failures of its address; header credentials are then served.
Reset(w) ==
  /\ req[w].at = "reset"
  /\ fails' = Drop(fails, {req[w].ip})
  /\ wrong' = [wrong EXCEPT ![req[w].ip] = <<>>]
  /\ Goto(w, CASE req[w].kind = "header" -> Idle
               [] req[w].kind = "login" /\ req[w].token = 0 -> [req[w] EXCEPT !.at = "create"]
               [] OTHER -> [req[w] EXCEPT !.at = "replace"])
  /\ UNCHANGED <<mix, now, role, sess, issued, used, born, ended>>

\* LoginHandler: a session that came along with the login is revoked ...
Replace(w) ==
  /\ req[w].at = "replace"
  /\ sess' = Drop(sess, {req[w].token})
  /\ ended' = ended \cup {req[w].token}
  /\ Goto(w, [req[w] EXCEPT !.at = "create"])
  /\ UNCHANGED <<mix, now, role, fails, issued, used, born, wrong>>

\* ... and a new one is created.
Create(w) ==
  /\ req[w].at = "create"
  /\ issued < mix.logins
  /\ LET t == issued + 1
     IN /\ issued' = t
        /\ \E room \in Rooms :
             sess' = Put(room, t, [user |-> req[w].user, created |-> now, seen |-> now])
        /\ used' = [used EXCEPT ![t] = now]
        /\ born' = [born EXCEPT ![t] = now]
  /\ Goto(w, Idle)
  /\ UNCHANGED <<mix, now, role, fails, ended, wrong>>
-----------------------------------------------------------------------------
(***************************************************************************)
(* cookieAuth: lookup slides the idle window, then the user is read again. *)
(***************************************************************************)
Cookie(w) ==
  /\ Free(w)
  /\ "cookie" \in mix.kinds
  /\ \E t \in 1 .. issued :
       IF t \in DOMAIN sess /\ ~Expired(sess[t])
       THEN /\ sess' = [sess EXCEPT ![t].seen = now]
            /\ used' = [used EXCEPT ![t] = now]
            /\ Goto(w, [at |-> "reread", token |-> t, user |-> sess[t].user])
       ELSE /\ sess' = Drop(sess, {t})
            /\ UNCHANGED <<used, req>>
  /\ UNCHANGED <<mix, now, role, fails, issued, born, ended, wrong>>

ReRead(w) ==
  /\ req[w].at = "reread"
  /\ Goto(w, IF role[req[w].user] = "admin" THEN Idle ELSE [req[w] EXCEPT !.at = "revoke"])
  /\ UNCHANGED <<mix, now, role, sess, fails, issued, history>>

Revoke(w) ==
  /\ req[w].at = "revoke"
  /\ sess' = Drop(sess, {req[w].token})
  /\ ended' = ended \cup {req[w].token}
  /\ Goto(w, Idle)
  /\ UNCHANGED <<mix, now, role, fails, issued, used, born, wrong>>

\* LogoutHandler
Logout(w) ==
  /\ Free(w)
  /\ "logout" \in mix.kinds
  /\ \E t \in 1 .. issued :
       /\ sess' = Drop(sess, {t})
       /\ ended' = ended \cup {t}
  /\ UNCHANGED <<mix, now, role, fails, req, issued, used, born, wrong>>
-----------------------------------------------------------------------------
\* UpdateUserACL and DeleteUser: an access key is random and does not come back.
ChangeUser(u) ==
  /\ mix.roleChanges
  /\ role[u] # "gone"
  /\ role' \in {[role EXCEPT ![u] = r] : r \in {"admin", "plain", "gone"} \ {role[u]}}
  /\ UNCHANGED <<mix, now, sess, fails, req, issued, used, born, ended, wrong>>

Tick ==
  /\ now < MaxTime
  /\ now' = now + 1
  /\ UNCHANGED <<mix, role, sess, fails, req, issued, history>>

Next ==
  \/ \E w \in Workers :
       \/ Credentials(w) \/ Verify(w) \/ Fail(w) \/ Reset(w) \/ Replace(w) \/ Create(w)
       \/ Cookie(w) \/ ReRead(w) \/ Revoke(w) \/ Logout(w)
  \/ \E u \in Users : ChangeUser(u)
  \/ Tick

Spec == Init /\ [][Next]_vars
-----------------------------------------------------------------------------
\* Every variable has its type, and both tables keep within their capacity.
TypeOK ==
  /\ mix \in Mixes
  /\ now \in 0 .. MaxTime
  /\ role \in [Users -> {"admin", "plain", "gone"}]
  /\ DOMAIN sess \subseteq 1 .. issued /\ Cardinality(DOMAIN sess) <= SessionCap
  /\ \A t \in DOMAIN sess : sess[t].created <= sess[t].seen /\ sess[t].seen <= now
  /\ DOMAIN fails \subseteq IPs /\ Cardinality(DOMAIN fails) <= LimiterCap
  /\ \A i \in DOMAIN fails : fails[i].count > 0 /\ fails[i].start <= now
  /\ ended \subseteq 1 .. issued

\* A request with a session cookie is let in, as far as the session goes.
Accepted(w, t) == req[w] = Idle /\ req'[w] # Idle /\ req'[w].at = "reread" /\ req'[w].token = t

(***************************************************************************)
(* "the server enforces idle and absolute expiry regardless": a session is *)
(* accepted only within SessionIdle of the last time it was, within        *)
(* SessionTTL of its login, and never after a logout, a login that         *)
(* replaced it or a revocation has finished.                               *)
(***************************************************************************)
SessionHonoured ==
  [][\A w \in Workers, t \in Tokens :
       Accepted(w, t) => /\ now - used[t] < SessionIdle
                         /\ now - born[t] < SessionTTL
                         /\ t \notin ended]_vars

(***************************************************************************)
(* sessionCap: a session that is still good and that nobody revoked is     *)
(* lost only to a login at the cap, when no session has expired, and only  *)
(* if it was used no later than every session that stays.                  *)
(***************************************************************************)
OnlyIdlestEvicted ==
  [][\A t \in (DOMAIN sess \ DOMAIN sess') \ ended' :
       ~Expired(sess[t]) =>
         /\ Cardinality(DOMAIN sess) = SessionCap
         /\ \A u \in DOMAIN sess : ~Expired(sess[u]) /\ used[t] <= used[u]]_vars

(***************************************************************************)
(* "loginMaxFailures wrong secrets per client IP inside a fixed            *)
(* LoginFailureWindow lock that IP out": in an open window an address gets *)
(* that many wrong secrets checked, and those already past the gate, as    *)
(* long as the table keeps its window.                                     *)
(***************************************************************************)
LockoutBound ==
  \A i \in DOMAIN fails :
    now - fails[i].start < Window =>
      Cardinality({k \in DOMAIN wrong[i] : wrong[i][k] >= fails[i].start})
        <= MaxFailures + Cardinality(Workers) - 1
=============================================================================
