------------------------------ MODULE RateLimit ------------------------------
(***************************************************************************)
(* The per-client rate limiter (middleware/ratelimit.go): a bounded table  *)
(* of token buckets with eviction of the least recently seen client, a     *)
(* janitor that drops idle buckets, and settings swapped at run time.      *)
(*                                                                         *)
(* allow and reconfigure hold the mutex throughout, so each is one step.   *)
(* A bucket is golang.org/x/time/rate's: it starts full, gains rps tokens  *)
(* per unit of time up to its burst, and a request takes one if it can.    *)
(* Administrators are taken one at a time (IPBan has the same two-step     *)
(* Apply with several).                                                    *)
(***************************************************************************)
EXTENDS Integers, FiniteSets, Sequences

CONSTANTS
  IPs,       \* client addresses
  Configs,   \* settings an administrator may apply
  Startup,   \* settings from the environment
  Limit,     \* maxLimiterEntries
  TTL,       \* limiterTTL
  MaxTime,   \* bound on the clock
  None

Config == [enabled : BOOLEAN, rps : Int, burst : Int]

ASSUME RateLimitAssumption ==
  /\ Configs \subseteq Config /\ Startup \in Config
  /\ Limit \in Nat \ {0} /\ TTL \in Nat /\ MaxTime \in Nat
  /\ IsFiniteSet(IPs)
  /\ None \notin Config /\ None \notin IPs \X {"admitted", "throttled"}

VARIABLES
  now,      \* the clock
  known,    \* clients that have a bucket
  tokens,   \* tokens of a client's bucket when it last gave one
  last,     \* when that was
  seen,     \* lastSeen of its entry
  store,    \* rps and burst of new buckets
  cfg,      \* settings behind the atomic pointer
  pending,  \* settings being applied, or None
  out,      \* the last answer of this instant: client and verdict
  hist      \* history: times at which a client was admitted

table == <<known, tokens, last, seen>>
vars == <<now, table, store, cfg, pending, out, hist>>

\* newRateLimiter, reconfigure: a rate and a burst of at least one.
Clamp(c) == [rps |-> IF c.rps <= 0 THEN 1 ELSE c.rps,
             burst |-> IF c.burst < 1 THEN 1 ELSE c.burst]

Init ==
  /\ now = 1
  /\ known = {}
  /\ tokens = [i \in IPs |-> 0]
  /\ last = [i \in IPs |-> 0]
  /\ seen = [i \in IPs |-> 0]
  /\ store = Clamp(Startup)
  /\ cfg = Startup
  /\ pending = None
  /\ out = None
  /\ hist = [i \in IPs |-> <<>>]
-----------------------------------------------------------------------------
\* Tokens of a known client's bucket at this instant.
Available(i) ==
  LET filled == tokens[i] + (now - last[i]) * store.rps
  IN IF filled > store.burst THEN store.burst ELSE filled

\* Middleware and allow, for a client with a bucket.
Admit(i) ==
  /\ cfg.enabled
  /\ i \in known
  /\ seen' = [seen EXCEPT ![i] = now]
  /\ \/ /\ Available(i) >= 1
        /\ tokens' = [tokens EXCEPT ![i] = Available(i) - 1]
        /\ last' = [last EXCEPT ![i] = now]
        /\ hist' = [hist EXCEPT ![i] = Append(@, now)]
        /\ out' = <<i, "admitted">>
     \/ /\ Available(i) < 1
        /\ out' = <<i, "throttled">>
        /\ UNCHANGED <<tokens, last, hist>>
  /\ UNCHANGED <<now, known, store, cfg, pending>>

\* Mutant: the cap is not enforced.
VictimsNone(i) == {i}

\* evictOldestLocked: in a full table the least recently seen goes.
Victims(i) ==
  IF Cardinality(known) >= Limit
  THEN {v \in known : \A u \in known : seen[v] <= seen[u]}
  ELSE {i}

\* Mutant: a new bucket starts empty.
AdmitNewEmpty(i) ==
  /\ cfg.enabled
  /\ i \notin known
  /\ \E v \in Victims(i) :
       /\ known' = (known \ {v}) \cup {i}
       /\ hist' = [hist EXCEPT ![v] = IF v = i THEN @ ELSE <<>>, ![i] = Append(@, now)]
  /\ tokens' = [tokens EXCEPT ![i] = 0]
  /\ last' = [last EXCEPT ![i] = now]
  /\ seen' = [seen EXCEPT ![i] = now]
  /\ out' = <<i, "admitted">>
  /\ UNCHANGED <<now, store, cfg, pending>>

\* allow, for a client without one: a full bucket gives its first token.
AdmitNew(i) ==
  /\ cfg.enabled
  /\ i \notin known
  /\ \E v \in Victims(i) :
       /\ known' = (known \ {v}) \cup {i}
       /\ hist' = [hist EXCEPT ![v] = IF v = i THEN @ ELSE <<>>, ![i] = Append(@, now)]
  /\ tokens' = [tokens EXCEPT ![i] = store.burst - 1]
  /\ last' = [last EXCEPT ![i] = now]
  /\ seen' = [seen EXCEPT ![i] = now]
  /\ out' = <<i, "admitted">>
  /\ UNCHANGED <<now, store, cfg, pending>>

\* Mutant: buckets in use are dropped too.
ReapAll ==
  /\ known' = {}
  /\ UNCHANGED <<now, tokens, last, seen, store, cfg, pending, out, hist>>

\* janitor, reapIdle: a client not seen for longer than the TTL loses its bucket.
Reap ==
  /\ known' = {i \in known : seen[i] >= now - TTL}
  /\ UNCHANGED <<now, tokens, last, seen, store, cfg, pending, out, hist>>

\* Apply, first step: reconfigure the store and flush it.
Reconfigure ==
  /\ pending = None
  /\ \E c \in Configs : pending' = c /\ store' = Clamp(c)
  /\ known' = {}
  /\ out' = None
  /\ hist' = [i \in IPs |-> <<>>]
  /\ UNCHANGED <<now, tokens, last, seen, cfg>>

\* Apply, second step: swap the pointer that requests load.
Publish ==
  /\ pending # None
  /\ cfg' = pending
  /\ pending' = None
  /\ UNCHANGED <<now, table, store, out, hist>>

Tick ==
  /\ now < MaxTime
  /\ now' = now + 1
  /\ out' = None
  /\ UNCHANGED <<table, store, cfg, pending, hist>>

Next ==
  \/ \E i \in IPs : Admit(i) \/ AdmitNew(i)
  \/ Reap
  \/ Reconfigure
  \/ Publish
  \/ Tick

Spec == Init /\ [][Next]_vars
-----------------------------------------------------------------------------
(***************************************************************************)
(* rateLimiter: "the map never exceeds maxLimiterEntries entries".         *)
(***************************************************************************)
TableBounded == Cardinality(known) <= Limit

\* Every variable has its type, the table its bound, and the store positive
\* settings.
TypeOK ==
  /\ now \in Nat
  /\ known \subseteq IPs /\ TableBounded
  /\ tokens \in [IPs -> Nat] /\ last \in [IPs -> Nat] /\ seen \in [IPs -> Nat]
  /\ store \in [rps : Nat \ {0}, burst : Nat \ {0}]
  /\ cfg \in Config /\ pending \in Config \cup {None}
  /\ out \in {None} \cup (IPs \X {"admitted", "throttled"})
  /\ hist \in [IPs -> Seq(Nat)]

\* Requests of i admitted from its k-th admission on.
Since(i, k) == Len(hist[i]) - k + 1

\* What a client may get from its k-th admission on: the burst and the refill.
Allowance(i, k) == store.burst + store.rps * (now - hist[i][k])

(***************************************************************************)
(* RateLimitConfig: RPS is "the sustained token refill rate per client     *)
(* IP", Burst "the largest instantaneous spike a single client may make    *)
(* before the sustained RPS rate gates them".  Over every stretch of time  *)
(* a client that is not evicted gets no more than its burst and the refill *)
(* of that time.                                                           *)
(***************************************************************************)
AdmittedBound ==
  \A i \in IPs : \A k \in 1 .. Len(hist[i]) : Since(i, k) <= Allowance(i, k)

(***************************************************************************)
(* ... and no less: a throttled client has used up an allowance, so nobody *)
(* is shut out by settings of zero, by another client or by the janitor.   *)
(***************************************************************************)
ThrottledIsSpent ==
  \A i \in IPs : out = <<i, "throttled">> =>
    \E k \in 1 .. Len(hist[i]) : Since(i, k) >= Allowance(i, k)
=============================================================================
