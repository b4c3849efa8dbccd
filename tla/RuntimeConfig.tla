--------------------------- MODULE RuntimeConfig ---------------------------
(***************************************************************************)
(* One runtime setting of the admin API: the handlers that change it, the  *)
(* Config bucket of users.db that keeps it (storage/config.go), the live   *)
(* cells the request path reads, and the start of the process, which lays  *)
(* the persisted override over the value of the environment.               *)
(*                                                                         *)
(* All settings follow one scheme and differ in shape: which keys they     *)
(* persist, which atomic cells they apply one after the other, whether a   *)
(* value out of range is clamped or refused and whether the override can   *)
(* be deleted.  A behaviour is about one setting, of any of the shapes in  *)
(* Settings.  The submitted object is one number, which each key carries.  *)
(***************************************************************************)
EXTENDS Naturals, Sequences, FiniteSets

CONSTANTS
  Settings,    \* the shapes of the settings considered
  Admins,      \* goroutines serving requests that change the setting
  Inputs,      \* values a request may carry
  Lo, Hi,      \* the range of valid values
  Env,         \* the value of the environment
  Faults       \* TRUE: a bolt transaction may fail

IPBanShape ==
  LET k == {"ipban"}
  IN [keys |-> k, cells |-> <<k, k>>, clamps |-> FALSE, deletable |-> TRUE]

RateLimitShape ==
  LET k == {"ratelimit"}
  IN [keys |-> k, cells |-> <<k, k>>, clamps |-> FALSE, deletable |-> TRUE]

\* A body that is no boolean is refused.
SyncWritesShape ==
  LET k == {"syncwrites"}
  IN [keys |-> k, cells |-> <<k>>, clamps |-> FALSE, deletable |-> FALSE]

RetentionShape ==
  LET k == {"requestretentiondays"}
  IN [keys |-> k, cells |-> <<k>>, clamps |-> TRUE, deletable |-> FALSE]

AccessLogShape ==
  [keys |-> {"accesslogenabled", "accesslogmaxevents", "accesslogmaxagedays"},
   cells |-> <<{"accesslogenabled"}, {"accesslogmaxevents"}, {"accesslogmaxagedays"}>>,
   clamps |-> TRUE, deletable |-> FALSE]

\* One pointer to both: a reader never sees one of them without the other.
TrustedProxyShape ==
  LET k == {"trustedproxyheaders", "trustedproxyleftmost"}
  IN [keys |-> k, cells |-> <<k>>, clamps |-> FALSE, deletable |-> FALSE]

ASSUME RuntimeConfigAssumption ==
  /\ Settings \subseteq {IPBanShape, RateLimitShape, SyncWritesShape, RetentionShape,
                         AccessLogShape, TrustedProxyShape}
  /\ Inputs \subseteq Nat /\ Lo \in Nat /\ Hi \in Nat /\ Lo <= Hi
  /\ Env \in Lo .. Hi /\ Faults \in BOOLEAN

VARIABLES
  shape,    \* the setting, never changed
  db,       \* the Config bucket: per key the set of its value, empty without one
  live,     \* what each live cell holds, for each key it covers
  req,      \* the request an admin goroutine serves
  up,       \* the process runs
  solo,     \* history: the admin whose change no other one has overlapped, if any
  split,    \* history: changes have overlapped, or one failed between two keys,
            \* and neither a whole change nor a restart came after it
  known     \* history: the set of the value the last answer reported, empty
            \* when a change overlapped it or was begun after it

history == <<solo, split, known>>
vars == <<shape, db, live, req, up, history>>

Keys == shape.keys
Cells == shape.cells
Idle == [op |-> "idle"]

InRange(v) == v \in Lo .. Hi
\* clampRetentionDays, clampAccessLogAgeDays.
Clamp(v) == IF v < Lo THEN Lo ELSE IF v > Hi THEN Hi ELSE v

\* Init*FromStore: the persisted override over the environment, key by key.
\* A value out of range cannot be in the store, since only handlers write it.
Effective(d) ==
  [k \in Keys |-> IF d[k] = {} THEN Env ELSE Clamp(CHOOSE v \in d[k] : TRUE)]

LiveOf(f) == [i \in DOMAIN Cells |-> [k \in Cells[i] |-> f[k]]]

Init ==
  /\ shape \in Settings
  /\ db = [k \in Keys |-> {}]
  /\ live = LiveOf(Effective(db))
  /\ req = [a \in Admins |-> Idle]
  /\ up = TRUE
  /\ solo = {} /\ split = FALSE /\ known = {Env}
-----------------------------------------------------------------------------
\* PutConfigValue, DeleteConfigValue: one transaction; no value is the empty set.
PutConfigValue(k, s) == db' = [db EXCEPT ![k] = s]

Goto(a, r) == req' = [req EXCEPT ![a] = r]

\* A change begins, alone or beside another.
Begin(a) ==
  LET alone == \A b \in Admins : req[b] = Idle
  IN solo' = (IF alone THEN {a} ELSE {}) /\ split' = (split \/ ~alone)

\* PUT: a refused body is answered before anything changes.
Put(a) ==
  /\ up
  /\ req[a] = Idle
  /\ \E v \in Inputs :
       /\ shape.clamps \/ InRange(v)
       /\ Goto(a, [op |-> "persist", val |-> Clamp(v), todo |-> Keys, store |-> {Clamp(v)}])
  /\ Begin(a)
  /\ UNCHANGED <<shape, db, live, up, known>>

\* DELETE: the override goes and the environment's value comes back.
Delete(a) ==
  /\ up
  /\ shape.deletable
  /\ req[a] = Idle
  /\ Goto(a, [op |-> "persist", val |-> Env, todo |-> Keys, store |-> {}])
  /\ Begin(a)
  /\ UNCHANGED <<shape, db, live, up, known>>

\* Mutant: a failure is answered as a success.
PersistAcked(a) ==
  /\ req[a].op = "persist"
  /\ \/ \E k \in req[a].todo :
          /\ PutConfigValue(k, req[a].store)
          /\ Goto(a, IF req[a].todo = {k} THEN [op |-> "apply", val |-> req[a].val, next |-> 1]
                     ELSE [req[a] EXCEPT !.todo = @ \ {k}])
          /\ UNCHANGED split
     \/ /\ Faults
        /\ Goto(a, [op |-> "answer", val |-> req[a].val])
        /\ split' = (split \/ req[a].todo # Keys)
        /\ UNCHANGED db
  /\ known' = {}
  /\ UNCHANGED <<shape, live, up, solo>>

\* One transaction per key, in the random order of a Go map; the first failure
\* is answered 500 and the rest is not tried.
Persist(a) ==
  /\ req[a].op = "persist"
  /\ \/ \E k \in req[a].todo :
          /\ PutConfigValue(k, req[a].store)
          /\ Goto(a, IF req[a].todo = {k} THEN [op |-> "apply", val |-> req[a].val, next |-> 1]
                     ELSE [req[a] EXCEPT !.todo = @ \ {k}])
          /\ UNCHANGED split
     \/ /\ Faults
        /\ Goto(a, Idle)
        /\ split' = (split \/ req[a].todo # Keys)
        /\ UNCHANGED db
  /\ known' = {}
  /\ UNCHANGED <<shape, live, up, solo>>

\* Apply, Set*: the live cells, one store after the other.
Apply(a) ==
  /\ req[a].op = "apply"
  /\ LET i == req[a].next
     IN /\ live' = [live EXCEPT ![i] = [k \in Cells[i] |-> req[a].val]]
        /\ Goto(a, IF i = Len(Cells) THEN [op |-> "answer", val |-> req[a].val]
                   ELSE [req[a] EXCEPT !.next = i + 1])
  /\ UNCHANGED <<shape, db, up, history>>

\* The answer, 200, with the value in force.
Answer(a) ==
  /\ req[a].op = "answer"
  /\ Goto(a, Idle)
  /\ known' = IF a \in solo THEN {req[a].val} ELSE {}
  /\ split' = (split /\ a \notin solo)
  /\ UNCHANGED <<shape, db, live, up, solo>>
-----------------------------------------------------------------------------
Crash ==
  /\ up
  /\ up' = FALSE
  /\ req' = [a \in Admins |-> Idle]
  /\ UNCHANGED <<shape, db, live, history>>

\* Mutant: the override is not read back.
BootFromEnv ==
  /\ ~up
  /\ up' = TRUE
  /\ live' = LiveOf([k \in Keys |-> Env])
  /\ solo' = {} /\ split' = FALSE
  /\ UNCHANGED <<shape, db, req, known>>

\* run: environment first, then the store, before a server listens.
Boot ==
  /\ ~up
  /\ up' = TRUE
  /\ live' = LiveOf(Effective(db))
  /\ solo' = {} /\ split' = FALSE
  /\ UNCHANGED <<shape, db, req, known>>

Next ==
  \/ \E a \in Admins : Put(a) \/ Delete(a) \/ Persist(a) \/ Apply(a) \/ Answer(a)
  \/ Crash \/ Boot

Spec == Init /\ [][Next]_vars
-----------------------------------------------------------------------------
Quiet == up /\ \A a \in Admins : req[a] = Idle

\* Every variable has its type, and the values kept are valid ones.
TypeOK ==
  /\ shape \in Settings
  /\ \A k \in Keys : db[k] \subseteq Lo .. Hi /\ Cardinality(db[k]) <= 1
  /\ DOMAIN live = DOMAIN Cells
  /\ \A i \in DOMAIN Cells : live[i] \in [Cells[i] -> Lo .. Hi]
  /\ \A a \in Admins : req[a].op \in {"idle", "persist", "apply", "answer"}
  /\ up \in BOOLEAN
  /\ solo \subseteq Admins /\ split \in BOOLEAN /\ known \subseteq Lo .. Hi

(***************************************************************************)
(* PutRetentionHandler: "so it applies live and survives a restart", and   *)
(* the like for every setting.  While no request is served, what is in     *)
(* force is what a restart would bring: the persisted override over the    *)
(* environment, in every cell.  Changes that overlap, and a change that    *)
(* fails between two keys, can break this, but only until the next whole   *)
(* change or restart.                                                      *)
(***************************************************************************)
EffectiveIsPersisted == TypeOK /\ (Quiet /\ ~split => live = LiveOf(Effective(db)))

(***************************************************************************)
(* PutSyncWritesHandler: "so it both applies live and survives a restart". *)
(* The value of the last successful answer, of a change that no other one  *)
(* overlapped, is in force, after any number of crashes, until another     *)
(* change is attempted.                                                    *)
(***************************************************************************)
AckedSurvives ==
  up => \A v \in known : live = LiveOf([k \in Keys |-> v])
=============================================================================
