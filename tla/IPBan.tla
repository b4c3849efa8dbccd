-------------------------------- MODULE IPBan --------------------------------
(***************************************************************************)
(* The failed-authentication ban of the storage surface                    *)
(* (middleware/ipban.go): a counter of 401 and 403 answers per client      *)
(* address in a fixed window, a table of bans, both of bounded size, and   *)
(* settings an administrator swaps while requests are being served.        *)
(*                                                                         *)
(* Every operation of the store holds its mutex from the first line to the *)
(* last and reads the clock once, so it is one step.  Between the check at *)
(* the start of a request and the count at its end anything may happen.    *)
(*                                                                         *)
(* Only bannable addresses are modelled: the middleware lets the others    *)
(* through without a look at the store.                                    *)
(***************************************************************************)
EXTENDS Naturals, FiniteSets, Sequences

CONSTANTS
  IPs,        \* bannable client addresses
  Workers,    \* goroutines serving requests
  Admins,     \* goroutines serving PUT and DELETE of the settings
  Configs,    \* settings that pass IPBanConfig.Validate
  Startup,    \* the settings at startup, normalized
  Limit,      \* maxBanEntries
  MaxTime     \* bound on the clock

Config == [enabled : BOOLEAN, max : Nat \ {0}, window : Nat \ {0}, ban : Nat \ {0}]

ASSUME IPBanAssumption ==
  /\ Configs \subseteq Config /\ Startup \in Config
  /\ Limit \in Nat \ {0} /\ MaxTime \in Nat
  /\ IsFiniteSet(IPs) /\ IPs # {}

VARIABLES
  now,      \* the clock
  fails,    \* failEntry of each address; a count of 0 stands for no entry
  bans,     \* expiry of its ban; 0 stands for no entry
  store,    \* settings the store works with: max, window and ban
  cfg,      \* settings behind the atomic pointer
  pc, ip,   \* where a request is, and its client address
  apc, new, \* where an administrator's request is, and its settings
  hist      \* history: the failures counted since the last fresh start, each
            \* with its time and the start of the window it was counted in

tables == <<fails, bans, store, hist>>
adminVars == <<apc, new>>
vars == <<now, tables, cfg, pc, ip, adminVars>>

NoEntry == [count |-> 0, start |-> 0]
Counting == {i \in IPs : fails[i].count > 0}
Listed == {i \in IPs : bans[i] > 0}

\* bannedLocked: the ban is still running.
Serving(i) == now < bans[i]

\* Those of S with the earliest time: the map is scanned in no fixed order.
Oldest(S, at) == {i \in S : \A j \in S : at[i] <= at[j]}

\* Failures older than a window are forgotten by the history, oldest first.
Old(h) == {j \in DOMAIN h : now - h[j].at > store.window}
Recent(h) == SubSeq(h, Cardinality(Old(h)) + 1, Len(h))

Init ==
  /\ now = 1
  /\ fails = [i \in IPs |-> NoEntry]
  /\ bans = [i \in IPs |-> 0]
  /\ store = Startup /\ cfg = Startup
  /\ pc = [w \in Workers |-> "idle"]
  /\ ip = [w \in Workers |-> "none"]
  /\ apc = [a \in Admins |-> "idle"]
  /\ new = [a \in Admins |-> Startup]
  /\ hist = [i \in IPs |-> <<>>]
-----------------------------------------------------------------------------
\* Middleware: one load of the settings decides whether the ban applies.
Arrive(w) ==
  /\ pc[w] = "idle"
  /\ \E i \in IPs : ip' = [ip EXCEPT ![w] = i]
  /\ cfg.enabled
  /\ pc' = [pc EXCEPT ![w] = "check"]
  /\ UNCHANGED <<now, tables, cfg, adminVars>>

\* The request is answered; its goroutine ends.
Done(w) == /\ pc' = [pc EXCEPT ![w] = "idle"]
           /\ ip' = [ip EXCEPT ![w] = "none"]

\* banned: an expired ban is dropped on sight; a banned client is refused.
Check(w) ==
  /\ pc[w] = "check"
  /\ \/ Serving(ip[w]) /\ Done(w) /\ UNCHANGED bans
     \/ /\ ~Serving(ip[w])
        /\ pc' = [pc EXCEPT ![w] = "serving"]
        /\ bans' = [bans EXCEPT ![ip[w]] = 0]
        /\ UNCHANGED ip
  /\ UNCHANGED <<now, fails, store, hist, cfg, adminVars>>

\* The handlers answer with something other than 401 and 403.
Served(w) ==
  /\ pc[w] = "serving"
  /\ Done(w)
  /\ UNCHANGED <<now, tables, cfg, adminVars>>

\* Mutant: an old window goes on counting.
LiveForever(i) == fails[i].count > 0

\* Mutant: a window ends one unit of time early.
LiveShort(i) == fails[i].count > 0 /\ now - fails[i].start + 1 < store.window

\* failEntryLocked: the window of the counter has not elapsed.
Live(i) == fails[i].count > 0 /\ now - fails[i].start < store.window

(***************************************************************************)
(* failEntryLocked: the address that loses its counter when i gets one: i  *)
(* itself (its old window) unless the table is full.                       *)
(***************************************************************************)
FailVictims(i) ==
  IF fails[i].count = 0 /\ Cardinality(Counting) >= Limit
  THEN Oldest(Counting, [j \in IPs |-> fails[j].start])
  ELSE {i}

BanVictims(i) ==
  LET others == Listed \ {i} IN
  IF Cardinality(others) >= Limit THEN Oldest(others, bans) ELSE {i}

\* fail: the failure is counted and reaches the maximum, or not.
Count(i, f, h) ==
  IF f[i].count + 1 < store.max
  THEN /\ fails' = [f EXCEPT ![i].count = @ + 1]
       /\ bans' = [bans EXCEPT ![i] = 0]
       /\ hist' = [h EXCEPT ![i] = Append(Recent(@), [at |-> now, start |-> f[i].start])]
  ELSE /\ fails' = [f EXCEPT ![i] = NoEntry]
       /\ \E v \in BanVictims(i) :
            bans' = [bans EXCEPT ![v] = 0, ![i] = now + store.ban]
       /\ hist' = [h EXCEPT ![i] = <<>>]

\* Mutant: a request that was let in before the ban counts against the client.
FailAgain(i) ==
  IF Live(i) THEN Count(i, fails, hist)
  ELSE \E v \in FailVictims(i) :
         Count(i, [fails EXCEPT ![v] = NoEntry, ![i] = [count |-> 0, start |-> now]],
               IF v = i THEN hist ELSE [hist EXCEPT ![v] = <<>>])

\* fail: nothing happens to an address that is already serving a ban.
Fail(i) ==
  \/ Serving(i) /\ UNCHANGED <<fails, bans, hist>>
  \/ ~Serving(i) /\ Live(i) /\ Count(i, fails, hist)
  \/ /\ ~Serving(i) /\ ~Live(i)
     /\ \E v \in FailVictims(i) :
          Count(i, [fails EXCEPT ![v] = NoEntry, ![i] = [count |-> 0, start |-> now]],
                IF v = i THEN hist ELSE [hist EXCEPT ![v] = <<>>])

\* The handlers answer with 401 or 403: record.
Record(w) ==
  /\ pc[w] = "serving"
  /\ Fail(ip[w])
  /\ Done(w)
  /\ UNCHANGED <<now, store, cfg, adminVars>>

\* janitor, reap: elapsed windows and expired bans are dropped.
Reap ==
  /\ fails' = [i \in IPs |-> IF Live(i) THEN fails[i] ELSE NoEntry]
  /\ bans' = [i \in IPs |-> IF Serving(i) THEN bans[i] ELSE 0]
  /\ UNCHANGED <<now, store, hist, cfg, pc, ip, adminVars>>
-----------------------------------------------------------------------------
\* Apply: the handler has validated (and stored) the settings.
Apply(a) ==
  /\ apc[a] = "idle"
  /\ \E c \in Configs : new' = [new EXCEPT ![a] = c]
  /\ apc' = [apc EXCEPT ![a] = "reconfigure"]
  /\ UNCHANGED <<now, tables, cfg, pc, ip>>

\* Mutant: the counters survive new thresholds.
ReconfigureInPlace(a) ==
  /\ apc[a] = "reconfigure"
  /\ store' = new[a]
  /\ apc' = [apc EXCEPT ![a] = "publish"]
  /\ UNCHANGED <<now, fails, bans, hist, cfg, pc, ip, new>>

\* reconfigure: new thresholds and empty tables, under the mutex.
Reconfigure(a) ==
  /\ apc[a] = "reconfigure"
  /\ store' = new[a]
  /\ fails' = [i \in IPs |-> NoEntry]
  /\ bans' = [i \in IPs |-> 0]
  /\ hist' = [i \in IPs |-> <<>>]
  /\ apc' = [apc EXCEPT ![a] = "publish"]
  /\ UNCHANGED <<now, cfg, pc, ip, new>>

\* ... and then, outside it, the pointer that requests load.
Publish(a) ==
  /\ apc[a] = "publish"
  /\ cfg' = new[a]
  /\ apc' = [apc EXCEPT ![a] = "idle"]
  /\ UNCHANGED <<now, tables, pc, ip, new>>

Tick ==
  /\ now < MaxTime
  /\ now' = now + 1
  /\ UNCHANGED <<tables, cfg, pc, ip, adminVars>>

Next ==
  \/ \E w \in Workers : Arrive(w) \/ Check(w) \/ Served(w) \/ Record(w)
  \/ \E a \in Admins : Apply(a) \/ Reconfigure(a) \/ Publish(a)
  \/ Reap
  \/ Tick

Spec == Init /\ [][Next]_vars
-----------------------------------------------------------------------------
\* Every variable has its type.
TypeOK ==
  /\ now \in Nat
  /\ fails \in [IPs -> [count : Nat, start : Nat]]
  /\ bans \in [IPs -> Nat]
  /\ store \in Config /\ cfg \in Config
  /\ pc \in [Workers -> {"idle", "check", "serving"}]
  /\ ip \in [Workers -> IPs \cup {"none"}]
  /\ \A w \in Workers : pc[w] # "idle" => ip[w] \in IPs
  /\ apc \in [Admins -> {"idle", "reconfigure", "publish"}]
  /\ new \in [Admins -> Config]
  /\ hist \in [IPs -> Seq([at : Nat, start : Nat])]

(***************************************************************************)
(* maxBanEntries: "Each table holds at most maxBanEntries IPs", whatever   *)
(* order failures, expiries and sweeps come in.                            *)
(***************************************************************************)
TablesBounded == Cardinality(Counting) <= Limit /\ Cardinality(Listed) <= Limit

(***************************************************************************)
(* A counter is always below the maximum of the settings in force (an      *)
(* administrator may lower it at any time), started in the past, and       *)
(* belongs to an address without a ban.                                    *)
(***************************************************************************)
CountersSound ==
  \A i \in Counting : /\ fails[i].count < store.max
                      /\ fails[i].start <= now
                      /\ i \notin Listed

(***************************************************************************)
(* Both tables, under every order of failures, sweeps and new settings.    *)
(***************************************************************************)
TablesSound == TypeOK /\ TablesBounded /\ CountersSound

(***************************************************************************)
(* fail: "nothing can extend a ban once imposed", not even requests that   *)
(* were let in before it, and nothing lifts it before its time but new     *)
(* settings and, in a full table, a ban that outlasts it.                  *)
(***************************************************************************)
NewSettings == \E a \in Admins : apc[a] = "reconfigure" /\ apc'[a] = "publish"
EvictedFor(i, j) ==
  /\ Cardinality(Listed) >= Limit
  /\ bans'[j] > bans[j]
  /\ \A k \in Listed \ {j} : bans[i] <= bans[k]
BanStands ==
  [][\A i \in IPs : Serving(i) /\ bans'[i] # bans[i] =>
       bans'[i] = 0 /\ (NewSettings \/ \E j \in IPs \ {i} : EvictedFor(i, j))]_vars

(***************************************************************************)
(* IPBanConfig: an address is banned when it "produces MaxFailures 401/403 *)
(* responses within WindowSeconds", and never for less, under the settings *)
(* in force when it is banned: the failure that imposes the ban and the    *)
(* max - 1 before it are less than a window apart.                         *)
(***************************************************************************)
BanIsEarned ==
  [][\A i \in IPs : bans'[i] > bans[i] =>
       LET n == Len(hist[i])
       IN /\ n >= store.max - 1
          /\ \A l \in n + 2 - store.max .. n : now - hist[i][l].at < store.window]_vars

(***************************************************************************)
(* failEntry: "A fixed window lets a client squeeze up to 2*MaxFailures-2  *)
(* failures across a boundary", and no more, without a ban: failures that  *)
(* are at most a window apart, both ends included, are no more than that.  *)
(***************************************************************************)
SqueezeBound ==
  \A i \in IPs : \A j, l \in DOMAIN hist[i] :
    hist[i][l].at - hist[i][j].at <= store.window => l - j < 2 * store.max - 2
=============================================================================
