------------------------------ MODULE EventLog ------------------------------
(***************************************************************************)
(* The event log (storage/events.go): access events of the data plane that *)
(* requests enqueue and a flusher goroutine writes in batches, audit       *)
(* events written synchronously, the caps that prune both, the paged       *)
(* query, and the shutdown of the process (cmd/ByteBucket/main.go).        *)
(*                                                                         *)
(* A bolt transaction is one step.  An event is an identity and the time   *)
(* it carries: a request's start, though it is enqueued at its end.  A     *)
(* stored event has in addition the sequence number of its key.            *)
(***************************************************************************)
EXTENDS Naturals, Sequences, FiniteSets, FiniteSetsExt

CONSTANTS
  Workers,      \* goroutines serving data-plane requests
  Admins,       \* goroutines serving audited admin actions
  ChanCap,      \* eventChanCap
  MaxBatch,     \* eventFlushMaxBatch
  MaxControl,   \* maxControlEvents
  Settings,     \* access-log settings: enabled, count cap and age cap
  Faults,       \* TRUE: a transaction may fail
  Signals,      \* TRUE: the process may be told to stop
  Loads,        \* bounds on the numbers of data events and of audit events
  MaxTime       \* bound on the clock

Setting == [enabled : BOOLEAN, count : Nat, age : Nat]

ASSUME EventLogAssumption ==
  /\ ChanCap \in Nat \ {0} /\ MaxBatch \in Nat \ {0} /\ MaxControl \in Nat \ {0}
  /\ Settings \subseteq Setting /\ Settings # {}
  /\ Faults \in BOOLEAN /\ Signals \in BOOLEAN
  /\ Loads \subseteq [events : Nat, actions : Nat] /\ MaxTime \in Nat

VARIABLES
  load,      \* the bounds of this behaviour, never changed
  now,       \* the wall clock
  conf,      \* live access-log settings
  start,     \* start time of the request a worker serves; 0 when idle
  made,      \* events enqueued or dropped so far
  buf,       \* eventCh
  dropped,   \* eventsDropped
  batch,     \* the flusher's batch
  fpc,       \* where the flusher is
  drained,   \* events taken in the final drain
  cut,       \* history: events made before the final drain began
  data,      \* bucket EventData
  pruned,    \* history: number of data events pruned
  reported,  \* history: number of data events logged as dropped or not flushed
  audit,     \* bucket EventControl
  acting,    \* the time of the event an admin action appends; 0 when there is none
  appended,  \* history: the audit events appended so far
  phase      \* "running", "stopping", "exited" or "killed"

auditVars == <<audit, acting, appended>>
flushVars == <<batch, fpc, drained, cut>>
storeVars == <<data, pruned, reported>>
vars == <<load, now, conf, start, made, buf, dropped, flushVars, storeVars, auditVars, phase>>

\* encodeEventKey: keys sort by time, then by sequence number.
Before(e, f) == e.ts < f.ts \/ (e.ts = f.ts /\ e.seq < f.seq)

\* Mutant: the newest records go.
PruneByCountNewest(S, max) ==
  IF max = 0 THEN S ELSE {e \in S : Cardinality({f \in S : Before(f, e)}) < max}

\* pruneByCount: the oldest records go; 0 disables the cap.
PruneByCount(S, max) ==
  IF max = 0 THEN S ELSE {e \in S : Cardinality({f \in S : Before(e, f)}) < max}

\* pruneByAge: records older than the cutoff go.
PruneByAge(S, age) == IF age = 0 THEN S ELSE {e \in S : e.ts + age >= now}

Init ==
  /\ load \in Loads
  /\ now = 1
  /\ conf \in Settings
  /\ start = [w \in Workers |-> 0]
  /\ made = 0
  /\ buf = <<>> /\ dropped = 0
  /\ batch = <<>> /\ fpc = "select" /\ drained = 0 /\ cut = 0
  /\ data = {} /\ pruned = 0 /\ reported = 0
  /\ audit = {} /\ acting = [a \in Admins |-> 0] /\ appended = {}
  /\ phase = "running"
-----------------------------------------------------------------------------
Alive == phase \in {"running", "stopping"}

\* AccessLog: the clock is read before the handlers run.
Begin(w) ==
  /\ phase = "running"
  /\ start[w] = 0 /\ made < load.events
  /\ start' = [start EXCEPT ![w] = now]
  /\ UNCHANGED <<load, now, conf, made, buf, dropped, flushVars, storeVars, auditVars, phase>>

\* Mutant: a full buffer loses the event without a count.
EnqueueSilently(e) ==
  /\ buf' = IF Len(buf) < ChanCap THEN Append(buf, e) ELSE buf
  /\ UNCHANGED dropped

\* EnqueueEvent: a full buffer drops the event and counts the drop.
Enqueue(e) ==
  IF Len(buf) < ChanCap
  THEN buf' = Append(buf, e) /\ UNCHANGED dropped
  ELSE dropped' = dropped + 1 /\ UNCHANGED buf

\* The request ends, also while the servers are being drained.
End(w) ==
  /\ Alive
  /\ start[w] > 0
  /\ start' = [start EXCEPT ![w] = 0]
  /\ \/ /\ conf.enabled
        /\ made < load.events
        /\ made' = made + 1
        /\ Enqueue([id |-> made + 1, ts |-> start[w]])
     \/ /\ ~conf.enabled
        /\ UNCHANGED <<made, buf, dropped>>
  /\ UNCHANGED <<load, now, conf, flushVars, storeVars, auditVars, phase>>

\* PutAccessLogHandler, seen by the event log: new live settings.
SetAccessLog ==
  /\ Alive
  /\ conf' \in Settings \ {conf}
  /\ UNCHANGED <<load, now, start, made, buf, dropped, flushVars, storeVars, auditVars, phase>>
-----------------------------------------------------------------------------
(***************************************************************************)
(* RunEventFlusher.  The select takes any case that is ready.              *)
(***************************************************************************)
Receive ==
  /\ Alive
  /\ fpc = "select"
  /\ buf # <<>>
  /\ batch' = Append(batch, Head(buf))
  /\ buf' = Tail(buf)
  /\ fpc' = IF Len(batch) + 1 >= MaxBatch THEN "flush" ELSE "select"
  /\ UNCHANGED <<load, now, conf, start, made, dropped, drained, cut, storeVars, auditVars, phase>>

\* Mutant: only a full batch is flushed, a tick only reports drops.
TickerReports ==
  /\ Alive
  /\ fpc = "select"
  /\ fpc' = "swap"
  /\ UNCHANGED <<load, now, conf, start, made, buf, dropped, batch, drained, cut, storeVars,
                 auditVars, phase>>

TickerFires ==
  /\ Alive
  /\ fpc = "select"
  /\ fpc' = "flush"
  /\ UNCHANGED <<load, now, conf, start, made, buf, dropped, batch, drained, cut, storeVars,
                 auditVars, phase>>

ContextDone ==
  /\ phase = "stopping"
  /\ fpc = "select"
  /\ fpc' = "drain"
  /\ cut' = made
  /\ UNCHANGED <<load, now, conf, start, made, buf, dropped, batch, drained, storeVars,
                 auditVars, phase>>

\* The final drain: at most ChanCap + 1 events, then a last flush.
Drain ==
  /\ Alive
  /\ fpc = "drain"
  /\ IF buf # <<>> /\ drained <= ChanCap
     THEN /\ batch' = Append(batch, Head(buf))
          /\ buf' = Tail(buf)
          /\ drained' = drained + 1
          /\ fpc' = IF Len(batch) + 1 >= MaxBatch THEN "drainFlush" ELSE "drain"
     ELSE /\ fpc' = "lastFlush"
          /\ UNCHANGED <<batch, buf, drained>>
  /\ UNCHANGED <<load, now, conf, start, made, dropped, cut, storeVars, auditVars, phase>>

\* Where the flusher goes on after a flush.
AfterFlush(p) ==
  CASE p \in {"flush", "swap"} -> "select"
    [] p \in {"drainFlush", "drainSwap"} -> "drain"
    [] p \in {"lastFlush", "lastSwap"} -> "done"

Swapping(p) ==
  CASE p = "flush" -> "swap" [] p = "drainFlush" -> "drainSwap" [] p = "lastFlush" -> "lastSwap"

\* putEvent, for a whole batch: fresh sequence numbers, in the order of the buffer.
Stored(b) ==
  {[id |-> b[i].id, ts |-> b[i].ts, seq |-> b[i].id] : i \in DOMAIN b}

\* Mutant: the age cap is forgotten.
PruneDataByCount(S) == PruneByCount(S, conf.count)

\* pruneBucket, for data events: by age first and then by count.
PruneData(S) == PruneByCount(PruneByAge(S, conf.age), conf.count)

\* flushEvents: one transaction; a failure is logged and the batch is gone.
Flush ==
  /\ Alive
  /\ fpc \in {"flush", "drainFlush", "lastFlush"}
  /\ \/ LET all == data \cup Stored(batch)
            left == IF batch = <<>> THEN data ELSE PruneData(all)
        IN /\ data' = left
           /\ pruned' = pruned + Cardinality(all) - Cardinality(left)
           /\ UNCHANGED reported
     \/ /\ Faults /\ batch # <<>>
        /\ reported' = reported + Len(batch)
        /\ UNCHANGED <<data, pruned>>
  /\ batch' = <<>>
  /\ fpc' = Swapping(fpc)
  /\ UNCHANGED <<load, now, conf, start, made, buf, dropped, drained, cut, auditVars, phase>>

\* The count of dropped events is taken and logged.
Swap ==
  /\ Alive
  /\ fpc \in {"swap", "drainSwap", "lastSwap"}
  /\ reported' = reported + dropped
  /\ dropped' = 0
  /\ fpc' = AfterFlush(fpc)
  /\ UNCHANGED <<load, now, conf, start, made, buf, batch, drained, cut, data, pruned, auditVars,
                 phase>>
-----------------------------------------------------------------------------
\* recordAudit reads the clock before it appends the event ...
RecordAudit(a) ==
  /\ Alive
  /\ acting[a] = 0 /\ Cardinality(appended) < load.actions
  /\ acting' = [acting EXCEPT ![a] = now]
  /\ UNCHANGED <<load, now, conf, start, made, buf, dropped, flushVars, storeVars, audit,
                 appended, phase>>

\* ... AppendEvent: one transaction that also prunes; a failure is only logged.
AppendEvent(a) ==
  /\ Alive
  /\ acting[a] > 0
  /\ acting' = [acting EXCEPT ![a] = 0]
  /\ \/ LET seq == Cardinality(appended) + 1
            e == [id |-> seq, ts |-> acting[a], seq |-> seq]
        IN /\ seq <= load.actions
           /\ appended' = appended \cup {e}
           /\ audit' = PruneByCount(audit \cup {e}, MaxControl)
     \/ Faults /\ UNCHANGED <<audit, appended>>
  /\ UNCHANGED <<load, now, conf, start, made, buf, dropped, flushVars, storeVars, phase>>
-----------------------------------------------------------------------------
\* SIGTERM cancels the context that the servers and the flusher share.
Signal ==
  /\ Signals
  /\ phase = "running"
  /\ phase' = "stopping"
  /\ UNCHANGED <<load, now, conf, start, made, buf, dropped, flushVars, storeVars, auditVars>>

\* serve returns when the last request is answered: the process ends.
Exit ==
  /\ phase = "stopping"
  /\ \A w \in Workers : start[w] = 0
  /\ phase' = "exited"
  /\ UNCHANGED <<load, now, conf, start, made, buf, dropped, flushVars, storeVars, auditVars>>

\* ... or when shutdownTimeout is over.
ExitLate ==
  /\ phase = "stopping"
  /\ \E w \in Workers : start[w] > 0
  /\ phase' = "killed"
  /\ UNCHANGED <<load, now, conf, start, made, buf, dropped, flushVars, storeVars, auditVars>>

Tick ==
  /\ now < MaxTime
  /\ now' = now + 1
  /\ UNCHANGED <<load, conf, start, made, buf, dropped, flushVars, storeVars, auditVars, phase>>

Flusher == Receive \/ TickerFires \/ ContextDone \/ Drain \/ Flush \/ Swap

Next ==
  \/ \E w \in Workers : Begin(w) \/ End(w)
  \/ \E a \in Admins : RecordAudit(a) \/ AppendEvent(a)
  \/ SetAccessLog
  \/ Flusher
  \/ Signal \/ Exit \/ ExitLate \/ Tick

Spec == Init /\ [][Next]_vars

(***************************************************************************)
(* The flusher is a goroutine of a process that runs: it always goes on,   *)
(* and a select does not pass over a ready case forever.                   *)
(***************************************************************************)
FairSpec == Spec /\ WF_vars(Flusher) /\ SF_vars(Receive) /\ SF_vars(TickerFires)
-----------------------------------------------------------------------------
Query(S, limit, before) ==
  LET older == {e \in S : before = 0 \/ e.ts < before}
  IN {e \in older : Cardinality({f \in older : Before(e, f)}) < limit}

\* The next page is asked for with the time of the oldest event read so far.
NextPage(S, limit, read) ==
  LET oldest == Min({e.ts : e \in read} \cup {MaxTime + 1})
  IN read \cup Query(S, limit, IF read = {} THEN 0 ELSE oldest)

\* Everything a caller has read after n pages of the given size.
Paged(S, limit, n) ==
  LET pages[k \in 0 .. n] == IF k = 0 THEN {} ELSE NextPage(S, limit, pages[k - 1])
  IN pages[n]
-----------------------------------------------------------------------------
\* Every variable has its type, and the buffer and the batch their bounds.
TypeOK ==
  /\ load \in Loads /\ now \in Nat /\ conf \in Settings
  /\ start \in [Workers -> Nat]
  /\ made \in Nat /\ dropped \in Nat /\ pruned \in Nat /\ reported \in Nat
  /\ Len(buf) <= ChanCap /\ Len(batch) <= MaxBatch
  /\ fpc \in {"select", "flush", "swap", "drain", "drainFlush", "drainSwap",
              "lastFlush", "lastSwap", "done"}
  /\ drained <= ChanCap + 1 /\ cut <= made
  /\ phase \in {"running", "stopping", "exited", "killed"}
  /\ \A e \in data \cup audit : e.ts <= now

(***************************************************************************)
(* eventChanCap: "the drop is counted and logged, never silent".  At every *)
(* moment each event is in the buffer, in the batch, stored, pruned,       *)
(* counted as dropped or reported in the log, and in one of them only.     *)
(* The shutdown keeps to this for whatever was enqueued before the flusher *)
(* was told to stop: once its "final drain" is over, only events that came *)
(* during or after it are in a buffer nobody reads, and none is in the     *)
(* batch.                                                                  *)
(***************************************************************************)
EveryEventAccounted ==
  /\ TypeOK
  /\ made = Len(buf) + Len(batch) + Cardinality(data) + pruned + dropped + reported
  /\ fpc \in {"lastFlush", "lastSwap", "done"} => \A i \in DOMAIN buf : buf[i].id > cut
  /\ fpc = "done" => batch = <<>>

(***************************************************************************)
(* pruneBucket: "so both ceilings hold".  A flush leaves at most the count *)
(* cap and nothing older than the age cap, and what it removes to that end *)
(* is older than all it keeps, in whatever order requests ended.           *)
(***************************************************************************)
FlushKeepsNewest ==
  [][data' # data =>
       /\ conf.count > 0 => Cardinality(data') <= conf.count
       /\ conf.age > 0 => \A e \in data' : e.ts + conf.age >= now
       /\ \A e \in (data \cup Stored(batch)) \ data', f \in data' : Before(e, f)]_vars

(***************************************************************************)
(* maxControlEvents: "oldest records are pruned first".  Whatever the      *)
(* order in which concurrent admin actions read the clock and append, the  *)
(* trail is full before anything goes and what went is older than the rest. *)
(***************************************************************************)
AuditTrail ==
  /\ audit \subseteq appended
  /\ Cardinality(audit) = Min({Cardinality(appended), MaxControl})
  /\ \A e \in appended \ audit, f \in audit : Before(e, f)

(***************************************************************************)
(* QueryEvents: "a caller paginates by passing the timestamp of the oldest *)
(* event it has seen".  Pages of one event show every event, if they       *)
(* happened at different times.                                            *)
(***************************************************************************)
PagingComplete ==
  (\A e, f \in audit : e.ts = f.ts => e = f) => Paged(audit, 1, load.actions) = audit

(***************************************************************************)
(* GetAuditHandler: the newest actions are kept, and a client that goes    *)
(* from page to page sees all of them.                                     *)
(***************************************************************************)
AuditReadable == AuditTrail /\ PagingComplete

(***************************************************************************)
(* flushInterval bounds "worst-case visibility latency": while the process *)
(* runs, and is not told to stop, an event in the buffer is eventually     *)
(* flushed.                                                                *)
(***************************************************************************)
Waiting(n) == \E i \in DOMAIN buf : buf[i].id = n
Batched(n) == \E i \in DOMAIN batch : batch[i].id = n
EventsSettle ==
  \A n \in 1 .. Max({l.events : l \in Loads}) :
    Waiting(n) ~> (~Waiting(n) /\ ~Batched(n)) \/ phase # "running"
=============================================================================
