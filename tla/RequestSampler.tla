--------------------------- MODULE RequestSampler ---------------------------
(***************************************************************************)
(* The request chart of the dashboard: the counters the middleware keeps   *)
(* (metrics_s3activity.go), the goroutine that turns them into one sample  *)
(* per minute (sampler.go), the samples in users.db (request_samples.go)   *)
(* and the windows and bars the admin API makes of them                    *)
(* (requests_chart.go).                                                    *)
(*                                                                         *)
(* The three status classes are counted alike: this is one of them.  Time  *)
(* is the wall clock, in units of 1 / MinuteLen minutes, and it does not   *)
(* step back.  A counter stays far below 2^32, so toU32 never saturates.   *)
(***************************************************************************)
EXTENDS Integers, FiniteSets, FiniteSetsExt, Functions

CONSTANTS
  MinuteLen,   \* units of time in a minute, which is also the ticker's interval
  Jitter,      \* how late the ticker may fire
  Retentions,  \* the retention windows an admin may set
  Geometries,  \* requestRanges: length of a bar and number of bars of a window
  StoreFails,  \* TRUE: a bolt transaction may fail
  Starts,      \* wall-clock times the process may first start at
  MaxTime,     \* bound on the clock
  MaxRequests  \* bound on the number of requests served

ASSUME RequestSamplerAssumption ==
  /\ MinuteLen \in Nat \ {0} /\ Jitter \in Nat /\ StoreFails \in BOOLEAN
  /\ MaxTime \in Nat /\ MaxRequests \in Nat
  /\ Retentions \subseteq Nat /\ Retentions # {}
  /\ Starts \subseteq 0 .. MaxTime /\ Starts # {}
  /\ \A g \in Geometries : g.bucket \in Nat \ {0} /\ g.count \in Nat \ {0}
                           /\ g.bucket % MinuteLen = 0

VARIABLES
  now,        \* the clock
  running,    \* the process runs
  due,        \* when the ticker is to fire next
  prune,      \* within a tick: the set of the cutoff it has yet to prune at
  total,      \* the counter of the middleware
  last,       \* sampler.last
  samples,    \* the bucket RequestSamples: minutes to counts
  retention,  \* requestRetentionDays
  served,     \* history: requests served at each time
  taken,      \* history: requests the ticks of a minute have taken
  spoilt,     \* history: minutes with a failed transaction or a second tick
  horizon     \* history: latest time that was ever older than the retention

samplerVars == <<now, running, due, prune, total, last, samples, retention, served, taken, spoilt,
                 horizon>>

Times == 0 .. MaxTime
MinuteOf(t) == t \div MinuteLen
StartOf(minute) == minute * MinuteLen
Total(f, S) == FoldFunctionOnSet(+, 0, f, S)

SamplerInit ==
  /\ now \in Starts
  /\ running = TRUE
  /\ due = now + MinuteLen
  /\ prune = {}
  /\ total = 0 /\ last = 0
  /\ samples = <<>>
  /\ retention \in Retentions
  /\ served = [t \in Times |-> 0]
  /\ taken = [m \in 0 .. MinuteOf(MaxTime) |-> 0]
  /\ spoilt = {}
  /\ horizon = now - retention
-----------------------------------------------------------------------------
\* S3RequestOutcome, after the handler has run.
Serve ==
  /\ running
  /\ Total(served, Times) < MaxRequests
  /\ total' = total + 1
  /\ served' = [served EXCEPT ![now] = @ + 1]
  /\ UNCHANGED <<now, running, due, prune, last, samples, retention, taken, spoilt, horizon>>

\* Time passes, but a running process does not miss its ticker.
Advance ==
  /\ now < MaxTime
  /\ running => (now < due + Jitter /\ prune = {})
  /\ now' = now + 1
  /\ horizon' = Max({horizon, now + 1 - retention})
  /\ UNCHANGED <<running, due, prune, total, last, samples, retention, served, taken, spoilt>>

\* sub: the counter and the last reading start at zero together.
Delta == total - last

\* tick, up to PutRequestSample: the reading is taken whether it fails or not,
\* and a sample of the same minute is replaced.
PutRequestSample(ok) ==
  /\ samples' = IF ok THEN [m \in DOMAIN samples \cup {MinuteOf(now)} |->
                             IF m = MinuteOf(now) THEN Delta ELSE samples[m]]
                ELSE samples
  /\ last' = total

\* Run: the next tick keeps the phase of the first one, and the retention is
\* read before the tick.
Tick ==
  /\ running
  /\ prune = {}
  /\ now >= due
  /\ due' = due + MinuteLen
  /\ \E ok \in IF StoreFails THEN BOOLEAN ELSE {TRUE} :
       /\ PutRequestSample(ok)
       /\ prune' = IF ok THEN {now - retention} ELSE {}
       /\ spoilt' = IF ok /\ MinuteOf(now) \notin DOMAIN samples THEN spoilt
                    ELSE spoilt \cup {MinuteOf(now)}
  /\ taken' = [taken EXCEPT ![MinuteOf(now)] = @ + Delta]
  /\ UNCHANGED <<now, running, total, retention, served, horizon>>

\* Mutant: also the sample of the minute the cutoff falls in goes.
PruneRequestSamplesWide(cutoff) ==
  samples' = Restrict(samples, {m \in DOMAIN samples : StartOf(m) > cutoff + MinuteLen})

\* PruneRequestSamples: what is strictly older goes.
PruneRequestSamples(cutoff) ==
  samples' = Restrict(samples, {m \in DOMAIN samples : StartOf(m) >= cutoff})

Prune ==
  /\ running
  /\ \E cutoff \in prune : \/ PruneRequestSamples(cutoff)
                           \/ StoreFails /\ UNCHANGED samples
  /\ prune' = {}
  /\ UNCHANGED <<now, running, due, total, last, retention, served, taken, spoilt, horizon>>

\* PutRetentionHandler; what it persists is the subject of RuntimeConfig.
PutRetention ==
  /\ running
  /\ retention' \in Retentions \ {retention}
  /\ horizon' = Max({horizon, now - retention'})
  /\ UNCHANGED <<now, running, due, prune, total, last, samples, served, taken, spoilt>>

\* A shutdown or a crash, also between the two transactions of a tick.
Stop ==
  /\ running
  /\ running' = FALSE
  /\ due' = 0 /\ prune' = {}
  /\ total' = 0 /\ last' = 0
  /\ UNCHANGED <<now, samples, retention, served, taken, spoilt, horizon>>

\* Run: a new sampler with a new ticker, and counters at zero.
Restart ==
  /\ ~running
  /\ running' = TRUE
  /\ due' = now + MinuteLen
  /\ UNCHANGED <<now, prune, total, last, samples, retention, served, taken, spoilt, horizon>>

SamplerNext == Serve \/ Advance \/ Tick \/ Prune \/ PutRetention \/ Stop \/ Restart

SamplerSpec == SamplerInit /\ [][SamplerNext]_samplerVars
-----------------------------------------------------------------------------
(***************************************************************************)
(* buildRequestSeries: the bars of a window, counted from now backwards.   *)
(***************************************************************************)
Width(g) == g.bucket * g.count

\* Mutant: the bar in progress is left out.
WindowEndWithout(g, offset) == (now \div g.bucket) * g.bucket - offset * Width(g)

\* The bar in progress is the last one of the window at offset 0.
WindowEnd(g, offset) == (now \div g.bucket) * g.bucket + g.bucket - offset * Width(g)

WindowStart(g, offset) == WindowEnd(g, offset) - Width(g)

\* QueryRequestSamples, and the index of the bar a sample is added to.
Bars(g, offset, m) ==
  {i \in 0 .. g.count - 1 :
     /\ StartOf(m) \in WindowStart(g, offset) .. WindowEnd(g, offset) - 1
     /\ i = (StartOf(m) - WindowStart(g, offset)) \div g.bucket}

CanBack(g, offset) == WindowStart(g, offset) > now - retention

\* Windows an admin comes to by going back while the answer allows it.
Offsets(g) ==
  {o \in 0 .. MaxTime \div Width(g) + 1 : \A p \in 0 .. o - 1 : CanBack(g, p)}
-----------------------------------------------------------------------------
\* Every variable has its type.
SamplerTypeOK ==
  /\ now \in Times /\ running \in BOOLEAN /\ Cardinality(prune) <= 1
  /\ last <= total /\ total <= Total(served, Times)
  /\ DOMAIN samples \subseteq DOMAIN taken
  /\ \A m \in DOMAIN samples : samples[m] \in 0 .. MaxRequests
  /\ retention \in Retentions

(***************************************************************************)
(* "tick records one interval's delta against the truncated minute".  A    *)
(* sample counts only requests of the interval before it: the samples from *)
(* any minute on never sum to more than was served since one interval      *)
(* before that minute, whatever failed or was restarted in between.        *)
(***************************************************************************)
NeverOvercounted ==
  \A from \in DOMAIN samples :
    Total(samples, {m \in DOMAIN samples : m >= from})
      <= Total(served, {t \in Times : t >= StartOf(from) - MinuteLen - Jitter})

(***************************************************************************)
(* The samples are a time series of "the cumulative S3 request-outcome     *)
(* counters" "once a minute": what the tick of a minute has taken is in    *)
(* its sample for as long as it is within the retention, unless the        *)
(* transaction failed or a late tick shares the minute of the next one.    *)
(***************************************************************************)
SeriesExact ==
  \A m \in DOMAIN taken \ spoilt :
    taken[m] > 0 /\ StartOf(m) >= horizon => m \in DOMAIN samples /\ samples[m] = taken[m]

(***************************************************************************)
(* The chart never shows a request twice, and shows every one that the     *)
(* store did not lose.                                                     *)
(***************************************************************************)
SeriesSound == SamplerTypeOK /\ NeverOvercounted /\ SeriesExact

(***************************************************************************)
(* "shifting the window by exactly that on each offset step keeps bucket   *)
(* boundaries wall-aligned": whatever the window, every sample within the  *)
(* retention is in one bar, and only one, of the windows an admin can go   *)
(* back to.                                                                *)
(***************************************************************************)
ChartReaches ==
  \A g \in Geometries, m \in DOMAIN samples :
    StartOf(m) >= now - retention
      => Cardinality({ob \in Offsets(g) \X (0 .. g.count - 1) : ob[2] \in Bars(g, ob[1], m)}) = 1
=============================================================================
