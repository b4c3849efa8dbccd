--------------------------- MODULE AdminApiProofs ---------------------------
(***************************************************************************)
(* Proofs about two components of the admin API.  RuntimeConfig, for any   *)
(* number of admin requests, any range, any environment and every shape of *)
(* setting.  RequestSampler, for any length of a minute, any delay of the  *)
(* ticker, any retention and any geometry of the chart's windows.          *)
(***************************************************************************)
EXTENDS Integers, RuntimeConfig, RequestSampler, FiniteSetTheorems,
        WellFoundedInduction, TLAPS

Values == Lo .. Hi

\* The same value in every key.
Uniform(v) == [k \in Keys |-> v]

(***************************************************************************)
(* The requests: what each stage of a change carries.  An override holds   *)
(* the submitted value; without one, the value is the environment's.       *)
(***************************************************************************)
Persisting(r) ==
  /\ r \in [op : {"persist"}, val : Values, todo : SUBSET Keys, store : SUBSET Values]
  /\ r.todo # {}
  /\ r.store = {r.val} \/ (r.store = {} /\ r.val = Env)
Applying(r) == r \in [op : {"apply"}, val : Values, next : DOMAIN Cells]
Answering(r) == r \in [op : {"answer"}, val : Values]

RequestsOK ==
  /\ req = [a \in Admins |-> req[a]]
  /\ \A a \in Admins : \/ req[a] = Idle \/ Persisting(req[a])
                       \/ Applying(req[a]) \/ Answering(req[a])
  /\ ~up => \A a \in Admins : req[a] = Idle

\* The values kept are valid ones.
ValuesOK ==
  /\ shape \in Settings
  /\ db = [k \in Keys |-> db[k]]
  /\ \A k \in Keys : db[k] = {} \/ \E v \in Values : db[k] = {v}
  /\ live = [i \in DOMAIN Cells |-> live[i]]
  /\ \A i \in DOMAIN Cells : live[i] \in [Cells[i] -> Values]
  /\ up \in BOOLEAN
  /\ solo \subseteq Admins /\ split \in BOOLEAN /\ known \subseteq Values

(***************************************************************************)
(* How far a change that runs alone has come: the keys it has persisted,   *)
(* then the cells it has applied.                                          *)
(***************************************************************************)
Stage(a) ==
  /\ req[a].op = "persist" => \A k \in Keys \ req[a].todo : db[k] = req[a].store
  /\ req[a].op \in {"apply", "answer"} => Effective(db) = Uniform(req[a].val)
  /\ req[a].op = "apply" => \A i \in DOMAIN Cells : i < req[a].next =>
                              live[i] = [k \in Cells[i] |-> req[a].val]
  /\ req[a].op = "answer" => live = LiveOf(Uniform(req[a].val))

SoloOK == \A a \in solo : Stage(a) /\ \A b \in Admins : b # a => req[b] = Idle

\* A change that has not touched the store yet.
Untouched(a) == req[a].op = "persist" /\ req[a].todo = Keys

(***************************************************************************)
(* As long as changes have been whole, only one is under way, and before   *)
(* it touches the store the live values are the persisted ones.            *)
(***************************************************************************)
WholeOK ==
  ~split => /\ \A a \in Admins : req[a] # Idle => a \in solo
            /\ up /\ (\A a \in Admins : req[a] = Idle \/ Untouched(a))
                 => live = LiveOf(Effective(db))

\* The value last answered is persisted and live, and no change is being applied.
KnownOK ==
  \A v \in known : /\ Effective(db) = Uniform(v)
                   /\ up => live = LiveOf(Uniform(v))
                   /\ \A a \in Admins : req[a] = Idle \/ req[a].op = "persist"

\* The inductive invariant.
Inv == ValuesOK /\ RequestsOK /\ SoloOK /\ WholeOK /\ KnownOK

-----------------------------------------------------------------------------
\* Every setting has a key, and cells that cover keys of it.
LEMMA ShapeFacts ==
  ASSUME shape \in Settings
  PROVE  /\ Keys # {}
         /\ Len(Cells) \in Nat /\ Len(Cells) >= 1 /\ DOMAIN Cells = 1 .. Len(Cells)
         /\ \A i \in DOMAIN Cells : Cells[i] \subseteq Keys
<1>1. \/ shape = IPBanShape \/ shape = RateLimitShape \/ shape = SyncWritesShape
      \/ shape = RetentionShape \/ shape = AccessLogShape \/ shape = TrustedProxyShape
  BY RuntimeConfigAssumption
<1> USE DEF Keys, Cells
<1>2. CASE shape = IPBanShape
  BY <1>2 DEF IPBanShape
<1>3. CASE shape = RateLimitShape
  BY <1>3 DEF RateLimitShape
<1>4. CASE shape = SyncWritesShape
  BY <1>4 DEF SyncWritesShape
<1>5. CASE shape = RetentionShape
  BY <1>5 DEF RetentionShape
<1>6. CASE shape = AccessLogShape
  BY <1>6 DEF AccessLogShape
<1>7. CASE shape = TrustedProxyShape
  BY <1>7 DEF TrustedProxyShape
<1> QED BY <1>1, <1>2, <1>3, <1>4, <1>5, <1>6, <1>7

\* The range, and what clamping to it gives.
LEMMA ClampFacts ==
  /\ Env \in Values /\ Values \subseteq Nat
  /\ \A v \in Values : Clamp(v) = v
  /\ \A v \in Inputs : Clamp(v) \in Values
BY RuntimeConfigAssumption DEF Clamp, Values

\* What a restart makes of a store that holds one value, or none, for a key.
LEMMA EffectiveFacts ==
  ASSUME NEW d, NEW k \in Keys
  PROVE  /\ d[k] = {} => Effective(d)[k] = Env
         /\ \A v \in Values : d[k] = {v} => Effective(d)[k] = v
<1>1. \A v : (CHOOSE x \in {v} : TRUE) = v
  OBVIOUS
<1>2. \A v \in Values : d[k] = {v} => Effective(d)[k] = Clamp(v)
  BY <1>1 DEF Effective
<1> QED BY <1>2, ClampFacts DEF Effective

\* A store whose keys all hold one change's override is that change's value.
LEMMA UniformFacts ==
  ASSUME NEW d, NEW r, Persisting(r), \A k \in Keys : d[k] = r.store
  PROVE  Effective(d) = Uniform(r.val)
<1>1. \A k \in Keys : Effective(d)[k] = r.val
  BY EffectiveFacts DEF Persisting
<1>2. DOMAIN Effective(d) = Keys /\ Effective(d) = [k \in Keys |-> Effective(d)[k]]
  BY DEF Effective
<1> QED BY <1>1, <1>2 DEF Uniform

\* A restart only brings valid values.
LEMMA EffectiveType ==
  ASSUME ValuesOK, NEW k \in Keys
  PROVE  Effective(db)[k] \in Values
BY EffectiveFacts, ClampFacts DEF ValuesOK

\* Live cells, from one value per key.
LEMMA LiveFacts ==
  ASSUME shape \in Settings, NEW f
  PROVE  /\ DOMAIN LiveOf(f) = DOMAIN Cells
         /\ \A i \in DOMAIN Cells : LiveOf(f)[i] = [k \in Cells[i] |-> f[k]]
         /\ (\A k \in Keys : f[k] \in Values)
              => \A i \in DOMAIN Cells : LiveOf(f)[i] \in [Cells[i] -> Values]
BY ShapeFacts DEF LiveOf

\* Cells that all hold one value.
LEMMA LiveUniform ==
  ASSUME ValuesOK, NEW v,
         \A i \in DOMAIN Cells : live[i] = [k \in Cells[i] |-> v]
  PROVE  live = LiveOf(Uniform(v))
<1>1. \A i \in DOMAIN Cells : \A k \in Cells[i] : Uniform(v)[k] = v
  BY ShapeFacts DEF ValuesOK, Uniform
<1>2. \A i \in DOMAIN Cells : live[i] = [k \in Cells[i] |-> Uniform(v)[k]]
  BY <1>1
<1> QED BY <1>2 DEF LiveOf, ValuesOK

\* The operators that read the shape do not change with the state.
LEMMA ShapeFixed ==
  ASSUME UNCHANGED shape
  PROVE  /\ Keys' = Keys /\ Cells' = Cells
         /\ \A d : Effective(d)' = Effective(d)
         /\ \A f : LiveOf(f)' = LiveOf(f)
         /\ \A v : Uniform(v)' = Uniform(v)
         /\ \A r : /\ Persisting(r)' = Persisting(r)
                   /\ Applying(r)' = Applying(r)
                   /\ Answering(r)' = Answering(r)
BY DEF Keys, Cells, Effective, LiveOf, Uniform, Persisting, Applying, Answering

\* The four kinds of request are told apart by their stage.
LEMMA RequestKinds ==
  ASSUME RequestsOK, NEW a \in Admins
  PROVE  /\ req[a].op = "persist" => Persisting(req[a])
         /\ req[a].op = "apply" => Applying(req[a])
         /\ req[a].op = "answer" => Answering(req[a])
         /\ req[a].op \in {"persist", "apply", "answer"} => req[a] # Idle
         /\ req[a].op \in {"idle", "persist", "apply", "answer"}
BY DEF RequestsOK, Idle, Persisting, Applying, Answering

\* Initially the environment's value is in force, and nothing is persisted.
LEMMA InitInv == Init => Inv
<1> SUFFICES ASSUME Init PROVE Inv
  OBVIOUS
<1>1. shape \in Settings /\ db = [k \in Keys |-> {}] /\ live = LiveOf(Effective(db))
  BY DEF Init
<1>2. \A k \in Keys : Effective(db)[k] = Env
  BY <1>1, EffectiveFacts
<1>3. Effective(db) = Uniform(Env)
  BY <1>2 DEF Effective, Uniform
<1>4. ValuesOK
  <2>1. \A i \in DOMAIN Cells : live[i] \in [Cells[i] -> Values]
    BY <1>1, <1>2, LiveFacts, ClampFacts
  <2>2. live = [i \in DOMAIN Cells |-> live[i]]
    BY <1>1 DEF LiveOf
  <2> QED BY <1>1, <2>1, <2>2, ClampFacts DEF Init, ValuesOK
<1>5. RequestsOK
  BY DEF Init, RequestsOK
<1>6. SoloOK
  BY DEF Init, SoloOK
<1>7. WholeOK
  BY <1>1 DEF Init, WholeOK
<1>8. KnownOK
  BY <1>1, <1>3 DEF Init, KnownOK
<1> QED BY <1>4, <1>5, <1>6, <1>7, <1>8 DEF Inv

\* A change begins: nothing is touched yet.
LEMMA BeginInv ==
  ASSUME Inv, NEW a \in Admins, Put(a) \/ Delete(a)
  PROVE  Inv'
<1>0. ValuesOK /\ RequestsOK /\ SoloOK /\ WholeOK /\ KnownOK
  BY DEF Inv
<1>1. PICK r : /\ Persisting(r) /\ r.todo = Keys
               /\ req' = [req EXCEPT ![a] = r]
  <2>0. Keys # {}
    BY <1>0, ShapeFacts DEF ValuesOK
  <2>1. CASE Put(a)
    <3>1. PICK v \in Inputs :
            req' = [req EXCEPT ![a] = [op |-> "persist", val |-> Clamp(v), todo |-> Keys,
                                       store |-> {Clamp(v)}]]
      BY <2>1 DEF Put, Goto
    <3>2. Clamp(v) \in Values
      BY ClampFacts
    <3> QED BY <2>0, <3>1, <3>2 DEF Persisting
  <2>2. CASE Delete(a)
    <3>1. req' = [req EXCEPT ![a] = [op |-> "persist", val |-> Env, todo |-> Keys,
                                     store |-> {}]]
      BY <2>2 DEF Delete, Goto
    <3> QED BY <2>0, <3>1, ClampFacts DEF Persisting
  <2> QED BY <2>1, <2>2
<1>2. up /\ req[a] = Idle /\ Begin(a) /\ UNCHANGED <<shape, db, live, up, known>>
  BY DEF Put, Delete
<1>3. /\ req'[a] = r /\ r.op = "persist" /\ r # Idle
      /\ \A b \in Admins \ {a} : req'[b] = req[b]
      /\ req' = [b \in Admins |-> req'[b]]
  BY <1>0, <1>1 DEF RequestsOK, Persisting, Idle
<1>f. Keys' = Keys /\ Cells' = Cells
  BY <1>2, ShapeFixed
<1>g. /\ Effective(db)' = Effective(db)
      /\ LiveOf(Effective(db))' = LiveOf(Effective(db))
      /\ \A v : Uniform(v)' = Uniform(v) /\ LiveOf(Uniform(v))' = LiveOf(Uniform(v))
  BY <1>2 DEF Effective, LiveOf, Uniform, Keys, Cells
<1>4. ValuesOK'
  BY <1>0, <1>2, <1>f DEF ValuesOK, Begin
<1>5. RequestsOK'
  BY <1>0, <1>1, <1>2, <1>3, ShapeFixed DEF RequestsOK
<1>6. SoloOK'
  <2> SUFFICES ASSUME NEW s \in solo' PROVE Stage(s)' /\ \A b \in Admins : b # s => req'[b] = Idle
    BY DEF SoloOK
  <2>1. s = a /\ \A b \in Admins : req[b] = Idle
    BY <1>2 DEF Begin
  <2>2. Stage(a)'
    BY <1>1, <1>3, <1>f DEF Stage
  <2> QED BY <1>3, <2>1, <2>2
<1>7. WholeOK'
  <2> SUFFICES ASSUME ~split' PROVE WholeOK'
    BY DEF WholeOK
  <2>1. ~split /\ solo' = {a} /\ \A b \in Admins : req[b] = Idle
    BY <1>2 DEF Begin
  <2>2. live = LiveOf(Effective(db))
    BY <1>0, <1>2, <2>1 DEF WholeOK
  <2> QED BY <1>2, <1>3, <1>g, <2>1, <2>2 DEF WholeOK
<1>8. KnownOK'
  BY <1>0, <1>2, <1>3, <1>g DEF KnownOK
<1> QED BY <1>4, <1>5, <1>6, <1>7, <1>8 DEF Inv

\* The worker whose change runs alone is the only one with a request.
LEMMA SoloOnly ==
  ASSUME Inv, NEW a \in Admins, req[a] # Idle
  PROVE  /\ solo \subseteq {a}
         /\ ~split => a \in solo
         /\ a \in solo => Stage(a) /\ \A b \in Admins \ {a} : req[b] = Idle
BY DEF Inv, ValuesOK, SoloOK, WholeOK

\* One key is persisted.
LEMMA PersistKeyInv ==
  ASSUME Inv, NEW a \in Admins, req[a].op = "persist", NEW k \in req[a].todo,
         PutConfigValue(k, req[a].store),
         Goto(a, IF req[a].todo = {k} THEN [op |-> "apply", val |-> req[a].val, next |-> 1]
                 ELSE [req[a] EXCEPT !.todo = @ \ {k}]),
         known' = {}, UNCHANGED <<shape, live, up, solo, split>>
  PROVE  Inv'
<1>0. ValuesOK /\ RequestsOK /\ SoloOK /\ WholeOK /\ KnownOK
  BY DEF Inv
<1> DEFINE r == req[a]
<1>1. Persisting(r) /\ r # Idle /\ k \in Keys /\ r.val \in Values
  BY <1>0, RequestKinds DEF Persisting
<1>2. /\ \A b \in Admins \ {a} : req'[b] = req[b]
      /\ req'[a] = IF r.todo = {k} THEN [op |-> "apply", val |-> r.val, next |-> 1]
                   ELSE [r EXCEPT !.todo = @ \ {k}]
      /\ req' = [b \in Admins |-> req'[b]]
  BY <1>0 DEF RequestsOK, Goto
<1>3. /\ db' = [j \in Keys |-> db'[j]]
      /\ db'[k] = r.store
      /\ \A j \in Keys \ {k} : db'[j] = db[j]
  BY <1>0, <1>1 DEF ValuesOK, PutConfigValue
<1>f. Keys' = Keys /\ Cells' = Cells
  BY ShapeFixed
<1>4. ValuesOK'
  <2>1. \A j \in Keys : db'[j] = {} \/ \E v \in Values : db'[j] = {v}
    BY <1>0, <1>1, <1>3 DEF ValuesOK, Persisting
  <2> QED BY <1>0, <1>3, <1>f, <2>1 DEF ValuesOK
<1>5. CASE r.todo = {k}
  <2>1. req'[a] = [op |-> "apply", val |-> r.val, next |-> 1]
    BY <1>2, <1>5
  <2>2. 1 \in DOMAIN Cells
    BY <1>0, ShapeFacts DEF ValuesOK
  <2>3. Applying(req'[a]) /\ req'[a] # Idle /\ req'[a].op = "apply"
    BY <1>1, <2>1, <2>2 DEF Applying, Idle
  <2>4. RequestsOK'
    BY <1>0, <1>1, <1>2, <2>3, ShapeFixed DEF RequestsOK
  <2>5. SoloOK'
    <3> SUFFICES ASSUME a \in solo PROVE Stage(a)' /\ \A b \in Admins \ {a} : req'[b] = Idle
      BY <1>1, SoloOnly DEF SoloOK
    <3>1. \A j \in Keys : db'[j] = r.store
      BY <1>1, <1>3, <1>5, SoloOnly DEF Stage
    <3>2. Effective(db') = Uniform(r.val)
      BY <1>1, <3>1, UniformFacts
    <3>3. Effective(db)' = Uniform(req[a].val)'
      BY <1>f, <2>1, <3>2 DEF Effective, Uniform
    <3>4. \A i \in DOMAIN Cells : ~(i < 1)
      BY <1>0, ShapeFacts DEF ValuesOK
    <3> QED BY <1>1, <1>2, <1>f, <2>1, <3>3, <3>4, SoloOnly DEF Stage
  <2>6. WholeOK'
    <3> SUFFICES ASSUME ~split PROVE WholeOK'
      BY DEF WholeOK
    <3>1. \A b \in Admins : req'[b] # Idle => b \in solo
      BY <1>1, <1>2, SoloOnly
    <3>2. ~(req'[a] = Idle \/ Untouched(a)')
      BY <2>3 DEF Untouched
    <3> QED BY <3>1, <3>2 DEF WholeOK
  <2>7. KnownOK'
    BY DEF KnownOK
  <2> QED BY <1>4, <2>4, <2>5, <2>6, <2>7 DEF Inv
<1>6. CASE r.todo # {k}
  <2>1. req'[a] = [r EXCEPT !.todo = @ \ {k}]
    BY <1>2, <1>6
  <2>2. /\ Persisting(req'[a]) /\ req'[a] # Idle /\ req'[a].op = "persist"
        /\ req'[a].todo = r.todo \ {k} /\ req'[a].store = r.store
    BY <1>1, <1>6, <2>1 DEF Persisting, Idle
  <2>4. RequestsOK'
    BY <1>0, <1>1, <1>2, <2>2, ShapeFixed DEF RequestsOK
  <2>5. SoloOK'
    <3> SUFFICES ASSUME a \in solo PROVE Stage(a)' /\ \A b \in Admins \ {a} : req'[b] = Idle
      BY <1>1, SoloOnly DEF SoloOK
    <3>1. \A j \in Keys \ req'[a].todo : db'[j] = req'[a].store
      BY <1>1, <1>3, <2>2, SoloOnly DEF Stage
    <3> QED BY <1>1, <1>2, <1>f, <2>2, <3>1, SoloOnly DEF Stage
  <2>6. WholeOK'
    <3> SUFFICES ASSUME ~split PROVE WholeOK'
      BY DEF WholeOK
    <3>1. \A b \in Admins : req'[b] # Idle => b \in solo
      BY <1>1, <1>2, SoloOnly
    <3>2. ~(req'[a] = Idle \/ Untouched(a)')
      BY <1>1, <1>f, <2>2 DEF Untouched
    <3> QED BY <3>1, <3>2 DEF WholeOK
  <2>7. KnownOK'
    BY DEF KnownOK
  <2> QED BY <1>4, <2>4, <2>5, <2>6, <2>7 DEF Inv
<1> QED BY <1>5, <1>6

\* A transaction fails: answered 500, the keys persisted so far stay.
LEMMA PersistFailsInv ==
  ASSUME Inv, NEW a \in Admins, req[a].op = "persist", Goto(a, Idle),
         split' = (split \/ req[a].todo # Keys), known' = {},
         UNCHANGED <<shape, db, live, up, solo>>
  PROVE  Inv'
<1>0. ValuesOK /\ RequestsOK /\ SoloOK /\ WholeOK /\ KnownOK
  BY DEF Inv
<1>1. req[a] # Idle
  BY <1>0, RequestKinds
<1>2. /\ \A b \in Admins \ {a} : req'[b] = req[b]
      /\ req'[a] = Idle
      /\ req' = [b \in Admins |-> req'[b]]
  BY <1>0 DEF RequestsOK, Goto
<1>f. Keys' = Keys /\ Cells' = Cells
  BY ShapeFixed
<1>4. ValuesOK'
  BY <1>0, <1>f DEF ValuesOK
<1>5. RequestsOK'
  BY <1>0, <1>2, ShapeFixed DEF RequestsOK
<1>6. SoloOK'
  BY <1>1, <1>2, SoloOnly DEF SoloOK, Stage, Idle
<1>7. WholeOK'
  <2> SUFFICES ASSUME ~split, req[a].todo = Keys PROVE WholeOK'
    BY DEF WholeOK
  <2>1. \A b \in Admins : req[b] = Idle \/ Untouched(b)
    BY <1>1, SoloOnly DEF Untouched
  <2>2. up => live = LiveOf(Effective(db))
    BY <1>0, <2>1 DEF WholeOK
  <2>3. LiveOf(Effective(db))' = LiveOf(Effective(db))
    BY DEF LiveOf, Effective, Keys, Cells
  <2> QED BY <1>1, <1>2, <2>2, <2>3, SoloOnly DEF WholeOK
<1>8. KnownOK'
  BY DEF KnownOK
<1> QED BY <1>4, <1>5, <1>6, <1>7, <1>8 DEF Inv

\* One live cell is stored.
LEMMA ApplyInv ==
  ASSUME Inv, NEW a \in Admins, Apply(a)
  PROVE  Inv'
<1>0. ValuesOK /\ RequestsOK /\ SoloOK /\ WholeOK /\ KnownOK
  BY DEF Inv
<1> DEFINE r == req[a]
           n == Len(Cells)
           next == IF r.next = n THEN [op |-> "answer", val |-> r.val]
                   ELSE [r EXCEPT !.next = r.next + 1]
<1>1. Applying(r) /\ r # Idle /\ r.op = "apply" /\ r.val \in Values /\ r.next \in DOMAIN Cells
  BY <1>0, RequestKinds DEF Apply, Applying
<1>2. /\ live' = [live EXCEPT ![r.next] = [k \in Cells[r.next] |-> r.val]]
      /\ req' = [req EXCEPT ![a] = next]
      /\ UNCHANGED <<shape, db, up, solo, split, known>>
  BY DEF Apply, Goto, history
<1>3. /\ \A b \in Admins \ {a} : req'[b] = req[b]
      /\ req'[a] = next
      /\ req' = [b \in Admins |-> req'[b]]
  BY <1>0, <1>2 DEF RequestsOK
<1>f. Keys' = Keys /\ Cells' = Cells
  BY <1>2, ShapeFixed
<1>d. n \in Nat /\ n >= 1 /\ DOMAIN Cells = 1 .. n
  BY <1>0, ShapeFacts DEF ValuesOK
<1>l. /\ live' = [i \in DOMAIN Cells |-> live'[i]]
      /\ live'[r.next] = [k \in Cells[r.next] |-> r.val]
      /\ \A i \in DOMAIN Cells : i # r.next => live'[i] = live[i]
  BY <1>0, <1>1, <1>2 DEF ValuesOK
<1>4. ValuesOK'
  <2>1. \A i \in DOMAIN Cells : live'[i] \in [Cells[i] -> Values]
    BY <1>0, <1>1, <1>l DEF ValuesOK
  <2> QED BY <1>0, <1>2, <1>f, <1>l, <2>1 DEF ValuesOK
<1>5. /\ Applying(next) \/ Answering(next)
      /\ next # Idle /\ next.op \in {"apply", "answer"} /\ next.val = r.val
      /\ next.op = "apply" => r.next # n /\ next.next = r.next + 1
      /\ next.op = "answer" => r.next = n
  <2>1. CASE r.next = n
    BY <1>1, <2>1 DEF Answering, Idle
  <2>2. CASE r.next # n
    <3>1. r.next + 1 \in DOMAIN Cells
      BY <1>1, <1>d, <2>2
    <3> QED BY <1>1, <2>2, <3>1 DEF Applying, Idle
  <2> QED BY <2>1, <2>2
<1> HIDE DEF next
<1>6. RequestsOK'
  BY <1>0, <1>1, <1>2, <1>3, <1>5, ShapeFixed DEF RequestsOK
<1>7. SoloOK'
  <2> SUFFICES ASSUME a \in solo PROVE Stage(a)' /\ \A b \in Admins \ {a} : req'[b] = Idle
    BY <1>1, <1>2, SoloOnly DEF SoloOK
  <2>1. Stage(a) /\ \A b \in Admins \ {a} : req[b] = Idle
    BY <1>1, SoloOnly
  <2>2. Effective(db)' = Uniform(req[a].val)'
    BY <1>1, <1>2, <1>3, <1>5, <1>f, <2>1 DEF Stage, Effective, Uniform
  <2>3. \A i \in DOMAIN Cells : i < r.next + 1 => live'[i] = [k \in Cells[i] |-> r.val]
    <3> SUFFICES ASSUME NEW i \in DOMAIN Cells, i < r.next + 1
                 PROVE  live'[i] = [k \in Cells[i] |-> r.val]
      OBVIOUS
    <3>1. i = r.next \/ i < r.next
      BY <1>1, <1>d
    <3> QED BY <1>1, <1>l, <2>1, <3>1 DEF Stage
  <2>4. ASSUME next.op = "answer" PROVE live' = LiveOf(Uniform(r.val))
    <3>1. \A i \in DOMAIN Cells : live'[i] = [k \in Cells[i] |-> r.val]
      <4>1. \A i \in DOMAIN Cells : i < r.next + 1
        BY <1>1, <1>5, <1>d, <2>4
      <4> QED BY <2>3, <4>1
    <3>2. \A i \in DOMAIN Cells : \A k \in Cells[i] : Uniform(r.val)[k] = r.val
      BY <1>0, ShapeFacts DEF ValuesOK, Uniform
    <3>3. \A i \in DOMAIN Cells : live'[i] = [k \in Cells[i] |-> Uniform(r.val)[k]]
      BY <3>1, <3>2
    <3> QED BY <1>l, <3>3 DEF LiveOf
  <2>5. LiveOf(Uniform(req[a].val))' = LiveOf(Uniform(req'[a].val))
    BY <1>f DEF LiveOf, Uniform
  <2>6. next.op = "apply" => \A i \in DOMAIN Cells : i < next.next =>
                               live'[i] = [k \in Cells[i] |-> next.val]
    BY <1>5, <2>3
  <2>7. next.op = "answer" => live' = LiveOf(Uniform(req[a].val))'
    BY <1>3, <1>5, <2>4, <2>5
  <2>8. Stage(a)'
    BY <1>3, <1>5, <1>f, <2>2, <2>6, <2>7 DEF Stage
  <2> QED BY <1>3, <2>1, <2>8
<1>8. WholeOK'
  BY <1>1, <1>2, <1>3, <1>5, SoloOnly DEF WholeOK, Untouched
<1>9. KnownOK'
  BY <1>0, <1>1, <1>2 DEF KnownOK
<1> QED BY <1>4, <1>6, <1>7, <1>8, <1>9 DEF Inv

\* The answer of a change that ran alone reports what is persisted and in force.
LEMMA AnswerInv ==
  ASSUME Inv, NEW a \in Admins, Answer(a)
  PROVE  Inv'
<1>0. ValuesOK /\ RequestsOK /\ SoloOK /\ WholeOK /\ KnownOK
  BY DEF Inv
<1>1. req[a] # Idle /\ req[a].op = "answer" /\ req[a].val \in Values
  BY <1>0, RequestKinds DEF Answer, Answering
<1>2. /\ known' = IF a \in solo THEN {req[a].val} ELSE {}
      /\ split' = (split /\ a \notin solo)
      /\ UNCHANGED <<shape, db, live, up, solo>>
  BY DEF Answer
<1>3. /\ \A b \in Admins \ {a} : req'[b] = req[b]
      /\ req'[a] = Idle
      /\ req' = [b \in Admins |-> req'[b]]
  BY <1>0 DEF RequestsOK, Answer, Goto
<1>f. Keys' = Keys /\ Cells' = Cells
  BY <1>2, ShapeFixed
<1>g. /\ Effective(db)' = Effective(db)
      /\ LiveOf(Effective(db))' = LiveOf(Effective(db))
      /\ \A v : Uniform(v)' = Uniform(v) /\ LiveOf(Uniform(v))' = LiveOf(Uniform(v))
  BY <1>2 DEF Effective, LiveOf, Uniform, Keys, Cells
<1>4. ValuesOK'
  BY <1>0, <1>1, <1>2, <1>f DEF ValuesOK
<1>5. RequestsOK'
  BY <1>0, <1>2, <1>3, ShapeFixed DEF RequestsOK
<1>6. SoloOK'
  BY <1>1, <1>2, <1>3, SoloOnly DEF SoloOK, Stage, Idle
<1>7. CASE a \in solo
  <2>1. /\ \A b \in Admins : req'[b] = Idle
        /\ Effective(db) = Uniform(req[a].val)
        /\ live = LiveOf(Uniform(req[a].val))
    BY <1>1, <1>3, <1>7, SoloOnly DEF Stage
  <2>2. WholeOK'
    BY <1>2, <1>g, <2>1 DEF WholeOK
  <2>3. KnownOK'
    BY <1>2, <1>7, <1>g, <2>1 DEF KnownOK
  <2> QED BY <1>4, <1>5, <1>6, <2>2, <2>3 DEF Inv
<1>8. CASE a \notin solo
  <2>1. WholeOK'
    BY <1>1, <1>2, <1>8, SoloOnly DEF WholeOK
  <2>2. KnownOK'
    BY <1>2, <1>8 DEF KnownOK
  <2> QED BY <1>4, <1>5, <1>6, <2>1, <2>2 DEF Inv
<1> QED BY <1>7, <1>8

\* Memory is lost; the store stays.
LEMMA CrashInv ==
  ASSUME Inv, Crash
  PROVE  Inv'
<1>0. ValuesOK /\ RequestsOK /\ SoloOK /\ WholeOK /\ KnownOK
  BY DEF Inv
<1>1. /\ ~up' /\ up' \in BOOLEAN /\ req' = [a \in Admins |-> Idle]
      /\ UNCHANGED <<shape, db, live, solo, split, known>>
  BY DEF Crash, history
<1>f. Keys' = Keys /\ Cells' = Cells
  BY <1>1, ShapeFixed
<1>g. Effective(db)' = Effective(db) /\ \A v : Uniform(v)' = Uniform(v)
  BY <1>1 DEF Effective, Uniform, Keys
<1>2. ValuesOK'
  BY <1>0, <1>1, <1>f DEF ValuesOK
<1>3. RequestsOK'
  BY <1>1 DEF RequestsOK
<1>4. SoloOK'
  BY <1>0, <1>1 DEF ValuesOK, SoloOK, Stage, Idle
<1>5. WholeOK'
  BY <1>1 DEF WholeOK
<1>6. KnownOK'
  BY <1>0, <1>1, <1>g DEF KnownOK
<1> QED BY <1>2, <1>3, <1>4, <1>5, <1>6 DEF Inv

\* The start lays the store over the environment.
LEMMA BootInv ==
  ASSUME Inv, Boot
  PROVE  Inv'
<1>0. ValuesOK /\ RequestsOK /\ SoloOK /\ WholeOK /\ KnownOK
  BY DEF Inv
<1>1. /\ up' = TRUE /\ live' = LiveOf(Effective(db))
      /\ solo' = {} /\ split' = FALSE
      /\ UNCHANGED <<shape, db, req, known>>
      /\ \A a \in Admins : req[a] = Idle
  BY <1>0 DEF Boot, RequestsOK
<1>f. Keys' = Keys /\ Cells' = Cells
  BY <1>1, ShapeFixed
<1>g. /\ Effective(db)' = Effective(db)
      /\ LiveOf(Effective(db))' = LiveOf(Effective(db))
      /\ \A v : Uniform(v)' = Uniform(v) /\ LiveOf(Uniform(v))' = LiveOf(Uniform(v))
  BY <1>1 DEF Effective, LiveOf, Uniform, Keys, Cells
<1>2. ValuesOK'
  <2>1. \A i \in DOMAIN Cells : live'[i] \in [Cells[i] -> Values]
    BY <1>0, <1>1, LiveFacts, EffectiveType DEF ValuesOK
  <2>2. live' = [i \in DOMAIN Cells |-> live'[i]]
    BY <1>1 DEF LiveOf
  <2> QED BY <1>0, <1>1, <1>f, <2>1, <2>2 DEF ValuesOK
<1>3. RequestsOK'
  BY <1>0, <1>1 DEF RequestsOK
<1>4. SoloOK'
  BY <1>1 DEF SoloOK
<1>5. WholeOK'
  BY <1>1, <1>g DEF WholeOK
<1>6. KnownOK'
  BY <1>0, <1>1, <1>g DEF KnownOK
<1> QED BY <1>2, <1>3, <1>4, <1>5, <1>6 DEF Inv

\* Every step keeps the invariant.
LEMMA NextInv == Inv /\ [Next]_vars => Inv'
<1> SUFFICES ASSUME Inv, [Next]_vars PROVE Inv'
  OBVIOUS
<1>1. ASSUME NEW a \in Admins, Persist(a) PROVE Inv'
  BY <1>1, PersistKeyInv, PersistFailsInv DEF Persist
<1>2. ASSUME NEW a \in Admins, Put(a) \/ Delete(a) \/ Apply(a) \/ Answer(a) PROVE Inv'
  BY <1>2, BeginInv, ApplyInv, AnswerInv
<1>3. CASE UNCHANGED vars
  <2>1. UNCHANGED <<shape, db, live, req, up, solo, split, known>>
    BY <1>3 DEF vars, history
  <2>2. /\ ValuesOK' = ValuesOK /\ RequestsOK' = RequestsOK /\ SoloOK' = SoloOK
        /\ WholeOK' = WholeOK /\ KnownOK' = KnownOK
    BY <2>1 DEF ValuesOK, RequestsOK, SoloOK, WholeOK, KnownOK, Stage, Untouched, Persisting,
                Applying, Answering, Effective, LiveOf, Uniform, Keys, Cells
  <2> QED BY <2>2 DEF Inv
<1> QED BY <1>1, <1>2, <1>3, CrashInv, BootInv DEF Next

\* The invariant holds throughout.
LEMMA Invariant == Spec => []Inv
BY InitInv, NextInv, PTL DEF Spec

(***************************************************************************)
(* The settings handlers: a change "applies live and survives a restart".  *)
(* While no request is served, what is in force is what a restart would    *)
(* bring, unless changes overlapped or one failed between two keys.        *)
(***************************************************************************)
THEOREM LiveIsPersisted == Spec => []EffectiveIsPersisted
<1>1. Inv => EffectiveIsPersisted
  <2> SUFFICES ASSUME Inv PROVE EffectiveIsPersisted
    OBVIOUS
  <2>0. ValuesOK /\ RequestsOK /\ WholeOK
    BY DEF Inv
  <2>1. \A k \in Keys : db[k] \subseteq Lo .. Hi /\ Cardinality(db[k]) <= 1
    <3>1. Cardinality({}) = 0
      BY FS_EmptySet
    <3>2. \A v : Cardinality({v}) = 1
      BY FS_Singleton
    <3> SUFFICES ASSUME NEW k \in Keys
                 PROVE  db[k] \subseteq Lo .. Hi /\ Cardinality(db[k]) <= 1
      OBVIOUS
    <3>3. CASE db[k] = {}
      BY <3>1, <3>3
    <3>4. ASSUME NEW v \in Values, db[k] = {v}
          PROVE  db[k] \subseteq Lo .. Hi /\ Cardinality(db[k]) <= 1
      BY <3>2, <3>4 DEF Values
    <3> QED BY <2>0, <3>3, <3>4 DEF ValuesOK
  <2>2. \A a \in Admins : req[a].op \in {"idle", "persist", "apply", "answer"}
    BY <2>0, RequestKinds
  <2>3. TypeOK
    BY <2>0, <2>1, <2>2 DEF ValuesOK, Values, TypeOK
  <2>4. Quiet /\ ~split => live = LiveOf(Effective(db))
    BY <2>0 DEF Quiet, WholeOK
  <2> QED BY <2>3, <2>4 DEF EffectiveIsPersisted
<1> QED BY <1>1, Invariant, PTL

(***************************************************************************)
(* PutSyncWritesHandler and the others: the value of a change that ran     *)
(* alone and was acknowledged is in force, after any number of crashes,    *)
(* until another change is attempted.                                      *)
(***************************************************************************)
THEOREM AckedValueSurvives == Spec => []AckedSurvives
<1>1. Inv => AckedSurvives
  BY DEF Inv, KnownOK, AckedSurvives, Uniform
<1> QED BY <1>1, Invariant, PTL
-----------------------------------------------------------------------------
(***************************************************************************)
(* Sums.  A sum of natural numbers is the number of elements of a set with *)
(* that many for each summand, so what holds of cardinalities holds of it. *)
(***************************************************************************)
Units(f, S) == UNION {{x} \X (1 .. f[x]) : x \in S}

LEMMA UnitsFacts ==
  ASSUME NEW f, NEW S, IsFiniteSet(S), \A x \in S : f[x] \in Nat
  PROVE  /\ IsFiniteSet(Units(f, S)) /\ Cardinality(Units(f, S)) \in Nat
         /\ S = {} => Cardinality(Units(f, S)) = 0
         /\ \A a \in S : Cardinality(Units(f, S)) = f[a] + Cardinality(Units(f, S \ {a}))
<1> DEFINE Bag(x) == {x} \X (1 .. f[x])
           bag == [x \in S |-> Bag(x)]
           Bags == {Bag(x) : x \in S}
<1>1. ASSUME NEW x \in S PROVE IsFiniteSet(Bag(x)) /\ Cardinality(Bag(x)) = f[x]
  <2>1. f[x] \in Nat
    OBVIOUS
  <2>2. IsFiniteSet({x}) /\ Cardinality({x}) = 1
    BY FS_Singleton
  <2>3. IsFiniteSet(1 .. f[x]) /\ Cardinality(1 .. f[x]) = f[x]
    <3>1. PICK n \in Nat : n = f[x]
      BY <2>1
    <3>2. IsFiniteSet(1 .. n) /\ Cardinality(1 .. n) = IF 1 > n THEN 0 ELSE n - 1 + 1
      BY FS_Interval
    <3> QED BY <3>1, <3>2
  <2>4. IsFiniteSet(Bag(x)) /\ Cardinality(Bag(x)) = Cardinality({x}) * Cardinality(1 .. f[x])
    BY <2>2, <2>3, FS_Product
  <2> HIDE DEF Bag
  <2> QED BY <2>1, <2>2, <2>3, <2>4
<1>2. IsFiniteSet(Bags)
  <2>1. bag \in Surjection(S, Bags)
    BY DEF Surjection
  <2> HIDE DEF bag, Bags
  <2> QED BY <2>1, FS_Surjection
<1>3. Units(f, S) = UNION Bags
  BY DEF Units
<1>4. IsFiniteSet(Units(f, S)) /\ Cardinality(Units(f, S)) \in Nat
  <2>1. \A B \in Bags : IsFiniteSet(B)
    BY <1>1
  <2> HIDE DEF Bags
  <2> QED BY <1>2, <1>3, <2>1, FS_UNION, FS_CardinalityType
<1>5. ASSUME S = {} PROVE Cardinality(Units(f, S)) = 0
  BY <1>5, FS_EmptySet DEF Units
<1>6. ASSUME NEW a \in S
      PROVE  Cardinality(Units(f, S)) = f[a] + Cardinality(Units(f, S \ {a}))
  <2>1. /\ Units(f, S) = Units(f, S \ {a}) \cup Bag(a)
        /\ Units(f, S \ {a}) \cap Bag(a) = {}
    BY DEF Units
  <2>2. Units(f, S \ {a}) \subseteq Units(f, S)
    BY <2>1
  <2>3. IsFiniteSet(Units(f, S \ {a})) /\ Cardinality(Units(f, S \ {a})) \in Nat
    BY <1>4, <2>2, FS_Subset, FS_CardinalityType
  <2>4. IsFiniteSet(Bag(a)) /\ Cardinality(Bag(a)) = f[a] /\ f[a] \in Nat
    BY <1>1
  <2> HIDE DEF Bag
  <2>5. Cardinality(Units(f, S \ {a}) \cup Bag(a))
          = Cardinality(Units(f, S \ {a})) + Cardinality(Bag(a))
              - Cardinality(Units(f, S \ {a}) \cap Bag(a))
    BY <2>3, <2>4, FS_Union
  <2>6. Cardinality(Units(f, S \ {a}) \cap Bag(a)) = 0
    BY <2>1, FS_EmptySet
  <2>7. Cardinality(Units(f, S)) = Cardinality(Units(f, S \ {a}) \cup Bag(a))
    BY <2>1
  <2> QED BY <2>3, <2>4, <2>5, <2>6, <2>7
<1> QED BY <1>4, <1>5, <1>6

\* Among natural numbers one is the least.
LEMMA Least ==
  ASSUME NEW T \in SUBSET Nat, T # {}
  PROVE  \E i \in T : \A j \in T : i <= j
<1>1. \E i \in T : \A j \in T : ~ (<<j, i>> \in OpToRel(<, Nat))
  BY NatLessThanWellFounded, WFMin
<1>2. \E i \in T : \A j \in T : ~ (j < i)
  BY <1>1 DEF OpToRel
<1> QED BY <1>2

LEMMA TotalIsSize ==
  ASSUME NEW f, NEW S, IsFiniteSet(S), \A x \in S : f[x] \in Nat
  PROVE  Total(f, S) = Cardinality(Units(f, S))
<1> DEFINE Chosen(s) == CHOOSE x \in s : TRUE
           Step(h) == [s \in SUBSET S |-> IF s = {} THEN 0 ELSE f[Chosen(s)] + h[s \ {Chosen(s)}]]
           iter == CHOOSE h : h = Step(h)
           size == [s \in SUBSET S |-> Cardinality(Units(f, s))]
<1>1. Total(f, S) = iter[S]
  BY DEF Total, FoldFunctionOnSet, MapThenFoldSet
<1>2. ASSUME NEW s \in SUBSET S
      PROVE  /\ Cardinality(s) \in Nat /\ IsFiniteSet(s) /\ \A x \in s : f[x] \in Nat
             /\ Cardinality(Units(f, s)) = IF s = {} THEN 0
                  ELSE f[Chosen(s)] + Cardinality(Units(f, s \ {Chosen(s)}))
             /\ s # {} => /\ Chosen(s) \in s
                          /\ Cardinality(s \ {Chosen(s)}) \in Nat
                          /\ Cardinality(s \ {Chosen(s)}) < Cardinality(s)
  <2>1. IsFiniteSet(s) /\ Cardinality(s) \in Nat /\ \A x \in s : f[x] \in Nat
    BY FS_Subset, FS_CardinalityType
  <2>2. s # {} => Chosen(s) \in s
    OBVIOUS
  <2> HIDE DEF Chosen
  <2>3. /\ s = {} => Cardinality(Units(f, s)) = 0
        /\ s # {} => Cardinality(Units(f, s))
                       = f[Chosen(s)] + Cardinality(Units(f, s \ {Chosen(s)}))
    BY <2>1, <2>2, UnitsFacts
  <2>4. ASSUME s # {}
        PROVE  Cardinality(s \ {Chosen(s)}) \in Nat /\ Cardinality(s \ {Chosen(s)}) < Cardinality(s)
    <3>1. IsFiniteSet(s \ {Chosen(s)}) /\ Cardinality(s \ {Chosen(s)}) = Cardinality(s) - 1
      BY <2>1, <2>2, <2>4, FS_RemoveElement
    <3>2. Cardinality(s \ {Chosen(s)}) \in Nat
      BY <3>1, FS_CardinalityType
    <3> QED BY <2>1, <3>1, <3>2
  <2>5. Cardinality(Units(f, s)) = IF s = {} THEN 0
          ELSE f[Chosen(s)] + Cardinality(Units(f, s \ {Chosen(s)}))
    BY <2>3
  <2> QED BY <2>1, <2>2, <2>4, <2>5
<1> HIDE DEF Chosen
<1>3. size = Step(size)
  <2> SUFFICES ASSUME NEW s \in SUBSET S
               PROVE  size[s] = IF s = {} THEN 0 ELSE f[Chosen(s)] + size[s \ {Chosen(s)}]
    OBVIOUS
  <2>1. s \ {Chosen(s)} \in SUBSET S
    OBVIOUS
  <2> QED BY <1>2, <2>1
<1>4. iter = Step(iter)
  <2> HIDE DEF size, Step
  <2> QED BY <1>3
<1>5. \A s \in SUBSET S : iter[s] = IF s = {} THEN 0 ELSE f[Chosen(s)] + iter[s \ {Chosen(s)}]
  <2> HIDE DEF iter
  <2> QED BY <1>4
<1> HIDE DEF iter, Step, size
<1>6. \A s \in SUBSET S : iter[s] = Cardinality(Units(f, s))
  <2> DEFINE Wrong == {s \in SUBSET S : iter[s] # Cardinality(Units(f, s))}
             D == {Cardinality(s) : s \in Wrong}
  <2> SUFFICES ASSUME Wrong # {} PROVE FALSE
    OBVIOUS
  <2>1. D \in SUBSET Nat /\ D # {}
    BY <1>2
  <2>2. PICK n \in D : \A k \in D : n <= k
    <3> HIDE DEF D
    <3> QED BY <2>1, Least
  <2>3. PICK s \in Wrong : n = Cardinality(s)
    BY <2>2
  <2>4. s # {}
    BY <1>2, <1>5, <2>3
  <2> DEFINE r == s \ {Chosen(s)}
  <2>5. r \in SUBSET S /\ Cardinality(r) \in Nat /\ Cardinality(r) < n
    BY <1>2, <2>3, <2>4
  <2>6. ASSUME r \in Wrong PROVE FALSE
    <3>1. Cardinality(r) \in D
      BY <2>6
    <3>2. n <= Cardinality(r) /\ n \in Nat
      BY <2>1, <2>2, <3>1
    <3> QED BY <2>5, <3>2
  <2>7. iter[r] = Cardinality(Units(f, r))
    BY <2>5, <2>6
  <2>8. iter[s] = f[Chosen(s)] + iter[r]
    BY <1>5, <2>4
  <2>9. Cardinality(Units(f, s)) = f[Chosen(s)] + Cardinality(Units(f, r))
    BY <1>2, <2>4
  <2> QED BY <2>3, <2>7, <2>8, <2>9
<1> QED BY <1>1, <1>6

LEMMA TotalFacts ==
  ASSUME NEW f, NEW S, IsFiniteSet(S), \A x \in S : f[x] \in Nat
  PROVE  /\ Total(f, S) \in Nat
         /\ S = {} => Total(f, S) = 0
         /\ \A a \in S : Total(f, S) = f[a] + Total(f, S \ {a})
<1>1. \A a \in S : IsFiniteSet(S \ {a}) /\ \A x \in S \ {a} : f[x] \in Nat
  BY FS_RemoveElement
<1>2. \A a \in S : Total(f, S \ {a}) = Cardinality(Units(f, S \ {a}))
  BY <1>1, TotalIsSize
<1> QED BY <1>2, TotalIsSize, UnitsFacts

\* More, or more of it, makes no smaller sum.
LEMMA TotalMonotonic ==
  ASSUME NEW f, NEW g, NEW S, NEW T, IsFiniteSet(S), IsFiniteSet(T), S \subseteq T,
         \A x \in S : f[x] \in Nat, \A x \in T : g[x] \in Nat, \A x \in S : f[x] <= g[x]
  PROVE  Total(f, S) <= Total(g, T)
<1>1. Units(f, S) \in SUBSET Units(g, T)
  BY DEF Units
<1>2. IsFiniteSet(Units(g, T)) /\ Total(f, S) = Cardinality(Units(f, S))
      /\ Total(g, T) = Cardinality(Units(g, T))
  BY UnitsFacts, TotalIsSize
<1> QED BY <1>1, <1>2, FS_Subset

\* What is the same everywhere has the same sum.
LEMMA TotalSame ==
  ASSUME NEW f, NEW g, NEW S, IsFiniteSet(S), \A x \in S : f[x] \in Nat, \A x \in S : g[x] = f[x]
  PROVE  Total(g, S) = Total(f, S)
<1>1. Units(g, S) = Units(f, S)
  BY DEF Units
<1> QED BY <1>1, TotalIsSize
-----------------------------------------------------------------------------
(***************************************************************************)
(* The sampler.                                                            *)
(***************************************************************************)
Minutes == 0 .. MinuteOf(MaxTime)

SamplerTyped ==
  /\ now \in Times /\ running \in BOOLEAN /\ due \in Int
  /\ prune = {} \/ \E c \in Int : prune = {c}
  /\ total \in Nat /\ last \in Nat /\ last <= total
  /\ DOMAIN samples \subseteq Minutes /\ samples \in [DOMAIN samples -> 0 .. MaxRequests]
  /\ retention \in Retentions /\ horizon \in Int
  /\ served \in [Times -> Nat] /\ taken \in [Minutes -> Nat]

\* The tick under way is neither early nor later than the ticker may be.
OnTime ==
  /\ running => due - MinuteLen <= now /\ now <= due + Jitter
  /\ ~running => total = 0 /\ last = 0

From(S, from) == {m \in S : m >= from}

\* The first time at which a sample of a minute, or a later one, may have been served.
Reach(from) == StartOf(from) - MinuteLen - Jitter

\* What the next tick is to count, if its minute can be that one.
Pending(from) == IF Reach(from) <= due - MinuteLen THEN total - last ELSE 0

(***************************************************************************)
(* The samples from a minute on, and what the next tick adds to them, are  *)
(* covered by the requests they can be of.                                 *)
(***************************************************************************)
Covered ==
  /\ total <= Total(served, Times) /\ Total(served, Times) <= MaxRequests
  /\ \A from \in Minutes :
       Total(samples, From(DOMAIN samples, from)) + Pending(from)
         <= Total(served, From(Times, Reach(from)))

\* No cutoff is beyond the horizon, and no sample in the future.
Kept ==
  /\ SeriesExact
  /\ now - retention <= horizon /\ \A c \in prune : c <= horizon
  /\ \A m \in DOMAIN samples : StartOf(m) <= now

SamplerInv == SamplerTyped /\ OnTime /\ Covered /\ Kept

\* Division, as truncating a time to its minute uses it.
LEMMA DivFacts ==
  ASSUME NEW n \in Nat, NEW d \in Nat \ {0}
  PROVE  n \div d \in Nat /\ (n \div d) * d <= n /\ n < (n \div d) * d + d
OBVIOUS

LEMMA TimesOrder ==
  ASSUME NEW m \in Int, NEW n \in Int, NEW d \in Nat \ {0}
  PROVE  /\ m <= n => m * d <= n * d
         /\ m < n => m * d + d <= n * d
         /\ (n + 1) * d = n * d + d
OBVIOUS

\* The minute of a time, and the order of minutes and their starts.
LEMMA MinuteFacts ==
  /\ \A t \in Nat : MinuteOf(t) \in Nat /\ StartOf(MinuteOf(t)) <= t
  /\ \A t \in Times : MinuteOf(t) \in Minutes
  /\ \A m \in Nat : StartOf(m) \in Nat
  /\ \A m, n \in Nat : m <= n => StartOf(m) <= StartOf(n)
<1>1. MinuteLen \in Nat \ {0} /\ MaxTime \in Nat
  BY RequestSamplerAssumption
<1>2. \A t \in Nat : /\ MinuteOf(t) \in Nat /\ StartOf(MinuteOf(t)) <= t
                     /\ t < StartOf(MinuteOf(t)) + MinuteLen
  BY <1>1, DivFacts DEF MinuteOf, StartOf
<1>3. \A m \in Nat : StartOf(m) \in Nat
  BY <1>1 DEF StartOf
<1>4. \A m, n \in Nat : m <= n => StartOf(m) <= StartOf(n)
  BY <1>1, TimesOrder DEF StartOf
<1>5. \A m, n \in Nat : m < n => StartOf(m) + MinuteLen <= StartOf(n)
  BY <1>1, TimesOrder DEF StartOf
<1>6. ASSUME NEW t \in Times PROVE MinuteOf(t) \in Minutes
  <2>1. t \in Nat /\ t <= MaxTime
    BY <1>1, <1>6 DEF Times
  <2>2. /\ MinuteOf(t) \in Nat /\ StartOf(MinuteOf(t)) <= t /\ StartOf(MinuteOf(t)) \in Nat
        /\ MinuteOf(MaxTime) \in Nat /\ StartOf(MinuteOf(MaxTime)) \in Nat
        /\ MaxTime < StartOf(MinuteOf(MaxTime)) + MinuteLen
    BY <1>1, <1>2, <1>3, <2>1
  <2>3. ASSUME MinuteOf(MaxTime) < MinuteOf(t) PROVE FALSE
    <3>1. StartOf(MinuteOf(MaxTime)) + MinuteLen <= StartOf(MinuteOf(t))
      BY <1>5, <2>2, <2>3
    <3> QED BY <1>1, <2>1, <2>2, <3>1
  <2> QED BY <2>2, <2>3 DEF Minutes
<1> QED BY <1>2, <1>3, <1>4, <1>6

\* The sets that are summed over.
LEMMA SpansFinite ==
  /\ IsFiniteSet(Times) /\ IsFiniteSet(Minutes)
  /\ \A n : IsFiniteSet(From(Times, n)) /\ From(Times, n) \subseteq Times
  /\ \A n, D : D \subseteq Minutes => IsFiniteSet(D) /\ IsFiniteSet(From(D, n)) /\ From(D, n) \subseteq D
<1>1. MaxTime \in Nat /\ MinuteOf(MaxTime) \in Nat
  BY MinuteFacts, RequestSamplerAssumption
<1>2. IsFiniteSet(Times) /\ IsFiniteSet(Minutes)
  BY <1>1, FS_Interval DEF Times, Minutes
<1>3. \A n : From(Times, n) \in SUBSET Times
  BY DEF From
<1>4. \A n, D : D \subseteq Minutes => D \in SUBSET Minutes /\ From(D, n) \in SUBSET Minutes
                                      /\ From(D, n) \subseteq D
  BY DEF From
<1> QED BY <1>2, <1>3, <1>4, FS_Subset

LEMMA TotalZero ==
  ASSUME NEW f, NEW S, IsFiniteSet(S), \A x \in S : f[x] = 0
  PROVE  Total(f, S) = 0
<1>1. Units(f, S) = {}
  BY DEF Units
<1>2. \A x \in S : f[x] \in Nat
  OBVIOUS
<1> QED BY <1>1, <1>2, TotalIsSize, FS_EmptySet

\* One summand grows by one.
LEMMA TotalGrows ==
  ASSUME NEW S, NEW f \in [S -> Nat], NEW a \in S, NEW g, g = [f EXCEPT ![a] = @ + 1],
         NEW T, T \subseteq S, IsFiniteSet(T)
  PROVE  /\ Total(f, T) \in Nat /\ Total(g, T) \in Nat
         /\ a \in T => Total(g, T) = Total(f, T) + 1
         /\ Total(f, T) <= Total(g, T)
<1>1. /\ \A x \in S : f[x] \in Nat /\ g[x] \in Nat /\ f[x] <= g[x]
      /\ g[a] = f[a] + 1 /\ \A x \in S : x # a => g[x] = f[x]
  OBVIOUS
<1>2. Total(f, T) \in Nat /\ Total(g, T) \in Nat
  BY <1>1, TotalFacts
<1>3. Total(f, T) <= Total(g, T)
  BY <1>1, TotalMonotonic
<1>4. ASSUME a \in T PROVE Total(g, T) = Total(f, T) + 1
  <2>1. IsFiniteSet(T \ {a})
    BY <1>4, FS_RemoveElement
  <2>2. Total(g, T \ {a}) = Total(f, T \ {a}) /\ Total(f, T \ {a}) \in Nat
    <3>1. (\A x \in T \ {a} : f[x] \in Nat) /\ (\A x \in T \ {a} : g[x] = f[x])
      BY <1>1
    <3>2. Total(g, T \ {a}) = Total(f, T \ {a})
      BY <2>1, <3>1, TotalSame
    <3>3. Total(f, T \ {a}) \in Nat
      BY <2>1, <3>1, TotalFacts
    <3> QED BY <3>2, <3>3
  <2>3. Total(g, T) = g[a] + Total(g, T \ {a}) /\ Total(f, T) = f[a] + Total(f, T \ {a})
    <3>1. (\A x \in T : f[x] \in Nat) /\ (\A x \in T : g[x] \in Nat)
      BY <1>1
    <3>2. Total(g, T) = g[a] + Total(g, T \ {a})
      BY <1>4, <3>1, TotalFacts
    <3>3. Total(f, T) = f[a] + Total(f, T \ {a})
      BY <1>4, <3>1, TotalFacts
    <3> QED BY <3>2, <3>3
  <2> QED BY <1>1, <2>2, <2>3
<1> QED BY <1>2, <1>3, <1>4

\* What is summed over is natural numbers.
LEMMA SummandsTyped ==
  ASSUME SamplerTyped
  PROVE  /\ \A t \in Times : served[t] \in Nat
         /\ \A m \in DOMAIN samples : samples[m] \in Nat /\ m \in Nat
         /\ \A n : Total(served, From(Times, n)) \in Nat
         /\ \A n : Total(samples, From(DOMAIN samples, n)) \in Nat
         /\ Total(served, Times) \in Nat
         /\ IsFiniteSet(DOMAIN samples) /\ \A n : IsFiniteSet(From(DOMAIN samples, n))
         /\ now \in Nat /\ MinuteLen \in Nat \ {0} /\ Jitter \in Nat /\ due \in Int
<1>1. \A t \in Times : served[t] \in Nat
  BY DEF SamplerTyped
<1>2. \A m \in DOMAIN samples : samples[m] \in Nat /\ m \in Nat
  BY RequestSamplerAssumption DEF SamplerTyped, Minutes
<1>3. \A n : Total(served, From(Times, n)) \in Nat
  <2> TAKE n
  <2>1. IsFiniteSet(From(Times, n)) /\ \A t \in From(Times, n) : served[t] \in Nat
    BY <1>1, SpansFinite
  <2> QED BY <2>1, TotalFacts
<1>4. IsFiniteSet(DOMAIN samples) /\ \A n : IsFiniteSet(From(DOMAIN samples, n))
  BY SpansFinite DEF SamplerTyped
<1>5. \A n : Total(samples, From(DOMAIN samples, n)) \in Nat
  <2> TAKE n
  <2>1. /\ IsFiniteSet(From(DOMAIN samples, n))
        /\ \A m \in From(DOMAIN samples, n) : samples[m] \in Nat
    BY <1>2, <1>4 DEF From
  <2> QED BY <2>1, TotalFacts
<1>6. Total(served, Times) \in Nat
  BY <1>1, SpansFinite, TotalFacts
<1>7. now \in Nat /\ MinuteLen \in Nat \ {0} /\ Jitter \in Nat /\ due \in Int
  BY RequestSamplerAssumption DEF SamplerTyped, Times
<1> QED BY <1>1, <1>2, <1>3, <1>4, <1>5, <1>6, <1>7

LEMMA SamplerStarts == SamplerInit => SamplerInv
<1> SUFFICES ASSUME SamplerInit PROVE SamplerInv
  OBVIOUS
<1>1. /\ MinuteLen \in Nat \ {0} /\ Jitter \in Nat /\ MaxTime \in Nat /\ MaxRequests \in Nat
      /\ now \in Times /\ now \in Nat /\ retention \in Retentions /\ retention \in Nat
  BY RequestSamplerAssumption DEF SamplerInit, Times
<1>2. SamplerTyped
  BY <1>1 DEF SamplerInit, SamplerTyped, Minutes
<1>3. OnTime
  BY <1>1 DEF SamplerInit, OnTime
<1>4. Covered
  <2>1. Total(served, Times) = 0
    BY SpansFinite, TotalZero DEF SamplerInit
  <2>2. \A n : From(DOMAIN samples, n) = {}
    BY DEF SamplerInit, From
  <2>3. Total(samples, {}) = 0
    BY FS_EmptySet, TotalZero
  <2>4. \A n : Total(served, From(Times, n)) \in Nat
    BY <1>2, SummandsTyped
  <2>5. \A from \in Minutes : Pending(from) = 0
    BY DEF SamplerInit, Pending
  <2>6. ASSUME NEW from \in Minutes
        PROVE  Total(samples, From(DOMAIN samples, from)) + Pending(from)
                 <= Total(served, From(Times, Reach(from)))
    <3>1. Total(samples, From(DOMAIN samples, from)) = 0
      BY <2>2, <2>3
    <3> QED BY <2>4, <2>5, <3>1
  <2>7. total = 0
    BY DEF SamplerInit
  <2> QED BY <1>1, <2>1, <2>6, <2>7 DEF Covered
<1>5. Kept
  <2>1. \A m \in DOMAIN taken : taken[m] = 0
    BY DEF SamplerInit
  <2>2. SeriesExact
    BY <2>1 DEF SeriesExact
  <2> QED BY <1>1, <2>2 DEF Kept, SamplerInit
<1> QED BY <1>2, <1>3, <1>4, <1>5 DEF SamplerInv

\* S3RequestOutcome: what is pending was served since the tick before.
LEMMA ServeSampler ==
  ASSUME SamplerInv, Serve
  PROVE  SamplerInv'
<1> USE DEF SamplerInv
<1>1. /\ running /\ total' = total + 1 /\ served' = [served EXCEPT ![now] = @ + 1]
      /\ Total(served, Times) < MaxRequests
      /\ UNCHANGED <<now, running, due, prune, last, samples, retention, taken, spoilt, horizon>>
  BY DEF Serve
<1>2. now \in Times /\ served \in [Times -> Nat] /\ MaxRequests \in Nat
  BY RequestSamplerAssumption DEF SamplerTyped
<1>3. SamplerTyped'
  BY <1>1, <1>2 DEF SamplerTyped
<1>4. OnTime'
  BY <1>1 DEF OnTime
<1>5. \A T \in SUBSET Times :
        /\ Total(served, T) \in Nat /\ Total(served', T) \in Nat
        /\ now \in T => Total(served', T) = Total(served, T) + 1
        /\ Total(served, T) <= Total(served', T)
  <2> TAKE T \in SUBSET Times
  <2>1. IsFiniteSet(T)
    BY SpansFinite, FS_Subset
  <2>2. PICK g : g = served' /\ g = [served EXCEPT ![now] = @ + 1]
    BY <1>1
  <2>3. /\ Total(served, T) \in Nat /\ Total(g, T) \in Nat
        /\ now \in T => Total(g, T) = Total(served, T) + 1
        /\ Total(served, T) <= Total(g, T)
    BY <1>2, <2>1, <2>2, TotalGrows
  <2> QED BY <2>2, <2>3
<1>6. total' <= Total(served', Times) /\ Total(served', Times) <= MaxRequests
  <2>1. Total(served', Times) = Total(served, Times) + 1 /\ Total(served, Times) \in Nat
    BY <1>2, <1>5
  <2> QED BY <1>1, <1>2, <2>1 DEF Covered, SamplerTyped
<1>7. ASSUME NEW from \in Minutes
      PROVE  Total(samples, From(DOMAIN samples, from)) + Pending(from)'
               <= Total(served', From(Times, Reach(from)))
  <2> DEFINE S == Total(samples, From(DOMAIN samples, from))
             R == Total(served, From(Times, Reach(from)))
             Q == Total(served', From(Times, Reach(from)))
  <2>1. S + Pending(from) <= R /\ S \in Nat
    BY SummandsTyped DEF Covered
  <2>2. R \in Nat /\ Q \in Nat /\ R <= Q /\ (now \in From(Times, Reach(from)) => Q = R + 1)
    BY <1>5, SpansFinite
  <2>3. total \in Nat /\ last \in Nat
    BY DEF SamplerTyped
  <2> HIDE DEF S, R, Q
  <2>4. CASE Reach(from) <= due - MinuteLen
    <3>1. Reach(from) \in Int
      <4>1. from \in Nat
        BY MinuteFacts, RequestSamplerAssumption DEF Minutes
      <4> QED BY <4>1, MinuteFacts, RequestSamplerAssumption DEF Reach
    <3>2. now >= Reach(from)
      BY <1>1, <2>4, <3>1, SummandsTyped DEF OnTime
    <3>3. now \in From(Times, Reach(from))
      BY <1>2, <3>2 DEF From
    <3>4. Pending(from) = total - last /\ Pending(from)' = total + 1 - last
      BY <1>1, <2>3, <2>4 DEF Pending, Reach
    <3> QED BY <2>1, <2>2, <2>3, <3>3, <3>4 DEF S, Q
  <2>5. CASE ~(Reach(from) <= due - MinuteLen)
    <3>1. Pending(from) = 0 /\ Pending(from)' = 0
      BY <1>1, <2>5 DEF Pending, Reach
    <3> QED BY <2>1, <2>2, <3>1 DEF S, Q
  <2> QED BY <2>4, <2>5
<1>8. Covered'
  BY <1>1, <1>6, <1>7 DEF Covered, From, Reach
<1>9. Kept'
  BY <1>1 DEF Kept, SeriesExact
<1> QED BY <1>3, <1>4, <1>8, <1>9

LEMMA MaxOfTwo ==
  ASSUME NEW a \in Int, NEW b \in Int
  PROVE  Max({a, b}) \in Int /\ a <= Max({a, b}) /\ b <= Max({a, b})
<1>1. \E x \in {a, b} : \A y \in {a, b} : x >= y
  OBVIOUS
<1>2. Max({a, b}) \in {a, b} /\ \A y \in {a, b} : Max({a, b}) >= y
  BY <1>1 DEF Max
<1> QED BY <1>2

\* Steps that neither serve nor count anything.
LEMMA CoverKept ==
  ASSUME Covered, UNCHANGED <<total, last, due, samples, served>>
  PROVE  Covered'
BY DEF Covered, Pending, From, Reach

\* Time passes, or the retention changes: the horizon follows.
LEMMA AdvanceSampler ==
  ASSUME SamplerInv, Advance \/ PutRetention
  PROVE  SamplerInv'
<1> USE DEF SamplerInv
<1>1. /\ UNCHANGED <<running, due, prune, total, last, samples, served, taken, spoilt>>
      /\ now' \in Times /\ now <= now' /\ retention' \in Retentions
      /\ running => now' <= due + Jitter
      /\ horizon' \in Int /\ horizon \in Int
      /\ horizon <= horizon' /\ now' - retention' <= horizon'
  <2>1. /\ now \in Times /\ now \in Nat /\ MaxTime \in Nat /\ horizon \in Int
        /\ retention \in Retentions /\ Retentions \subseteq Nat
    BY RequestSamplerAssumption DEF SamplerTyped, Times
  <2>2. CASE Advance
    <3>1. now < MaxTime /\ now' = now + 1 /\ retention' = retention
      BY <2>2 DEF Advance
    <3>2. /\ running => now < due + Jitter
          /\ UNCHANGED <<running, due, prune, total, last, samples, served, taken, spoilt>>
          /\ horizon' = Max({horizon, now + 1 - retention})
      BY <2>2 DEF Advance
    <3>3. /\ horizon' \in Int /\ horizon <= horizon' /\ now' - retention' <= horizon'
      <4>1. now + 1 - retention \in Int /\ now' - retention' = now + 1 - retention
        BY <2>1, <3>1
      <4> QED BY <2>1, <3>2, <4>1, MaxOfTwo
    <3>4. now' \in Times /\ now <= now'
      BY <2>1, <3>1 DEF Times
    <3>5. running => now' <= due + Jitter
      BY <2>1, <3>1, <3>2, SummandsTyped
    <3> QED BY <2>1, <3>1, <3>2, <3>3, <3>4, <3>5
  <2>3. CASE PutRetention
    <3>1. /\ now' = now /\ retention' \in Retentions
          /\ UNCHANGED <<running, due, prune, total, last, samples, served, taken, spoilt>>
          /\ horizon' = Max({horizon, now - retention'})
      BY <2>3 DEF PutRetention
    <3>2. /\ horizon' \in Int /\ horizon <= horizon' /\ now' - retention' <= horizon'
      <4>1. now - retention' \in Int /\ now' - retention' = now - retention'
        BY <2>1, <3>1
      <4> QED BY <2>1, <3>1, <4>1, MaxOfTwo
    <3> QED BY <2>1, <3>1, <3>2 DEF OnTime
  <2> QED BY <2>2, <2>3
<1>2. SamplerTyped'
  BY <1>1 DEF SamplerTyped
<1>3. OnTime'
  BY <1>1, SummandsTyped, RequestSamplerAssumption DEF OnTime, Times
<1>4. Covered'
  BY <1>1, CoverKept
<1>5. \A m \in Nat : StartOf(m) \in Nat
  BY MinuteFacts
<1>6. SeriesExact'
  <2> SUFFICES ASSUME NEW m \in DOMAIN taken \ spoilt, taken[m] > 0, StartOf(m) >= horizon'
               PROVE  m \in DOMAIN samples /\ samples[m] = taken[m]
    BY <1>1 DEF SeriesExact
  <2>1. m \in Nat
    BY RequestSamplerAssumption DEF SamplerTyped, Minutes
  <2>2. StartOf(m) >= horizon
    BY <1>1, <1>5, <2>1
  <2> QED BY <2>2 DEF Kept, SeriesExact
<1>7. \A c \in prune : c <= horizon'
  <2>1. \A c \in prune : c \in Int /\ c <= horizon
    BY DEF SamplerTyped, Kept
  <2> QED BY <1>1, <2>1
<1>8. \A m \in DOMAIN samples : StartOf(m) <= now'
  <2>1. \A m \in DOMAIN samples : StartOf(m) \in Nat /\ StartOf(m) <= now
    BY <1>5, SummandsTyped DEF Kept
  <2>2. now' \in Nat /\ now \in Nat
    BY <1>1, SummandsTyped DEF Times
  <2> QED BY <1>1, <2>1, <2>2
<1>9. Kept'
  BY <1>1, <1>6, <1>7, <1>8 DEF Kept
<1> QED BY <1>2, <1>3, <1>4, <1>9

\* PruneRequestSamples: only what is beyond the horizon goes.
LEMMA PruneSampler ==
  ASSUME SamplerInv, Prune
  PROVE  SamplerInv'
<1> USE DEF SamplerInv
<1>1. PICK cutoff \in prune : PruneRequestSamples(cutoff) \/ UNCHANGED samples
  BY DEF Prune
<1>2. /\ prune' = {}
      /\ UNCHANGED <<now, running, due, total, last, retention, served, taken, spoilt, horizon>>
  BY DEF Prune
<1>3. /\ DOMAIN samples' \subseteq DOMAIN samples
      /\ samples' = [m \in DOMAIN samples' |-> samples[m]]
      /\ \A m \in DOMAIN samples : StartOf(m) >= cutoff => m \in DOMAIN samples'
  <2>1. CASE PruneRequestSamples(cutoff)
    BY <2>1 DEF PruneRequestSamples, Restrict
  <2>2. CASE UNCHANGED samples
    BY <2>2 DEF SamplerTyped
  <2> QED BY <1>1, <2>1, <2>2
<1>4. SamplerTyped'
  BY <1>2, <1>3 DEF SamplerTyped
<1>5. OnTime'
  BY <1>2 DEF OnTime
<1>6. \A n : Total(samples', From(DOMAIN samples', n)) <= Total(samples, From(DOMAIN samples, n))
  <2> TAKE n
  <2>1. /\ From(DOMAIN samples', n) \subseteq From(DOMAIN samples, n)
        /\ From(DOMAIN samples, n) \subseteq DOMAIN samples
        /\ From(DOMAIN samples', n) \subseteq DOMAIN samples'
    BY <1>3 DEF From
  <2>2. /\ IsFiniteSet(From(DOMAIN samples, n)) /\ IsFiniteSet(From(DOMAIN samples', n))
        /\ \A m \in DOMAIN samples : samples[m] \in Nat
    BY <1>4, SummandsTyped, SpansFinite DEF SamplerTyped
  <2>3. /\ \A m \in From(DOMAIN samples', n) : samples'[m] \in Nat
        /\ \A m \in From(DOMAIN samples, n) : samples[m] \in Nat
        /\ \A m \in From(DOMAIN samples', n) : samples'[m] <= samples[m]
    BY <1>3, <2>1, <2>2
  <2> QED BY <2>1, <2>2, <2>3, TotalMonotonic
<1>7. Covered'
  <2> SUFFICES ASSUME NEW from \in Minutes
               PROVE  Total(samples', From(DOMAIN samples', from)) + Pending(from)
                        <= Total(served, From(Times, Reach(from)))
    BY <1>2 DEF Covered, Pending, From, Reach
  <2> DEFINE S == Total(samples, From(DOMAIN samples, from))
             P == Total(samples', From(DOMAIN samples', from))
             R == Total(served, From(Times, Reach(from)))
  <2>1. S + Pending(from) <= R /\ P <= S
    BY <1>6 DEF Covered
  <2>2. S \in Nat /\ R \in Nat
    BY SummandsTyped
  <2>3. P \in Nat
    <3>1. IsFiniteSet(From(DOMAIN samples', from)) /\ From(DOMAIN samples', from) \subseteq DOMAIN samples'
      BY <1>4, SpansFinite DEF SamplerTyped
    <3>2. \A m \in From(DOMAIN samples', from) : samples'[m] \in Nat
      BY <1>3, <3>1, SummandsTyped
    <3> QED BY <3>1, <3>2, TotalFacts
  <2>4. Pending(from) \in Nat
    BY DEF Pending, SamplerTyped
  <2> HIDE DEF S, P, R
  <2>5. P + Pending(from) <= R
    BY <2>1, <2>2, <2>3, <2>4
  <2> QED BY <2>5 DEF P, R
<1>8. SeriesExact'
  <2> SUFFICES ASSUME NEW m \in DOMAIN taken \ spoilt, taken[m] > 0, StartOf(m) >= horizon
               PROVE  m \in DOMAIN samples' /\ samples'[m] = taken[m]
    BY <1>2 DEF SeriesExact
  <2>1. m \in DOMAIN samples /\ samples[m] = taken[m]
    BY DEF Kept, SeriesExact
  <2>2. cutoff \in Int /\ cutoff <= horizon /\ horizon \in Int /\ StartOf(m) \in Nat
    BY <1>1, <2>1, SummandsTyped, MinuteFacts DEF Kept, SamplerTyped
  <2>3. StartOf(m) >= cutoff
    BY <2>2
  <2> QED BY <1>3, <2>1, <2>3
<1>9. Kept'
  BY <1>2, <1>3, <1>8 DEF Kept
<1> QED BY <1>4, <1>5, <1>7, <1>9

(***************************************************************************)
(* A tick in a minute: what it adds to the samples was pending.            *)
(***************************************************************************)
LEMMA TickSampler ==
  ASSUME SamplerInv, Tick
  PROVE  SamplerInv'
<1> USE DEF SamplerInv
<1> DEFINE a == MinuteOf(now)
           D == DOMAIN samples
<1>1. PICK ok \in BOOLEAN :
        /\ samples' = IF ok THEN [m \in D \cup {a} |-> IF m = a THEN Delta ELSE samples[m]]
                      ELSE samples
        /\ prune' = IF ok THEN {now - retention} ELSE {}
        /\ spoilt' = IF ok /\ a \notin D THEN spoilt ELSE spoilt \cup {a}
  BY DEF Tick, PutRequestSample
<1>2. /\ running /\ now >= due /\ last' = total /\ due' = due + MinuteLen
      /\ taken' = [taken EXCEPT ![a] = @ + Delta]
      /\ UNCHANGED <<now, running, total, retention, served, horizon>>
  BY DEF Tick, PutRequestSample
<1>3. /\ now \in Nat /\ MinuteLen \in Nat \ {0} /\ Jitter \in Nat /\ due \in Int
      /\ retention \in Nat /\ MaxRequests \in Nat
      /\ a \in Minutes /\ a \in Nat /\ StartOf(a) <= now
      /\ \A m \in Nat : StartOf(m) \in Nat
      /\ \A m, n \in Nat : m <= n => StartOf(m) <= StartOf(n)
      /\ \A m \in Minutes : m \in Nat
  <2>1. /\ now \in Nat /\ now \in Times /\ MinuteLen \in Nat \ {0} /\ Jitter \in Nat /\ due \in Int
        /\ retention \in Nat /\ MaxRequests \in Nat
    BY SummandsTyped, RequestSamplerAssumption DEF SamplerTyped
  <2>2. \A m \in Minutes : m \in Nat
    BY DEF Minutes
  <2>3. a \in Minutes /\ a \in Nat /\ StartOf(a) <= now
    BY <2>1, MinuteFacts
  <2> QED BY <2>1, <2>2, <2>3, MinuteFacts
<1>4. Delta \in 0 .. MaxRequests /\ Delta = total - last
  BY <1>3, SummandsTyped DEF Delta, SamplerTyped, Covered
<1>5. /\ D \subseteq DOMAIN samples' /\ DOMAIN samples' \subseteq D \cup {a}
      /\ \A m \in DOMAIN samples' : m # a => m \in D /\ samples'[m] = samples[m]
      /\ ok => a \in DOMAIN samples' /\ samples'[a] = Delta
      /\ ~ok => samples' = samples
      /\ samples' = [m \in DOMAIN samples' |-> samples'[m]]
  <2>1. CASE ok
    BY <1>1, <2>1
  <2>2. CASE ~ok
    BY <1>1, <2>2 DEF SamplerTyped
  <2> QED BY <2>1, <2>2
<1> HIDE DEF a
<1>6. samples' \in [DOMAIN samples' -> 0 .. MaxRequests] /\ DOMAIN samples' \subseteq Minutes
  <2>1. \A m \in D : samples[m] \in 0 .. MaxRequests
    BY DEF SamplerTyped
  <2>2. \A m \in DOMAIN samples' : samples'[m] \in 0 .. MaxRequests
    BY <1>4, <1>5, <2>1
  <2> QED BY <1>3, <1>5, <2>2 DEF SamplerTyped
<1>7. SamplerTyped'
  <2>1. prune' = {} \/ \E c \in Int : prune' = {c}
    <3>1. now - retention \in Int
      BY <1>3
    <3>2. prune' = {} \/ prune' = {now - retention}
      BY <1>1
    <3> QED BY <3>1, <3>2
  <2>2. due' \in Int /\ last' \in Nat /\ last' <= total'
    BY <1>2, <1>3 DEF SamplerTyped
  <2>3. taken' \in [Minutes -> Nat]
    BY <1>2, <1>3, <1>4 DEF SamplerTyped
  <2> QED BY <1>2, <1>6, <2>1, <2>2, <2>3 DEF SamplerTyped
<1>8. OnTime'
  BY <1>2, <1>3 DEF OnTime
<1>9. ASSUME NEW from \in Minutes
      PROVE  /\ Total(samples', From(DOMAIN samples', from)) <= Total(served, From(Times, Reach(from)))
             /\ Total(samples', From(DOMAIN samples', from)) \in Nat
  <2> DEFINE F == From(DOMAIN samples', from)
             S == Total(samples, From(D, from))
             R == Total(served, From(Times, Reach(from)))
  <2>1. S + Pending(from) <= R /\ S \in Nat /\ R \in Nat
    BY SummandsTyped DEF Covered
  <2>2. IsFiniteSet(F) /\ F \subseteq DOMAIN samples' /\ IsFiniteSet(From(D, from))
    BY <1>6, SpansFinite DEF SamplerTyped
  <2>3. \A m \in F : samples'[m] \in Nat /\ samples'[m] \in 0 .. MaxRequests
    BY <1>3, <1>6, <2>2
  <2>4. Total(samples', F) \in Nat
    BY <2>2, <2>3, TotalFacts
  <2>5. \A G \in SUBSET F : IsFiniteSet(G) /\ (a \notin G => Total(samples', G) <= S)
    <3> TAKE G \in SUBSET F
    <3>1. IsFiniteSet(G)
      BY <2>2, FS_Subset
    <3> SUFFICES ASSUME a \notin G PROVE Total(samples', G) <= S
      BY <3>1
    <3>2. G \subseteq From(D, from) /\ \A m \in G : samples'[m] = samples[m]
      BY <1>5 DEF From
    <3>3. \A m \in From(D, from) : samples[m] \in Nat
      BY SummandsTyped DEF From
    <3>4. /\ \A m \in G : samples'[m] \in Nat
          /\ \A m \in G : samples'[m] <= samples[m]
      BY <3>2, <3>3
    <3> QED BY <2>2, <3>1, <3>2, <3>3, <3>4, TotalMonotonic
  <2>6. CASE ok /\ a \in F
    <3>1. Total(samples', F) = samples'[a] + Total(samples', F \ {a})
      BY <2>2, <2>3, <2>6, TotalFacts
    <3>2. Total(samples', F \ {a}) <= S /\ F \ {a} \in SUBSET F
      BY <2>5
    <3>3. Total(samples', F \ {a}) \in Nat
      <4>1. IsFiniteSet(F \ {a}) /\ \A m \in F \ {a} : samples'[m] \in Nat
        BY <2>3, <2>5, <3>2
      <4> QED BY <4>1, TotalFacts
    <3>4. samples'[a] = Delta
      BY <1>5, <2>6
    <3>5. Pending(from) = Delta
      <4>1. from \in Nat /\ from <= a
        BY <1>3, <2>6 DEF From
      <4>2. StartOf(from) <= StartOf(a) /\ StartOf(from) \in Nat /\ StartOf(a) \in Nat
        BY <1>3, <4>1
      <4>3. Reach(from) <= due - MinuteLen
        BY <1>2, <1>3, <4>2 DEF Reach, OnTime
      <4> QED BY <1>4, <4>3 DEF Pending
    <3> HIDE DEF F, S, R
    <3> QED BY <1>4, <2>1, <2>4, <3>1, <3>2, <3>3, <3>4, <3>5 DEF F, S, R
  <2>7. CASE ~(ok /\ a \in F)
    <3>1. Total(samples', F) <= S
      <4>1. CASE ok
        BY <2>5, <2>7, <4>1
      <4>2. CASE ~ok
        BY <1>5, <2>1, <4>2
      <4> QED BY <4>1, <4>2
    <3>2. Pending(from) \in Nat
      BY DEF Pending, SamplerTyped
    <3> HIDE DEF F, S, R
    <3>3. Total(samples', F) <= R
      BY <2>1, <2>4, <3>1, <3>2
    <3> QED BY <2>4, <3>3 DEF F, R
  <2> QED BY <2>6, <2>7
<1>10. Covered'
  <2>1. \A from \in Minutes : Pending(from)' = 0
    BY <1>2 DEF Pending, SamplerTyped
  <2>2. \A from \in Minutes :
          Total(samples', From(DOMAIN samples', from)) + Pending(from)'
            <= Total(served, From(Times, Reach(from)))
    BY <1>9, <2>1
  <2> QED BY <1>2, <2>2 DEF Covered, From, Reach
<1>11. SeriesExact'
  <2> SUFFICES ASSUME NEW m \in Minutes, m \notin spoilt', taken'[m] > 0, StartOf(m) >= horizon
               PROVE  m \in DOMAIN samples' /\ samples'[m] = taken'[m]
    BY <1>2, <1>7 DEF SeriesExact, SamplerTyped
  <2>1. CASE m = a
    <3>1. ok /\ a \notin D /\ a \notin spoilt
      BY <1>1, <2>1
    <3>2. taken[a] = 0
      BY <1>3, <2>1, <3>1 DEF Kept, SeriesExact, SamplerTyped
    <3>3. taken'[a] = Delta
      BY <1>2, <1>3, <1>4, <3>2 DEF SamplerTyped
    <3> QED BY <1>5, <2>1, <3>1, <3>3
  <2>2. CASE m # a
    <3>1. m \notin spoilt /\ taken'[m] = taken[m]
      BY <1>1, <1>2, <2>2 DEF SamplerTyped
    <3>2. m \in D /\ samples[m] = taken[m]
      BY <3>1 DEF Kept, SeriesExact, SamplerTyped
    <3> QED BY <1>5, <2>2, <3>1, <3>2
  <2> QED BY <2>1, <2>2
<1>12. Kept'
  <2>1. \A c \in prune' : c <= horizon
    BY <1>1 DEF Kept
  <2>2. \A m \in DOMAIN samples' : StartOf(m) <= now
    BY <1>3, <1>5 DEF Kept
  <2> QED BY <1>2, <1>11, <2>1, <2>2 DEF Kept
<1> QED BY <1>7, <1>8, <1>10, <1>12

\* The process goes and comes back with its counters at zero.
LEMMA RestartSampler ==
  ASSUME SamplerInv, Stop \/ Restart
  PROVE  SamplerInv'
<1> USE DEF SamplerInv
<1>1. /\ UNCHANGED <<now, samples, retention, served, taken, spoilt, horizon>>
      /\ total' = 0 /\ last' = 0 /\ prune' \subseteq prune
  BY DEF Stop, Restart, OnTime
<1>2. \/ running' = FALSE /\ due' = 0 /\ prune' = {}
      \/ running' = TRUE /\ due' = now + MinuteLen /\ prune' = prune
  BY DEF Stop, Restart
<1>3. SamplerTyped'
  <2>1. due' \in Int
    BY <1>2, SummandsTyped
  <2>3. running' \in BOOLEAN
    BY <1>2
  <2>2. prune' = {} \/ \E c \in Int : prune' = {c}
    BY <1>2 DEF SamplerTyped
  <2> QED BY <1>1, <2>1, <2>2, <2>3 DEF SamplerTyped
<1>4. OnTime'
  BY <1>1, <1>2, SummandsTyped DEF OnTime
<1>5. Covered'
  <2>1. \A from \in Minutes : Pending(from)' = 0
    BY <1>1 DEF Pending
  <2>2. ASSUME NEW from \in Minutes
        PROVE  Total(samples, From(DOMAIN samples, from)) + Pending(from)'
                 <= Total(served, From(Times, Reach(from)))
    <3> DEFINE S == Total(samples, From(DOMAIN samples, from))
               R == Total(served, From(Times, Reach(from)))
    <3>1. S + Pending(from) <= R /\ S \in Nat /\ R \in Nat
      BY SummandsTyped DEF Covered
    <3>2. Pending(from) \in Nat
      BY DEF Pending, SamplerTyped
    <3> HIDE DEF S, R
    <3>3. S + 0 <= R
      BY <3>1, <3>2
    <3> QED BY <2>1, <3>3 DEF S, R
  <2>3. total' <= Total(served, Times)
    BY <1>1, SummandsTyped
  <2> QED BY <1>1, <2>2, <2>3 DEF Covered, From, Reach
<1>6. Kept'
  BY <1>1 DEF Kept, SeriesExact
<1> QED BY <1>3, <1>4, <1>5, <1>6

\* The samples are those of the requests served, at every step.
LEMMA SamplerInvariant == SamplerSpec => []SamplerInv
<1>1. SamplerInv /\ [SamplerNext]_samplerVars => SamplerInv'
  <2> SUFFICES ASSUME SamplerInv, [SamplerNext]_samplerVars PROVE SamplerInv'
    OBVIOUS
  <2>1. CASE UNCHANGED samplerVars
    <3>1. UNCHANGED <<now, running, due, prune, total, last, samples, retention, served, taken,
                      spoilt, horizon>>
      BY <2>1 DEF samplerVars
    <3>2. Covered'
      BY <3>1, CoverKept DEF SamplerInv
    <3>3. SamplerTyped' /\ OnTime' /\ Kept'
      BY <3>1 DEF SamplerInv, SamplerTyped, OnTime, Kept, SeriesExact
    <3> QED BY <3>2, <3>3 DEF SamplerInv
  <2> QED BY <2>1, ServeSampler, AdvanceSampler, TickSampler, PruneSampler, RestartSampler
          DEF SamplerNext
<1> QED BY <1>1, SamplerStarts, PTL DEF SamplerSpec

(***************************************************************************)
(* tick and PruneRequestSamples, for any phase and delay of the ticker,    *)
(* any failing transactions, restarts and changes of the retention: the    *)
(* samples never count more requests than were served, and within the      *)
(* retention they are lost only to a failed store or a second tick of the  *)
(* minute.                                                                 *)
(***************************************************************************)
THEOREM SeriesSoundHolds == SamplerSpec => []SeriesSound
<1>1. SamplerInv => SamplerTypeOK
  <2> SUFFICES ASSUME SamplerInv PROVE SamplerTypeOK
    OBVIOUS
  <2>1. Cardinality(prune) <= 1
    <3>1. Cardinality({}) = 0 /\ \A c : Cardinality({c}) = 1
      BY FS_EmptySet, FS_Singleton
    <3> QED BY <3>1 DEF SamplerInv, SamplerTyped
  <2> QED BY <2>1 DEF SamplerInv, SamplerTyped, Covered, SamplerTypeOK
<1>2. SamplerInv => NeverOvercounted
  <2> SUFFICES ASSUME SamplerInv, NEW from \in DOMAIN samples
               PROVE  Total(samples, From(DOMAIN samples, from))
                        <= Total(served, From(Times, Reach(from)))
    BY DEF NeverOvercounted, From, Reach
  <2> DEFINE S == Total(samples, From(DOMAIN samples, from))
             R == Total(served, From(Times, Reach(from)))
  <2>1. S + Pending(from) <= R /\ S \in Nat /\ R \in Nat
    BY SummandsTyped DEF SamplerInv, SamplerTyped, Covered
  <2>2. Pending(from) \in Nat
    BY DEF Pending, SamplerInv, SamplerTyped
  <2> HIDE DEF S, R
  <2>3. S <= R
    BY <2>1, <2>2
  <2> QED BY <2>3 DEF S, R
<1>3. SamplerInv => SeriesExact
  BY DEF SamplerInv, Kept
<1>4. SamplerInv => SeriesSound
  BY <1>1, <1>2, <1>3 DEF SeriesSound
<1> QED BY <1>4, SamplerInvariant, PTL
-----------------------------------------------------------------------------
(***************************************************************************)
(* The windows of the chart, counted back from an end, meet every time     *)
(* before it once, and those in between begin later.                       *)
(***************************************************************************)
LEMMA OneWindow ==
  ASSUME NEW e \in Int, NEW s \in Int, s < e, NEW width \in Nat \ {0}
  PROVE  \E o \in Nat :
           /\ e - o * width - width <= s /\ s <= e - o * width - 1
           /\ \A p \in Nat : p < o => s < e - p * width - width
           /\ \A p \in Nat : e - p * width - width <= s /\ s <= e - p * width - 1 => p = o
<1> DEFINE o == (e - 1 - s) \div width
<1>1. o \in Nat /\ o * width <= e - 1 - s /\ e - 1 - s < o * width + width
  <2>1. e - 1 - s \in Nat
    OBVIOUS
  <2> QED BY <2>1, DivFacts
<1> HIDE DEF o
<1>2. \A p \in Nat : /\ p < o => p * width + width <= o * width
                     /\ o < p => o * width + width <= p * width
                     /\ p * width \in Int
  BY <1>1, TimesOrder
<1>3. o * width \in Int
  BY <1>1
<1>4. e - o * width - width <= s /\ s <= e - o * width - 1
  BY <1>1, <1>3
<1>5. ASSUME NEW p \in Nat, p < o PROVE s < e - p * width - width
  BY <1>1, <1>2, <1>3, <1>5
<1>6. ASSUME NEW p \in Nat, e - p * width - width <= s, s <= e - p * width - 1 PROVE p = o
  <2>1. p * width \in Int /\ p * width <= e - 1 - s /\ e - 1 - s < p * width + width
    BY <1>2, <1>6
  <2>2. ~(p < o) /\ ~(o < p)
    BY <1>1, <1>2, <1>3, <2>1
  <2> QED BY <1>1, <2>2
<1> QED BY <1>1, <1>4, <1>5, <1>6

\* One bar of a window has a time in it.
LEMMA OneBar ==
  ASSUME NEW r \in Nat, NEW bucket \in Nat \ {0}, NEW count \in Nat \ {0}, r < bucket * count
  PROVE  r \div bucket \in 0 .. count - 1
<1> DEFINE i == r \div bucket
<1>1. i \in Nat /\ i * bucket <= r
  BY DivFacts
<1> HIDE DEF i
<1>2. count <= i => count * bucket <= i * bucket
  BY <1>1, TimesOrder
<1>3. bucket * count = count * bucket /\ count * bucket \in Int /\ i * bucket \in Int
  BY <1>1
<1>4. i < count
  BY <1>1, <1>2, <1>3
<1> QED BY <1>1, <1>4 DEF i

(***************************************************************************)
(* buildRequestSeries, for any bars and windows: every sample within the   *)
(* retention is in exactly one bar of the windows that an admin comes to   *)
(* by going back as long as the answer allows it.                          *)
(***************************************************************************)
THEOREM ChartReachesHolds == SamplerSpec => []ChartReaches
<1>1. SamplerInv => ChartReaches
  <2> SUFFICES ASSUME SamplerInv, NEW g \in Geometries, NEW m \in DOMAIN samples,
                      StartOf(m) >= now - retention
               PROVE  Cardinality({ob \in Offsets(g) \X (0 .. g.count - 1) :
                                     ob[2] \in Bars(g, ob[1], m)}) = 1
    BY DEF ChartReaches
  <2> DEFINE s == StartOf(m)
             width == Width(g)
             e == (now \div g.bucket) * g.bucket + g.bucket
             First(p) == e - p * width - width
             Hits == {ob \in Offsets(g) \X (0 .. g.count - 1) : ob[2] \in Bars(g, ob[1], m)}
  <2>1. /\ g.bucket \in Nat \ {0} /\ g.count \in Nat \ {0} /\ MaxTime \in Nat
        /\ now \in Nat /\ now <= MaxTime /\ s \in Nat /\ s <= now
        /\ retention \in Nat
    <3>1. /\ g.bucket \in Nat \ {0} /\ g.count \in Nat \ {0} /\ MaxTime \in Nat
          /\ retention \in Nat /\ now \in Nat /\ now <= MaxTime
      BY RequestSamplerAssumption DEF SamplerInv, SamplerTyped, Times
    <3>2. m \in Nat /\ StartOf(m) <= now
      BY SummandsTyped DEF SamplerInv, Kept
    <3> QED BY <3>1, <3>2, MinuteFacts
  <2>2. width \in Nat \ {0} /\ width = g.bucket * g.count /\ g.bucket <= width
    <3>1. \A b, c \in Nat \ {0} : b * c \in Nat \ {0} /\ b <= b * c
      OBVIOUS
    <3> QED BY <2>1, <3>1 DEF Width
  <2>3. e \in Nat /\ now < e /\ e <= now + g.bucket
    <3>1. /\ now \div g.bucket \in Nat /\ (now \div g.bucket) * g.bucket <= now
          /\ now < (now \div g.bucket) * g.bucket + g.bucket
      BY <2>1, DivFacts
    <3> QED BY <2>1, <3>1
  <2>4. \A p \in Nat : WindowEnd(g, p) = e - p * width /\ WindowStart(g, p) = First(p)
    <3> TAKE p \in Nat
    <3>1. PICK k \in Nat : k = p * width
      BY <2>2
    <3>2. PICK n \in Int : n = (now \div g.bucket) * g.bucket
      BY <2>1, <2>3
    <3>3. WindowEnd(g, p) = n + (g.bucket - k)
      BY Zenon, <3>1, <3>2 DEF WindowEnd
    <3>4. e = n + g.bucket
      BY Zenon, <3>2
    <3> HIDE DEF s, width, e
    <3>5. WindowEnd(g, p) = e - p * width
      <4>1. n + (g.bucket - k) = (n + g.bucket) - k
        BY <2>1
      <4> QED BY Zenon, <3>1, <3>3, <3>4, <4>1
    <3> QED BY Zenon, <3>5 DEF WindowStart, width
  <2> HIDE DEF s, width, e
  <2>5. PICK o \in Nat :
          /\ First(o) <= s /\ s <= e - o * width - 1
          /\ \A p \in Nat : p < o => s < First(p)
          /\ \A p \in Nat : First(p) <= s /\ s <= e - p * width - 1 => p = o
    <3>1. e \in Int /\ s \in Int /\ s < e
      BY <2>1, <2>3
    <3> QED BY <2>2, <3>1, OneWindow
  <2>6. \A p \in Nat : p * width \in Nat /\ First(p) \in Int
    BY <2>2, <2>3
  <2>7. o \in Offsets(g)
    <3>1. o <= MaxTime \div width + 1
      <4> DEFINE d == MaxTime \div width
      <4>1. d \in Nat /\ MaxTime < d * width + width /\ d * width \in Nat
        BY <2>1, <2>2, DivFacts
      <4> HIDE DEF d
      <4>2. d + 1 < o => (d + 1) * width + width <= o * width
        BY <2>2, <4>1, TimesOrder
      <4>3. (d + 1) * width = d * width + width
        BY <2>2, <4>1, TimesOrder
      <4>4. o * width <= MaxTime + width
        <5>1. PICK k \in Nat : k = o * width
          BY <2>6
        <5>2. s <= e - k - 1
          BY <2>5, <5>1
        <5> HIDE DEF First
        <5>3. k <= MaxTime + width
          BY <2>1, <2>2, <2>3, <5>2
        <5> QED BY <5>1, <5>3
      <4>5. ~(d + 1 < o)
        <5> SUFFICES ASSUME d + 1 < o PROVE FALSE
          OBVIOUS
        <5>1. PICK k \in Nat : k = o * width
          BY <2>6
        <5>2. PICK n \in Nat : n = d * width
          BY <4>1
        <5>3. n + width + width <= k /\ k <= MaxTime + width /\ MaxTime < n + width
          BY <4>1, <4>2, <4>3, <4>4, <5>1, <5>2
        <5> QED BY <2>1, <2>2, <5>3
      <4> QED BY <4>1, <4>5 DEF d
    <3>2. MaxTime \div width \in Nat
      BY <2>1, <2>2, DivFacts
    <3>3. \A p \in 0 .. o - 1 : CanBack(g, p)
      <4> TAKE p \in 0 .. o - 1
      <4>1. p \in Nat /\ s < First(p) /\ First(p) \in Int
        BY <2>5, <2>6
      <4>2. First(p) > now - retention
        BY <2>1, <4>1 DEF s
      <4> QED BY <2>4, <4>2 DEF CanBack
    <3>4. o \in 0 .. MaxTime \div width + 1
      BY <3>1, <3>2
    <3> QED BY <3>3, <3>4 DEF Offsets, width
  <2> DEFINE i == (s - First(o)) \div g.bucket
  <2>8. i \in 0 .. g.count - 1
    <3>1. s - First(o) \in Nat /\ s - First(o) < g.bucket * g.count
      <4>1. PICK k \in Nat : k = o * width
        BY <2>6
      <4>2. s <= e - k - 1 /\ e - k - width <= s /\ First(o) = e - k - width
        BY <2>5, <4>1
      <4>3. s - (e - k - width) \in Nat /\ s - (e - k - width) < width
        BY <2>1, <2>2, <2>3, <4>2
      <4> QED BY <2>2, <4>2, <4>3
    <3> QED BY <2>1, <3>1, OneBar
  <2>9. \A p \in Nat, j \in 0 .. g.count - 1 : j \in Bars(g, p, m) <=> p = o /\ j = i
    <3> TAKE p \in Nat, j \in 0 .. g.count - 1
    <3>1. j \in Bars(g, p, m) <=> /\ s \in First(p) .. e - p * width - 1
                                  /\ j = (s - First(p)) \div g.bucket
      BY <2>4 DEF Bars, s
    <3>2. s \in First(p) .. e - p * width - 1 <=> p = o
      <4>1. s \in First(p) .. e - p * width - 1 <=> First(p) <= s /\ s <= e - p * width - 1
        BY <2>1, <2>3, <2>6
      <4> QED BY <2>5, <4>1
    <3> QED BY <3>1, <3>2
  <2> HIDE DEF i, First
  <2>10. \A p \in Offsets(g) : p \in Nat
    BY DEF Offsets
  <2>11. Hits = {<<o, i>>}
    <3>1. <<o, i>> \in Hits
      BY <2>7, <2>8, <2>9
    <3>2. ASSUME NEW ob \in Hits PROVE ob = <<o, i>>
      <4>1. /\ ob[1] \in Nat /\ ob[2] \in 0 .. g.count - 1 /\ ob[2] \in Bars(g, ob[1], m)
            /\ ob = <<ob[1], ob[2]>>
        BY <2>10
      <4> HIDE DEF Hits
      <4> QED BY <2>9, <4>1
    <3> HIDE DEF Hits
    <3> QED BY <3>1, <3>2
  <2> QED BY <2>11, FS_Singleton
<1> QED BY <1>1, SamplerInvariant, PTL
=============================================================================
