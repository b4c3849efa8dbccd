---------------------------- MODULE FrontProofs ----------------------------
(***************************************************************************)
(* Proofs about the storage surface as Download composes it (documents,    *)
(* access, downloads), for any number of workers, users, requests and      *)
(* scenarios, with failing writes and kills, if clients wait for the       *)
(* answer to a change of a document before they send another one           *)
(* (~Overlap) and the file system has an inode for every name and          *)
(* descriptor (EnoughNodes).                                               *)
(***************************************************************************)
EXTENDS Download, FiniteSetTheorems, SequenceTheorems, WellFoundedInduction, TLAPS

\* A document and its temporary file, and one descriptor per worker.
EnoughNodes ==
  /\ IsFiniteSet(Workers)
  /\ IsFiniteSet(Nodes) => Cardinality(Nodes) > Cardinality(Workers) + 8

DocPlaces == {"stat", "load", "create", "write", "rename", "unlink", "publish", "truncate",
              "fill", "removeData", "removeMeta", "open", "read"}
CheckPlaces == {"headerUser", "headerTime", "linkExpiry", "linkUser", "linkTime",
                "anonymous", "objectACL", "bucketACL"}
FetchPlaces == CheckPlaces \cup {"granted", "etag", "judge", "openWhole", "openSlice"}
Places == {"idle", "done"} \cup DocPlaces \cup FetchPlaces

DocOps == {"put", "delete", "get", "upload", "remove", "preflight"}
Reads(r) == r.op \in {"get", "preflight"}

\* A document of this kind decodes; a CORS configuration has rules.
Legal(d, x) == x # Torn /\ (d = "cors" => x \in DOMAIN Rules \cup {None})

\* A function with this domain, whatever its values are.
Table(f, S) == f = [x \in S |-> f[x]]

Tables ==
  /\ scenario \in Scenarios
  /\ file \in [Docs -> Nodes \cup {None}]
  /\ temp \in [Docs -> Nodes \cup {None}]
  /\ fd \in [Workers -> Nodes \cup {None}]
  /\ at \in [Workers -> Places]
  /\ Table(bytes, Nodes) /\ Table(req, Workers) /\ Table(got, Workers)
  /\ Table(since, Workers) /\ Table(acked, Plain)

\* What a request is made of; PutObjectACL has replaced the value for .meta.
Formed(r) ==
  /\ r.op \in DocOps \cup {"fetch"}
  /\ r.op = "put" => /\ r.doc \in Docs /\ r = [op |-> "put", doc |-> r.doc, val |-> r.val]
                     /\ (r.doc \in Plain /\ Valid(r)) => Legal(r.doc, r.val)
  /\ r.op = "get" => r.doc \in Plain
  /\ r.op = "delete" => r.doc \in {"tags", "cors"}
  /\ r.op = "preflight" => WellFormed(r)

\* A request is at a step of its own handler.
Placed(w) ==
  LET r == req[w] IN
  /\ at[w] = "idle" => r = NoRequest
  /\ at[w] # "idle" => Formed(r)
  /\ at[w] = "stat" => r.op \in {"put", "get", "delete"} /\ r.doc \in {"tags", "meta"}
  /\ at[w] = "load" => r.op = "put" /\ r.doc = "meta"
  /\ at[w] \in {"create", "write", "rename"} => r.op = "put"
  /\ at[w] \in {"write", "rename"} => Valid(r)
  /\ at[w] = "unlink" => r.op = "delete"
  /\ at[w] \in {"publish", "truncate", "fill"} => r.op = "upload"
  /\ at[w] \in {"removeData", "removeMeta"} => r.op = "remove"
  /\ at[w] \in {"open", "read"} => Reads(r)
  /\ at[w] \in FetchPlaces => r.op = "fetch"

\* Changes of a document come one after the other.
Exclusive == \A d \in Docs : \A v, w \in Pending(d) : v = w

(***************************************************************************)
(* No two names share an inode.  A writer's descriptor is that of its own  *)
(* file; a reader's is that of the document or of none any more.           *)
(***************************************************************************)
NamesApart ==
  \A d, e \in Docs :
    /\ file[d] # None => file[d] # temp[e]
    /\ d # e => /\ file[d] # None => file[d] # file[e]
                /\ temp[d] # None => temp[d] # temp[e]

Holding(w) ==
  LET d == req[w].doc IN
  /\ at[w] = "write" => fd[w] # None /\ fd[w] = temp[d] /\ bytes[fd[w]] = Torn
  /\ at[w] = "rename" => temp[d] # None /\ bytes[temp[d]] = req[w].val
  /\ at[w] = "fill" => fd[w] # None /\ fd[w] = file["meta"]
  /\ at[w] = "read" => /\ fd[w] # None
                       /\ \A e \in Docs : /\ fd[w] # temp[e]
                                          /\ e # d => fd[w] # file[e]
                       /\ bytes[fd[w]] \in since[w] /\ Legal(d, bytes[fd[w]])
  /\ at[w] \notin {"write", "fill", "read"} => fd[w] = None

(***************************************************************************)
(* A document is one that a read may find; whoever reads has noted that    *)
(* and what is under way, and has answered from it.                        *)
(***************************************************************************)
InForce ==
  \A d \in Plain : Content(d) \in acked[d] /\ Legal(d, Content(d))

Noted(w) ==
  at[w] # "idle" /\ Reads(req[w]) =>
    /\ acked[req[w].doc] \subseteq since[w]
    /\ \A p \in Pending(req[w].doc) : Wanted(req[p]) \in since[w]

Answered(w) ==
  LET r == req[w]
      a == got[w]
  IN at[w] = "done" =>
       /\ r.op = "get" => \/ a.status = "noObject"
                          \/ a.status \in {"ok", "notFound"} /\ a.found \in since[w]
       /\ r.op = "preflight" => \E c \in since[w] : Legal("cors", c) /\ a = CORSAnswer(c, r)

\* The inductive invariant of the documents.
DocInv ==
  /\ Tables
  /\ \A w \in Workers : Placed(w)
  /\ Exclusive
  /\ NamesApart
  /\ \A w \in Workers : Holding(w)
  /\ InForce
  /\ \A w \in Workers : Noted(w) /\ Answered(w)
-----------------------------------------------------------------------------
LEMMA RangeFinite ==
  ASSUME NEW S, IsFiniteSet(S), NEW T, NEW f \in [S -> T]
  PROVE  /\ IsFiniteSet({f[x] : x \in S})
         /\ Cardinality({f[x] : x \in S}) <= Cardinality(S)
<1> DEFINE R == {f[x] : x \in S}
<1>1. f \in Surjection(S, R)
  BY DEF Surjection
<1> HIDE DEF R
<1>2. IsFiniteSet(R) /\ Cardinality(R) <= Cardinality(S)
  BY <1>1, FS_Surjection
<1> QED BY <1>2 DEF R

LEMMA UnionBound ==
  ASSUME NEW S, IsFiniteSet(S), NEW T, IsFiniteSet(T), NEW m \in Nat, NEW n \in Nat,
         Cardinality(S) <= m, Cardinality(T) <= n
  PROVE  IsFiniteSet(S \cup T) /\ Cardinality(S \cup T) <= m + n
<1>1. /\ IsFiniteSet(S \cup T)
      /\ Cardinality(S \cup T) = Cardinality(S) + Cardinality(T) - Cardinality(S \cap T)
  BY FS_Union
<1>2. IsFiniteSet(S \cap T)
  BY FS_Intersection
<1>3. Cardinality(S) \in Nat /\ Cardinality(T) \in Nat /\ Cardinality(S \cap T) \in Nat
  BY <1>2, FS_CardinalityType
<1> QED BY <1>1, <1>3

LEMMA DocsFinite == IsFiniteSet(Docs) /\ Cardinality(Docs) <= 4
<1> DEFINE D2 == {"tags"} \cup {"cors"}
           D3 == D2 \cup {"acl"}
           D4 == D3 \cup {"meta"}
<1>0. 1 \in Nat /\ 2 \in Nat /\ 3 \in Nat /\ 1 + 1 = 2 /\ 2 + 1 = 3 /\ 3 + 1 = 4 /\ 1 <= 1
  OBVIOUS
<1>1. \A d : IsFiniteSet({d}) /\ Cardinality({d}) = 1
  BY FS_Singleton, Zenon
<1>2. IsFiniteSet(D2) /\ Cardinality(D2) <= 1 + 1
  BY <1>0, <1>1, UnionBound, Zenon
<1> HIDE DEF D2
<1>3. IsFiniteSet(D3) /\ Cardinality(D3) <= 2 + 1
  BY <1>0, <1>1, <1>2, UnionBound, Zenon
<1> HIDE DEF D3
<1>4. IsFiniteSet(D4) /\ Cardinality(D4) <= 3 + 1
  BY <1>0, <1>1, <1>3, UnionBound, Zenon
<1>5. Docs = D4
  BY DEF Docs, D2, D3, D4
<1> QED BY <1>4, <1>5

\* There is always a free inode.
LEMMA FreeNodeFacts ==
  ASSUME EnoughNodes, Tables
  PROVE  /\ FreeNode \in Nodes /\ FreeNode # None
         /\ \A d \in Docs : FreeNode # file[d] /\ FreeNode # temp[d]
         /\ \A w \in Workers : FreeNode # fd[w]
<1> DEFINE F == {file[d] : d \in Docs}
           T == {temp[d] : d \in Docs}
           D == {fd[w] : w \in Workers}
<1>1. /\ IsFiniteSet(F) /\ Cardinality(F) <= 4 /\ Cardinality(F) \in Nat
      /\ IsFiniteSet(T) /\ Cardinality(T) <= 4 /\ Cardinality(T) \in Nat
      /\ IsFiniteSet(D) /\ Cardinality(D) <= Cardinality(Workers) /\ Cardinality(D) \in Nat
      /\ Cardinality(Workers) \in Nat
  <2>1. file \in [Docs -> Nodes \cup {None}] /\ temp \in [Docs -> Nodes \cup {None}]
        /\ fd \in [Workers -> Nodes \cup {None}] /\ IsFiniteSet(Workers)
    BY DEF Tables, EnoughNodes
  <2>2. IsFiniteSet(F) /\ Cardinality(F) <= Cardinality(Docs)
    BY <2>1, DocsFinite, RangeFinite
  <2>3. IsFiniteSet(T) /\ Cardinality(T) <= Cardinality(Docs)
    BY <2>1, DocsFinite, RangeFinite
  <2>4. IsFiniteSet(D) /\ Cardinality(D) <= Cardinality(Workers)
    BY <2>1, RangeFinite
  <2> HIDE DEF F, T, D
  <2>5. /\ Cardinality(F) \in Nat /\ Cardinality(T) \in Nat /\ Cardinality(D) \in Nat
        /\ Cardinality(Docs) \in Nat /\ Cardinality(Workers) \in Nat
    BY <2>1, <2>2, <2>3, <2>4, DocsFinite, FS_CardinalityType
  <2> QED BY <2>2, <2>3, <2>4, <2>5, DocsFinite
<1> HIDE DEF F, T, D
<1>2. IsFiniteSet(F \cup T) /\ Cardinality(F \cup T) <= 4 + 4
  BY <1>1, UnionBound
<1> DEFINE FT == F \cup T
<1> HIDE DEF FT
<1>3. /\ IsFiniteSet(FT \cup D) /\ Cardinality(FT \cup D) \in Nat
      /\ Cardinality(FT \cup D) <= 8 + Cardinality(Workers)
  <2>1. IsFiniteSet(FT) /\ Cardinality(FT) <= 8 /\ 8 \in Nat
    BY <1>2 DEF FT
  <2>2. IsFiniteSet(FT \cup D) /\ Cardinality(FT \cup D) <= 8 + Cardinality(Workers)
    BY <1>1, <2>1, UnionBound
  <2> QED BY <2>2, FS_CardinalityType
<1>4. Live = (FT \cup D) \ {None}
  BY DEF Live, FT, F, T, D
<1>5. \E n \in Nodes : n \notin Live
  <2> SUFFICES ASSUME Nodes \subseteq FT \cup D PROVE FALSE
    BY <1>4
  <2>1. IsFiniteSet(Nodes) /\ Cardinality(Nodes) <= Cardinality(FT \cup D)
    BY <1>3, FS_Subset
  <2>2. Cardinality(Nodes) \in Nat
    BY <2>1, FS_CardinalityType
  <2> QED BY <1>1, <1>3, <2>1, <2>2 DEF EnoughNodes
<1>6. FreeNode \in Nodes /\ FreeNode \notin Live
  BY <1>5 DEF FreeNode
<1>7. FreeNode # None
  BY <1>6, SidecarsAssumption
<1> QED BY <1>4, <1>6, <1>7 DEF FT, F, T, D

\* Inodes that are referred to keep their contents.
LEMMA ContentsFacts ==
  ASSUME NEW b, Contents(b),
         file' \in [Docs -> Nodes \cup {None}], temp' \in [Docs -> Nodes \cup {None}],
         fd' \in [Workers -> Nodes \cup {None}]
  PROVE  /\ Table(bytes', Nodes)
         /\ \A d \in Docs : /\ file'[d] # None => bytes'[file'[d]] = b[file'[d]]
                            /\ temp'[d] # None => bytes'[temp'[d]] = b[temp'[d]]
         /\ \A w \in Workers : fd'[w] # None => bytes'[fd'[w]] = b[fd'[w]]
<1>1. /\ \A d \in Docs : /\ file'[d] # None => file'[d] \in Live'
                         /\ temp'[d] # None => temp'[d] \in Live'
      /\ \A w \in Workers : fd'[w] # None => fd'[w] \in Live'
  BY DEF Live
<1> DEFINE L == Live'
<1>2. bytes' = [n \in Nodes |-> IF n \in L THEN b[n] ELSE None]
  BY DEF Contents
<1> HIDE DEF L
<1>3. \A n \in Nodes : n \in L => bytes'[n] = b[n]
  BY <1>2
<1>4. Table(bytes', Nodes)
  BY <1>2 DEF Table
<1>5. /\ \A d \in Docs : /\ file'[d] # None => file'[d] \in Nodes
                         /\ temp'[d] # None => temp'[d] \in Nodes
      /\ \A w \in Workers : fd'[w] # None => fd'[w] \in Nodes
  OBVIOUS
<1> QED BY <1>1, <1>3, <1>4, <1>5 DEF L
-----------------------------------------------------------------------------
\* A step of the handler that serves w: no other worker's request is touched.
Advance(w) ==
  /\ at[w] \notin {"idle", "done"}
  /\ at' = [at EXCEPT ![w] = at'[w]] /\ at'[w] \in Places \ {"idle"}
  /\ UNCHANGED <<scenario, req, since>>
  /\ Table(got', Workers) /\ \A v \in Workers \ {w} : got'[v] = got[v]

\* What is acknowledged was under way.
Acknowledged ==
  /\ Table(acked', Plain)
  /\ \A d \in Plain : acked'[d] \subseteq acked[d] \cup {Wanted(req[p]) : p \in Pending(d)}

LEMMA AdvanceOthers ==
  ASSUME DocInv, NEW w \in Workers, Advance(w)
  PROVE  /\ at' \in [Workers -> Places] /\ at'[w] # "idle"
         /\ \A v \in Workers \ {w} : at'[v] = at[v]
         /\ \A v \in Workers : req'[v] = req[v] /\ since'[v] = since[v]
         /\ \A d : Pending(d)' \subseteq Pending(d)
<1>1. at \in [Workers -> Places]
  BY DEF DocInv, Tables
<1>2. /\ at' \in [Workers -> Places] /\ at'[w] # "idle"
      /\ \A v \in Workers \ {w} : at'[v] = at[v]
  BY <1>1 DEF Advance
<1>3. req' = req /\ since' = since /\ at[w] \notin {"idle", "done"}
  BY DEF Advance
<1> QED BY <1>2, <1>3 DEF Pending

LEMMA AdvancePlaced ==
  ASSUME DocInv, NEW w \in Workers, Advance(w), Placed(w)'
  PROVE  (\A v \in Workers : Placed(v)') /\ Exclusive'
<1>1. \A v \in Workers \ {w} : Placed(v)'
  BY AdvanceOthers DEF Placed, DocInv, Formed, Valid
<1>2. Exclusive'
  BY AdvanceOthers DEF Exclusive, DocInv
<1> QED BY <1>1, <1>2

LEMMA AdvanceNoted ==
  ASSUME DocInv, NEW w \in Workers, Advance(w), Acknowledged
  PROVE  \A v \in Workers : Noted(v)' /\ (v # w => Answered(v)')
<1> SUFFICES ASSUME NEW v \in Workers
             PROVE  Noted(v)' /\ (v # w => Answered(v)')
  OBVIOUS
<1>1. /\ req'[v] = req[v] /\ since'[v] = since[v] /\ req' = req
      /\ at'[v] # "idle" => at[v] # "idle"
      /\ v # w => at'[v] = at[v] /\ got'[v] = got[v]
      /\ \A d : Pending(d)' \subseteq Pending(d)
  BY AdvanceOthers DEF Advance
<1>2. ASSUME at'[v] # "idle", Reads(req[v]) PROVE Noted(v)'
  <2>1. req[v].doc \in Plain
    BY <1>1, <1>2 DEF DocInv, Placed, Formed, Reads, WellFormed, Plain, Docs
  <2>2. /\ acked[req[v].doc] \subseteq since[v]
        /\ \A p \in Pending(req[v].doc) : Wanted(req[p]) \in since[v]
    BY <1>1, <1>2 DEF DocInv, Noted
  <2>3. acked'[req[v].doc] \subseteq since[v]
    BY <2>1, <2>2 DEF Acknowledged
  <2>4. \A p \in Pending(req[v].doc)' : Wanted(req'[p]) \in since[v]
    BY <1>1, <2>2
  <2> QED BY <1>1, <2>3, <2>4 DEF Noted
<1>3. Noted(v)'
  BY <1>1, <1>2 DEF Noted
<1>4. ASSUME v # w PROVE Answered(v)'
  <2>1. Answered(v)
    BY DEF DocInv
  <2> QED BY <1>1, <1>4, <2>1 DEF Answered, CORSAnswer
<1> QED BY <1>3, <1>4

\* A step that leaves the files alone.
LEMMA QuietStep ==
  ASSUME DocInv, NEW w \in Workers, Advance(w), Placed(w)', Answered(w)',
         UNCHANGED <<file, temp, bytes, fd, acked>>,
         at[w] \notin {"write", "rename", "fill", "read"},
         at'[w] \notin {"write", "rename", "fill", "read"}
  PROVE  DocInv'
<1>1. Tables'
  BY AdvanceOthers DEF DocInv, Tables, Advance, Table
<1>2. (\A v \in Workers : Placed(v)') /\ Exclusive'
  BY AdvancePlaced
<1>3. NamesApart'
  BY DEF DocInv, NamesApart
<1>4. \A v \in Workers : Holding(v)'
  <2> TAKE v \in Workers
  <2>1. Holding(v)
    BY DEF DocInv
  <2>2. CASE v = w
    BY <2>1, <2>2, AdvanceOthers DEF Holding, Valid
  <2>3. CASE v # w
    BY <2>1, <2>3, AdvanceOthers DEF Holding, Valid
  <2> QED BY <2>2, <2>3
<1>5. InForce'
  BY DEF DocInv, InForce, Content
<1>6. Acknowledged
  BY DEF DocInv, Tables, Acknowledged, Table
<1>7. \A v \in Workers : Noted(v)' /\ Answered(v)'
  BY <1>6, AdvanceNoted
<1> QED BY <1>1, <1>2, <1>3, <1>4, <1>5, <1>7 DEF DocInv

LEMMA GotoAdvance ==
  ASSUME DocInv, NEW w \in Workers, at[w] \notin {"idle", "done"},
         NEW p \in Places \ {"idle"}, Goto(w, p), UNCHANGED <<scenario, req, since>>,
         UNCHANGED got \/ \E a : got' = [got EXCEPT ![w] = a]
  PROVE  Advance(w) /\ at'[w] = p
<1>1. at \in [Workers -> Places] /\ Table(got, Workers)
  BY DEF DocInv, Tables
<1>2. at' = [at EXCEPT ![w] = p] /\ at'[w] = p
  BY <1>1 DEF Goto
<1>3. Table(got', Workers) /\ \A v \in Workers \ {w} : got'[v] = got[v]
  <2>1. CASE UNCHANGED got
    BY <1>1, <2>1
  <2>2. CASE \E a : got' = [got EXCEPT ![w] = a]
    BY <1>1, <2>2 DEF Table
  <2> QED BY <2>1, <2>2
<1> QED BY <1>2, <1>3 DEF Advance

LEMMA ReplyAdvance ==
  ASSUME DocInv, NEW w \in Workers, at[w] \notin {"idle", "done"},
         NEW a, Reply(w, a), UNCHANGED <<scenario, req, since>>
  PROVE  Advance(w) /\ at'[w] = "done" /\ got'[w] = a /\ Placed(w)'
<1>1. "done" \in Places \ {"idle"}
  BY DEF Places
<1>2. Advance(w) /\ at'[w] = "done"
  BY <1>1, GotoAdvance DEF Reply
<1>3. got'[w] = a
  BY DEF Reply, DocInv, Tables, Table
<1>4. Placed(w)'
  <2>1. Formed(req[w])
    BY DEF DocInv, Placed
  <2>2. req'[w] = req[w]
    OBVIOUS
  <2> QED BY <1>2, <2>1, <2>2 DEF Placed, FetchPlaces, CheckPlaces
<1> QED BY <1>2, <1>3, <1>4

\* A reply that no reader gets.
LEMMA OtherReply ==
  ASSUME DocInv, NEW w \in Workers, Advance(w), at'[w] = "done", req[w].op \notin {"get", "preflight"}
  PROVE  Answered(w)'
BY DEF Advance, Answered

LEMMA StatKeeps ==
  ASSUME DocInv, NEW w \in Workers, Stat(w)
  PROVE  DocInv'
<1>0. /\ at[w] = "stat" /\ UNCHANGED <<scenario, file, temp, bytes, req, fd, acked, since>>
      /\ req'[w] = req[w]
  BY DEF Stat, docVars, history
<1>1. Placed(w) /\ Formed(req[w])
  BY <1>0 DEF DocInv, Placed
<1>2. CASE data = None /\ Answer(w, "noObject")
  <2>1. Advance(w) /\ at'[w] = "done" /\ got'[w] = [status |-> "noObject"] /\ Placed(w)'
    BY <1>0, <1>2, ReplyAdvance DEF Answer
  <2>2. Answered(w)'
    BY <1>0, <1>1, <2>1 DEF Answered, Placed
  <2> QED BY <1>0, <2>1, <2>2, QuietStep
<1>3. CASE ~(data = None /\ Answer(w, "noObject"))
  <2> DEFINE p == CASE req[w].op = "get" -> "open"
                    [] req[w].op = "delete" -> "unlink"
                    [] req[w].op = "put" /\ req[w].doc = "tags" -> "create"
                    [] req[w].op = "put" /\ req[w].doc = "meta" -> "load"
  <2>1. Goto(w, p) /\ UNCHANGED got
    BY <1>3 DEF Stat
  <2>2. /\ req[w].op = "get" => p = "open"
        /\ req[w].op = "delete" => p = "unlink"
        /\ req[w].op = "put" => p = (IF req[w].doc = "tags" THEN "create" ELSE "load")
        /\ req[w].op = "put" => req[w].doc \in {"tags", "meta"}
        /\ req[w].op \in {"put", "get", "delete"}
    BY <1>0, <1>1 DEF Placed
  <2>3. p \in {"open", "unlink", "create", "load"}
    BY <2>2
  <2> HIDE DEF p
  <2>4. Advance(w) /\ at'[w] = p
    BY <1>0, <2>1, <2>3, GotoAdvance DEF Places, DocPlaces
  <2>5. Placed(w)'
    BY <1>0, <1>1, <2>2, <2>3, <2>4 DEF Placed, Reads, FetchPlaces, CheckPlaces
  <2>6. Answered(w)'
    BY <2>3, <2>4 DEF Answered
  <2> QED BY <1>0, <2>3, <2>4, <2>5, <2>6, QuietStep
<1> QED BY <1>2, <1>3

LEMMA RefuseKeeps ==
  ASSUME DocInv, NEW w \in Workers, Refuse(w)
  PROVE  DocInv'
<1>0. /\ at[w] \in {"create", "load"} /\ UNCHANGED <<scenario, file, temp, bytes, req, fd, acked, since>>
      /\ Answer(w, "invalid")
  BY DEF Refuse, docVars, history
<1>1. req[w].op = "put"
  BY <1>0 DEF DocInv, Placed
<1>2. Advance(w) /\ at'[w] = "done" /\ Placed(w)'
  BY <1>0, ReplyAdvance DEF Answer
<1>3. Answered(w)'
  BY <1>1, <1>2, OtherReply
<1> QED BY <1>0, <1>2, <1>3, QuietStep

LEMMA PublishKeeps ==
  ASSUME DocInv, NEW w \in Workers, Publish(w) \/ RemoveData(w)
  PROVE  DocInv'
<1> DEFINE p == IF at[w] = "publish" THEN "truncate" ELSE "removeMeta"
<1>0. /\ at[w] \in {"publish", "removeData"} /\ Goto(w, p)
      /\ UNCHANGED <<scenario, file, temp, bytes, req, fd, got, acked, since>> /\ req'[w] = req[w]
  BY DEF Publish, RemoveData, docVars, history
<1>1. Placed(w)
  BY DEF DocInv
<1>2. Advance(w) /\ at'[w] = p
  BY <1>0, GotoAdvance DEF Places, DocPlaces
<1>3. Placed(w)'
  BY <1>0, <1>1, <1>2 DEF Placed, FetchPlaces, CheckPlaces
<1>4. Answered(w)'
  BY <1>2 DEF Answered
<1> QED BY <1>0, <1>2, <1>3, <1>4, QuietStep
-----------------------------------------------------------------------------
\* The worker that changes a document is the only one.
LEMMA AloneAt ==
  ASSUME DocInv, NEW w \in Workers, NEW v \in Workers, v # w,
         at[w] \notin {"idle", "done"}, at[v] \notin {"idle", "done"},
         Changes(req[w]), Changes(req[v]), Target(req[w]) \in Docs
  PROVE  Target(req[v]) # Target(req[w])
BY DEF DocInv, Exclusive, Pending

\* How the parts of the invariant that a step may disturb make up the whole.
LEMMA FileStep ==
  ASSUME DocInv, NEW w \in Workers, Advance(w), Placed(w)', Answered(w)', Acknowledged,
         file' \in [Docs -> Nodes \cup {None}], temp' \in [Docs -> Nodes \cup {None}],
         fd' \in [Workers -> Nodes \cup {None}], Table(bytes', Nodes),
         NamesApart', InForce', \A v \in Workers : Holding(v)'
  PROVE  DocInv'
<1>1. Tables'
  BY AdvanceOthers DEF DocInv, Tables, Advance, Table, Acknowledged
<1>2. (\A v \in Workers : Placed(v)') /\ Exclusive'
  BY AdvancePlaced
<1>3. \A v \in Workers : Noted(v)' /\ Answered(v)'
  BY AdvanceNoted
<1> QED BY <1>1, <1>2, <1>3 DEF DocInv

LEMMA CreateKeeps ==
  ASSUME EnoughNodes, DocInv, NEW w \in Workers, Create(w)
  PROVE  DocInv' /\ \A e \in Docs : Content(e)' = Content(e)
<1> DEFINE d == req[w].doc
           n == IF temp[d] = None THEN FreeNode ELSE temp[d]
<1>0. /\ at[w] = "create" /\ Valid(req[w]) /\ UNCHANGED <<scenario, data, file, req, acked, since>>
      /\ req'[w] = req[w]
  BY DEF Create, history
<1>1. Placed(w) /\ Holding(w) /\ req[w].op = "put" /\ d \in Docs /\ Formed(req[w])
  BY <1>0 DEF DocInv, Placed, Formed
<1>2. Acknowledged
  BY <1>0 DEF DocInv, Tables, Acknowledged, Table
<1>3. CASE scenario \in Faulty /\ Answer(w, "failed") /\ UNCHANGED <<temp, bytes, fd>>
  <2>1. Advance(w) /\ at'[w] = "done" /\ Placed(w)'
    BY <1>0, <1>3, ReplyAdvance DEF Answer
  <2>2. Answered(w)'
    BY <1>1, <2>1, OtherReply
  <2>3. DocInv'
    BY <1>0, <1>3, <2>1, <2>2, QuietStep
  <2> QED BY <1>0, <1>3, <2>3 DEF Content
<1>4. CASE /\ temp' = [temp EXCEPT ![d] = n] /\ fd' = [fd EXCEPT ![w] = n]
           /\ Contents([bytes EXCEPT ![n] = Torn])
           /\ Goto(w, "write") /\ UNCHANGED got
  <2>1. Advance(w) /\ at'[w] = "write"
    BY <1>0, <1>4, GotoAdvance DEF Places, DocPlaces
  <2>2. Placed(w)' /\ Answered(w)'
    BY <1>0, <1>1, <2>1 DEF Placed, Answered, FetchPlaces, CheckPlaces
  <2>3. /\ file \in [Docs -> Nodes \cup {None}] /\ temp \in [Docs -> Nodes \cup {None}]
        /\ fd \in [Workers -> Nodes \cup {None}] /\ Table(bytes, Nodes)
    BY DEF DocInv, Tables
  <2>4. /\ n \in Nodes /\ n # None
        /\ \A e \in Docs : n # file[e] /\ (e # d => n # temp[e])
    <3>1. CASE temp[d] = None
      BY <3>1, FreeNodeFacts DEF DocInv
    <3>2. CASE temp[d] # None
      BY <3>2, <1>1, <2>3 DEF DocInv, NamesApart
    <3> QED BY <3>1, <3>2
  <2>5. \A v \in Workers : at[v] = "read" => n # fd[v]
    <3>1. CASE temp[d] = None
      BY <3>1, FreeNodeFacts DEF DocInv
    <3>2. CASE temp[d] # None
      BY <3>2, <1>1 DEF DocInv, Holding
    <3> QED BY <3>1, <3>2
  <2> HIDE DEF n
  <2>6. /\ temp' \in [Docs -> Nodes \cup {None}] /\ temp'[d] = n
        /\ \A e \in Docs : e # d => temp'[e] = temp[e]
        /\ fd' \in [Workers -> Nodes \cup {None}] /\ fd'[w] = n
        /\ \A v \in Workers : v # w => fd'[v] = fd[v]
    BY <1>1, <1>4, <2>3, <2>4
  <2> DEFINE b == [bytes EXCEPT ![n] = Torn]
  <2>7. \A m \in Nodes : b[m] = IF m = n THEN Torn ELSE bytes[m]
    BY <2>3 DEF Table
  <2> HIDE DEF b
  <2>8. /\ Table(bytes', Nodes)
        /\ \A e \in Docs : /\ file[e] # None => bytes'[file[e]] = b[file[e]]
                           /\ temp'[e] # None => bytes'[temp'[e]] = b[temp'[e]]
        /\ \A v \in Workers : fd'[v] # None => bytes'[fd'[v]] = b[fd'[v]]
    <3>1. Contents(b) /\ file' = file
      BY <1>0, <1>4 DEF b
    <3> QED BY <3>1, <2>3, <2>6, ContentsFacts
  <2>9. \A e \in Docs : Content(e)' = Content(e)
    BY <1>0, <2>3, <2>4, <2>7, <2>8 DEF Content
  <2>10. InForce'
    BY <1>0, <2>9 DEF DocInv, InForce, Plain
  <2>11. NamesApart'
    BY <1>0, <2>4, <2>6 DEF DocInv, NamesApart
  <2>12. \A v \in Workers : Holding(v)'
    <3> TAKE v \in Workers
    <3>1. Holding(v) /\ Placed(v) /\ req'[v] = req[v] /\ since'[v] = since[v]
      BY <1>0 DEF DocInv
    <3>2. CASE v = w
      BY <1>1, <2>1, <2>4, <2>6, <2>7, <2>8, <3>1, <3>2 DEF Holding
    <3>3. CASE v # w
      <4>1. at'[v] = at[v] /\ fd'[v] = fd[v]
        BY <2>1, <2>6, <3>3, AdvanceOthers
      <4>2. at[v] \in {"write", "rename"} => req[v].doc # d /\ req[v].doc \in Docs
        <5> SUFFICES ASSUME at[v] \in {"write", "rename"} PROVE req[v].doc # d /\ req[v].doc \in Docs
          OBVIOUS
        <5>1. req[v].op = "put" /\ req[v].doc \in Docs
          BY <3>1 DEF Placed, Formed
        <5> QED BY <1>0, <1>1, <3>3, <5>1, AloneAt DEF Changes, Target
      <4>3. at[v] \in {"write"} => Holding(v)'
        BY <2>3, <2>4, <2>6, <2>7, <2>8, <3>1, <4>1, <4>2 DEF Holding
      <4>4. at[v] \in {"rename"} => Holding(v)'
        BY <2>3, <2>4, <2>6, <2>7, <2>8, <3>1, <4>1, <4>2 DEF Holding
      <4>5. at[v] = "read" => Holding(v)'
        BY <1>0, <2>3, <2>4, <2>5, <2>6, <2>7, <2>8, <3>1, <4>1 DEF Holding
      <4>6. at[v] \notin {"write", "rename", "read"} => Holding(v)'
        BY <1>0, <2>4, <3>1, <4>1 DEF Holding
      <4> QED BY <4>3, <4>4, <4>5, <4>6
    <3> QED BY <3>2, <3>3
  <2> QED BY <1>0, <1>2, <2>1, <2>2, <2>3, <2>6, <2>8, <2>9, <2>10, <2>11, <2>12, FileStep
<1> QED BY <1>0, <1>3, <1>4 DEF Create

LEMMA WriteKeeps ==
  ASSUME DocInv, NEW w \in Workers, Write(w)
  PROVE  DocInv' /\ \A e \in Docs : Content(e)' = Content(e)
<1> DEFINE d == req[w].doc
           n == fd[w]
<1>0. /\ at[w] = "write" /\ UNCHANGED <<scenario, data, file, temp, req, acked, since>>
      /\ req'[w] = req[w] /\ fd' = [fd EXCEPT ![w] = None]
  BY DEF Write, history
<1>1. /\ Placed(w) /\ req[w].op = "put" /\ d \in Docs /\ Formed(req[w]) /\ Valid(req[w])
      /\ n # None /\ n = temp[d] /\ bytes[n] = Torn
  BY <1>0 DEF DocInv, Placed, Formed, Holding
<1>2. Acknowledged
  BY <1>0 DEF DocInv, Tables, Acknowledged, Table
<1>3. /\ file \in [Docs -> Nodes \cup {None}] /\ temp \in [Docs -> Nodes \cup {None}]
      /\ fd \in [Workers -> Nodes \cup {None}] /\ Table(bytes, Nodes)
  BY DEF DocInv, Tables
<1>4. /\ n \in Nodes
      /\ \A e \in Docs : n # file[e] /\ (e # d => n # temp[e])
  BY <1>1, <1>3 DEF DocInv, NamesApart
<1>5. \A v \in Workers : at[v] = "read" => n # fd[v]
  BY <1>1 DEF DocInv, Holding
<1>6. /\ fd' \in [Workers -> Nodes \cup {None}] /\ fd'[w] = None
      /\ \A v \in Workers : v # w => fd'[v] = fd[v]
  BY <1>0, <1>3
<1>7. \E c : /\ Contents([bytes EXCEPT ![n] = c])
             /\ \/ c = req[w].val /\ Goto(w, "rename") /\ UNCHANGED got
                \/ Answer(w, "failed")
  <2>1. CASE /\ \E c \in {req[w].val} \cup (IF bytes[n] = Torn THEN {} ELSE {Torn}) :
                  Contents([bytes EXCEPT ![n] = c])
             /\ Goto(w, "rename") /\ UNCHANGED got
    BY <1>1, <2>1
  <2>2. CASE Contents(bytes) /\ Answer(w, "failed")
    <3>1. [bytes EXCEPT ![n] = Torn] = bytes
      BY <1>1, <1>3, <1>4 DEF Table
    <3> QED BY <2>2, <3>1
  <2> QED BY <1>1, <2>1, <2>2 DEF Write
<1>8. PICK c : /\ Contents([bytes EXCEPT ![n] = c])
               /\ \/ c = req[w].val /\ Goto(w, "rename") /\ UNCHANGED got
                  \/ Answer(w, "failed")
  BY <1>7
<1>9. /\ Advance(w) /\ Placed(w)' /\ Answered(w)'
      /\ at'[w] = "done" \/ (at'[w] = "rename" /\ c = req[w].val)
  <2>1. CASE Answer(w, "failed")
    <3>1. Advance(w) /\ at'[w] = "done" /\ Placed(w)'
      BY <1>0, <2>1, ReplyAdvance DEF Answer
    <3> QED BY <1>1, <3>1, OtherReply
  <2>2. CASE c = req[w].val /\ Goto(w, "rename") /\ UNCHANGED got
    <3>1. Advance(w) /\ at'[w] = "rename"
      BY <1>0, <2>2, GotoAdvance DEF Places, DocPlaces
    <3> QED BY <1>0, <1>1, <2>2, <3>1 DEF Placed, Answered, FetchPlaces, CheckPlaces
  <2> QED BY <1>8, <2>1, <2>2
<1> HIDE DEF n
<1> DEFINE b == [bytes EXCEPT ![n] = c]
<1>10. \A m \in Nodes : b[m] = IF m = n THEN c ELSE bytes[m]
  BY <1>3 DEF Table
<1> HIDE DEF b
<1>11. /\ Table(bytes', Nodes)
       /\ \A e \in Docs : /\ file[e] # None => bytes'[file[e]] = b[file[e]]
                          /\ temp[e] # None => bytes'[temp[e]] = b[temp[e]]
       /\ \A v \in Workers : fd'[v] # None => bytes'[fd'[v]] = b[fd'[v]]
  <2>1. Contents(b) /\ file' = file /\ temp' = temp
    BY <1>0, <1>8 DEF b
  <2> QED BY <2>1, <1>3, <1>6, ContentsFacts
<1>12. \A e \in Docs : Content(e)' = Content(e)
  BY <1>0, <1>3, <1>4, <1>10, <1>11 DEF Content
<1>13. InForce'
  BY <1>0, <1>12 DEF DocInv, InForce, Plain
<1>14. NamesApart'
  BY <1>0 DEF DocInv, NamesApart
<1>15. \A v \in Workers : Holding(v)'
  <2> TAKE v \in Workers
  <2>1. Holding(v) /\ Placed(v) /\ req'[v] = req[v] /\ since'[v] = since[v]
    BY <1>0 DEF DocInv
  <2>2. CASE v = w
    BY <1>0, <1>1, <1>4, <1>6, <1>9, <1>10, <1>11, <2>1, <2>2 DEF Holding
  <2>3. CASE v # w
    <3>1. at'[v] = at[v] /\ fd'[v] = fd[v]
      BY <1>6, <1>9, <2>3, AdvanceOthers
    <3>2. at[v] \in {"write", "rename"} => req[v].doc # d /\ req[v].doc \in Docs
      <4> SUFFICES ASSUME at[v] \in {"write", "rename"} PROVE req[v].doc # d /\ req[v].doc \in Docs
        OBVIOUS
      <4>1. req[v].op = "put" /\ req[v].doc \in Docs
        BY <2>1 DEF Placed, Formed
      <4> QED BY <1>0, <1>1, <2>3, <4>1, AloneAt DEF Changes, Target
    <3>3. at[v] \in {"write"} => Holding(v)'
      BY <1>0, <1>3, <1>4, <1>6, <1>10, <1>11, <2>1, <3>1, <3>2 DEF Holding
    <3>4. at[v] \in {"rename"} => Holding(v)'
      BY <1>0, <1>3, <1>4, <1>6, <1>10, <1>11, <2>1, <3>1, <3>2 DEF Holding
    <3>5. at[v] = "read" => Holding(v)'
      BY <1>0, <1>3, <1>4, <1>5, <1>10, <1>11, <2>1, <3>1 DEF Holding
    <3>6. at[v] \notin {"write", "rename", "read"} => Holding(v)'
      BY <1>0, <2>1, <3>1 DEF Holding
    <3> QED BY <3>3, <3>4, <3>5, <3>6
  <2> QED BY <2>2, <2>3
<1> QED BY <1>0, <1>2, <1>3, <1>6, <1>9, <1>11, <1>12, <1>13, <1>14, <1>15, FileStep

\* A name is given up, or taken over by the temporary file that is renamed.
LEMMA RenameKeeps ==
  ASSUME DocInv, NEW w \in Workers, Rename(w)
  PROVE  DocInv' /\ \A e \in Docs : e # req[w].doc => Content(e)' = Content(e)
<1> DEFINE d == req[w].doc
<1>0. /\ at[w] = "rename" /\ UNCHANGED <<scenario, data, req, fd, since>> /\ req'[w] = req[w]
  BY DEF Rename
<1>1. /\ req[w].op = "put" /\ d \in Docs /\ Formed(req[w]) /\ Valid(req[w])
      /\ temp[d] # None /\ bytes[temp[d]] = req[w].val
  BY <1>0 DEF DocInv, Placed, Formed, Holding
<1>2. /\ file' = [file EXCEPT ![d] = temp[d]] /\ temp' = [temp EXCEPT ![d] = None]
      /\ Contents(bytes) /\ Answer(w, "ok")
      /\ acked' = IF d \in Plain THEN [acked EXCEPT ![d] = {req[w].val}] ELSE acked
  BY <1>1 DEF Rename
<1>3. Advance(w) /\ at'[w] = "done" /\ Placed(w)'
  BY <1>0, <1>2, ReplyAdvance DEF Answer
<1>4. Answered(w)'
  BY <1>1, <1>3, OtherReply
<1>5. /\ file \in [Docs -> Nodes \cup {None}] /\ temp \in [Docs -> Nodes \cup {None}]
      /\ fd \in [Workers -> Nodes \cup {None}] /\ Table(acked, Plain)
  BY DEF DocInv, Tables
<1>6. /\ file' \in [Docs -> Nodes \cup {None}] /\ file'[d] = temp[d]
      /\ temp' \in [Docs -> Nodes \cup {None}] /\ temp'[d] = None
      /\ \A e \in Docs : e # d => file'[e] = file[e] /\ temp'[e] = temp[e]
  BY <1>1, <1>2, <1>5
<1>7. /\ Table(bytes', Nodes)
      /\ \A e \in Docs : /\ file'[e] # None => bytes'[file'[e]] = bytes[file'[e]]
                         /\ temp'[e] # None => bytes'[temp'[e]] = bytes[temp'[e]]
      /\ \A v \in Workers : fd[v] # None => bytes'[fd[v]] = bytes[fd[v]]
  <2>1. Contents(bytes) /\ fd' = fd
    BY <1>0, <1>2
  <2> QED BY <2>1, <1>5, <1>6, ContentsFacts
<1>8. /\ \A e \in Docs : e # d => Content(e)' = Content(e)
      /\ \A e \in Docs : e = d => Content(e)' = req[w].val
  BY <1>0, <1>1, <1>6, <1>7 DEF Content
<1>9. /\ Table(acked', Plain) /\ \A e \in Plain : e # d => acked'[e] = acked[e]
      /\ d \in Plain => acked'[d] = {req[w].val} /\ Wanted(req[w]) = req[w].val
  BY <1>1, <1>2, <1>5 DEF Table, Wanted
<1>10. Acknowledged
  <2>1. w \in Pending(d)
    BY <1>0, <1>1 DEF Pending, Changes, Target
  <2> QED BY <1>9, <2>1 DEF Acknowledged
<1>11. InForce'
  <2> SUFFICES ASSUME NEW e \in Plain PROVE Content(e)' \in acked'[e] /\ Legal(e, Content(e)')
    BY DEF InForce
  <2>1. CASE e = d
    BY <1>1, <1>8, <1>9, <2>1 DEF Formed, Plain
  <2>2. CASE e # d
    BY <1>8, <1>9, <2>2 DEF DocInv, InForce, Plain
  <2> QED BY <2>1, <2>2
<1>12. NamesApart'
  BY <1>1, <1>6 DEF DocInv, NamesApart
<1>13. \A v \in Workers : Holding(v)'
  <2> TAKE v \in Workers
  <2>1. Holding(v) /\ Placed(v) /\ req'[v] = req[v] /\ since'[v] = since[v] /\ fd'[v] = fd[v]
    BY <1>0 DEF DocInv
  <2>2. CASE v = w
    BY <1>0, <1>3, <2>1, <2>2 DEF Holding
  <2>3. CASE v # w
    <3>1. at'[v] = at[v]
      BY <1>3, <2>3, AdvanceOthers
    <3>2. at[v] \in {"write", "rename"} => req[v].doc # d /\ req[v].doc \in Docs
      <4> SUFFICES ASSUME at[v] \in {"write", "rename"} PROVE req[v].doc # d /\ req[v].doc \in Docs
        OBVIOUS
      <4>1. req[v].op = "put" /\ req[v].doc \in Docs
        BY <2>1 DEF Placed, Formed
      <4> QED BY <1>0, <1>1, <2>3, <4>1, AloneAt DEF Changes, Target
    <3>3. at[v] = "fill" => d # "meta"
      <4> SUFFICES ASSUME at[v] = "fill" PROVE d # "meta"
        OBVIOUS
      <4>1. req[v].op = "upload"
        BY <2>1 DEF Placed
      <4> QED BY <1>0, <1>1, <2>3, <4>1, AloneAt DEF Changes, Target
    <3>4. at[v] \in {"write", "rename"} => Holding(v)'
      BY <1>5, <1>6, <1>7, <2>1, <3>1, <3>2 DEF Holding
    <3>5. at[v] = "read" => Holding(v)'
      BY <1>0, <1>1, <1>5, <1>6, <1>7, <2>1, <3>1 DEF Holding
    <3>6. at[v] \notin {"write", "rename", "read"} => Holding(v)'
      BY <1>0, <1>6, <2>1, <3>1, <3>3 DEF Holding, Docs
    <3> QED BY <3>4, <3>5, <3>6
  <2> QED BY <2>2, <2>3
<1> QED BY <1>0, <1>3, <1>4, <1>5, <1>6, <1>7, <1>8, <1>10, <1>11, <1>12, <1>13, FileStep

LEMMA UnlinkKeeps ==
  ASSUME DocInv, NEW w \in Workers, Unlink(w) \/ RemoveMeta(w)
  PROVE  DocInv' /\ \A e \in Docs : e # Target(req[w]) => Content(e)' = Content(e)
<1> DEFINE d == Target(req[w])
<1>0. /\ at[w] \in {"unlink", "removeMeta"} /\ UNCHANGED <<scenario, data, temp, req, fd, since>>
      /\ req'[w] = req[w] /\ Contents(bytes)
  BY DEF Unlink, RemoveMeta, history
<1>1. /\ d \in Docs /\ Formed(req[w]) /\ Changes(req[w])
      /\ at[w] = "unlink" => req[w].op = "delete" /\ d = req[w].doc /\ d \in Plain
      /\ at[w] = "removeMeta" => req[w].op = "remove" /\ d = "meta"
  BY <1>0 DEF DocInv, Placed, Formed, Changes, Target, Docs, Plain
<1>2. /\ file' = [file EXCEPT ![d] = None]
      /\ acked' = IF d \in Plain THEN [acked EXCEPT ![d] = {None}] ELSE acked
      /\ \E s : Answer(w, s)
  BY <1>0, <1>1 DEF Unlink, RemoveMeta, Plain, history
<1>3. Advance(w) /\ at'[w] = "done" /\ Placed(w)'
  BY <1>0, <1>2, ReplyAdvance DEF Answer
<1>4. Answered(w)'
  BY <1>0, <1>1, <1>3, OtherReply
<1>5. /\ file \in [Docs -> Nodes \cup {None}] /\ temp \in [Docs -> Nodes \cup {None}]
      /\ fd \in [Workers -> Nodes \cup {None}] /\ Table(acked, Plain)
  BY DEF DocInv, Tables
<1>6. /\ file' \in [Docs -> Nodes \cup {None}] /\ file'[d] = None
      /\ \A e \in Docs : e # d => file'[e] = file[e]
  BY <1>1, <1>2, <1>5
<1>7. /\ Table(bytes', Nodes)
      /\ \A e \in Docs : /\ file'[e] # None => bytes'[file'[e]] = bytes[file'[e]]
                         /\ temp[e] # None => bytes'[temp[e]] = bytes[temp[e]]
      /\ \A v \in Workers : fd[v] # None => bytes'[fd[v]] = bytes[fd[v]]
  <2>1. fd' = fd /\ temp' = temp
    BY <1>0
  <2> QED BY <1>0, <2>1, <1>5, <1>6, ContentsFacts
<1>8. /\ \A e \in Docs : e # d => Content(e)' = Content(e)
      /\ \A e \in Docs : e = d => Content(e)' = None
  BY <1>0, <1>1, <1>6, <1>7 DEF Content
<1>9. /\ Table(acked', Plain) /\ \A e \in Plain : e # d => acked'[e] = acked[e]
      /\ d \in Plain => acked'[d] = {None} /\ Wanted(req[w]) = None
  BY <1>0, <1>1, <1>2, <1>5 DEF Table, Wanted, Plain
<1>10. Acknowledged
  <2>1. w \in Pending(d)
    BY <1>0, <1>1 DEF Pending
  <2> QED BY <1>9, <2>1 DEF Acknowledged
<1>11. InForce'
  <2> SUFFICES ASSUME NEW e \in Plain PROVE Content(e)' \in acked'[e] /\ Legal(e, Content(e)')
    BY DEF InForce
  <2>1. CASE e = d
    BY <1>1, <1>8, <1>9, <2>1, SidecarsAssumption DEF Legal
  <2>2. CASE e # d
    BY <1>8, <1>9, <2>2 DEF DocInv, InForce, Plain
  <2> QED BY <2>1, <2>2
<1>12. NamesApart'
  BY <1>0, <1>1, <1>6 DEF DocInv, NamesApart
<1>13. \A v \in Workers : Holding(v)'
  <2> TAKE v \in Workers
  <2>1. Holding(v) /\ Placed(v) /\ req'[v] = req[v] /\ since'[v] = since[v] /\ fd'[v] = fd[v]
    BY <1>0 DEF DocInv
  <2>2. CASE v = w
    BY <1>0, <1>3, <2>1, <2>2 DEF Holding
  <2>3. CASE v # w
    <3>1. at'[v] = at[v]
      BY <1>3, <2>3, AdvanceOthers
    <3>2. at[v] = "fill" => d # "meta"
      <4> SUFFICES ASSUME at[v] = "fill" PROVE d # "meta"
        OBVIOUS
      <4>1. req[v].op = "upload"
        BY <2>1 DEF Placed
      <4> QED BY <1>0, <1>1, <2>3, <4>1, AloneAt DEF Changes, Target
    <3>3. at[v] = "rename" => req[v].doc \in Docs
      BY <2>1 DEF Placed, Formed
    <3>4. at[v] \in {"write", "rename"} => Holding(v)'
      BY <1>0, <1>5, <1>6, <1>7, <2>1, <3>1, <3>3 DEF Holding
    <3>5. at[v] = "read" => Holding(v)'
      BY <1>0, <1>1, <1>5, <1>6, <1>7, <2>1, <3>1 DEF Holding
    <3>6. at[v] \notin {"write", "rename", "read"} => Holding(v)'
      BY <1>0, <1>6, <2>1, <3>1, <3>2 DEF Holding, Docs
    <3> QED BY <3>4, <3>5, <3>6
  <2> QED BY <2>2, <2>3
<1> QED BY <1>0, <1>3, <1>4, <1>5, <1>6, <1>7, <1>8, <1>10, <1>11, <1>12, <1>13, FileStep

\* The upload writes .meta in place; no reader of a document notices.
LEMMA TruncateKeeps ==
  ASSUME EnoughNodes, DocInv, NEW w \in Workers, Truncate(w)
  PROVE  DocInv' /\ \A e \in Plain : Content(e)' = Content(e)
<1> DEFINE n == IF file["meta"] = None THEN FreeNode ELSE file["meta"]
<1>0. /\ at[w] = "truncate" /\ UNCHANGED <<scenario, data, temp, req, got, acked, since>>
      /\ req'[w] = req[w] /\ Goto(w, "fill")
      /\ file' = [file EXCEPT !["meta"] = n] /\ fd' = [fd EXCEPT ![w] = n]
      /\ Contents([bytes EXCEPT ![n] = Torn])
  BY DEF Truncate, history
<1>1. Placed(w) /\ Formed(req[w]) /\ req[w].op = "upload" /\ Target(req[w]) = "meta" /\ "meta" \in Docs
  BY <1>0 DEF DocInv, Placed, Target, Docs
<1>2. Acknowledged
  BY <1>0 DEF DocInv, Tables, Acknowledged, Table
<1>3. Advance(w) /\ at'[w] = "fill"
  BY <1>0, GotoAdvance DEF Places, DocPlaces
<1>4. Placed(w)' /\ Answered(w)'
  BY <1>0, <1>1, <1>3 DEF Placed, Answered, FetchPlaces, CheckPlaces
<1>5. /\ file \in [Docs -> Nodes \cup {None}] /\ temp \in [Docs -> Nodes \cup {None}]
      /\ fd \in [Workers -> Nodes \cup {None}] /\ Table(bytes, Nodes)
  BY DEF DocInv, Tables
<1>6. /\ n \in Nodes /\ n # None
      /\ \A e \in Docs : n # temp[e] /\ (e # "meta" => n # file[e])
  <2>1. CASE file["meta"] = None
    BY <2>1, FreeNodeFacts DEF DocInv
  <2>2. CASE file["meta"] # None
    BY <2>2, <1>1, <1>5 DEF DocInv, NamesApart
  <2> QED BY <2>1, <2>2
<1>7. \A v \in Workers : at[v] = "read" => n # fd[v] /\ req[v].doc \in Plain
  <2> TAKE v \in Workers
  <2>1. at[v] = "read" => req[v].doc \in Plain
    BY DEF DocInv, Placed, Formed, Reads, WellFormed, Plain, Docs
  <2>2. CASE file["meta"] = None
    BY <2>1, <2>2, FreeNodeFacts DEF DocInv
  <2>3. CASE file["meta"] # None
    BY <2>1, <2>3, <1>1 DEF DocInv, Holding, Plain
  <2> QED BY <2>2, <2>3
<1> HIDE DEF n
<1>8. /\ file' \in [Docs -> Nodes \cup {None}] /\ file'["meta"] = n
      /\ \A e \in Docs : e # "meta" => file'[e] = file[e]
      /\ fd' \in [Workers -> Nodes \cup {None}] /\ fd'[w] = n
      /\ \A v \in Workers : v # w => fd'[v] = fd[v]
  BY <1>0, <1>1, <1>5, <1>6
<1> DEFINE b == [bytes EXCEPT ![n] = Torn]
<1>9. \A m \in Nodes : b[m] = IF m = n THEN Torn ELSE bytes[m]
  BY <1>5 DEF Table
<1> HIDE DEF b
<1>10. /\ Table(bytes', Nodes)
       /\ \A e \in Docs : /\ file'[e] # None => bytes'[file'[e]] = b[file'[e]]
                          /\ temp[e] # None => bytes'[temp[e]] = b[temp[e]]
       /\ \A v \in Workers : fd'[v] # None => bytes'[fd'[v]] = b[fd'[v]]
  <2>1. Contents(b) /\ temp' = temp
    BY <1>0 DEF b
  <2> QED BY <2>1, <1>5, <1>8, ContentsFacts
<1>11. \A e \in Plain : Content(e)' = Content(e)
  BY <1>5, <1>6, <1>8, <1>9, <1>10 DEF Content, Plain
<1>12. InForce'
  BY <1>0, <1>11 DEF DocInv, InForce
<1>13. NamesApart'
  BY <1>0, <1>6, <1>8 DEF DocInv, NamesApart
<1>14. \A v \in Workers : Holding(v)'
  <2> TAKE v \in Workers
  <2>1. Holding(v) /\ Placed(v) /\ req'[v] = req[v] /\ since'[v] = since[v]
    BY <1>0 DEF DocInv
  <2>2. CASE v = w
    BY <1>3, <1>6, <1>8, <2>1, <2>2 DEF Holding
  <2>3. CASE v # w
    <3>1. at'[v] = at[v] /\ fd'[v] = fd[v]
      BY <1>3, <1>8, <2>3, AdvanceOthers
    <3>2. at[v] # "fill"
      <4> SUFFICES ASSUME at[v] = "fill" PROVE FALSE
        OBVIOUS
      <4>1. req[v].op = "upload"
        BY <2>1 DEF Placed
      <4> QED BY <1>0, <1>1, <2>3, <4>1, AloneAt DEF Changes, Target
    <3>3. at[v] \in {"write", "rename"} => req[v].doc \in Docs
      BY <2>1 DEF Placed, Formed
    <3>4. at[v] \in {"write", "rename"} => Holding(v)'
      BY <1>0, <1>5, <1>6, <1>8, <1>9, <1>10, <2>1, <3>1, <3>3 DEF Holding
    <3>5. at[v] = "read" => Holding(v)'
      BY <1>0, <1>5, <1>7, <1>8, <1>9, <1>10, <2>1, <3>1 DEF Holding, Plain
    <3>6. at[v] \notin {"write", "rename", "read"} => Holding(v)'
      BY <1>0, <2>1, <3>1, <3>2 DEF Holding
    <3> QED BY <3>4, <3>5, <3>6
  <2> QED BY <2>2, <2>3
<1> QED BY <1>0, <1>2, <1>3, <1>4, <1>5, <1>8, <1>10, <1>11, <1>12, <1>13, <1>14, FileStep

LEMMA FillKeeps ==
  ASSUME DocInv, NEW w \in Workers, Fill(w)
  PROVE  DocInv' /\ \A e \in Plain : Content(e)' = Content(e)
<1> DEFINE n == fd[w]
           b == [bytes EXCEPT ![n] = Meta(req[w].version, req[w].acl)]
<1>0. /\ at[w] = "fill" /\ UNCHANGED <<scenario, data, file, temp, req, acked, since>>
      /\ req'[w] = req[w] /\ Answer(w, "ok") /\ fd' = [fd EXCEPT ![w] = None]
      /\ Contents(b)
  BY DEF Fill, history
<1>1. Placed(w) /\ req[w].op = "upload" /\ n # None /\ n = file["meta"] /\ "meta" \in Docs
  BY <1>0 DEF DocInv, Placed, Holding, Docs
<1>2. Acknowledged
  BY <1>0 DEF DocInv, Tables, Acknowledged, Table
<1>3. Advance(w) /\ at'[w] = "done" /\ Placed(w)'
  BY <1>0, ReplyAdvance DEF Answer
<1>4. Answered(w)'
  BY <1>1, <1>3, OtherReply
<1>5. /\ file \in [Docs -> Nodes \cup {None}] /\ temp \in [Docs -> Nodes \cup {None}]
      /\ fd \in [Workers -> Nodes \cup {None}] /\ Table(bytes, Nodes)
  BY DEF DocInv, Tables
<1>6. /\ n \in Nodes /\ \A e \in Docs : n # temp[e] /\ (e # "meta" => n # file[e])
  BY <1>1, <1>5 DEF DocInv, NamesApart
<1>7. \A v \in Workers : at[v] = "read" => n # fd[v]
  <2> TAKE v \in Workers
  <2>1. at[v] = "read" => req[v].doc # "meta"
    BY DEF DocInv, Placed, Formed, Reads, WellFormed, Plain, Docs
  <2> QED BY <2>1, <1>1 DEF DocInv, Holding
<1>8. /\ fd' \in [Workers -> Nodes \cup {None}] /\ fd'[w] = None
      /\ \A v \in Workers : v # w => fd'[v] = fd[v]
  BY <1>0, <1>5
<1>9. \A m \in Nodes : m # n => b[m] = bytes[m]
  BY <1>5 DEF Table
<1> HIDE DEF n, b
<1>10. /\ Table(bytes', Nodes)
       /\ \A e \in Docs : /\ file[e] # None => bytes'[file[e]] = b[file[e]]
                          /\ temp[e] # None => bytes'[temp[e]] = b[temp[e]]
       /\ \A v \in Workers : fd'[v] # None => bytes'[fd'[v]] = b[fd'[v]]
  <2>1. file' = file /\ temp' = temp
    BY <1>0
  <2> QED BY <1>0, <2>1, <1>5, <1>8, ContentsFacts
<1>11. \A e \in Plain : Content(e)' = Content(e)
  BY <1>0, <1>5, <1>6, <1>9, <1>10 DEF Content, Plain
<1>12. InForce'
  BY <1>0, <1>11 DEF DocInv, InForce
<1>13. NamesApart'
  BY <1>0 DEF DocInv, NamesApart
<1>14. \A v \in Workers : Holding(v)'
  <2> TAKE v \in Workers
  <2>1. Holding(v) /\ Placed(v) /\ req'[v] = req[v] /\ since'[v] = since[v]
    BY <1>0 DEF DocInv
  <2>2. CASE v = w
    BY <1>3, <1>8, <2>1, <2>2 DEF Holding
  <2>3. CASE v # w
    <3>1. at'[v] = at[v] /\ fd'[v] = fd[v]
      BY <1>3, <1>8, <2>3, AdvanceOthers
    <3>2. at[v] \in {"write", "rename"} => req[v].doc \in Docs
      BY <2>1 DEF Placed, Formed
    <3>3. at[v] \in {"write", "rename"} => Holding(v)'
      BY <1>0, <1>5, <1>6, <1>8, <1>9, <1>10, <2>1, <3>1, <3>2 DEF Holding
    <3>4. at[v] = "read" => Holding(v)'
      BY <1>0, <1>5, <1>7, <1>8, <1>9, <1>10, <2>1, <3>1 DEF Holding
    <3>5. at[v] \notin {"write", "rename", "read"} => Holding(v)'
      BY <1>0, <2>1, <3>1 DEF Holding
    <3> QED BY <3>3, <3>4, <3>5
  <2> QED BY <2>2, <2>3
<1> QED BY <1>0, <1>2, <1>3, <1>4, <1>5, <1>8, <1>10, <1>11, <1>12, <1>13, <1>14, FileStep

\* What a reader finds at a name was in force when it opened it.
LEMMA OpenKeeps ==
  ASSUME DocInv, NEW w \in Workers, Open(w)
  PROVE  DocInv'
<1> DEFINE d == req[w].doc
<1>0. /\ at[w] = "open" /\ UNCHANGED <<scenario, data, file, temp, bytes, req, acked, since>>
      /\ req'[w] = req[w] /\ since'[w] = since[w]
  BY DEF Open, docVars, history
<1>1. /\ Placed(w) /\ Formed(req[w]) /\ Reads(req[w]) /\ d \in Plain /\ d \in Docs
      /\ req[w].op = "preflight" => d = "cors"
  BY <1>0 DEF DocInv, Placed, Formed, Reads, WellFormed, Plain, Docs
<1>2. Acknowledged
  BY <1>0 DEF DocInv, Tables, Acknowledged, Table
<1>3. Content(d) \in since[w] /\ Legal(d, Content(d))
  BY <1>0, <1>1 DEF DocInv, InForce, Noted
<1>4. CASE file[d] = None
  <2> DEFINE a == IF req[w].op = "preflight" THEN CORSAnswer(None, req[w])
                  ELSE [status |-> Absent(d), found |-> None]
  <2>1. Reply(w, a) /\ UNCHANGED fd
    BY <1>4 DEF Open
  <2>2. Advance(w) /\ at'[w] = "done" /\ got'[w] = a /\ Placed(w)'
    BY <1>0, <2>1, ReplyAdvance
  <2>3. None \in since[w] /\ Legal(d, None)
    BY <1>3, <1>4 DEF Content
  <2>4. req[w].op = "preflight" => got'[w] = CORSAnswer(None, req[w])
    BY <2>2
  <2>5. req[w].op = "get" => got'[w].status \in {"ok", "notFound"} /\ got'[w].found = None
    BY <2>2 DEF Absent
  <2>6. Answered(w)'
    BY <1>0, <1>1, <2>3, <2>4, <2>5 DEF Answered, CORSAnswer
  <2> QED BY <1>0, <2>1, <2>2, <2>6, QuietStep
<1>5. CASE file[d] # None
  <2>1. fd' = [fd EXCEPT ![w] = file[d]] /\ Goto(w, "read") /\ UNCHANGED got
    BY <1>5 DEF Open
  <2>2. Advance(w) /\ at'[w] = "read"
    BY <1>0, <2>1, GotoAdvance DEF Places, DocPlaces
  <2>3. Placed(w)' /\ Answered(w)'
    BY <1>0, <1>1, <2>2 DEF Placed, Answered, FetchPlaces, CheckPlaces
  <2>4. /\ file \in [Docs -> Nodes \cup {None}] /\ temp \in [Docs -> Nodes \cup {None}]
        /\ fd \in [Workers -> Nodes \cup {None}] /\ Table(bytes, Nodes)
    BY DEF DocInv, Tables
  <2>5. /\ fd' \in [Workers -> Nodes \cup {None}] /\ fd'[w] = file[d]
        /\ \A v \in Workers : v # w => fd'[v] = fd[v]
    BY <1>1, <2>1, <2>4
  <2>6. InForce' /\ NamesApart'
    BY <1>0 DEF DocInv, InForce, NamesApart, Content
  <2>7. \A v \in Workers : Holding(v)'
    <3> TAKE v \in Workers
    <3>1. Holding(v) /\ req'[v] = req[v] /\ since'[v] = since[v]
      BY <1>0 DEF DocInv
    <3>2. CASE v = w
      <4>1. \A e \in Docs : file[d] # temp[e] /\ (e # d => file[d] # file[e])
        BY <1>1, <1>5 DEF DocInv, NamesApart
      <4>2. bytes[file[d]] \in since[w] /\ Legal(d, bytes[file[d]])
        BY <1>3, <1>5 DEF Content
      <4> QED BY <1>0, <1>5, <2>2, <2>5, <3>2, <4>1, <4>2 DEF Holding
    <3>3. CASE v # w
      <4>1. at'[v] = at[v] /\ fd'[v] = fd[v]
        BY <2>2, <2>5, <3>3, AdvanceOthers
      <4> QED BY <1>0, <3>1, <4>1 DEF Holding
    <3> QED BY <3>2, <3>3
  <2>8. Table(bytes', Nodes) /\ file' = file /\ temp' = temp
    BY <1>0, <2>4
  <2> QED BY <1>2, <2>2, <2>3, <2>4, <2>5, <2>6, <2>7, <2>8, FileStep
<1> QED BY <1>4, <1>5

\* The inode that was opened still holds it.
LEMMA ReadKeeps ==
  ASSUME DocInv, NEW w \in Workers, Read(w)
  PROVE  DocInv' /\ \A e \in Docs : Content(e)' = Content(e)
<1> DEFINE d == req[w].doc
           c == bytes[fd[w]]
           a == CASE req[w].op = "preflight" -> CORSAnswer(c, req[w])
                  [] req[w].op = "get" /\ c = Torn -> [status |-> "failed"]
                  [] req[w].op = "get" /\ c # Torn -> [status |-> "ok", found |-> c]
<1>0. /\ at[w] = "read" /\ UNCHANGED <<scenario, data, file, temp, req, acked, since>>
      /\ req'[w] = req[w] /\ since'[w] = since[w] /\ Contents(bytes)
      /\ fd' = [fd EXCEPT ![w] = None] /\ Reply(w, a)
  BY DEF Read, history
<1>1. /\ Placed(w) /\ Reads(req[w]) /\ c \in since[w] /\ Legal(d, c)
      /\ req[w].op = "preflight" => d = "cors"
  BY <1>0 DEF DocInv, Placed, Formed, Reads, WellFormed, Holding
<1>2. Acknowledged
  BY <1>0 DEF DocInv, Tables, Acknowledged, Table
<1>3. Advance(w) /\ at'[w] = "done" /\ got'[w] = a /\ Placed(w)'
  BY <1>0, ReplyAdvance
<1>4. /\ req[w].op = "preflight" => got'[w] = CORSAnswer(c, req[w])
      /\ req[w].op = "get" => got'[w] = [status |-> "ok", found |-> c]
  <2>1. c # Torn
    BY <1>1 DEF Legal
  <2> HIDE DEF c
  <2> QED BY <1>3, <2>1
<1>5. Answered(w)'
  <2> HIDE DEF c, a
  <2> QED BY <1>0, <1>1, <1>4 DEF Answered, CORSAnswer
<1>6. /\ file \in [Docs -> Nodes \cup {None}] /\ temp \in [Docs -> Nodes \cup {None}]
      /\ fd \in [Workers -> Nodes \cup {None}]
  BY DEF DocInv, Tables
<1>7. /\ fd' \in [Workers -> Nodes \cup {None}] /\ fd'[w] = None
      /\ \A v \in Workers : v # w => fd'[v] = fd[v]
  BY <1>0, <1>6
<1>8. /\ Table(bytes', Nodes)
      /\ \A e \in Docs : /\ file[e] # None => bytes'[file[e]] = bytes[file[e]]
                         /\ temp[e] # None => bytes'[temp[e]] = bytes[temp[e]]
      /\ \A v \in Workers : fd'[v] # None => bytes'[fd'[v]] = bytes[fd'[v]]
  <2>1. file' = file /\ temp' = temp
    BY <1>0
  <2> QED BY <1>0, <2>1, <1>6, <1>7, ContentsFacts
<1>9. \A e \in Docs : Content(e)' = Content(e)
  BY <1>0, <1>8 DEF Content
<1>10. InForce'
  BY <1>0, <1>9 DEF DocInv, InForce, Plain
<1>11. NamesApart'
  BY <1>0 DEF DocInv, NamesApart
<1>12. \A v \in Workers : Holding(v)'
  <2> TAKE v \in Workers
  <2>1. Holding(v) /\ Placed(v) /\ req'[v] = req[v] /\ since'[v] = since[v]
    BY <1>0 DEF DocInv
  <2>2. CASE v = w
    BY <1>3, <1>7, <2>1, <2>2 DEF Holding
  <2>3. CASE v # w
    <3>1. at'[v] = at[v] /\ fd'[v] = fd[v]
      BY <1>3, <1>7, <2>3, AdvanceOthers
    <3>2. at[v] = "rename" => req[v].doc \in Docs
      BY <2>1 DEF Placed, Formed
    <3> QED BY <1>0, <1>7, <1>8, <2>1, <2>3, <3>1, <3>2 DEF Holding
  <2> QED BY <2>2, <2>3
<1>13. file' = file /\ temp' = temp
  BY <1>0
<1> QED BY <1>2, <1>3, <1>5, <1>6, <1>7, <1>8, <1>9, <1>10, <1>11, <1>12, <1>13, FileStep
-----------------------------------------------------------------------------
\* A step that changes which request w serves, and no file.
Changeover(w) ==
  /\ at' \in [Workers -> Places]
  /\ Table(req', Workers) /\ Table(got', Workers) /\ Table(since', Workers)
  /\ UNCHANGED <<scenario, file, temp, bytes, fd, acked>>
  /\ at[w] \notin {"write", "rename", "fill", "read"}
  /\ at'[w] \notin {"write", "rename", "fill", "read"}
  /\ \A v \in Workers \ {w} :
       /\ at'[v] = at[v] /\ req'[v] = req[v] /\ got'[v] = got[v]
       /\ since[v] \subseteq since'[v]

LEMMA ChangeoverKeeps ==
  ASSUME DocInv, NEW w \in Workers, Changeover(w), Placed(w)', Answered(w)', Exclusive',
         \A v \in Workers : Noted(v)'
  PROVE  DocInv'
<1>1. Tables'
  BY DEF DocInv, Tables, Changeover, Table
<1>2. \A v \in Workers : Placed(v)'
  <2> TAKE v \in Workers
  <2>1. CASE v # w
    <3>1. Placed(v) /\ at'[v] = at[v] /\ req'[v] = req[v]
      BY <2>1 DEF DocInv, Changeover
    <3> QED BY <3>1 DEF Placed, Formed, Valid
  <2> QED BY <2>1
<1>3. InForce' /\ NamesApart'
  BY DEF DocInv, InForce, NamesApart, Content, Changeover
<1>4. \A v \in Workers : Holding(v)'
  <2> TAKE v \in Workers
  <2>1. Holding(v) /\ UNCHANGED <<file, temp, bytes, fd>>
    BY DEF DocInv, Changeover
  <2>2. CASE v = w
    BY <2>1, <2>2 DEF Holding, Changeover
  <2>3. CASE v # w
    <3>1. at'[v] = at[v] /\ req'[v] = req[v] /\ since[v] \subseteq since'[v]
      BY <2>3 DEF Changeover
    <3> QED BY <2>1, <3>1 DEF Holding
  <2> QED BY <2>2, <2>3
<1>5. \A v \in Workers : Answered(v)'
  <2> TAKE v \in Workers
  <2>1. CASE v # w
    <3>1. /\ Answered(v) /\ at'[v] = at[v] /\ req'[v] = req[v] /\ got'[v] = got[v]
          /\ since[v] \subseteq since'[v]
      BY <2>1 DEF DocInv, Changeover
    <3> QED BY <3>1 DEF Answered, CORSAnswer
  <2> QED BY <2>1
<1> QED BY <1>1, <1>2, <1>3, <1>4, <1>5 DEF DocInv

LEMMA LoadKeeps ==
  ASSUME DocInv, NEW w \in Workers, Load(w)
  PROVE  DocInv'
<1> DEFINE c == Content("meta")
<1>0. /\ at[w] = "load" /\ UNCHANGED <<scenario, file, temp, bytes, fd, acked, since>>
  BY DEF Load, docVars, history
<1>1. /\ Placed(w) /\ req[w].op = "put" /\ req[w].doc = "meta" /\ Formed(req[w])
      /\ Target(req[w]) = "meta" /\ Changes(req[w])
  BY <1>0 DEF DocInv, Placed, Target, Changes
<1>2. CASE Answer(w, "failed") /\ UNCHANGED req
  <2>1. Advance(w) /\ at'[w] = "done" /\ Placed(w)'
    BY <1>0, <1>2, ReplyAdvance DEF Answer
  <2>2. Answered(w)'
    BY <1>1, <2>1, OtherReply
  <2> QED BY <1>0, <1>2, <2>1, <2>2, QuietStep
<1>3. CASE /\ req' = [req EXCEPT ![w].val =
                        IF c = None THEN [etag |-> None, acl |-> @] ELSE [c EXCEPT !.acl = req[w].val]]
           /\ Goto(w, "create") /\ UNCHANGED got
  <2>1. PICK x : req' = [req EXCEPT ![w].val = x]
    BY <1>3
  <2>2. Table(req, Workers) /\ at \in [Workers -> Places] /\ Table(since, Workers) /\ Table(got, Workers)
    BY DEF DocInv, Tables
  <2>3. /\ req' = [req EXCEPT ![w] = [req[w] EXCEPT !.val = x]]
        /\ at' = [at EXCEPT ![w] = "create"]
    BY <1>3, <2>1 DEF Goto
  <2>4. [req[w] EXCEPT !.val = x] = [op |-> "put", doc |-> "meta", val |-> x]
    BY <1>1 DEF Formed
  <2>5. /\ req'[w] = [op |-> "put", doc |-> "meta", val |-> x] /\ Table(req', Workers)
        /\ \A v \in Workers \ {w} : req'[v] = req[v]
    BY <2>2, <2>3, <2>4 DEF Table
  <2>6. /\ at' \in [Workers -> Places] /\ at'[w] = "create"
        /\ \A v \in Workers \ {w} : at'[v] = at[v]
    BY <2>2, <2>3 DEF Places, DocPlaces
  <2>7. Placed(w)' /\ Answered(w)'
    BY <2>5, <2>6 DEF Placed, Formed, Answered, DocOps, FetchPlaces, CheckPlaces, Docs, Plain
  <2>8. Changeover(w)
    BY <1>0, <1>3, <2>2, <2>5, <2>6 DEF Changeover
  <2>9. Changes(req'[w]) /\ Target(req'[w]) = "meta"
    BY <2>5 DEF Changes, Target
  <2>10. \A d : Pending(d)' = Pending(d)
    <3>1. \A v \in Workers : v \in Pending("meta")' <=> v \in Pending("meta")
      BY <1>0, <1>1, <2>5, <2>6, <2>9 DEF Pending
    <3>2. \A d : d # "meta" => \A v \in Workers : v \in Pending(d)' <=> v \in Pending(d)
      BY <1>1, <2>5, <2>6, <2>9 DEF Pending
    <3> QED BY <3>1, <3>2 DEF Pending
  <2>11. Exclusive'
    BY <2>10 DEF DocInv, Exclusive
  <2>12. \A v \in Workers : Noted(v)'
    <3> TAKE v \in Workers
    <3>1. CASE v = w
      BY <2>5, <3>1 DEF Noted, Reads
    <3>2. CASE v # w
      <4>1. /\ Noted(v) /\ at'[v] = at[v] /\ req'[v] = req[v] /\ since'[v] = since[v]
            /\ acked' = acked
        BY <1>0, <2>5, <2>6, <3>2 DEF DocInv
      <4>2. Reads(req[v]) /\ at[v] # "idle" => req[v].doc # "meta"
        BY DEF DocInv, Placed, Formed, Reads, WellFormed, Plain
      <4>3. Reads(req[v]) /\ at[v] # "idle" => \A p \in Pending(req[v].doc) : req'[p] = req[p]
        BY <1>1, <2>5, <4>2 DEF Pending
      <4> QED BY <2>10, <4>1, <4>3 DEF Noted
    <3> QED BY <3>1, <3>2
  <2> QED BY <2>7, <2>8, <2>11, <2>12, ChangeoverKeeps
<1> QED BY <1>2, <1>3 DEF Load

LEMMA FinishKeeps ==
  ASSUME DocInv, NEW w \in Workers, Finish(w)
  PROVE  DocInv'
<1>0. /\ at[w] = "done" /\ UNCHANGED <<scenario, file, temp, bytes, fd, acked>>
      /\ at' = [at EXCEPT ![w] = "idle"] /\ req' = [req EXCEPT ![w] = NoRequest]
      /\ got' = [got EXCEPT ![w] = None] /\ since' = [since EXCEPT ![w] = {}]
  BY DEF Finish, docVars, Goto
<1>1. /\ Table(req, Workers) /\ at \in [Workers -> Places] /\ Table(since, Workers)
      /\ Table(got, Workers)
  BY DEF DocInv, Tables
<1>2. /\ at' \in [Workers -> Places] /\ at'[w] = "idle" /\ req'[w] = NoRequest
      /\ Table(req', Workers) /\ Table(got', Workers) /\ Table(since', Workers)
      /\ \A v \in Workers \ {w} : /\ at'[v] = at[v] /\ req'[v] = req[v] /\ got'[v] = got[v]
                                  /\ since'[v] = since[v]
  BY <1>0, <1>1 DEF Table, Places
<1>3. Changeover(w) /\ Placed(w)' /\ Answered(w)'
  BY <1>0, <1>2 DEF Changeover, Placed, Answered, FetchPlaces, CheckPlaces
<1>4. \A d : /\ Pending(d)' = Pending(d)
             /\ \A p \in Pending(d) : req'[p] = req[p]
  BY <1>0, <1>2 DEF Pending
<1>5. Exclusive'
  BY <1>4 DEF DocInv, Exclusive
<1>6. \A v \in Workers : Noted(v)'
  <2> TAKE v \in Workers
  <2>1. CASE v = w
    BY <1>2, <2>1 DEF Noted
  <2>2. CASE v # w
    <3>1. Noted(v) /\ at'[v] = at[v] /\ req'[v] = req[v] /\ since'[v] = since[v] /\ acked' = acked
      BY <1>0, <1>2, <2>2 DEF DocInv
    <3> QED BY <3>1, <1>4 DEF Noted
  <2> QED BY <2>1, <2>2
<1> QED BY <1>3, <1>5, <1>6, ChangeoverKeeps

LEMMA ArriveKeeps ==
  ASSUME ~Overlap, DocInv, NEW w \in Workers, Arrive(w)
  PROVE  DocInv'
<1>1. PICK r \in Jobs[scenario][w] :
        /\ r.op \in DocOps
        /\ Changes(r) => Pending(Target(r)) = {}
        /\ req' = [req EXCEPT ![w] = r]
        /\ Goto(w, FirstStep(r))
        /\ since' =
             [v \in Workers |->
                CASE v = w /\ r.op \in {"get", "preflight"} ->
                       acked[r.doc] \cup {Wanted(req[p]) : p \in Pending(r.doc)}
                  [] v # w /\ Changes(r) /\ at[v] # "idle"
                       /\ req[v].op \in {"get", "preflight"} /\ req[v].doc = Target(r) ->
                       since[v] \cup {Wanted(r)}
                  [] OTHER -> since[v]]
  BY DEF Arrive, DocOps
<1>2. at[w] = "idle" /\ UNCHANGED <<scenario, file, temp, bytes, fd, got, acked>>
  BY DEF Arrive, docVars
<1>3. WellFormed(r)
  BY <1>1, SidecarsAssumption DEF DocInv, Tables
<1>4. Formed(r)
  BY <1>1, <1>3 DEF WellFormed, Formed, Valid, Legal, Docs, Plain
<1> DEFINE p == FirstStep(r)
<1>5. /\ p \in {"stat", "create", "open", "unlink", "publish", "removeData"}
      /\ p = "stat" => r.op \in {"put", "get", "delete"} /\ r.doc \in {"tags", "meta"}
      /\ p = "create" => r.op = "put"
      /\ p = "open" => Reads(r)
      /\ p = "unlink" => r.op = "delete"
      /\ p = "publish" => r.op = "upload"
      /\ p = "removeData" => r.op = "remove"
  <2>1. CASE r.op = "put"
    <3>1. r.doc \in {"tags", "meta"} \/ r.doc \in {"cors", "acl"}
      BY <1>4, <2>1 DEF Formed, Docs
    <3> QED BY <2>1, <3>1 DEF FirstStep
  <2>2. CASE r.op = "get"
    <3>1. r.doc \in {"tags"} \/ r.doc \in {"cors", "acl"}
      BY <1>4, <2>2 DEF Formed, Docs, Plain
    <3> QED BY <2>2, <3>1 DEF FirstStep, Reads
  <2>3. CASE r.op = "delete"
    BY <1>4, <2>3 DEF Formed, FirstStep
  <2>4. CASE r.op \in {"upload", "remove", "preflight"}
    BY <2>4 DEF FirstStep, Reads
  <2> QED BY <1>1, <2>1, <2>2, <2>3, <2>4 DEF DocOps
<1> HIDE DEF p
<1>6. /\ Table(req, Workers) /\ at \in [Workers -> Places] /\ Table(since, Workers)
      /\ Table(got, Workers)
  BY DEF DocInv, Tables
<1>7. /\ at' \in [Workers -> Places] /\ at'[w] = p
      /\ \A v \in Workers \ {w} : at'[v] = at[v]
  <2>1. at' = [at EXCEPT ![w] = p]
    BY <1>1 DEF Goto, p
  <2> QED BY <1>5, <1>6, <2>1 DEF Places, DocPlaces
<1>8. /\ Table(req', Workers) /\ req'[w] = r
      /\ \A v \in Workers \ {w} : req'[v] = req[v]
  BY <1>1, <1>6 DEF Table
<1>9. Table(since', Workers)
  BY <1>1 DEF Table
<1>10. Reads(r) => since'[w] = acked[r.doc] \cup {Wanted(req[q]) : q \in Pending(r.doc)}
  BY <1>1 DEF Reads
<1>11. \A v \in Workers \ {w} :
         /\ since[v] \subseteq since'[v]
         /\ Changes(r) /\ at[v] # "idle" /\ Reads(req[v]) /\ req[v].doc = Target(r)
              => Wanted(r) \in since'[v]
  BY <1>1 DEF Reads
<1>12. Changeover(w)
  BY <1>2, <1>5, <1>6, <1>7, <1>8, <1>9, <1>11 DEF Changeover
<1>13. Placed(w)' /\ Answered(w)'
  BY <1>4, <1>5, <1>7, <1>8 DEF Placed, Answered, FetchPlaces, CheckPlaces, Formed, Reads
<1>14. \A d, v : v \in Pending(d)' <=> v \in Pending(d) \/ (v = w /\ Changes(r) /\ Target(r) = d)
  BY <1>2, <1>5, <1>7, <1>8 DEF Pending
<1>15. Exclusive'
  BY <1>1, <1>14 DEF DocInv, Exclusive
<1>16. \A d : \A q \in Pending(d) : q # w /\ req'[q] = req[q]
  BY <1>2, <1>8 DEF Pending
<1>17. \A v \in Workers : Noted(v)'
  <2> TAKE v \in Workers
  <2>1. CASE v = w
    <3>1. Reads(r) => ~Changes(r)
      BY DEF Reads, Changes
    <3> QED BY <1>2, <1>8, <1>10, <1>14, <1>16, <2>1, <3>1 DEF Noted
  <2>2. CASE v # w
    <3>1. /\ Noted(v) /\ at'[v] = at[v] /\ req'[v] = req[v] /\ since[v] \subseteq since'[v]
          /\ acked' = acked
      BY <1>2, <1>7, <1>8, <1>11, <2>2 DEF DocInv
    <3>2. ASSUME at[v] # "idle", Reads(req[v]), NEW q \in Pending(req[v].doc)'
          PROVE  Wanted(req'[q]) \in since'[v]
      <4>1. CASE q \in Pending(req[v].doc)
        BY <1>16, <3>1, <3>2, <4>1 DEF Noted
      <4>2. CASE q = w /\ Changes(r) /\ Target(r) = req[v].doc
        BY <1>8, <1>11, <2>2, <3>2, <4>2
      <4>3. req'[v].doc = req[v].doc
        BY <3>1
      <4> QED BY <1>14, <3>2, <4>1, <4>2, <4>3
    <3> QED BY <3>1, <3>2 DEF Noted
  <2> QED BY <2>1, <2>2
<1> QED BY <1>12, <1>13, <1>15, <1>17, ChangeoverKeeps

LEMMA KillKeeps ==
  ASSUME DocInv, Kill
  PROVE  DocInv' /\ \A e \in Docs : Content(e)' = Content(e)
<1>1. /\ UNCHANGED <<scenario, data, file, temp>> /\ Contents(bytes)
      /\ acked' = [d \in Plain |-> acked[d] \cup {Wanted(req[w]) : w \in Pending(d)}]
      /\ fd' = [w \in Workers |-> None] /\ at' = [w \in Workers |-> "idle"]
      /\ req' = [w \in Workers |-> NoRequest] /\ got' = [w \in Workers |-> None]
      /\ since' = [w \in Workers |-> {}]
  BY DEF Kill
<1>2. /\ file \in [Docs -> Nodes \cup {None}] /\ temp \in [Docs -> Nodes \cup {None}]
      /\ fd' \in [Workers -> Nodes \cup {None}] /\ at' \in [Workers -> Places]
  BY <1>1 DEF DocInv, Tables, Places
<1>3. /\ Table(bytes', Nodes)
      /\ \A e \in Docs : file[e] # None => bytes'[file[e]] = bytes[file[e]]
  <2>1. file' = file /\ temp' = temp
    BY <1>1
  <2> QED BY <1>1, <1>2, <2>1, ContentsFacts
<1>4. \A e \in Docs : Content(e)' = Content(e)
  BY <1>1, <1>3 DEF Content
<1>5. Tables'
  BY <1>1, <1>2, <1>3 DEF DocInv, Tables, Table
<1>6. \A w \in Workers : Placed(w)' /\ Noted(w)' /\ Answered(w)' /\ Holding(w)'
  BY <1>1 DEF Placed, Noted, Answered, Holding, FetchPlaces, CheckPlaces
<1>7. Exclusive' /\ NamesApart'
  BY <1>1 DEF DocInv, Exclusive, NamesApart, Pending
<1>8. InForce'
  BY <1>1, <1>4 DEF DocInv, InForce, Plain
<1> QED BY <1>4, <1>5, <1>6, <1>7, <1>8 DEF DocInv

\* Steps of a request for the storage surface, after its arrival.
CheckStep(w) ==
  \/ HeaderUser(w) \/ HeaderTime(w) \/ LinkExpiry(w) \/ LinkUser(w) \/ LinkTime(w)
  \/ Anonymous(w) \/ ObjectACL(w) \/ BucketACL(w)

FetchFrame == UNCHANGED <<scenario, docVars, req, fd, history>>

LEMMA FetchStep ==
  ASSUME DocInv, NEW w \in Workers, at[w] \in FetchPlaces,
         NEW p \in FetchPlaces \cup {"done"}, Goto(w, p), FetchFrame,
         UNCHANGED got \/ \E a : got' = [got EXCEPT ![w] = a]
  PROVE  DocInv' /\ at'[w] = p /\ Advance(w)
<1>1. /\ at[w] \notin {"idle", "done"} /\ UNCHANGED <<scenario, file, temp, bytes, req, fd, acked, since>>
      /\ p \in Places \ {"idle"}
  BY DEF FetchPlaces, CheckPlaces, Places, FetchFrame, docVars, history
<1>2. Advance(w) /\ at'[w] = p
  BY <1>1, GotoAdvance
<1>3. Formed(req[w]) /\ req[w].op = "fetch" /\ req'[w] = req[w]
  BY <1>1 DEF DocInv, Placed
<1>4. Placed(w)'
  BY <1>2, <1>3 DEF Placed, FetchPlaces, CheckPlaces
<1>5. Answered(w)'
  BY <1>3 DEF Answered
<1>6. /\ at[w] \notin {"write", "rename", "fill", "read"}
      /\ at'[w] \notin {"write", "rename", "fill", "read"}
  BY <1>2 DEF FetchPlaces, CheckPlaces
<1> QED BY <1>1, <1>2, <1>4, <1>5, <1>6, QuietStep

\* Where a check may go on: to the next check, to the handler or to an answer.
LEMMA CheckMoves ==
  ASSUME DocInv, NEW w \in Workers, CheckStep(w)
  PROVE  /\ at[w] \in CheckPlaces /\ FetchFrame /\ UNCHANGED accountVars
         /\ \/ \E p \in CheckPlaces \cup {"granted"} : Goto(w, p) /\ UNCHANGED got
            \/ \E s \in {"badRequest", "unauthorized", "forbidden"} : Answer(w, s)
<1> DEFINE Goal == /\ at[w] \in CheckPlaces /\ FetchFrame /\ UNCHANGED accountVars
                   /\ \/ \E p \in CheckPlaces \cup {"granted"} : Goto(w, p) /\ UNCHANGED got
                      \/ \E s \in {"badRequest", "unauthorized", "forbidden"} : Answer(w, s)
<1> USE DEF CheckPlaces, FetchFrame, checking
<1>1. CASE HeaderUser(w)
  BY <1>1 DEF HeaderUser, Refused
<1>2. CASE HeaderTime(w)
  BY <1>2 DEF HeaderTime, Refused, Grant
<1>3. CASE LinkExpiry(w)
  BY <1>3 DEF LinkExpiry, Refused
<1>4. CASE LinkUser(w)
  BY <1>4 DEF LinkUser, Refused
<1>5. CASE LinkTime(w)
  BY <1>5 DEF LinkTime, Refused, Grant
<1>6. CASE Anonymous(w)
  BY <1>6 DEF Anonymous, Refused
<1>7. CASE ObjectACL(w)
  BY <1>7 DEF ObjectACL, Refused, Grant
<1>8. CASE BucketACL(w)
  BY <1>8 DEF BucketACL, Refused, Grant
<1> QED BY <1>1, <1>2, <1>3, <1>4, <1>5, <1>6, <1>7, <1>8 DEF CheckStep

LEMMA CheckKeeps ==
  ASSUME DocInv, NEW w \in Workers, CheckStep(w)
  PROVE  DocInv' /\ Advance(w)
<1>1. at[w] \in FetchPlaces /\ FetchFrame
  BY CheckMoves DEF FetchPlaces
<1>2. CASE \E p \in CheckPlaces \cup {"granted"} : Goto(w, p) /\ UNCHANGED got
  BY <1>1, <1>2, FetchStep DEF FetchPlaces
<1>3. CASE \E s : Answer(w, s)
  BY <1>1, <1>3, FetchStep DEF Answer, Reply
<1> QED BY <1>2, <1>3, CheckMoves

LEMMA DownloadMoves ==
  ASSUME DocInv, NEW w \in Workers, DownloadStep(w)
  PROVE  /\ at[w] \in FetchPlaces \ CheckPlaces /\ FetchFrame /\ UNCHANGED <<accountVars, who>>
         /\ \/ \E p \in FetchPlaces \ CheckPlaces : Goto(w, p) /\ UNCHANGED got
            \/ \E a : Reply(w, a)
<1> USE DEF CheckPlaces, FetchPlaces, FetchFrame, quiet
<1>1. CASE Elsewhere(w)
  BY <1>1 DEF Elsewhere, Respond
<1>2. CASE Look(w)
  BY <1>2 DEF Look, Respond
<1>3. CASE LoadETag(w)
  BY <1>3 DEF LoadETag, Respond
<1>4. CASE Judge(w)
  BY <1>4 DEF Judge, Respond
<1>5. CASE OpenObject(w)
  BY <1>5 DEF OpenObject, Respond
<1> QED BY <1>1, <1>2, <1>3, <1>4, <1>5 DEF DownloadStep

LEMMA DownloadKeeps ==
  ASSUME DocInv, NEW w \in Workers, DownloadStep(w)
  PROVE  DocInv' /\ Advance(w)
<1>1. at[w] \in FetchPlaces /\ FetchFrame
  BY DownloadMoves
<1>2. CASE \E p \in FetchPlaces \ CheckPlaces : Goto(w, p) /\ UNCHANGED got
  BY <1>1, <1>2, FetchStep
<1>3. CASE \E a : Reply(w, a)
  BY <1>1, <1>3, FetchStep DEF Reply
<1> QED BY <1>2, <1>3, DownloadMoves

LEMMA ArriveFetchKeeps ==
  ASSUME DocInv, NEW w \in Workers, ArriveFetch(w)
  PROVE  DocInv'
<1>1. PICK r, p : /\ r.op = "fetch" /\ req' = [req EXCEPT ![w] = r] /\ Goto(w, p)
                  /\ p \in {"headerUser", "linkExpiry", "anonymous"}
  <2>1. PICK r \in Jobs[scenario][w] :
          /\ r.op = "fetch"
          /\ \/ req' = [req EXCEPT ![w] = r] /\ Goto(w, "headerUser")
             \/ /\ r.cred = "link"
                /\ req' = [req EXCEPT ![w] = [r EXCEPT !.user = link.user, !.date = link.date,
                                                       !.expires = link.expires]]
                /\ Goto(w, "linkExpiry")
             \/ req' = [req EXCEPT ![w] = r] /\ Goto(w, "anonymous")
    BY DEF ArriveFetch
  <2>2. r \in Fetches
    BY <2>1, DownloadAssumption DEF DocInv, Tables
  <2>3. [r EXCEPT !.user = link.user, !.date = link.date, !.expires = link.expires].op = "fetch"
    BY <2>1, <2>2 DEF Fetches
  <2> QED BY <2>1, <2>3
<1>2. at[w] = "idle" /\ UNCHANGED <<scenario, file, temp, bytes, fd, got, acked, since>>
  BY DEF ArriveFetch, docVars, history
<1>3. /\ Table(req, Workers) /\ at \in [Workers -> Places] /\ Table(since, Workers)
      /\ Table(got, Workers)
  BY DEF DocInv, Tables
<1>4. /\ at' \in [Workers -> Places] /\ at'[w] = p
      /\ \A v \in Workers \ {w} : at'[v] = at[v]
  BY <1>1, <1>3 DEF Goto, Places, FetchPlaces, CheckPlaces
<1>5. /\ Table(req', Workers) /\ req'[w] = r
      /\ \A v \in Workers \ {w} : req'[v] = req[v]
  BY <1>1, <1>3 DEF Table
<1>6. Changeover(w)
  BY <1>1, <1>2, <1>3, <1>4, <1>5 DEF Changeover
<1>7. Formed(r) /\ ~Changes(r) /\ ~Reads(r)
  BY <1>1 DEF Formed, Changes, Reads
<1>8. Placed(w)' /\ Answered(w)'
  BY <1>1, <1>4, <1>5, <1>7 DEF Placed, Answered, FetchPlaces, CheckPlaces
<1>9. \A d : /\ Pending(d)' = Pending(d)
             /\ \A q \in Pending(d) : q # w /\ req'[q] = req[q]
  BY <1>2, <1>4, <1>5, <1>7 DEF Pending
<1>10. Exclusive'
  BY <1>9 DEF DocInv, Exclusive
<1>11. \A v \in Workers : Noted(v)'
  <2> TAKE v \in Workers
  <2>1. CASE v = w
    BY <1>5, <1>7, <2>1 DEF Noted
  <2>2. CASE v # w
    <3>1. /\ Noted(v) /\ at'[v] = at[v] /\ req'[v] = req[v] /\ since' = since
          /\ acked' = acked
      BY <1>2, <1>4, <1>5, <2>2 DEF DocInv
    <3> QED BY <3>1, <1>9 DEF Noted
  <2> QED BY <2>1, <2>2
<1> QED BY <1>6, <1>8, <1>10, <1>11, ChangeoverKeeps
-----------------------------------------------------------------------------
LEMMA DocInit ==
  ASSUME EnoughNodes, DownloadInit
  PROVE  DocInv
<1>1. /\ scenario \in Scenarios /\ data = Stored[scenario]
      /\ file = [d \in Docs |-> IF d = "meta" /\ data # None THEN FirstNode ELSE None]
      /\ temp = [d \in Docs |-> None]
      /\ bytes = [n \in Nodes |-> IF n = file["meta"] THEN Meta(data, None) ELSE None]
      /\ at = [w \in Workers |-> "idle"] /\ req = [w \in Workers |-> NoRequest]
      /\ fd = [w \in Workers |-> None] /\ got = [w \in Workers |-> None]
      /\ acked = [d \in Plain |-> {None}] /\ since = [w \in Workers |-> {}]
  BY DEF DownloadInit, Init
<1>2. FirstNode \in Nodes /\ FirstNode # None
  <2>1. Nodes # {}
    <3> SUFFICES ASSUME Nodes = {} PROVE FALSE
      OBVIOUS
    <3>1. IsFiniteSet(Nodes) /\ Cardinality(Nodes) = 0
      BY FS_EmptySet
    <3>2. Cardinality(Workers) \in Nat
      BY FS_CardinalityType DEF EnoughNodes
    <3> QED BY <3>1, <3>2 DEF EnoughNodes
  <2>2. FirstNode \in Nodes
    BY <2>1 DEF FirstNode
  <2> QED BY <2>2, SidecarsAssumption
<1>3. Tables
  BY <1>1, <1>2 DEF Tables, Table, Places
<1>4. \A w \in Workers : Placed(w) /\ Holding(w) /\ Noted(w) /\ Answered(w)
  BY <1>1 DEF Placed, Holding, Noted, Answered, FetchPlaces, CheckPlaces
<1>5. Exclusive
  BY <1>1 DEF Exclusive, Pending
<1>6. NamesApart
  BY <1>1, <1>2 DEF NamesApart, Docs
<1>7. InForce
  BY <1>1, SidecarsAssumption DEF InForce, Content, Legal, Plain
<1> QED BY <1>3, <1>4, <1>5, <1>6, <1>7 DEF DocInv

LEMMA SidecarKeeps ==
  ASSUME EnoughNodes, ~Overlap, DocInv, NEW w \in Workers, SidecarStep(w)
  PROVE  DocInv'
BY ArriveKeeps, FinishKeeps, StatKeeps, RefuseKeeps, LoadKeeps, CreateKeeps, WriteKeeps,
   RenameKeeps, UnlinkKeeps, PublishKeeps, TruncateKeeps, FillKeeps, OpenKeeps, ReadKeeps
   DEF SidecarStep

LEMMA AdministrationFrame ==
  ASSUME Administration
  PROVE  UNCHANGED vars /\ UNCHANGED who
BY DEF Administration, CreateUserWithACL, UpdateUserACL, DeleteUser, PresignObject,
       BootstrapSuperUser, Tick

LEMMA DocUnchanged ==
  ASSUME DocInv, UNCHANGED vars
  PROVE  DocInv'
<1>1. UNCHANGED <<scenario, file, temp, bytes, at, req, fd, got, acked, since>>
  BY DEF vars, docVars, history
<1>2. Tables' /\ Exclusive' /\ NamesApart' /\ InForce'
  BY <1>1 DEF DocInv, Tables, Table, Exclusive, NamesApart, InForce, Content, Pending
<1>3. \A w \in Workers : Placed(w)' /\ Holding(w)'
  BY <1>1 DEF DocInv, Placed, Holding, Formed, Valid
<1>4. \A w \in Workers : Noted(w)' /\ Answered(w)'
  BY <1>1 DEF DocInv, Noted, Answered, Pending, CORSAnswer
<1> QED BY <1>2, <1>3, <1>4 DEF DocInv

LEMMA DocNext ==
  ASSUME EnoughNodes, ~Overlap, DocInv, [Next]_allVars
  PROVE  DocInv'
<1>1. CASE UNCHANGED allVars
  BY <1>1, DocUnchanged DEF allVars
<1>2. CASE Administration
  BY <1>2, DocUnchanged, AdministrationFrame
<1>3. CASE KillAll
  BY <1>3, KillKeeps DEF KillAll
<1>4. ASSUME NEW w \in Workers, SidecarStep(w) \/ AccessStep(w) \/ DownloadStep(w)
      PROVE  DocInv'
  <2>1. AccessStep(w) => ArriveFetch(w) \/ CheckStep(w)
    BY DEF AccessStep, CheckStep
  <2> QED BY <1>4, <2>1, SidecarKeeps, ArriveFetchKeeps, CheckKeeps, DownloadKeeps
<1> QED BY <1>1, <1>2, <1>3, <1>4 DEF Next

LEMMA DocAlways ==
  ASSUME EnoughNodes, ~Overlap
  PROVE  Spec => []DocInv
<1>1. DownloadInit => DocInv
  BY DocInit
<1>2. DocInv /\ [Next]_allVars => DocInv'
  BY DocNext
<1> QED BY <1>1, <1>2, PTL DEF Spec

(***************************************************************************)
(* Read at any step of a concurrent change, after a write that failed or   *)
(* after a kill, tags, CORS configuration and bucket ACL decode and were   *)
(* in force since the read began.                                          *)
(***************************************************************************)
THEOREM DocumentsRegularHolds ==
  ASSUME EnoughNodes, ~Overlap
  PROVE  Spec => []DocumentsRegular
<1>1. DocInv => DocumentsRegular
  BY DEF DocInv, Answered, DocumentsRegular
<1> QED BY <1>1, DocAlways, PTL
-----------------------------------------------------------------------------
\* Prefix and suffix, character by character.
LEMMA PrefixChars ==
  ASSUME NEW S, NEW u \in Seq(S), NEW v \in Seq(S)
  PROVE  IsPrefix(u, v) <=> /\ Len(u) <= Len(v)
                            /\ \A k \in 1 .. Len(u) : u[k] = v[k]
<1>1. Len(u) \in Nat /\ Len(v) \in Nat
  BY LenProperties
<1>2. \A k \in 1 .. Len(u) : u[k] \in S
  BY ElementOfSeq
<1>3. \A k \in 1 .. Len(v) : v[k] \in S
  BY ElementOfSeq
<1>4. SubSeq(u, 1, Len(u)) = u
  BY SubSeqFull
<1> SUFFICES ASSUME Len(u) <= Len(v)
             PROVE  u = SubSeq(v, 1, Len(u)) <=> \A k \in 1 .. Len(u) : u[k] = v[k]
  BY <1>4 DEF IsPrefix
<1> DEFINE t == SubSeq(v, 1, Len(u))
<1>5. \A k \in 1 .. Len(u) : v[k] \in S
  BY <1>1, <1>3
<1>6. 1 \in Int /\ Len(u) \in Int
  BY <1>1
<1>7. /\ t \in Seq(S) /\ Len(t) = IF 1 <= Len(u) THEN Len(u) - 1 + 1 ELSE 0
      /\ \A k \in 1 .. Len(u) - 1 + 1 : t[k] = v[1 + k - 1]
  BY <1>5, <1>6, SubSeqProperties
<1> HIDE DEF t
<1>8. Len(t) = Len(u) /\ \A k \in 1 .. Len(u) : t[k] = v[k]
  BY <1>1, <1>7
<1>9. ASSUME \A k \in 1 .. Len(u) : u[k] = v[k] PROVE u = t
  BY <1>7, <1>8, <1>9, SeqEqual
<1> QED BY <1>8, <1>9 DEF t

LEMMA ReverseChars ==
  ASSUME NEW S, NEW u \in Seq(S)
  PROVE  /\ Reverse(u) \in Seq(S) /\ Len(Reverse(u)) = Len(u)
         /\ \A k \in 1 .. Len(u) : Reverse(u)[k] = u[Len(u) - k + 1]
<1>1. Len(u) \in Nat
  BY LenProperties
<1>2. \A k \in 1 .. Len(u) : Len(u) - k + 1 \in 1 .. Len(u)
  BY <1>1
<1>3. Reverse(u) \in [1 .. Len(u) -> S]
  BY <1>2, ElementOfSeq DEF Reverse
<1> QED BY <1>1, <1>3 DEF Reverse

LEMMA SuffixChars ==
  ASSUME NEW S, NEW u \in Seq(S), NEW v \in Seq(S)
  PROVE  IsSuffix(u, v) <=> /\ Len(u) <= Len(v)
                            /\ \A k \in 1 .. Len(u) : u[k] = v[Len(v) - Len(u) + k]
<1>1. Len(u) \in Nat /\ Len(v) \in Nat
  BY LenProperties
<1>2. /\ Reverse(u) \in Seq(S) /\ Len(Reverse(u)) = Len(u)
      /\ \A k \in 1 .. Len(u) : Reverse(u)[k] = u[Len(u) - k + 1]
  BY ReverseChars
<1>3. /\ Reverse(v) \in Seq(S) /\ Len(Reverse(v)) = Len(v)
      /\ \A k \in 1 .. Len(v) : Reverse(v)[k] = v[Len(v) - k + 1]
  BY ReverseChars
<1>4. IsSuffix(u, v) <=> /\ Len(u) <= Len(v)
                         /\ \A k \in 1 .. Len(u) : Reverse(u)[k] = Reverse(v)[k]
  BY <1>2, <1>3, PrefixChars DEF IsSuffix
<1> SUFFICES ASSUME Len(u) <= Len(v)
             PROVE  (\A k \in 1 .. Len(u) : Reverse(u)[k] = Reverse(v)[k])
                      <=> \A k \in 1 .. Len(u) : u[k] = v[Len(v) - Len(u) + k]
  BY <1>4
<1>5. \A k \in 1 .. Len(u) : Reverse(v)[k] = v[Len(v) - k + 1]
  BY <1>1, <1>3
<1>6. ASSUME \A k \in 1 .. Len(u) : Reverse(u)[k] = Reverse(v)[k], NEW k \in 1 .. Len(u)
      PROVE  u[k] = v[Len(v) - Len(u) + k]
  <2> DEFINE j == Len(u) - k + 1
  <2>1. j \in 1 .. Len(u) /\ Len(u) - j + 1 = k /\ Len(v) - j + 1 = Len(v) - Len(u) + k
    BY <1>1
  <2>2. Reverse(u)[j] = u[Len(u) - j + 1] /\ Reverse(v)[j] = v[Len(v) - j + 1]
        /\ Reverse(u)[j] = Reverse(v)[j]
    BY <1>2, <1>5, <1>6, <2>1
  <2> QED BY <2>1, <2>2
<1>7. ASSUME \A k \in 1 .. Len(u) : u[k] = v[Len(v) - Len(u) + k], NEW k \in 1 .. Len(u)
      PROVE  Reverse(u)[k] = Reverse(v)[k]
  <2> DEFINE j == Len(u) - k + 1
  <2>1. j \in 1 .. Len(u) /\ Len(v) - Len(u) + j = Len(v) - k + 1
    BY <1>1
  <2>2. u[j] = v[Len(v) - Len(u) + j]
    BY <1>7, <2>1
  <2> QED BY <1>2, <1>5, <2>1, <2>2
<1> QED BY <1>6, <1>7

\* A sequence cut at one position, with something else in its place.
LEMMA CutFacts ==
  ASSUME NEW S, NEW p \in Seq(S), NEW i \in 1 .. Len(p)
  PROVE  /\ SubSeq(p, 1, i - 1) \in Seq(S) /\ Len(SubSeq(p, 1, i - 1)) = i - 1
         /\ SubSeq(p, i + 1, Len(p)) \in Seq(S) /\ Len(SubSeq(p, i + 1, Len(p))) = Len(p) - i
         /\ Len(p) \in Nat /\ i \in Nat
<1>1. Len(p) \in Nat /\ \A k \in 1 .. Len(p) : p[k] \in S
  BY LenProperties, ElementOfSeq
<1>2. 1 \in Int /\ i - 1 \in Int /\ i + 1 \in Int /\ Len(p) \in Int
  BY <1>1
<1>3. /\ \A k \in 1 .. i - 1 : p[k] \in S
      /\ \A k \in i + 1 .. Len(p) : p[k] \in S
  BY <1>1
<1>4. /\ SubSeq(p, 1, i - 1) \in Seq(S)
      /\ Len(SubSeq(p, 1, i - 1)) = IF 1 <= i - 1 THEN i - 1 - 1 + 1 ELSE 0
  BY <1>2, <1>3, SubSeqProperties
<1>5. /\ SubSeq(p, i + 1, Len(p)) \in Seq(S)
      /\ Len(SubSeq(p, i + 1, Len(p))) = IF i + 1 <= Len(p) THEN Len(p) - (i + 1) + 1 ELSE 0
  BY <1>2, <1>3, SubSeqProperties
<1>6. Len(SubSeq(p, 1, i - 1)) = i - 1
  BY <1>1, <1>4
<1>7. Len(SubSeq(p, i + 1, Len(p))) = Len(p) - i
  BY <1>1, <1>5
<1> QED BY <1>1, <1>4, <1>5, <1>6, <1>7

\* Split on the first "*": the two parts fit without overlapping if and only
\* if some run of characters stands for the "*".
Fits(A, B, s) == Len(s) >= Len(A) + Len(B) /\ IsPrefix(A, s) /\ IsSuffix(B, s)
Surround(A, B, s) ==
  \E from \in 1 .. Len(s) + 1, to \in 0 .. Len(s) :
    from <= to + 1 /\ s = A \o SubSeq(s, from, to) \o B

LEMMA SplitFits ==
  ASSUME NEW S, NEW A \in Seq(S), NEW B \in Seq(S), NEW s \in Seq(S)
  PROVE  Fits(A, B, s) <=> Surround(A, B, s)
<1>1. Len(A) \in Nat /\ Len(B) \in Nat /\ Len(s) \in Nat
  BY LenProperties
<1>2. \A k \in 1 .. Len(s) : s[k] \in S
  BY ElementOfSeq
<1>3. ASSUME NEW from \in 1 .. Len(s) + 1, NEW to \in 0 .. Len(s), from <= to + 1
      PROVE  /\ SubSeq(s, from, to) \in Seq(S) /\ Len(SubSeq(s, from, to)) = to - from + 1
             /\ \A k \in 1 .. to - from + 1 : SubSeq(s, from, to)[k] = s[from + k - 1]
  <2>1. from \in Int /\ to \in Int /\ \A k \in from .. to : s[k] \in S
    BY <1>1, <1>2, <1>3
  <2>2. /\ SubSeq(s, from, to) \in Seq(S)
        /\ Len(SubSeq(s, from, to)) = IF from <= to THEN to - from + 1 ELSE 0
        /\ \A k \in 1 .. to - from + 1 : SubSeq(s, from, to)[k] = s[from + k - 1]
    BY <2>1, SubSeqProperties
  <2> QED BY <1>1, <1>3, <2>2
<1>4. ASSUME NEW M \in Seq(S)
      PROVE  /\ A \o M \o B \in Seq(S) /\ Len(M) \in Nat
             /\ Len(A \o M \o B) = Len(A) + Len(M) + Len(B)
             /\ \A k \in 1 .. Len(A) + Len(M) + Len(B) :
                  (A \o M \o B)[k] = IF k <= Len(A) THEN A[k]
                                     ELSE IF k <= Len(A) + Len(M) THEN M[k - Len(A)]
                                     ELSE B[k - Len(A) - Len(M)]
  <2> DEFINE AM == A \o M
  <2>0. Len(M) \in Nat
    BY LenProperties
  <2>1. /\ AM \in Seq(S) /\ Len(AM) = Len(A) + Len(M)
        /\ \A k \in 1 .. Len(A) + Len(M) : AM[k] = IF k <= Len(A) THEN A[k] ELSE M[k - Len(A)]
    BY ConcatProperties
  <2> HIDE DEF AM
  <2>2. /\ AM \o B \in Seq(S) /\ Len(AM \o B) = Len(AM) + Len(B)
        /\ \A k \in 1 .. Len(AM) + Len(B) : (AM \o B)[k] = IF k <= Len(AM) THEN AM[k] ELSE B[k - Len(AM)]
    <3>1. AM \in Seq(S)
      BY <2>1
    <3> QED BY <3>1, ConcatProperties
  <2>3. \A k \in 1 .. Len(A) + Len(M) + Len(B) :
          (AM \o B)[k] = IF k <= Len(A) THEN A[k]
                         ELSE IF k <= Len(A) + Len(M) THEN M[k - Len(A)]
                         ELSE B[k - Len(A) - Len(M)]
    <3> TAKE k \in 1 .. Len(A) + Len(M) + Len(B)
    <3>1. (AM \o B)[k] = IF k <= Len(A) + Len(M) THEN AM[k] ELSE B[k - (Len(A) + Len(M))]
      BY <2>1, <2>2
    <3>2. k <= Len(A) + Len(M) => AM[k] = IF k <= Len(A) THEN A[k] ELSE M[k - Len(A)]
      BY <1>1, <2>0, <2>1
    <3>3. k - (Len(A) + Len(M)) = k - Len(A) - Len(M)
      BY <1>1, <2>0
    <3> QED BY <1>1, <2>0, <3>1, <3>2, <3>3
  <2>4. Len(AM \o B) = Len(A) + Len(M) + Len(B)
    BY <2>1, <2>2
  <2> QED BY <2>0, <2>2, <2>3, <2>4 DEF AM
<1>5. IsPrefix(A, s) <=> Len(A) <= Len(s) /\ \A k \in 1 .. Len(A) : A[k] = s[k]
  BY PrefixChars
<1>6. IsSuffix(B, s) <=> /\ Len(B) <= Len(s)
                         /\ \A k \in 1 .. Len(B) : B[k] = s[Len(s) - Len(B) + k]
  BY SuffixChars
<1>7. ASSUME Len(s) >= Len(A) + Len(B), IsPrefix(A, s), IsSuffix(B, s)
      PROVE  \E from \in 1 .. Len(s) + 1, to \in 0 .. Len(s) :
               from <= to + 1 /\ s = A \o SubSeq(s, from, to) \o B
  <2> DEFINE from == Len(A) + 1
             to == Len(s) - Len(B)
             M == SubSeq(s, from, to)
  <2>1. from \in 1 .. Len(s) + 1 /\ to \in 0 .. Len(s) /\ from <= to + 1
    BY <1>1, <1>7
  <2>2. /\ M \in Seq(S) /\ Len(M) = to - from + 1
        /\ \A k \in 1 .. to - from + 1 : M[k] = s[from + k - 1]
    BY <1>3, <2>1
  <2> HIDE DEF M
  <2>3. /\ A \o M \o B \in Seq(S)
        /\ Len(A \o M \o B) = Len(A) + Len(M) + Len(B)
        /\ \A k \in 1 .. Len(A) + Len(M) + Len(B) :
             (A \o M \o B)[k] = IF k <= Len(A) THEN A[k]
                                ELSE IF k <= Len(A) + Len(M) THEN M[k - Len(A)]
                                ELSE B[k - Len(A) - Len(M)]
    BY <1>4, <2>2
  <2>4. Len(A) + Len(M) + Len(B) = Len(s) /\ Len(M) = Len(s) - Len(A) - Len(B)
    BY <1>1, <2>2
  <2>5. \A k \in 1 .. Len(s) : s[k] = (A \o M \o B)[k]
    <3> TAKE k \in 1 .. Len(s)
    <3>1. CASE k <= Len(A)
      <4>1. k \in 1 .. Len(A)
        BY <1>1, <3>1
      <4> QED BY <1>5, <1>7, <2>3, <2>4, <3>1, <4>1
    <3>2. CASE k > Len(A) /\ k <= Len(A) + Len(M)
      <4> DEFINE j == k - Len(A)
      <4>1. j \in 1 .. to - from + 1 /\ from + j - 1 = k
        BY <1>1, <2>2, <3>2
      <4>2. M[j] = s[from + j - 1]
        BY <2>2, <4>1
      <4>3. (A \o M \o B)[k] = M[j]
        BY <1>1, <2>3, <2>4, <3>2
      <4> QED BY <4>1, <4>2, <4>3
    <3>3. CASE k > Len(A) + Len(M)
      <4> DEFINE j == k - Len(A) - Len(M)
      <4>1. j \in 1 .. Len(B) /\ Len(s) - Len(B) + j = k
        BY <1>1, <2>4, <3>3
      <4>2. B[j] = s[Len(s) - Len(B) + j]
        BY <1>6, <1>7, <4>1
      <4>3. (A \o M \o B)[k] = B[j]
        BY <1>1, <2>3, <2>4, <3>3
      <4> QED BY <4>1, <4>2, <4>3
    <3> QED BY <1>1, <2>4, <3>1, <3>2, <3>3
  <2>6. s = A \o M \o B
    BY <2>3, <2>4, <2>5, SeqEqual
  <2> QED BY <2>1, <2>6 DEF M
<1>8. ASSUME NEW from \in 1 .. Len(s) + 1, NEW to \in 0 .. Len(s), from <= to + 1,
             s = A \o SubSeq(s, from, to) \o B
      PROVE  Len(s) >= Len(A) + Len(B) /\ IsPrefix(A, s) /\ IsSuffix(B, s)
  <2> DEFINE M == SubSeq(s, from, to)
  <2>1. M \in Seq(S)
    BY <1>3, <1>8
  <2>2. s = A \o M \o B
    BY <1>8
  <2> HIDE DEF M
  <2>3. /\ Len(M) \in Nat /\ Len(s) = Len(A) + Len(M) + Len(B)
        /\ \A k \in 1 .. Len(A) + Len(M) + Len(B) :
             s[k] = IF k <= Len(A) THEN A[k]
                    ELSE IF k <= Len(A) + Len(M) THEN M[k - Len(A)]
                    ELSE B[k - Len(A) - Len(M)]
    BY <1>4, <2>1, <2>2
  <2>4. \A k \in 1 .. Len(A) : A[k] = s[k]
    BY <1>1, <2>3
  <2>5. \A k \in 1 .. Len(B) : B[k] = s[Len(s) - Len(B) + k]
    <3> TAKE k \in 1 .. Len(B)
    <3> DEFINE j == Len(s) - Len(B) + k
    <3>1. j \in 1 .. Len(A) + Len(M) + Len(B) /\ j > Len(A) + Len(M) /\ j - Len(A) - Len(M) = k
          /\ ~(j <= Len(A))
      BY <1>1, <2>3
    <3> HIDE DEF j
    <3>2. s[j] = B[j - Len(A) - Len(M)]
      BY <1>1, <2>3, <3>1
    <3> QED BY <3>1, <3>2 DEF j
  <2>6. Len(s) >= Len(A) + Len(B) /\ Len(A) <= Len(s) /\ Len(B) <= Len(s)
    BY <1>1, <2>3
  <2> QED BY <1>5, <1>6, <2>4, <2>5, <2>6
<1> QED BY <1>7, <1>8 DEF Fits, Surround

\* matchList on one entry is AWS's wildcard.
LEMMA MatchesStands ==
  ASSUME NEW p, NEW s, Text(p), Text(s)
  PROVE  Matches(p, s) <=> Stands(p, s)
<1> DEFINE S == Range(p) \cup Range(s)
<1>1. p \in Seq(S) /\ s \in Seq(S)
  BY SeqMonotonic DEF Text
<1> HIDE DEF S
<1>2. \A i \in 1 .. Len(p) :
        (\A j \in 1 .. i - 1 : p[j] # Star) <=> Star \notin {p[j] : j \in 1 .. i - 1}
  OBVIOUS
<1>3. ASSUME NEW i \in 1 .. Len(p)
      PROVE  (/\ Len(s) >= Len(p) - 1
              /\ IsPrefix(SubSeq(p, 1, i - 1), s)
              /\ IsSuffix(SubSeq(p, i + 1, Len(p)), s))
               <=> \E from \in 1 .. Len(s) + 1, to \in 0 .. Len(s) :
                     /\ from <= to + 1
                     /\ s = SubSeq(p, 1, i - 1) \o SubSeq(s, from, to) \o SubSeq(p, i + 1, Len(p))
  <2> DEFINE A == SubSeq(p, 1, i - 1)
             B == SubSeq(p, i + 1, Len(p))
  <2>1. /\ A \in Seq(S) /\ Len(A) = i - 1
        /\ B \in Seq(S) /\ Len(B) = Len(p) - i
        /\ Len(p) \in Nat /\ i \in Nat
    BY <1>1, CutFacts
  <2> HIDE DEF A, B
  <2>2. Len(A) + Len(B) = Len(p) - 1
    BY <2>1
  <2>3. A \in Seq(S) /\ B \in Seq(S)
    BY <2>1
  <2>4. Fits(A, B, s) <=> Surround(A, B, s)
    BY <1>1, <2>3, SplitFits
  <2>5. (/\ Len(s) >= Len(p) - 1 /\ IsPrefix(A, s) /\ IsSuffix(B, s))
          <=> \E from \in 1 .. Len(s) + 1, to \in 0 .. Len(s) :
                from <= to + 1 /\ s = A \o SubSeq(s, from, to) \o B
    BY <2>2, <2>4 DEF Fits, Surround
  <2> QED BY <2>5 DEF A, B
<1>4. \A i \in 1 .. Len(p) :
        (/\ p[i] = Star /\ \A j \in 1 .. i - 1 : p[j] # Star
         /\ Len(s) >= Len(p) - 1
         /\ IsPrefix(SubSeq(p, 1, i - 1), s)
         /\ IsSuffix(SubSeq(p, i + 1, Len(p)), s))
          <=> \E from \in 1 .. Len(s) + 1, to \in 0 .. Len(s) :
                /\ p[i] = Star /\ Star \notin {p[j] : j \in 1 .. i - 1}
                /\ from <= to + 1
                /\ s = SubSeq(p, 1, i - 1) \o SubSeq(s, from, to) \o SubSeq(p, i + 1, Len(p))
  <2> TAKE i \in 1 .. Len(p)
  <2>1. (\A j \in 1 .. i - 1 : p[j] # Star) <=> Star \notin {p[j] : j \in 1 .. i - 1}
    BY <1>2
  <2> QED BY <1>3, <2>1, Zenon
<1> QED BY <1>4, Zenon DEF Matches, Stands

LEMMA RuleAllows ==
  ASSUME NEW r, NEW rule, Text(r.origin), r.method = None \/ Text(r.method),
         \A p \in rule.origins \cup rule.methods : Text(p)
  PROVE  RuleMatches(rule, r) <=> Allows(rule, r)
<1>1. (\E p \in rule.origins : Matches(p, r.origin)) <=> \E p \in rule.origins : Stands(p, r.origin)
  BY MatchesStands
<1>2. (r.method = None \/ \E p \in rule.methods : Matches(p, r.method))
        <=> (r.method # None => \E p \in rule.methods : Stands(p, r.method))
  BY MatchesStands
<1>3. HeadersAllowed(rule, r.headers) <=> <<Star>> \in rule.headers \/ r.headers \subseteq rule.headers
  BY DEF HeadersAllowed
<1> QED BY <1>1, <1>2, <1>3 DEF RuleMatches, Allows

LEMMA Least ==
  ASSUME NEW T \in SUBSET Nat, T # {}
  PROVE  \E i \in T : \A j \in T : i <= j
<1>1. \E i \in T : \A j \in T : ~ (<<j, i>> \in OpToRel(<, Nat))
  BY NatLessThanWellFounded, WFMin
<1>2. \E i \in T : \A j \in T : ~ (j < i)
  BY <1>1 DEF OpToRel
<1> QED BY <1>2

\* matchCORSRule finds the first rule that allows the request, or none does.
LEMMA FirstRule ==
  ASSUME NEW c \in DOMAIN Rules, NEW r, WellFormed(r), r.op = "preflight"
  PROVE  LET rule == MatchCORSRule(Rules[c], r) IN
         \/ rule = None /\ \A i \in 1 .. Len(Rules[c]) : ~Allows(Rules[c][i], r)
         \/ /\ rule # None
            /\ \E i \in 1 .. Len(Rules[c]) :
                 /\ Rules[c][i] = rule /\ Allows(rule, r)
                 /\ \A j \in 1 .. i - 1 : ~Allows(Rules[c][j], r)
<1> DEFINE rules == Rules[c]
           hits == {i \in 1 .. Len(rules) : RuleMatches(rules[i], r)}
<1>1. /\ Text(rules)
      /\ \A rule \in Range(rules) : rule # None /\ \A p \in rule.origins \cup rule.methods : Text(p)
  BY SidecarsAssumption
<1>2. /\ Len(rules) \in Nat
      /\ \A i \in 1 .. Len(rules) : rules[i] \in Range(rules)
  BY <1>1, LenProperties, ElementOfSeq DEF Text
<1>3. \A i \in 1 .. Len(rules) : RuleMatches(rules[i], r) <=> Allows(rules[i], r)
  <2> TAKE i \in 1 .. Len(rules)
  <2>1. \A p \in rules[i].origins \cup rules[i].methods : Text(p)
    BY <1>1, <1>2
  <2>2. Text(r.origin) /\ (r.method = None \/ Text(r.method))
    BY DEF WellFormed
  <2> QED BY <2>1, <2>2, RuleAllows
<1>4. MatchCORSRule(rules, r) =
        IF hits = {} THEN None ELSE rules[CHOOSE i \in hits : \A j \in hits : i <= j]
  BY DEF MatchCORSRule
<1>5. CASE hits = {}
  <2>1. \A i \in 1 .. Len(rules) : ~RuleMatches(rules[i], r)
    BY <1>5
  <2> QED BY <1>3, <1>4, <1>5, <2>1
<1>6. CASE hits # {}
  <2>1. hits \in SUBSET Nat
    BY <1>2
  <2> DEFINE m == CHOOSE i \in hits : \A j \in hits : i <= j
  <2>2. m \in hits /\ \A j \in hits : m <= j
    <3> HIDE DEF hits
    <3>1. \E i \in hits : \A j \in hits : i <= j
      BY <1>6, <2>1, Least
    <3> QED BY <3>1
  <2>3. MatchCORSRule(rules, r) = rules[m]
    BY <1>4, <1>6
  <2> HIDE DEF m
  <2>4. m \in 1 .. Len(rules) /\ Allows(rules[m], r)
    BY <1>3, <2>2
  <2>5. \A j \in 1 .. m - 1 : ~Allows(rules[j], r)
    <3> TAKE j \in 1 .. m - 1
    <3>1. j \in 1 .. Len(rules) /\ ~(m <= j)
      BY <1>2, <2>4
    <3>2. j \notin hits
      BY <2>2, <3>1
    <3> QED BY <1>3, <3>1, <3>2
  <2>6. rules[m] # None
    BY <1>1, <1>2, <2>4
  <2> QED BY <2>3, <2>4, <2>5, <2>6
<1> QED BY <1>5, <1>6

LEMMA AnswerExact ==
  ASSUME NEW c, Legal("cors", c), NEW r, WellFormed(r), r.op = "preflight", NEW a,
         a = CORSAnswer(c, r)
  PROVE  IF a.rule # None
         THEN /\ c # None
              /\ \E i \in 1 .. Len(Rules[c]) :
                   /\ Rules[c][i] = a.rule /\ Allows(a.rule, r)
                   /\ \A j \in 1 .. i - 1 : ~Allows(Rules[c][j], r)
              /\ a.status = IF r.options THEN "noContent" ELSE "next"
         ELSE /\ c = None \/ \A i \in 1 .. Len(Rules[c]) : ~Allows(Rules[c][i], r)
              /\ a.status = IF r.options THEN "forbidden" ELSE "next"
<1>1. r.options \in BOOLEAN /\ c # Torn
  BY DEF WellFormed, Legal
<1>2. CASE c = None
  <2>1. a = [status |-> IF r.options THEN "forbidden" ELSE "next", rule |-> None]
    BY <1>1, <1>2 DEF CORSAnswer
  <2> QED BY <1>2, <2>1
<1>3. CASE c # None
  <2> DEFINE rule == MatchCORSRule(Rules[c], r)
  <2>1. a = [status |-> CASE r.options /\ rule = None -> "forbidden"
                          [] r.options /\ rule # None -> "noContent"
                          [] ~r.options -> "next",
             rule |-> rule]
    BY <1>1, <1>3 DEF CORSAnswer
  <2> HIDE DEF rule
  <2>2. /\ a.rule = rule
        /\ rule = None => a.status = IF r.options THEN "forbidden" ELSE "next"
        /\ rule # None => a.status = IF r.options THEN "noContent" ELSE "next"
    BY <1>1, <2>1
  <2>3. \/ rule = None /\ \A i \in 1 .. Len(Rules[c]) : ~Allows(Rules[c][i], r)
        \/ /\ rule # None
           /\ \E i \in 1 .. Len(Rules[c]) :
                /\ Rules[c][i] = rule /\ Allows(rule, r)
                /\ \A j \in 1 .. i - 1 : ~Allows(Rules[c][j], r)
    <3>1. c \in DOMAIN Rules
      BY <1>3 DEF Legal
    <3> QED BY <3>1, FirstRule DEF rule
  <2> QED BY <1>3, <2>2, <2>3
<1> QED BY <1>2, <1>3

(***************************************************************************)
(* BucketCORSMiddleware answers a browser by the rules of a configuration  *)
(* in force since the request came, by the first rule that allows it, and  *)
(* its "*" is AWS's, whatever the patterns and the origins are.            *)
(***************************************************************************)
THEOREM PreflightExactHolds ==
  ASSUME EnoughNodes, ~Overlap
  PROVE  Spec => []PreflightExact
<1>1. DocInv => PreflightExact
  <2> SUFFICES ASSUME DocInv, NEW w \in Workers, at[w] = "done", req[w].op = "preflight"
               PROVE  \E c \in since[w] :
                        IF got[w].rule # None
                        THEN /\ c # None
                             /\ \E i \in 1 .. Len(Rules[c]) :
                                  /\ Rules[c][i] = got[w].rule /\ Allows(got[w].rule, req[w])
                                  /\ \A j \in 1 .. i - 1 : ~Allows(Rules[c][j], req[w])
                             /\ got[w].status = IF req[w].options THEN "noContent" ELSE "next"
                        ELSE /\ c = None \/ \A i \in 1 .. Len(Rules[c]) : ~Allows(Rules[c][i], req[w])
                             /\ got[w].status = IF req[w].options THEN "forbidden" ELSE "next"
    BY DEF PreflightExact
  <2>1. PICK c \in since[w] : Legal("cors", c) /\ got[w] = CORSAnswer(c, req[w])
    BY DEF DocInv, Answered
  <2>2. WellFormed(req[w])
    BY DEF DocInv, Placed, Formed
  <2> QED BY <2>1, <2>2, AnswerExact
<1> QED BY <1>1, DocAlways, PTL
-----------------------------------------------------------------------------
(***************************************************************************)
(* Access.  What the clock, the links, the versions and the requests under *)
(* check are made of.                                                      *)
(***************************************************************************)
Links == [user : AccessKeys, date : Nat, expires : Nat]

Sightings == info = [w \in Workers |-> [stat |-> info[w].stat, etag |-> info[w].etag]]

Accounts ==
  /\ now \in Nat /\ data \in Held \cup {None}
  /\ link = None \/ (link \in Links /\ link.date <= now)
  /\ Table(who, Workers)
  /\ Sightings
  /\ Table(granted, Workers) /\ Table(denied, Workers) /\ moved \in [Workers -> 0 .. 2]

\* Readable without credentials, if public.
Readable(r) == r.method \in {"GET", "HEAD"} /\ ~r.subresource /\ r.bucket # None

Credential(w) ==
  LET r == req[w] IN
  /\ at[w] # "idle" /\ r.op = "fetch" => r \in Fetches
  /\ at[w] # "idle" /\ r.op = "upload" => r.version \in Held
  /\ at[w] \in {"headerUser", "headerTime"} => r.cred = "header"
  /\ at[w] \in {"linkExpiry", "linkUser", "linkTime"} => r.cred = "link" /\ r.date <= now
  /\ at[w] \in {"anonymous", "objectACL", "bucketACL"} => r.cred = "none"
  /\ at[w] \in {"objectACL", "bucketACL"} => Readable(r)
  /\ at[w] = "objectACL" => r.object
  /\ at[w] \in {"etag", "judge"} => info[w].stat \in Held
  /\ at[w] = "openSlice" => r.range.form \in {"suffix", "from", "span"}

\* The history of a request under check is up to date.
Observed(w) ==
  Checking(w) => Holds(req[w]) \subseteq granted[w] /\ Needs(req[w]) \ Holds(req[w]) \subseteq denied[w]

\* The object's own sidecar names no ACL.
MetaSilent == LET c == Content("meta") IN c = None \/ (c # Torn /\ c.acl = None)

(***************************************************************************)
(* What a request under check has passed, it had; what it will fail, it    *)
(* lacked, at some time since it came.                                     *)
(***************************************************************************)
Passed(w) ==
  LET r == req[w] IN
  /\ at[w] = "headerTime" => "signer" \in IF IsUserAllowed(who[w], r) THEN granted[w] ELSE denied[w]
  /\ at[w] \in {"linkUser", "linkTime"} /\ InWindow(r.date) => "time" \in granted[w]
  /\ at[w] = "linkTime" => "signer" \in granted[w]
  /\ at[w] = "bucketACL" /\ moved[w] <= 1 =>
       "public" \in IF Content("acl") = "public-read" THEN granted[w] ELSE denied[w]
  /\ at[w] = "bucketACL" /\ r.object /\ moved[w] = 0 => MetaSilent

Settled(w) ==
  /\ at[w] = "granted" /\ moved[w] <= 1 => Needs(req[w]) \subseteq granted[w]
  /\ at[w] = "done" /\ req[w].op = "fetch" /\ moved[w] <= 1
       /\ got[w].status \in {"unauthorized", "forbidden"} => denied[w] # {}

\* The inductive invariant of access, on top of that of the documents.
AccessInv ==
  /\ Accounts
  /\ \A w \in Workers : Credential(w) /\ Observed(w) /\ Passed(w) /\ Settled(w)
-----------------------------------------------------------------------------
\* What entitles a request, case by case.
LEMMA HoldsFacts ==
  ASSUME NEW r
  PROVE  /\ "signer" \in Holds(r) <=>
              /\ r.cred # "none" /\ r.right = "yes" /\ Exists(r.user)
              /\ r.cred = "header" => IsUserAllowed(users[r.user], r)
         /\ "time" \in Holds(r) <=>
              /\ r.cred # "none" /\ r.date \in now - Window .. now + Window
              /\ r.cred = "link" => now <= r.date + r.expires
         /\ "public" \in Holds(r) <=>
              /\ r.cred = "none" /\ r.method \in {"GET", "HEAD"} /\ ~r.subresource /\ r.bucket = Bucket
              /\ (IF r.object THEN EffectiveACL ELSE Content("acl")) = "public-read"
         /\ Needs(r) = IF r.cred = "none" THEN {"public"} ELSE {"signer", "time"}
<1> DEFINE Entitled(need) ==
             CASE need = "signer" ->
                    /\ r.right = "yes" /\ Exists(r.user)
                    /\ r.cred = "header" => IsUserAllowed(users[r.user], r)
               [] need = "time" ->
                    /\ r.date \in now - Window .. now + Window
                    /\ r.cred = "link" => now <= r.date + r.expires
               [] need = "public" ->
                    /\ r.method \in {"GET", "HEAD"} /\ ~r.subresource /\ r.bucket = Bucket
                    /\ (IF r.object THEN EffectiveACL ELSE Content("acl")) = "public-read"
<1>1. Holds(r) = {need \in Needs(r) : Entitled(need)}
  BY DEF Holds
<1>2. Entitled("signer") <=> /\ r.right = "yes" /\ Exists(r.user)
                             /\ r.cred = "header" => IsUserAllowed(users[r.user], r)
  OBVIOUS
<1>3. Entitled("time") <=> /\ r.date \in now - Window .. now + Window
                           /\ r.cred = "link" => now <= r.date + r.expires
  OBVIOUS
<1>4. Entitled("public") <=>
        /\ r.method \in {"GET", "HEAD"} /\ ~r.subresource /\ r.bucket = Bucket
        /\ (IF r.object THEN EffectiveACL ELSE Content("acl")) = "public-read"
  OBVIOUS
<1> HIDE DEF Entitled
<1>5. Needs(r) = IF r.cred = "none" THEN {"public"} ELSE {"signer", "time"}
  BY DEF Needs
<1>6. \A need : need \in Holds(r) <=> need \in Needs(r) /\ Entitled(need)
  BY <1>1
<1> QED BY <1>2, <1>3, <1>4, <1>5, <1>6

\* Observe, worker by worker.
LEMMA ObserveFacts ==
  ASSUME Observe, Table(granted, Workers), Table(denied, Workers), moved \in [Workers -> 0 .. 2]
  PROVE  /\ Table(granted', Workers) /\ Table(denied', Workers) /\ moved' \in [Workers -> 0 .. 2]
         /\ \A w \in Workers :
              /\ Observed(w)'
              /\ at'[w] # "idle" => granted[w] \subseteq granted'[w] /\ denied[w] \subseteq denied'[w]
              /\ ~Checking(w)' /\ at'[w] # "idle" =>
                   granted'[w] = granted[w] /\ denied'[w] = denied[w] /\ moved'[w] = moved[w]
              /\ at'[w] # "idle" => moved[w] <= moved'[w]
              /\ at'[w] # "idle" /\ (\A d \in {"meta", "acl"} : Content(d)' = Content(d)) =>
                   moved'[w] = moved[w]
              /\ Checking(w) /\ Checking(w)' /\ (\E d \in {"meta", "acl"} : Content(d)' # Content(d)) =>
                   moved'[w] = IF moved[w] < 2 THEN moved[w] + 1 ELSE moved[w]
<1> DEFINE G == [w \in Workers |->
                   CASE Checking(w)' -> granted[w] \cup Holds(req[w])'
                     [] (at[w] = "idle")' -> {}
                     [] OTHER -> granted[w]]
           D == [w \in Workers |->
                   CASE Checking(w)' -> denied[w] \cup (Needs(req[w]) \ Holds(req[w]))'
                     [] (at[w] = "idle")' -> {}
                     [] OTHER -> denied[w]]
           M == [w \in Workers |->
                   CASE Checking(w)' /\ moved[w] < 2 /\ Checking(w)
                          /\ \E d \in {"meta", "acl"} : Content(d)' # Content(d) -> moved[w] + 1
                     [] (at[w] = "idle")' -> 0
                     [] OTHER -> moved[w]]
<1>1. granted' = G /\ denied' = D /\ moved' = M
  BY DEF Observe
<1>2. Table(granted', Workers) /\ Table(denied', Workers)
  BY <1>1 DEF Table
<1>3. \A w \in Workers : Checking(w)' => at'[w] # "idle"
  BY DEF Checking
<1>4. \A w \in Workers :
        granted'[w] = CASE Checking(w)' -> granted[w] \cup Holds(req[w])'
                        [] (at[w] = "idle")' -> {}
                        [] OTHER -> granted[w]
  BY <1>1
<1>5. \A w \in Workers :
        denied'[w] = CASE Checking(w)' -> denied[w] \cup (Needs(req[w]) \ Holds(req[w]))'
                       [] (at[w] = "idle")' -> {}
                       [] OTHER -> denied[w]
  BY <1>1
<1>6. \A w \in Workers :
        moved'[w] = CASE Checking(w)' /\ moved[w] < 2 /\ Checking(w)
                           /\ \E d \in {"meta", "acl"} : Content(d)' # Content(d) -> moved[w] + 1
                      [] (at[w] = "idle")' -> 0
                      [] OTHER -> moved[w]
  BY <1>1
<1>7. moved' \in [Workers -> 0 .. 2]
  <2>1. \A w \in Workers : moved'[w] \in 0 .. 2
    BY <1>6
  <2> QED BY <1>1, <2>1
<1> HIDE DEF G, D, M
<1>8. ASSUME NEW w \in Workers
      PROVE  /\ Observed(w)'
             /\ at'[w] # "idle" => granted[w] \subseteq granted'[w] /\ denied[w] \subseteq denied'[w]
             /\ ~Checking(w)' /\ at'[w] # "idle" => granted'[w] = granted[w] /\ denied'[w] = denied[w]
  <2>1. CASE Checking(w)'
    <3>1. at'[w] # "idle"
      BY <1>3, <2>1
    <3>2. /\ granted'[w] = granted[w] \cup Holds(req[w])'
          /\ denied'[w] = denied[w] \cup (Needs(req[w]) \ Holds(req[w]))'
      BY <1>4, <1>5, <2>1, <3>1
    <3> QED BY <2>1, <3>2 DEF Observed
  <2>2. CASE ~Checking(w)'
    <3>1. at'[w] # "idle" => granted'[w] = granted[w] /\ denied'[w] = denied[w]
      BY <1>4, <1>5, <2>2
    <3> QED BY <2>2, <3>1 DEF Observed
  <2> QED BY <2>1, <2>2
<1>9. ASSUME NEW w \in Workers
      PROVE  /\ ~Checking(w)' /\ at'[w] # "idle" => moved'[w] = moved[w]
             /\ at'[w] # "idle" => moved[w] <= moved'[w]
             /\ at'[w] # "idle" /\ (\A d \in {"meta", "acl"} : Content(d)' = Content(d)) =>
                  moved'[w] = moved[w]
             /\ Checking(w) /\ Checking(w)' /\ (\E d \in {"meta", "acl"} : Content(d)' # Content(d)) =>
                  moved'[w] = IF moved[w] < 2 THEN moved[w] + 1 ELSE moved[w]
  <2>1. moved[w] \in 0 .. 2
    OBVIOUS
  <2> DEFINE Hit == /\ Checking(w)' /\ moved[w] < 2 /\ Checking(w)
                    /\ \E d \in {"meta", "acl"} : Content(d)' # Content(d)
  <2>2. CASE Hit
    <3>1. at'[w] # "idle"
      BY <1>3, <2>2
    <3>2. moved'[w] = moved[w] + 1
      BY <1>6, <2>2, <3>1
    <3> QED BY <2>1, <2>2, <3>2
  <2>3. CASE ~Hit
    <3>1. at'[w] # "idle" => moved'[w] = moved[w]
      BY <1>6, <2>3
    <3>2. Checking(w)' => at'[w] # "idle"
      BY <1>3
    <3> QED BY <2>1, <2>3, <3>1, <3>2
  <2> QED BY <2>2, <2>3
<1> QED BY <1>2, <1>7, <1>8, <1>9

\* A step that is not v's own; it changes at most one of the ACL documents.
Bystander(v) ==
  /\ at'[v] = at[v] /\ req'[v] = req[v] /\ got'[v] = got[v] /\ who'[v] = who[v] /\ info'[v] = info[v]
  /\ now' \in Nat /\ now <= now'
  /\ Content("meta")' = Content("meta") \/ Content("acl")' = Content("acl")

LEMMA BystanderKeeps ==
  ASSUME DocInv, AccessInv, Observe, NEW v \in Workers, Bystander(v)
  PROVE  Credential(v)' /\ Observed(v)' /\ Passed(v)' /\ Settled(v)'
<1> DEFINE r == req[v]
<1>1. /\ at'[v] = at[v] /\ req'[v] = r /\ got'[v] = got[v] /\ who'[v] = who[v] /\ info'[v] = info[v]
      /\ now \in Nat /\ now' \in Nat /\ now <= now'
  BY DEF Bystander, AccessInv, Accounts
<1>2. Credential(v) /\ Observed(v) /\ Passed(v) /\ Settled(v) /\ Placed(v)
  BY DEF AccessInv, DocInv
<1>3. /\ Observed(v)'
      /\ at[v] # "idle" => granted[v] \subseteq granted'[v] /\ denied[v] \subseteq denied'[v]
      /\ ~Checking(v)' /\ at[v] # "idle" =>
           granted'[v] = granted[v] /\ denied'[v] = denied[v] /\ moved'[v] = moved[v]
      /\ at[v] # "idle" => moved[v] <= moved'[v]
      /\ at[v] # "idle" /\ (\A d \in {"meta", "acl"} : Content(d)' = Content(d)) =>
           moved'[v] = moved[v]
      /\ Checking(v) /\ Checking(v)' /\ (\E d \in {"meta", "acl"} : Content(d)' # Content(d)) =>
           moved'[v] = IF moved[v] < 2 THEN moved[v] + 1 ELSE moved[v]
  BY <1>1, ObserveFacts DEF AccessInv, Accounts
<1>4. moved[v] \in 0 .. 2 /\ moved'[v] \in 0 .. 2
  BY ObserveFacts DEF AccessInv, Accounts
<1>5. Credential(v)'
  <2>1. r.cred = "link" /\ r.date <= now /\ r \in Fetches => r.date <= now'
    BY <1>1 DEF Fetches
  <2>2. at[v] \in {"linkExpiry", "linkUser", "linkTime"} => r \in Fetches
    BY <1>2 DEF Credential, Placed, FetchPlaces, CheckPlaces
  <2>3. r.date <= now' \/ at[v] \notin {"linkExpiry", "linkUser", "linkTime"}
    BY <1>2, <2>1, <2>2 DEF Credential
  <2> QED BY <1>1, <1>2, <2>3 DEF Credential, Readable
<1>6. /\ at[v] = "headerTime" =>
           "signer" \in IF IsUserAllowed(who[v], r) THEN granted'[v] ELSE denied'[v]
      /\ at[v] = "linkTime" => "signer" \in granted'[v]
  BY <1>2, <1>3 DEF Passed
<1>7. ASSUME at[v] \in {"linkUser", "linkTime"}, InWindow(r.date)'
      PROVE  "time" \in granted'[v]
  <2>1. r \in Fetches /\ r.date <= now
    BY <1>2, <1>7 DEF Credential, Placed, FetchPlaces, CheckPlaces
  <2>2. r.date \in Nat /\ Window \in Nat
    BY <2>1, AccessAssumption DEF Fetches
  <2>3. now' - r.date <= Window
    BY <1>1, <1>7 DEF InWindow
  <2>4. InWindow(r.date)
    BY <1>1, <2>1, <2>2, <2>3 DEF InWindow
  <2> QED BY <1>2, <1>3, <1>7, <2>4 DEF Passed
<1>8. ASSUME at[v] = "bucketACL", moved'[v] <= 1
      PROVE  /\ "public" \in IF Content("acl")' = "public-read" THEN granted'[v] ELSE denied'[v]
             /\ r.object /\ moved'[v] = 0 => MetaSilent'
  <2>1. /\ r.cred = "none" /\ Readable(r) /\ r \in Fetches /\ r.op = "fetch"
        /\ Checking(v) /\ Checking(v)'
    BY <1>1, <1>2, <1>8 DEF Credential, Placed, FetchPlaces, CheckPlaces, Checking
  <2>2. CASE \A d \in {"meta", "acl"} : Content(d)' = Content(d)
    <3>1. moved'[v] = moved[v]
      BY <1>3, <1>8, <2>2
    <3>2. Content("meta")' = Content("meta") /\ Content("acl")' = Content("acl")
      BY <2>2
    <3>3. /\ "public" \in IF Content("acl") = "public-read" THEN granted[v] ELSE denied[v]
          /\ r.object /\ moved[v] = 0 => MetaSilent
      BY <1>2, <1>8, <3>1 DEF Passed
    <3> QED BY <1>3, <1>8, <3>1, <3>2, <3>3 DEF MetaSilent
  <2>3. CASE \E d \in {"meta", "acl"} : Content(d)' # Content(d)
    <3>1. moved'[v] = 1 /\ moved[v] = 0
      BY <1>3, <1>4, <1>8, <2>1, <2>3
    <3>2. CASE Content("acl")' = Content("acl")
      <4>1. "public" \in IF Content("acl") = "public-read" THEN granted[v] ELSE denied[v]
        BY <1>2, <1>8, <3>1 DEF Passed
      <4> QED BY <1>3, <1>8, <3>1, <3>2, <4>1
    <3>3. CASE Content("acl")' # Content("acl")
      <4>1. Content("meta")' = Content("meta")
        BY <3>3 DEF Bystander
      <4>2. r.object => MetaSilent'
        BY <1>2, <1>8, <3>1, <4>1 DEF Passed, MetaSilent
      <4>3. r.object => (EffectiveACL' = "public-read" <=> Content("acl")' = "public-read")
        <5> SUFFICES ASSUME r.object
                     PROVE  EffectiveACL' = "public-read" <=> Content("acl")' = "public-read"
          OBVIOUS
        <5> DEFINE c == Content("meta")'
                   a == Content("acl")'
        <5>1. c = None \/ (c # Torn /\ c.acl = None)
          BY <4>2 DEF MetaSilent
        <5>2. EffectiveACL' = CASE c = Torn -> "unknown"
                                [] c # Torn /\ c # None /\ c.acl # None -> c.acl
                                [] OTHER -> IF a = None THEN "private" ELSE a
          BY DEF EffectiveACL
        <5>3. None # Torn /\ None # "public-read"
          BY SidecarsAssumption DEF Canned
        <5> HIDE DEF c, a
        <5>4. EffectiveACL' = IF a = None THEN "private" ELSE a
          BY <5>1, <5>2, <5>3
        <5> QED BY <5>3, <5>4 DEF a
      <4>4. r.bucket = Bucket /\ r.object \in BOOLEAN
        BY <2>1, AccessAssumption DEF Readable, Fetches
      <4> DEFINE e == IF r.object THEN EffectiveACL' ELSE Content("acl")'
      <4>5. e = "public-read" <=> Content("acl")' = "public-read"
        BY <4>3, <4>4
      <4>6. /\ Holds(req[v])' \subseteq granted'[v]
            /\ (Needs(req[v]) \ Holds(req[v]))' \subseteq denied'[v]
        BY <1>3, <2>1 DEF Observed
      <4>7. Needs(req[v])' = {"public"}
        BY <1>1, <2>1 DEF Needs
      <4>8. "public" \in Holds(req[v])' <=> e = "public-read"
        <5>1. Holds(req[v])' =
                {need \in Needs(req[v])' :
                   CASE need = "signer" ->
                          /\ req'[v].right = "yes" /\ Exists(req[v].user)'
                          /\ req'[v].cred = "header" => IsUserAllowed(users'[req'[v].user], req'[v])
                     [] need = "time" ->
                          /\ req'[v].date \in now' - Window .. now' + Window
                          /\ req'[v].cred = "link" => now' <= req'[v].date + req'[v].expires
                     [] need = "public" ->
                          /\ req'[v].method \in {"GET", "HEAD"} /\ ~req'[v].subresource /\ req'[v].bucket = Bucket
                          /\ (IF req'[v].object THEN EffectiveACL' ELSE Content("acl")') = "public-read"}
          BY DEF Holds
        <5>2. /\ r.method \in {"GET", "HEAD"} /\ ~r.subresource
          BY <2>1 DEF Readable
        <5> HIDE DEF e
        <5>3. e = IF req'[v].object THEN EffectiveACL' ELSE Content("acl")'
          BY <1>1 DEF e
        <5> QED BY <1>1, <4>4, <4>7, <5>1, <5>2, <5>3
      <4>9. "public" \in IF Content("acl")' = "public-read" THEN granted'[v] ELSE denied'[v]
        BY <4>5, <4>6, <4>7, <4>8
      <4> QED BY <3>1, <4>9
    <3> QED BY <3>2, <3>3
  <2> QED BY <2>2, <2>3
<1>9. Passed(v)'
  <2>1. at'[v] = "headerTime" =>
          "signer" \in IF IsUserAllowed(who'[v], req'[v]) THEN granted'[v] ELSE denied'[v]
    BY <1>1, <1>6
  <2>2. /\ at'[v] \in {"linkUser", "linkTime"} /\ InWindow(req[v].date)' => "time" \in granted'[v]
        /\ at'[v] = "linkTime" => "signer" \in granted'[v]
    BY <1>1, <1>6, <1>7
  <2>3. at'[v] = "bucketACL" /\ moved'[v] <= 1 =>
          "public" \in IF Content("acl")' = "public-read" THEN granted'[v] ELSE denied'[v]
    BY <1>1, <1>8
  <2>4. at'[v] = "bucketACL" /\ req'[v].object /\ moved'[v] = 0 => MetaSilent'
    <3>1. moved'[v] = 0 => moved'[v] <= 1
      OBVIOUS
    <3> QED BY <1>1, <1>8, <3>1
  <2> QED BY <2>1, <2>2, <2>3, <2>4 DEF Passed
<1>10. Settled(v)'
  <2>1. CASE at[v] \in {"granted", "done"}
    <3>1. ~Checking(v)' /\ at[v] # "idle"
      BY <1>1, <2>1 DEF Checking
    <3>2. granted'[v] = granted[v] /\ denied'[v] = denied[v] /\ moved'[v] = moved[v]
      BY <1>3, <3>1
    <3> QED BY <1>1, <1>2, <3>2 DEF Settled, Needs
  <2>2. CASE at[v] \notin {"granted", "done"}
    BY <1>1, <2>2 DEF Settled
  <2> QED BY <2>1, <2>2
<1> QED BY <1>3, <1>5, <1>9, <1>10

\* What a check leaves alone, and what the history says when it is made.
LEMMA CheckFrame ==
  ASSUME DocInv, AccessInv, NEW w \in Workers, CheckStep(w), UNCHANGED info, Observe
  PROVE  /\ req'[w] = req[w] /\ UNCHANGED <<now, users, link, data>> /\ info'[w] = info[w]
         /\ Content("acl")' = Content("acl") /\ Content("meta")' = Content("meta")
         /\ at'[w] # "idle" /\ moved'[w] = moved[w] /\ moved[w] \in 0 .. 2
         /\ granted[w] \subseteq granted'[w] /\ denied[w] \subseteq denied'[w]
         /\ Observed(w)'
         /\ Holds(req[w]) \subseteq granted[w] /\ Needs(req[w]) \ Holds(req[w]) \subseteq denied[w]
         /\ req[w] \in Fetches /\ req[w].op = "fetch"
<1>1. at[w] \in CheckPlaces /\ FetchFrame /\ UNCHANGED accountVars
  BY CheckMoves
<1>2. /\ req'[w] = req[w] /\ UNCHANGED <<now, users, link, data, file, bytes>> /\ info'[w] = info[w]
  BY <1>1 DEF FetchFrame, docVars, accountVars
<1>3. \A d \in {"meta", "acl"} : Content(d)' = Content(d)
  BY <1>2 DEF Content
<1>4. at'[w] # "idle"
  BY CheckKeeps, AdvanceOthers
<1>5. req[w] \in Fetches /\ req[w].op = "fetch" /\ Checking(w)
  BY <1>1 DEF DocInv, AccessInv, Placed, Credential, Checking, FetchPlaces, CheckPlaces
<1>6. /\ moved'[w] = moved[w] /\ moved[w] \in 0 .. 2
      /\ granted[w] \subseteq granted'[w] /\ denied[w] \subseteq denied'[w]
      /\ Observed(w)'
  BY <1>3, <1>4, ObserveFacts DEF AccessInv, Accounts
<1>7. Holds(req[w]) \subseteq granted[w] /\ Needs(req[w]) \ Holds(req[w]) \subseteq denied[w]
  BY <1>5 DEF AccessInv, Observed
<1> QED BY <1>2, <1>3, <1>4, <1>5, <1>6, <1>7

\* A check that ends in an answer; it has a reason.
LEMMA RefusedOwn ==
  ASSUME DocInv, AccessInv, NEW w \in Workers, CheckStep(w), UNCHANGED info, Observe,
         NEW s, Refused(w, s),
         moved[w] <= 1 /\ s \in {"unauthorized", "forbidden"} => denied[w] # {}
  PROVE  Credential(w)' /\ Observed(w)' /\ Passed(w)' /\ Settled(w)'
<1>1. at'[w] = "done" /\ got'[w] = [status |-> s]
  BY DEF DocInv, Tables, Table, Refused, Answer, Reply, Goto
<1>2. Credential(w)' /\ Observed(w)' /\ Passed(w)'
  BY <1>1, CheckFrame DEF Credential, Passed
<1>3. Settled(w)'
  BY <1>1, CheckFrame DEF Settled
<1> QED BY <1>2, <1>3

\* The last check of a request that is let in.
LEMMA GrantOwn ==
  ASSUME DocInv, AccessInv, NEW w \in Workers, CheckStep(w), UNCHANGED info, Observe,
         Grant(w), moved[w] <= 1 => Needs(req[w]) \subseteq granted[w]
  PROVE  Credential(w)' /\ Observed(w)' /\ Passed(w)' /\ Settled(w)'
<1>1. at'[w] = "granted"
  BY DEF DocInv, Tables, Grant, Goto
<1>2. Credential(w)' /\ Observed(w)' /\ Passed(w)'
  BY <1>1, CheckFrame DEF Credential, Passed
<1>3. Needs(req[w])' = Needs(req[w])
  BY CheckFrame DEF Needs
<1>4. Settled(w)'
  BY <1>1, <1>3, CheckFrame DEF Settled
<1> QED BY <1>2, <1>4

LEMMA HeaderOwn ==
  ASSUME DocInv, AccessInv, NEW w \in Workers, HeaderUser(w) \/ HeaderTime(w),
         UNCHANGED info, Observe
  PROVE  Credential(w)' /\ Observed(w)' /\ Passed(w)' /\ Settled(w)'
<1> DEFINE r == req[w]
<1>0. CheckStep(w)
  BY DEF CheckStep
<1>1. /\ at[w] \in {"headerUser", "headerTime"} /\ r.cred = "header" /\ r \in Fetches
      /\ r.date \in Nat /\ now \in Nat /\ Window \in Nat
      /\ r.right \in {"yes", "no", "altered"} /\ Passed(w)
  BY <1>0, CheckFrame, AccessAssumption
     DEF HeaderUser, HeaderTime, AccessInv, Accounts, Credential, Fetches
<1>2. /\ Holds(r) \subseteq granted[w] /\ Needs(r) \ Holds(r) \subseteq denied[w]
      /\ Needs(r) = {"signer", "time"}
  BY <1>0, <1>1, CheckFrame, HoldsFacts
<1>3. "signer" \in Holds(r) <=> r.right = "yes" /\ Exists(r.user) /\ IsUserAllowed(users[r.user], r)
  BY <1>1, HoldsFacts
<1>4. "time" \in Holds(r) <=> InWindow(r.date)
  <2>1. "time" \in Holds(r) <=> r.date \in now - Window .. now + Window
    BY <1>1, HoldsFacts
  <2>2. r.date \in now - Window .. now + Window <=> InWindow(r.date)
    BY <1>1 DEF InWindow
  <2> QED BY <2>1, <2>2
<1>5. CASE HeaderUser(w)
  <2>1. CASE r.right = "altered" /\ Refused(w, "badRequest")
    BY <1>0, <2>1, RefusedOwn
  <2>2. CASE (r.right = "no" \/ (r.right = "yes" /\ ~Exists(r.user))) /\ Refused(w, "unauthorized")
    BY <1>0, <1>2, <1>3, <2>2, RefusedOwn
  <2>3. CASE /\ Exists(r.user) /\ r.right = "yes"
             /\ who' = [who EXCEPT ![w] = users[r.user]]
             /\ Goto(w, "headerTime") /\ UNCHANGED got
    <3>1. at'[w] = "headerTime" /\ who'[w] = users[r.user]
      BY <2>3 DEF DocInv, Tables, AccessInv, Accounts, Table, Goto
    <3>2. "signer" \in IF IsUserAllowed(who'[w], r) THEN granted[w] ELSE denied[w]
      BY <1>2, <1>3, <2>3, <3>1
    <3>3. Credential(w)' /\ Observed(w)' /\ Settled(w)'
      BY <1>0, <1>1, <3>1, CheckFrame DEF Credential, Settled
    <3>4. "signer" \in IF IsUserAllowed(who'[w], req'[w]) THEN granted'[w] ELSE denied'[w]
      BY <1>0, <3>2, CheckFrame
    <3>5. Passed(w)'
      BY <3>1, <3>4 DEF Passed
    <3> QED BY <3>3, <3>5
  <2> QED BY <1>5, <2>1, <2>2, <2>3 DEF HeaderUser
<1>6. CASE HeaderTime(w)
  <2>1. at[w] = "headerTime"
    BY <1>6 DEF HeaderTime
  <2>2. "signer" \in IF IsUserAllowed(who[w], r) THEN granted[w] ELSE denied[w]
    BY <1>1, <2>1 DEF Passed
  <2>3. CASE ~InWindow(r.date) /\ Refused(w, "unauthorized")
    BY <1>0, <1>2, <1>4, <2>3, RefusedOwn
  <2>4. CASE ~IsUserAllowed(who[w], r) /\ Refused(w, "forbidden")
    BY <1>0, <2>2, <2>4, RefusedOwn
  <2>5. CASE InWindow(r.date) /\ IsUserAllowed(who[w], r) /\ Grant(w)
    BY <1>0, <1>2, <1>4, <2>2, <2>5, GrantOwn
  <2> QED BY <1>6, <2>3, <2>4, <2>5 DEF HeaderTime
<1> QED BY <1>5, <1>6

LEMMA LinkOwn ==
  ASSUME DocInv, AccessInv, NEW w \in Workers, LinkExpiry(w) \/ LinkUser(w) \/ LinkTime(w),
         UNCHANGED info, Observe
  PROVE  Credential(w)' /\ Observed(w)' /\ Passed(w)' /\ Settled(w)'
<1> DEFINE r == req[w]
<1>0. CheckStep(w)
  BY DEF CheckStep
<1>1. /\ at[w] \in {"linkExpiry", "linkUser", "linkTime"} /\ r.cred = "link" /\ r \in Fetches
      /\ r.date \in Nat /\ r.expires \in Nat /\ r.date <= now
      /\ now \in Nat /\ Window \in Nat /\ Passed(w)
  BY <1>0, CheckFrame, AccessAssumption
     DEF LinkExpiry, LinkUser, LinkTime, AccessInv, Accounts, Credential, Fetches
<1>2. /\ Holds(r) \subseteq granted[w] /\ Needs(r) \ Holds(r) \subseteq denied[w]
      /\ Needs(r) = {"signer", "time"}
  BY <1>0, <1>1, CheckFrame, HoldsFacts
<1>3. "signer" \in Holds(r) <=> r.right = "yes" /\ Exists(r.user)
  BY <1>1, HoldsFacts
<1>4. "time" \in Holds(r) <=> InWindow(r.date) /\ ~Expired(r)
  <2>1. "time" \in Holds(r) <=> r.date \in now - Window .. now + Window /\ now <= r.date + r.expires
    BY <1>1, HoldsFacts
  <2>2. r.date \in now - Window .. now + Window <=> InWindow(r.date)
    BY <1>1 DEF InWindow
  <2>3. now <= r.date + r.expires <=> ~Expired(r)
    BY <1>1 DEF Expired
  <2> QED BY <2>1, <2>2, <2>3
<1>5. InWindow(req[w].date)' <=> InWindow(r.date)
  BY <1>0, CheckFrame DEF InWindow
<1>6. CASE LinkExpiry(w)
  <2>1. CASE Expired(r)
    <3>1. Refused(w, "unauthorized")
      BY <1>6, <2>1 DEF LinkExpiry
    <3> QED BY <1>0, <1>2, <1>4, <2>1, <3>1, RefusedOwn
  <2>2. CASE ~Expired(r)
    <3>1. at'[w] = "linkUser"
      BY <1>6, <2>2 DEF LinkExpiry, DocInv, Tables, Goto
    <3>2. Credential(w)' /\ Observed(w)' /\ Settled(w)'
      BY <1>0, <1>1, <3>1, CheckFrame DEF Credential, Settled
    <3>3. InWindow(req[w].date)' => "time" \in granted'[w]
      BY <1>0, <1>2, <1>4, <1>5, <2>2, CheckFrame
    <3>4. Passed(w)'
      BY <3>1, <3>3 DEF Passed
    <3> QED BY <3>2, <3>4
  <2> QED BY <2>1, <2>2
<1>7. CASE LinkUser(w)
  <2>1. at[w] = "linkUser"
    BY <1>7 DEF LinkUser
  <2>2. CASE Exists(r.user) /\ r.right = "yes"
    <3>1. at'[w] = "linkTime"
      BY <1>7, <2>2 DEF LinkUser, DocInv, Tables, Goto
    <3>2. Credential(w)' /\ Observed(w)' /\ Settled(w)'
      BY <1>0, <1>1, <3>1, CheckFrame DEF Credential, Settled
    <3>3. InWindow(req[w].date)' => "time" \in granted'[w]
      BY <1>0, <1>1, <1>5, <2>1, CheckFrame DEF Passed
    <3>4. "signer" \in granted'[w]
      BY <1>0, <1>2, <1>3, <2>2, CheckFrame
    <3>5. Passed(w)'
      BY <3>1, <3>3, <3>4 DEF Passed
    <3> QED BY <3>2, <3>5
  <2>3. CASE ~(Exists(r.user) /\ r.right = "yes")
    <3>1. Refused(w, "unauthorized")
      BY <1>7, <2>3 DEF LinkUser
    <3> QED BY <1>0, <1>2, <1>3, <2>3, <3>1, RefusedOwn
  <2> QED BY <2>2, <2>3
<1>8. CASE LinkTime(w)
  <2>1. at[w] = "linkTime"
    BY <1>8 DEF LinkTime
  <2>2. CASE InWindow(r.date)
    <3>1. Grant(w)
      BY <1>8, <2>2 DEF LinkTime
    <3>2. Needs(r) \subseteq granted[w]
      BY <1>1, <1>2, <2>1, <2>2 DEF Passed
    <3> QED BY <1>0, <3>1, <3>2, GrantOwn
  <2>3. CASE ~InWindow(r.date)
    <3>1. Refused(w, "unauthorized")
      BY <1>8, <2>3 DEF LinkTime
    <3> QED BY <1>0, <1>2, <1>4, <2>3, <3>1, RefusedOwn
  <2> QED BY <2>2, <2>3
<1> QED BY <1>6, <1>7, <1>8

\* If the object's own sidecar is silent, the bucket's ACL decides.
LEMMA SilentACL ==
  ASSUME MetaSilent
  PROVE  EffectiveACL = "public-read" <=> Content("acl") = "public-read"
<1> DEFINE c == Content("meta")
           a == Content("acl")
<1>1. c = None \/ (c # Torn /\ c.acl = None)
  BY DEF MetaSilent
<1>2. EffectiveACL = CASE c = Torn -> "unknown"
                       [] c # Torn /\ c # None /\ c.acl # None -> c.acl
                       [] OTHER -> IF a = None THEN "private" ELSE a
  BY DEF EffectiveACL
<1>3. None # Torn /\ None # "public-read"
  BY SidecarsAssumption DEF Canned
<1> HIDE DEF c, a
<1>4. EffectiveACL = IF a = None THEN "private" ELSE a
  BY <1>1, <1>2, <1>3
<1> QED BY <1>3, <1>4 DEF a

LEMMA AnonymousOwn ==
  ASSUME DocInv, AccessInv, NEW w \in Workers, Anonymous(w) \/ ObjectACL(w) \/ BucketACL(w),
         UNCHANGED info, Observe
  PROVE  Credential(w)' /\ Observed(w)' /\ Passed(w)' /\ Settled(w)'
<1> DEFINE r == req[w]
           c == Content("meta")
<1>0. CheckStep(w)
  BY DEF CheckStep
<1>1. /\ at[w] \in {"anonymous", "objectACL", "bucketACL"} /\ r.cred = "none" /\ r \in Fetches
      /\ r.object \in BOOLEAN /\ r.subresource \in BOOLEAN /\ r.bucket \in {Bucket, None} /\ Passed(w)
      /\ Bucket # None /\ at \in [Workers -> Places]
  BY <1>0, CheckFrame, AccessAssumption
     DEF Anonymous, ObjectACL, BucketACL, AccessInv, DocInv, Tables, Credential, Fetches
<1>2. /\ Holds(r) \subseteq granted[w] /\ Needs(r) \ Holds(r) \subseteq denied[w]
      /\ Needs(r) = {"public"}
  BY <1>0, <1>1, CheckFrame, HoldsFacts
<1>3. "public" \in Holds(r) <=>
        Readable(r) /\ (IF r.object THEN EffectiveACL ELSE Content("acl")) = "public-read"
  <2>1. "public" \in Holds(r) <=>
          /\ r.method \in {"GET", "HEAD"} /\ ~r.subresource /\ r.bucket = Bucket
          /\ (IF r.object THEN EffectiveACL ELSE Content("acl")) = "public-read"
    BY <1>1, HoldsFacts
  <2>2. Readable(r) <=> r.method \in {"GET", "HEAD"} /\ ~r.subresource /\ r.bucket = Bucket
    BY <1>1 DEF Readable
  <2> QED BY <2>1, <2>2
<1>4. CASE Anonymous(w)
  <2>1. CASE Readable(r)
    <3>1. at'[w] = IF r.object THEN "objectACL" ELSE "bucketACL"
      BY <1>1, <1>4, <2>1 DEF Anonymous, Goto, Readable
    <3>2. Credential(w)' /\ Observed(w)' /\ Settled(w)'
      BY <1>0, <1>1, <2>1, <3>1, CheckFrame DEF Credential, Settled, Readable
    <3>3. at'[w] = "bucketACL" =>
            "public" \in IF Content("acl")' = "public-read" THEN granted'[w] ELSE denied'[w]
      <4> SUFFICES ASSUME at'[w] = "bucketACL"
                   PROVE  "public" \in IF Content("acl")' = "public-read" THEN granted'[w] ELSE denied'[w]
        OBVIOUS
      <4>1. ~r.object
        BY <1>1, <3>1
      <4>2. "public" \in Holds(r) <=> Content("acl") = "public-read"
        BY <1>3, <2>1, <4>1
      <4>3. "public" \in IF Content("acl") = "public-read" THEN granted[w] ELSE denied[w]
        BY <1>2, <4>2
      <4> QED BY <1>0, <4>3, CheckFrame
    <3>4. at'[w] = "bucketACL" => ~req'[w].object
      BY <1>0, <1>1, <3>1, CheckFrame
    <3>5. Passed(w)'
      BY <3>1, <3>3, <3>4 DEF Passed
    <3> QED BY <3>2, <3>5
  <2>2. CASE ~Readable(r)
    <3>1. Refused(w, "unauthorized")
      BY <1>4, <2>2 DEF Anonymous, Readable
    <3> QED BY <1>0, <1>2, <1>3, <2>2, <3>1, RefusedOwn
  <2> QED BY <2>1, <2>2
<1>5. CASE ObjectACL(w)
  <2>1. at[w] = "objectACL" /\ Readable(r) /\ r.object
    BY <1>0, <1>5, CheckFrame DEF ObjectACL, AccessInv, Credential
  <2>2. "public" \in Holds(r) <=> EffectiveACL = "public-read"
    BY <1>3, <2>1
  <2>3. None # Torn /\ None \notin Canned
    BY SidecarsAssumption
  <2>4. CASE (c = Torn \/ (c \notin {None, Torn} /\ c.acl = "private")) /\ Refused(w, "unauthorized")
    <3>1. EffectiveACL # "public-read"
      BY <2>3, <2>4 DEF EffectiveACL, Canned
    <3> QED BY <1>0, <1>2, <2>2, <2>4, <3>1, RefusedOwn
  <2>5. CASE c \notin {None, Torn} /\ c.acl = "public-read" /\ Grant(w)
    <3>1. EffectiveACL = "public-read"
      BY <2>3, <2>5 DEF EffectiveACL, Canned
    <3> QED BY <1>0, <1>2, <2>2, <2>5, <3>1, GrantOwn
  <2>6. CASE /\ c = None \/ (c \notin {None, Torn} /\ c.acl = None)
             /\ Goto(w, "bucketACL") /\ UNCHANGED <<got, who>>
    <3>1. at'[w] = "bucketACL"
      BY <1>1, <2>6 DEF Goto
    <3>2. MetaSilent
      BY <2>3, <2>6 DEF MetaSilent
    <3>3. "public" \in IF Content("acl") = "public-read" THEN granted[w] ELSE denied[w]
      BY <1>2, <2>2, <3>2, SilentACL
    <3>4. "public" \in IF Content("acl")' = "public-read" THEN granted'[w] ELSE denied'[w]
      BY <1>0, <3>3, CheckFrame
    <3>5. MetaSilent'
      BY <1>0, <3>2, CheckFrame DEF MetaSilent
    <3>6. Passed(w)'
      BY <3>1, <3>4, <3>5 DEF Passed
    <3>7. Credential(w)' /\ Observed(w)' /\ Settled(w)'
      BY <1>0, <1>1, <2>1, <3>1, CheckFrame DEF Credential, Settled, Readable
    <3> QED BY <3>6, <3>7
  <2> QED BY <1>5, <2>4, <2>5, <2>6 DEF ObjectACL
<1>6. CASE BucketACL(w)
  <2>1. moved[w] <= 1 =>
          "public" \in IF Content("acl") = "public-read" THEN granted[w] ELSE denied[w]
    BY <1>1, <1>6 DEF BucketACL, Passed
  <2>2. CASE Content("acl") = "public-read"
    <3>1. Grant(w)
      BY <1>6, <2>2 DEF BucketACL
    <3> QED BY <1>0, <1>2, <2>1, <2>2, <3>1, GrantOwn
  <2>3. CASE Content("acl") # "public-read"
    <3>1. Refused(w, "unauthorized")
      BY <1>6, <2>3 DEF BucketACL
    <3> QED BY <1>0, <2>1, <2>3, <3>1, RefusedOwn
  <2> QED BY <2>2, <2>3
<1> QED BY <1>4, <1>5, <1>6

(***************************************************************************)
(* The handlers behind AuthMiddleware never answer "unauthorized" or       *)
(* "forbidden", and the version a download looked at is one.               *)
(***************************************************************************)
Denials == {"unauthorized", "forbidden"}

LEMMA ContentAnswer ==
  ASSUME NEW r, NEW etag, NEW v \in Held, r.range.form \in {"suffix", "from", "span"},
         r \in Fetches
  PROVE  ServeContent(r, etag, v).status \notin Denials
<1> DEFINE g == r.range
           last == IF g.form = "span" /\ g.last < v.size THEN g.last ELSE v.size - 1
           tail == IF g.last > v.size THEN v.size ELSE g.last
           first == CASE g.first < v.size -> Slice(v, g.first, last - g.first + 1)
                      [] g.first >= v.size /\ v.size = 0 -> Whole(v)
                      [] g.first >= v.size /\ v.size > 0 -> Beyond
           plain == r.ifRange # None /\ r.ifRange # etag
<1>1. ServeContent(r, etag, v) =
        CASE plain -> Whole(v)
          [] (r.ifRange = None \/ r.ifRange = etag) /\ g.form = "suffix" ->
               Slice(v, v.size - tail, tail)
          [] OTHER -> first
  BY DEF ServeContent
<1>2. v.size \in Nat /\ g.first \in Nat
  BY DEF Held, Version, Fetches, Ranges
<1>3. Whole(v).status = "ok" /\ Beyond.status = "unsatisfiable"
      /\ \A from, len : Slice(v, from, len).status = "partial"
  BY DEF Whole, Beyond, Slice
<1>4. first.status \in {"ok", "partial", "unsatisfiable"}
  <2>1. CASE g.first < v.size
    <3>1. first = Slice(v, g.first, last - g.first + 1)
      BY <1>2, <2>1
    <3> QED BY <1>3, <3>1
  <2>2. CASE g.first >= v.size /\ v.size = 0
    <3>1. first = Whole(v)
      BY <1>2, <2>2
    <3> QED BY <1>3, <3>1
  <2>3. CASE g.first >= v.size /\ v.size > 0
    <3>1. first = Beyond
      BY <1>2, <2>3
    <3> QED BY <1>3, <3>1
  <2> QED BY <1>2, <2>1, <2>2, <2>3
<1> HIDE DEF first, last, tail
<1>5. \/ ServeContent(r, etag, v) = Whole(v)
      \/ ServeContent(r, etag, v) = Slice(v, v.size - tail, tail)
      \/ ServeContent(r, etag, v) = first
  <2>1. CASE plain
    BY <1>1, <2>1
  <2>2. CASE ~plain
    BY <1>1, <2>2
  <2> QED BY <2>1, <2>2
<1> QED BY <1>3, <1>4, <1>5 DEF Denials

LEMMA DownloadAnswers ==
  ASSUME DocInv, AccessInv, NEW w \in Workers, DownloadStep(w)
  PROVE  /\ Credential(w)' /\ Sightings'
         /\ \A v \in Workers \ {w} : info'[v] = info[v]
         /\ at'[w] \notin CheckPlaces \cup {"granted"}
         /\ at'[w] = "done" => got'[w].status \notin Denials
<1> DEFINE r == req[w]
           Goal == /\ Credential(w)' /\ Sightings'
                   /\ \A v \in Workers \ {w} : info'[v] = info[v]
                   /\ at'[w] \notin CheckPlaces \cup {"granted"}
                   /\ at'[w] = "done" => got'[w].status \notin Denials
<1>1. /\ FetchFrame /\ UNCHANGED <<accountVars, who>> /\ req'[w] = r
      /\ at \in [Workers -> Places] /\ Table(got, Workers) /\ Sightings
      /\ data \in Held \cup {None}
  BY DownloadMoves DEF FetchFrame, DocInv, Tables, AccessInv, Accounts
<1>2. r \in Fetches /\ r.op = "fetch" /\ Credential(w)
  BY DownloadMoves DEF DocInv, AccessInv, Placed, Credential, FetchPlaces, CheckPlaces
<1>3. ASSUME NEW a, Respond(w, a), a.status \notin Denials
      PROVE  Goal
  <2>1. at'[w] = "done" /\ got'[w] = a /\ info' = [info EXCEPT ![w] = NothingSeen]
    BY <1>1, <1>3 DEF Respond, Reply, Goto, Table
  <2>2. Credential(w)'
    BY <1>1, <1>2, <2>1 DEF Credential
  <2> QED BY <1>1, <1>3, <2>1, <2>2 DEF CheckPlaces, Sightings, NothingSeen
<1>4. CASE Elsewhere(w)
  <2>1. Respond(w, [status |-> "ok"])
    BY <1>4 DEF Elsewhere
  <2> QED BY <1>3, <2>1 DEF Denials
<1>5. CASE Look(w)
  <2>1. CASE Respond(w, [status |-> "notFound"])
    BY <1>3, <2>1 DEF Denials
  <2>2. CASE data # None /\ info' = [info EXCEPT ![w].stat = data] /\ Goto(w, "etag")
    <3>1. at'[w] = "etag"
      BY <1>1, <2>2 DEF Goto
    <3>2. data \in Held
      BY <1>1, <2>2
    <3>3. info' = [info EXCEPT ![w] = [info[w] EXCEPT !.stat = data]]
      BY <2>2
    <3>4. /\ info'[w].stat = data /\ Sightings'
          /\ \A v \in Workers \ {w} : info'[v] = info[v]
      BY <1>1, <3>3 DEF Sightings
    <3>5. Credential(w)'
      BY <1>1, <1>2, <3>1, <3>2, <3>4 DEF Credential
    <3> QED BY <3>1, <3>4, <3>5 DEF CheckPlaces
  <2> QED BY <1>5, <2>1, <2>2 DEF Look
<1>6. CASE LoadETag(w)
  <2>1. CASE Respond(w, [status |-> "failed"])
    BY <1>3, <2>1 DEF Denials
  <2>2. CASE /\ info' = [info EXCEPT ![w].etag = Content("meta").etag]
             /\ Goto(w, "judge")
    <3>1. at'[w] = "judge" /\ info[w].stat \in Held
      BY <1>1, <1>2, <1>6, <2>2 DEF Goto, LoadETag, Credential
    <3>2. info' = [info EXCEPT ![w] = [info[w] EXCEPT !.etag = Content("meta").etag]]
      BY <2>2
    <3>3. /\ info'[w].stat = info[w].stat /\ Sightings'
          /\ \A v \in Workers \ {w} : info'[v] = info[v]
      BY <1>1, <3>2 DEF Sightings
    <3>4. Credential(w)'
      BY <1>1, <1>2, <3>1, <3>3 DEF Credential
    <3> QED BY <3>1, <3>3, <3>4 DEF CheckPlaces
  <2> QED BY <1>6, <2>1, <2>2 DEF LoadETag
<1>7. CASE Judge(w)
  <2> DEFINE verdict == EvaluateGetConditional(r, info[w].etag, info[w].stat.mtime)
             class == ClassifyRange(r.range, info[w].stat.size)
  <2>1. verdict \in {"preconditionFailed", "notModified", "serve"}
    BY DEF EvaluateGetConditional
  <2>2. r.range.form \in {"none", "other"} => class = "ignore"
    BY DEF ClassifyRange
  <2>3. \/ verdict # "serve" /\ Respond(w, [status |-> verdict])
        \/ Respond(w, Beyond)
        \/ /\ Goto(w, IF class = "ignore" THEN "openWhole" ELSE "openSlice")
           /\ UNCHANGED <<got, info>>
    BY <1>7 DEF Judge
  <2> HIDE DEF verdict, class
  <2>4. CASE verdict # "serve" /\ Respond(w, [status |-> verdict])
    BY <1>3, <2>1, <2>4 DEF Denials
  <2>5. CASE Respond(w, Beyond)
    BY <1>3, <2>5 DEF Denials, Beyond
  <2>6. CASE /\ Goto(w, IF class = "ignore" THEN "openWhole" ELSE "openSlice")
             /\ UNCHANGED <<got, info>>
    <3>1. at'[w] = IF class = "ignore" THEN "openWhole" ELSE "openSlice"
      BY <1>1, <2>6 DEF Goto
    <3>2. r.range.form \in {"none", "other", "suffix", "from", "span"}
      BY <1>2 DEF Fetches, Ranges
    <3>3. at'[w] = "openSlice" => r.range.form \in {"suffix", "from", "span"}
      BY <2>2, <3>1, <3>2
    <3>4. Credential(w)'
      BY <1>1, <1>2, <3>1, <3>3 DEF Credential
    <3> QED BY <1>1, <2>6, <3>1, <3>4 DEF CheckPlaces, Sightings
  <2> QED BY <2>3, <2>4, <2>5, <2>6
<1>8. CASE OpenObject(w)
  <2> DEFINE a == CASE data = None -> [status |-> "failed"]
                    [] data # None /\ at[w] = "openWhole" -> Whole(data)
                    [] data # None /\ at[w] = "openSlice" ->
                         ServeContent(r, info[w].etag, data)
  <2>1. Respond(w, a) /\ at[w] \in {"openWhole", "openSlice"}
    BY <1>8 DEF OpenObject
  <2>2. CASE data = None
    BY <1>3, <2>1, <2>2 DEF Denials
  <2>3. CASE data # None /\ at[w] = "openWhole"
    <3>1. a = Whole(data)
      BY <2>3
    <3> HIDE DEF a
    <3>2. a.status = "ok"
      BY <3>1 DEF Whole
    <3> QED BY <1>3, <2>1, <3>2 DEF Denials
  <2>4. CASE data # None /\ at[w] = "openSlice"
    <3>1. a = ServeContent(r, info[w].etag, data)
      BY <2>4
    <3>2. r.range.form \in {"suffix", "from", "span"} /\ data \in Held
      BY <1>1, <1>2, <2>4 DEF Credential
    <3> HIDE DEF a
    <3>3. a.status \notin Denials
      BY <1>2, <3>1, <3>2, ContentAnswer
    <3> QED BY <1>3, <2>1, <3>3
  <2> QED BY <2>1, <2>2, <2>3, <2>4
<1> QED BY <1>4, <1>5, <1>6, <1>7, <1>8 DEF DownloadStep

LEMMA DownloadOwn ==
  ASSUME DocInv, AccessInv, NEW w \in Workers, DownloadStep(w), Observe
  PROVE  Credential(w)' /\ Observed(w)' /\ Passed(w)' /\ Settled(w)'
<1>1. Credential(w)' /\ at'[w] \notin CheckPlaces \cup {"granted"}
  BY DownloadAnswers
<1>2. at'[w] = "done" => got'[w].status \notin Denials
  BY DownloadAnswers
<1>3. Observed(w)'
  BY ObserveFacts DEF AccessInv, Accounts
<1> QED BY <1>1, <1>2, <1>3 DEF Passed, Settled, CheckPlaces, Denials

\* A request that arrives: a signed one, a link as it was minted, or neither.
LEMMA ArriveFetchOwn ==
  ASSUME DocInv, AccessInv, NEW w \in Workers, ArriveFetch(w), Observe
  PROVE  Credential(w)' /\ Observed(w)' /\ Passed(w)' /\ Settled(w)'
<1>1. /\ at \in [Workers -> Places] /\ Table(req, Workers) /\ scenario \in Scenarios
      /\ link = None \/ (link \in Links /\ link.date <= now)
  BY DEF DocInv, Tables, AccessInv, Accounts
<1>2. PICK r \in Jobs[scenario][w] :
        /\ r.op = "fetch"
        /\ \/ /\ r.cred = "header"
              /\ req' = [req EXCEPT ![w] = r]
              /\ Goto(w, "headerUser")
           \/ /\ r.cred = "link" /\ link # None
              /\ req' = [req EXCEPT ![w] = [r EXCEPT !.user = link.user, !.date = link.date,
                                                     !.expires = link.expires]]
              /\ Goto(w, "linkExpiry")
           \/ /\ r.cred = "none"
              /\ req' = [req EXCEPT ![w] = r]
              /\ Goto(w, "anonymous")
  BY DEF ArriveFetch
<1>3. r \in Fetches /\ r.op = "fetch" /\ UNCHANGED accountVars
  BY <1>1, <1>2, DownloadAssumption DEF ArriveFetch
<1>4. Observed(w)'
  BY ObserveFacts DEF AccessInv, Accounts
<1> SUFFICES Credential(w)' /\ Passed(w)' /\ Settled(w)'
  BY <1>4
<1>5. CASE r.cred = "header" /\ req' = [req EXCEPT ![w] = r] /\ Goto(w, "headerUser")
  <2>1. at'[w] = "headerUser" /\ req'[w] = r
    BY <1>1, <1>5 DEF Goto, Table
  <2> QED BY <1>3, <1>5, <2>1 DEF Credential, Passed, Settled
<1>6. CASE /\ r.cred = "link" /\ link # None
           /\ req' = [req EXCEPT ![w] = [r EXCEPT !.user = link.user, !.date = link.date,
                                                  !.expires = link.expires]]
           /\ Goto(w, "linkExpiry")
  <2> DEFINE q == [r EXCEPT !.user = link.user, !.date = link.date, !.expires = link.expires]
  <2>1. at'[w] = "linkExpiry" /\ req'[w] = q
    BY <1>1, <1>6 DEF Goto, Table
  <2>2. link.user \in AccessKeys /\ link.date \in Nat /\ link.expires \in Nat /\ link.date <= now
    BY <1>1, <1>6 DEF Links
  <2>3. q \in Fetches
    BY <1>3, <2>2 DEF Fetches
  <2>4. q.cred = "link" /\ q.date = link.date /\ q.op = "fetch"
    BY <1>3, <1>6 DEF Fetches
  <2>5. now' = now
    BY <1>3 DEF accountVars
  <2> HIDE DEF q
  <2> QED BY <2>1, <2>2, <2>3, <2>4, <2>5 DEF Credential, Passed, Settled
<1>7. CASE r.cred = "none" /\ req' = [req EXCEPT ![w] = r] /\ Goto(w, "anonymous")
  <2>1. at'[w] = "anonymous" /\ req'[w] = r
    BY <1>1, <1>7 DEF Goto, Table
  <2> QED BY <1>3, <1>7, <2>1 DEF Credential, Passed, Settled
<1> QED BY <1>2, <1>5, <1>6, <1>7

\* What a step on the documents leaves of a worker that does not take it, and
\* where it leaves the worker that does.
Proper(r) == r.op # "fetch" /\ (r.op = "upload" => r.version \in Held)

LEMMA SidecarFrame ==
  ASSUME DocInv, AccessInv, NEW w \in Workers, SidecarStep(w)
  PROVE  /\ \A v \in Workers \ {w} : at'[v] = at[v] /\ req'[v] = req[v] /\ got'[v] = got[v]
         /\ at'[w] \in DocPlaces \cup {"idle", "done"}
         /\ at'[w] # "idle" => Proper(req'[w])
<1>1. /\ at \in [Workers -> Places] /\ Table(req, Workers) /\ Table(got, Workers)
  BY DEF DocInv, Tables
<1> DEFINE Moves == \E p \in DocPlaces \cup {"idle", "done"} : Goto(w, p)
           Same == \A v \in Workers \ {w} : req'[v] = req[v] /\ got'[v] = got[v]
           Goal == Moves /\ Same /\ (at'[w] # "idle" => Proper(req'[w]))
<1>2. ASSUME NEW p \in DocPlaces \cup {"idle", "done"}, Goto(w, p)
      PROVE  Moves /\ at'[w] = p /\ \A v \in Workers \ {w} : at'[v] = at[v]
  BY <1>1, <1>2 DEF Goto
<1> SUFFICES Goal
  <2>1. Moves => /\ \A v \in Workers \ {w} : at'[v] = at[v]
                 /\ at'[w] \in DocPlaces \cup {"idle", "done"}
    BY <1>2
  <2> QED BY <2>1
<1>3. ASSUME NEW a, Reply(w, a), UNCHANGED req, Proper(req[w])
      PROVE  Goal
  BY <1>1, <1>2, <1>3 DEF Reply, Table, DocPlaces
<1>4. ASSUME NEW p \in DocPlaces, Goto(w, p), UNCHANGED got, Proper(req'[w]),
             \A v \in Workers \ {w} : req'[v] = req[v]
      PROVE  Goal
  BY <1>2, <1>4
<1>6. CASE Arrive(w)
  <2>1. PICK r : /\ r.op \in DocOps /\ req' = [req EXCEPT ![w] = r] /\ Goto(w, FirstStep(r))
                 /\ UNCHANGED got /\ WellFormed(r) /\ (r.op = "upload" => r.version \in Held)
    BY <1>6, SidecarsAssumption, DownloadAssumption DEF Arrive, DocOps, DocInv, Tables
  <2>2. FirstStep(r) \in DocPlaces
    BY <2>1 DEF FirstStep, DocOps, DocPlaces, WellFormed, Docs, Plain
  <2> QED BY <1>1, <1>2, <2>1, <2>2 DEF Table, DocOps, WellFormed, Proper
<1>7. CASE Finish(w)
  BY <1>1, <1>2, <1>7 DEF Finish, Table, DocPlaces
<1>5. at[w] \in DocPlaces => Proper(req[w])
  BY DEF DocInv, AccessInv, Credential, Placed, DocPlaces, Reads, Proper
<1> HIDE DEF Goal, Moves, Same
<1>8. CASE Load(w)
  <2>1. CASE Answer(w, "failed") /\ UNCHANGED req
    BY <1>3, <1>5, <1>8, <2>1 DEF Load, Answer, DocPlaces
  <2>2. CASE ~(Answer(w, "failed") /\ UNCHANGED req)
    <3>1. PICK x : req' = [req EXCEPT ![w].val = x] /\ Goto(w, "create") /\ UNCHANGED got
      BY <1>8, <2>2 DEF Load
    <3>2. req[w].op = "put" /\ req[w] = [op |-> "put", doc |-> req[w].doc, val |-> req[w].val]
      BY <1>8 DEF Load, DocInv, Placed, Formed
    <3>3. req' = [req EXCEPT ![w] = [req[w] EXCEPT !.val = x]]
      BY <3>1
    <3>4. req'[w].op = "put" /\ \A v \in Workers \ {w} : req'[v] = req[v]
      BY <1>1, <3>2, <3>3 DEF Table
    <3> QED BY <1>4, <3>1, <3>4 DEF DocPlaces, Proper
  <2> QED BY <2>1, <2>2
<1>9. CASE Stat(w)
  <2>1. CASE Answer(w, "noObject")
    BY <1>3, <1>5, <1>9, <2>1 DEF Stat, Answer, DocPlaces
  <2>2. CASE ~Answer(w, "noObject")
    <3> DEFINE p == CASE req[w].op = "get" -> "open"
                      [] req[w].op = "delete" -> "unlink"
                      [] req[w].op = "put" /\ req[w].doc = "tags" -> "create"
                      [] req[w].op = "put" /\ req[w].doc = "meta" -> "load"
    <3>1. Goto(w, p) /\ UNCHANGED <<req, got>> /\ at[w] = "stat"
      BY <1>9, <2>2 DEF Stat
    <3>2. p \in DocPlaces
      BY <3>1 DEF DocInv, Placed, DocPlaces
    <3> HIDE DEF p
    <3> QED BY <1>4, <1>5, <3>1, <3>2 DEF DocPlaces
  <2> QED BY <2>1, <2>2
<1>10. CASE Refuse(w) \/ Open(w) \/ Read(w)
  <2>1. UNCHANGED req /\ at[w] \in DocPlaces
    BY <1>10 DEF Refuse, Open, Read, DocPlaces
  <2>2. (\E a : Reply(w, a)) \/ (Goto(w, "read") /\ UNCHANGED got)
    BY <1>10 DEF Refuse, Open, Read, Answer
  <2> QED BY <1>3, <1>4, <1>5, <2>1, <2>2 DEF DocPlaces
<1>11. CASE Create(w) \/ Write(w) \/ Rename(w) \/ Unlink(w)
  <2>1. UNCHANGED req /\ at[w] \in DocPlaces
    BY <1>11 DEF Create, Write, Rename, Unlink, DocPlaces
  <2>2. (\E a : Reply(w, a)) \/ (\E p \in {"write", "rename"} : Goto(w, p) /\ UNCHANGED got)
    BY <1>11 DEF Create, Write, Rename, Unlink, Answer
  <2> QED BY <1>3, <1>4, <1>5, <2>1, <2>2 DEF DocPlaces
<1>12. CASE Publish(w) \/ Truncate(w) \/ Fill(w) \/ RemoveData(w) \/ RemoveMeta(w)
  <2>1. UNCHANGED req /\ at[w] \in DocPlaces
    BY <1>12 DEF Publish, Truncate, Fill, RemoveData, RemoveMeta, DocPlaces
  <2>2. (\E a : Reply(w, a)) \/ (\E p \in {"truncate", "fill", "removeMeta"} : Goto(w, p) /\ UNCHANGED got)
    BY <1>12 DEF Publish, Truncate, Fill, RemoveData, RemoveMeta, Answer
  <2> QED BY <1>3, <1>4, <1>5, <2>1, <2>2 DEF DocPlaces
<1> QED BY <1>6, <1>7, <1>8, <1>9, <1>10, <1>11, <1>12 DEF SidecarStep

LEMMA SidecarOwn ==
  ASSUME DocInv, AccessInv, NEW w \in Workers, SidecarStep(w), Observe
  PROVE  Credential(w)' /\ Observed(w)' /\ Passed(w)' /\ Settled(w)'
<1>1. /\ at'[w] \in DocPlaces \cup {"idle", "done"}
      /\ at'[w] # "idle" => Proper(req'[w])
  BY SidecarFrame
<1>2. Observed(w)'
  BY ObserveFacts DEF AccessInv, Accounts
<1>3. Credential(w)' /\ Passed(w)' /\ Settled(w)'
  BY <1>1 DEF Credential, Passed, Settled, Proper, DocPlaces
<1> QED BY <1>2, <1>3
-----------------------------------------------------------------------------
\* What the step of one handler does to the documents and the data file.
LEMMA OneChange ==
  ASSUME EnoughNodes, DocInv, AccessInv, NEW w \in Workers, SidecarStep(w)
  PROVE  /\ Content("meta")' = Content("meta") \/ Content("acl")' = Content("acl")
         /\ data' \in Held \cup {None}
<1> DEFINE Goal == /\ Content("meta")' = Content("meta") \/ Content("acl")' = Content("acl")
                   /\ data' \in Held \cup {None}
<1>1. data \in Held \cup {None} /\ "meta" \in Docs /\ "acl" \in Plain /\ Plain \subseteq Docs
  BY DEF AccessInv, Accounts, Docs, Plain
<1>2. ASSUME UNCHANGED docVars
      PROVE  Goal
  BY <1>1, <1>2 DEF docVars, Content
<1>3. CASE Arrive(w) \/ Finish(w) \/ Stat(w) \/ Refuse(w) \/ Load(w) \/ Open(w)
  BY <1>2, <1>3 DEF Arrive, Finish, Stat, Refuse, Load, Open
<1>4. CASE Publish(w)
  <2>1. req[w].version \in Held
    BY <1>4 DEF Publish, DocInv, Placed, AccessInv, Credential
  <2> QED BY <1>4, <2>1 DEF Publish, Content
<1>5. CASE RemoveData(w)
  BY <1>5 DEF RemoveData, Content
<1>6. CASE Create(w)
  BY <1>1, <1>6, CreateKeeps DEF Create
<1>7. CASE Write(w)
  BY <1>1, <1>7, WriteKeeps DEF Write
<1>8. CASE Rename(w)
  <2>1. req[w].doc # "acl" \/ req[w].doc # "meta"
    OBVIOUS
  <2>2. UNCHANGED data
    BY <1>8 DEF Rename
  <2> QED BY <1>1, <1>8, <2>1, <2>2, RenameKeeps
<1>9. CASE Unlink(w) \/ RemoveMeta(w)
  <2>1. Target(req[w]) # "acl" \/ Target(req[w]) # "meta"
    OBVIOUS
  <2>2. UNCHANGED data
    BY <1>9 DEF Unlink, RemoveMeta
  <2> QED BY <1>1, <1>9, <2>1, <2>2, UnlinkKeeps
<1>10. CASE Truncate(w)
  BY <1>1, <1>10, TruncateKeeps DEF Truncate
<1>11. CASE Fill(w)
  BY <1>1, <1>11, FillKeeps DEF Fill
<1>12. CASE Read(w)
  BY <1>1, <1>12, ReadKeeps DEF Read
<1> QED BY <1>3, <1>4, <1>5, <1>6, <1>7, <1>8, <1>9, <1>10, <1>11, <1>12 DEF SidecarStep

\* A check remembers the policy it read, of its own request only.
LEMMA CheckWho ==
  ASSUME AccessInv, NEW w \in Workers, CheckStep(w)
  PROVE  Table(who', Workers) /\ \A v \in Workers \ {w} : who'[v] = who[v]
<1>1. Table(who, Workers)
  BY DEF AccessInv, Accounts
<1>2. UNCHANGED who \/ \E p : who' = [who EXCEPT ![w] = p]
  <2> DEFINE Goal == UNCHANGED who \/ \E p : who' = [who EXCEPT ![w] = p]
  <2>1. HeaderUser(w) \/ HeaderTime(w) => Goal
    BY DEF HeaderUser, HeaderTime, Refused, Grant, Forget
  <2>2. LinkExpiry(w) \/ LinkUser(w) \/ LinkTime(w) => Goal
    BY DEF LinkExpiry, LinkUser, LinkTime, Refused, Grant, Forget
  <2>3. Anonymous(w) \/ ObjectACL(w) \/ BucketACL(w) => Goal
    BY DEF Anonymous, ObjectACL, BucketACL, Refused, Grant, Forget
  <2> QED BY <2>1, <2>2, <2>3 DEF CheckStep
<1> QED BY <1>1, <1>2 DEF Table

\* Administration changes users, links and the clock, which does not go back.
LEMMA AdministrationAccounts ==
  ASSUME AccessInv, Administration
  PROVE  /\ now' \in Nat /\ now <= now'
         /\ link' = None \/ (link' \in Links /\ link'.date <= now')
<1>1. now \in Nat /\ (link = None \/ (link \in Links /\ link.date <= now))
  BY DEF AccessInv, Accounts
<1>2. CASE Tick
  BY <1>1, <1>2 DEF Tick, Links
<1>3. ASSUME NEW u \in AccessKeys, PresignObject(u)
      PROVE  UNCHANGED now /\ link' \in Links /\ link'.date = now
  <2>1. PICK asked \in Asked : link' = [user |-> u, date |-> now, expires |-> Lifetime(asked)]
    BY <1>3 DEF PresignObject
  <2>2. Lifetime(asked) \in Nat
    <3>1. asked = None \/ asked \in Nat
      BY AccessAssumption
    <3>2. MaxExpires \in Nat /\ DefaultExpires \in Nat
      BY AccessAssumption
    <3> QED BY <3>1, <3>2 DEF Lifetime
  <2> QED BY <1>1, <1>3, <2>1, <2>2 DEF Links, PresignObject
<1>4. CASE UNCHANGED <<now, link>>
  BY <1>1, <1>4
<1>5. Tick \/ (\E u \in AccessKeys : PresignObject(u)) \/ UNCHANGED <<now, link>>
  BY DEF Administration, CreateUserWithACL, UpdateUserACL, DeleteUser, BootstrapSuperUser
<1>6. CASE \E u \in AccessKeys : PresignObject(u)
  BY <1>1, <1>3, <1>6
<1> QED BY <1>2, <1>4, <1>5, <1>6

LEMMA AccountsNext ==
  ASSUME EnoughNodes, DocInv, AccessInv, Next
  PROVE  Accounts'
<1>1. Accounts /\ Observe
  BY DEF AccessInv, Next
<1>2. Table(granted', Workers) /\ Table(denied', Workers) /\ moved' \in [Workers -> 0 .. 2]
  BY <1>1, ObserveFacts DEF Accounts
<1> SUFFICES /\ now' \in Nat /\ data' \in Held \cup {None}
             /\ link' = None \/ (link' \in Links /\ link'.date <= now')
             /\ Table(who', Workers) /\ Sightings'
  BY <1>2 DEF Accounts
<1>3. ASSUME NEW w \in Workers, SidecarStep(w), UNCHANGED <<accountVars, who, info>>
      PROVE  Accounts'
  BY <1>1, <1>2, <1>3, OneChange DEF Accounts, accountVars, Table, Sightings
<1>4. ASSUME NEW w \in Workers, CheckStep(w), UNCHANGED info
      PROVE  Accounts'
  <2>1. UNCHANGED <<now, link, data>>
    BY <1>4, CheckMoves DEF accountVars, FetchFrame, docVars
  <2> QED BY <1>1, <1>2, <1>4, <2>1, CheckWho DEF Accounts, Sightings
<1>5. ASSUME NEW w \in Workers, ArriveFetch(w), UNCHANGED info
      PROVE  Accounts'
  BY <1>1, <1>2, <1>5 DEF ArriveFetch, accountVars, docVars, Accounts, Table, Sightings
<1>6. ASSUME NEW w \in Workers, DownloadStep(w)
      PROVE  Accounts'
  <2>1. UNCHANGED <<now, link, data, who>> /\ Sightings'
    BY <1>6, DownloadMoves, DownloadAnswers DEF accountVars, FetchFrame, docVars
  <2> QED BY <1>1, <1>2, <2>1 DEF Accounts, Table
<1>7. CASE Administration /\ UNCHANGED info
  <2>1. UNCHANGED <<data, who>>
    BY <1>7, AdministrationFrame DEF vars, docVars
  <2> QED BY <1>1, <1>7, <2>1, AdministrationAccounts DEF Accounts, Table, Sightings
<1>8. CASE KillAll
  <2>1. UNCHANGED <<now, link, data>>
    BY <1>8 DEF KillAll, Kill, accountVars
  <2> QED BY <1>1, <1>8, <2>1 DEF KillAll, Accounts, Table, Sightings, NothingSeen
<1>9. \A w \in Workers : AccessStep(w) => ArriveFetch(w) \/ CheckStep(w)
  BY DEF AccessStep, CheckStep
<1> QED BY <1>3, <1>4, <1>5, <1>6, <1>7, <1>8, <1>9 DEF Next, Accounts
-----------------------------------------------------------------------------
LEMMA AccessStart ==
  ASSUME DownloadInit
  PROVE  AccessInv
<1>1. /\ scenario \in Scenarios /\ data = Stored[scenario] /\ at = [w \in Workers |-> "idle"]
      /\ now = 0 /\ link = None /\ who = [w \in Workers |-> None]
      /\ granted = [w \in Workers |-> {}] /\ denied = [w \in Workers |-> {}]
      /\ moved = [w \in Workers |-> 0] /\ info = [w \in Workers |-> NothingSeen]
  BY DEF DownloadInit, Init, AccessInit
<1>2. Accounts
  BY <1>1, DownloadAssumption DEF Accounts, Table, Sightings, NothingSeen
<1>3. \A w \in Workers : Credential(w) /\ Observed(w) /\ Passed(w) /\ Settled(w)
  BY <1>1 DEF Credential, Observed, Checking, Passed, Settled
<1> QED BY <1>2, <1>3 DEF AccessInv

\* A step of w is nobody else's.
LEMMA StepFrame ==
  ASSUME EnoughNodes, DocInv, AccessInv, NEW w \in Workers, NEW v \in Workers \ {w},
         \/ SidecarStep(w) /\ UNCHANGED <<accountVars, who, info>>
         \/ AccessStep(w) /\ UNCHANGED info
         \/ DownloadStep(w)
  PROVE  Bystander(v)
<1>1. now \in Nat
  BY DEF AccessInv, Accounts
<1>2. CASE SidecarStep(w) /\ UNCHANGED <<accountVars, who, info>>
  <2>1. at'[v] = at[v] /\ req'[v] = req[v] /\ got'[v] = got[v]
    BY <1>2, SidecarFrame
  <2>2. Content("meta")' = Content("meta") \/ Content("acl")' = Content("acl")
    BY <1>2, OneChange
  <2> QED BY <1>1, <1>2, <2>1, <2>2 DEF Bystander, accountVars
<1>3. ASSUME FetchFrame, Advance(w), UNCHANGED accountVars, who'[v] = who[v], info'[v] = info[v]
      PROVE  Bystander(v)
  <2>1. at'[v] = at[v] /\ req'[v] = req[v] /\ got'[v] = got[v]
    BY <1>3, AdvanceOthers DEF Advance
  <2>2. UNCHANGED <<now, file, bytes>>
    BY <1>3 DEF FetchFrame, docVars, accountVars
  <2> QED BY <1>1, <1>3, <2>1, <2>2 DEF Bystander, Content
<1>4. CASE CheckStep(w) /\ UNCHANGED info
  <2>1. FetchFrame /\ Advance(w) /\ UNCHANGED accountVars /\ who'[v] = who[v] /\ info'[v] = info[v]
    BY <1>4, CheckMoves, CheckKeeps, CheckWho
  <2> QED BY <1>3, <2>1
<1>5. CASE DownloadStep(w)
  <2>1. FetchFrame /\ Advance(w) /\ UNCHANGED <<accountVars, who>> /\ info'[v] = info[v]
    BY <1>5, DownloadMoves, DownloadKeeps, DownloadAnswers
  <2> QED BY <1>3, <2>1
<1>6. CASE ArriveFetch(w) /\ UNCHANGED info
  <2>1. /\ UNCHANGED <<file, bytes, got, now, who>>
        /\ \E r, p : req' = [req EXCEPT ![w] = r] /\ at' = [at EXCEPT ![w] = p]
    BY <1>6 DEF ArriveFetch, docVars, accountVars, Goto
  <2>2. at'[v] = at[v] /\ req'[v] = req[v]
    BY <2>1 DEF DocInv, Tables, Table
  <2> QED BY <1>1, <1>6, <2>1, <2>2 DEF Bystander, Content
<1>7. AccessStep(w) => ArriveFetch(w) \/ CheckStep(w)
  BY DEF AccessStep, CheckStep
<1> QED BY <1>2, <1>4, <1>5, <1>6, <1>7

LEMMA StepOwn ==
  ASSUME DocInv, AccessInv, Observe, NEW w \in Workers,
         SidecarStep(w) \/ (AccessStep(w) /\ UNCHANGED info) \/ DownloadStep(w)
  PROVE  Credential(w)' /\ Observed(w)' /\ Passed(w)' /\ Settled(w)'
<1>1. CASE AccessStep(w) /\ UNCHANGED info
  <2>1. \/ ArriveFetch(w) \/ (HeaderUser(w) \/ HeaderTime(w))
        \/ (LinkExpiry(w) \/ LinkUser(w) \/ LinkTime(w))
        \/ (Anonymous(w) \/ ObjectACL(w) \/ BucketACL(w))
    BY <1>1 DEF AccessStep
  <2> QED BY <1>1, <2>1, ArriveFetchOwn, HeaderOwn, LinkOwn, AnonymousOwn
<1> QED BY <1>1, SidecarOwn, DownloadOwn

LEMMA AccessStutter ==
  ASSUME AccessInv, UNCHANGED allVars
  PROVE  AccessInv'
<1>1. /\ UNCHANGED <<data, file, bytes, at, req, got, now, users, link, who, info>>
      /\ UNCHANGED <<granted, denied, moved>>
  BY DEF allVars, vars, docVars, history, accessVars, accountVars, judgement
<1>2. Accounts'
  BY <1>1 DEF AccessInv, Accounts, Table, Sightings
<1>3. ASSUME NEW w \in Workers
      PROVE  Credential(w)' /\ Observed(w)' /\ Passed(w)' /\ Settled(w)'
  <2>1. Credential(w) /\ Observed(w) /\ Passed(w) /\ Settled(w)
    BY DEF AccessInv
  <2>2. Content("meta")' = Content("meta") /\ Content("acl")' = Content("acl")
    BY <1>1 DEF Content
  <2>3. Credential(w)'
    BY <1>1, <2>1 DEF Credential, Readable
  <2>4. Holds(req[w])' = Holds(req[w]) /\ Needs(req[w])' = Needs(req[w])
    <3>1. EffectiveACL' = EffectiveACL
      BY <2>2 DEF EffectiveACL
    <3> QED BY <1>1, <2>2, <3>1 DEF Holds, Needs, Exists
  <2>5. Observed(w)'
    BY <1>1, <2>1, <2>4 DEF Observed, Checking
  <2>6. Passed(w)'
    BY <1>1, <2>1, <2>2 DEF Passed, MetaSilent, InWindow
  <2>7. Settled(w)'
    BY <1>1, <2>1, <2>4 DEF Settled
  <2> QED BY <2>3, <2>5, <2>6, <2>7
<1> QED BY <1>2, <1>3 DEF AccessInv

LEMMA AccessNext ==
  ASSUME EnoughNodes, DocInv, AccessInv, [Next]_allVars
  PROVE  AccessInv'
<1>1. CASE UNCHANGED allVars
  BY <1>1, AccessStutter
<1>2. ASSUME Next
      PROVE  \A v \in Workers : Credential(v)' /\ Observed(v)' /\ Passed(v)' /\ Settled(v)'
  <2> SUFFICES ASSUME NEW v \in Workers
               PROVE  Credential(v)' /\ Observed(v)' /\ Passed(v)' /\ Settled(v)'
    OBVIOUS
  <2>0. Observe
    BY <1>2 DEF Next
  <2>1. CASE Administration /\ UNCHANGED info
    <3>1. UNCHANGED <<file, bytes, at, req, got, who>>
      BY <2>1, AdministrationFrame DEF vars, docVars
    <3>2. Content("meta")' = Content("meta")
      BY <3>1 DEF Content
    <3>3. Bystander(v)
      BY <2>1, <3>1, <3>2, AdministrationAccounts DEF Bystander
    <3> QED BY <2>0, <3>3, BystanderKeeps
  <2>2. CASE KillAll
    <3>1. at'[v] = "idle"
      BY <2>2 DEF KillAll, Kill
    <3>2. Observed(v)'
      BY <2>0, ObserveFacts DEF AccessInv, Accounts
    <3> QED BY <3>1, <3>2 DEF Credential, Passed, Settled
  <2>3. ASSUME NEW w \in Workers,
               \/ SidecarStep(w) /\ UNCHANGED <<accountVars, who, info>>
               \/ AccessStep(w) /\ UNCHANGED info
               \/ DownloadStep(w)
        PROVE  Credential(v)' /\ Observed(v)' /\ Passed(v)' /\ Settled(v)'
    <3>1. CASE v = w
      BY <2>0, <2>3, <3>1, StepOwn
    <3>2. CASE v # w
      <4>1. Bystander(v)
        BY <2>3, <3>2, StepFrame
      <4> QED BY <2>0, <4>1, BystanderKeeps
    <3> QED BY <3>1, <3>2
  <2> QED BY <1>2, <2>1, <2>2, <2>3 DEF Next
<1>3. CASE Next
  BY <1>2, <1>3, AccountsNext DEF AccessInv
<1> QED BY <1>1, <1>3

LEMMA AccessAlways ==
  ASSUME EnoughNodes, ~Overlap
  PROVE  Spec => []AccessInv
<1>1. DownloadInit => AccessInv
  BY AccessStart
<1>2. DocInv /\ AccessInv /\ [Next]_allVars => AccessInv'
  BY AccessNext
<1> QED BY <1>1, <1>2, DocAlways, PTL DEF Spec

(***************************************************************************)
(* AuthMiddleware lets in no request that lacked what it needs at every    *)
(* moment since it came: its signer with a policy that allows it and a     *)
(* good time, or, without credentials, something public to read.           *)
(***************************************************************************)
THEOREM AuthorizedHolds ==
  ASSUME EnoughNodes, ~Overlap
  PROVE  Spec => []Authorized
<1>1. AccessInv => Authorized
  BY DEF AccessInv, Settled, Authorized
<1> QED BY <1>1, AccessAlways, PTL

(***************************************************************************)
(* AuthMiddleware turns away no request that was entitled throughout, from *)
(* its arrival to its answer, whatever users, links, ACL documents and the *)
(* clock did meanwhile.                                                    *)
(***************************************************************************)
THEOREM RightfulServedHolds ==
  ASSUME EnoughNodes, ~Overlap
  PROVE  Spec => []RightfulServed
<1>1. AccessInv => RightfulServed
  BY DEF AccessInv, Settled, RightfulServed
<1> QED BY <1>1, AccessAlways, PTL
-----------------------------------------------------------------------------
(***************************************************************************)
(* Downloads.  A request on its way to a download: its history holds the   *)
(* version in force, and Torn while the sidecar is not that version's.     *)
(***************************************************************************)
Watching(w) == at[w] \notin {"idle", "done"} /\ Downloads(req[w])
Met(w) == seen[w] \cap Held

Watched(w) ==
  /\ seen[w] \subseteq Held \cup {None, Torn}
  /\ Watching(w) => data \in seen[w] /\ (Unmatched => Torn \in seen[w])

\* Who changes the sidecar of an object has found the object, or made it.
Present(w) ==
  /\ at[w] \in {"load", "create", "write", "rename"} /\ Target(req[w]) = "meta" => data # None
  /\ at[w] \in {"truncate", "fill"} => data # None

\* This ETag is that of a version the request has met.
Known(w, etag) == Torn \in seen[w] \/ \E v \in Met(w) : etag = v.id

\* What a download has found out, step by step.
Informed(w) ==
  LET r == req[w]
      size == info[w].stat.size
      class == ClassifyRange(r.range, size)
  IN
  /\ at[w] \in {"etag", "judge", "openWhole", "openSlice"} =>
       Downloads(r) /\ info[w].stat \in Met(w)
  /\ at[w] = "etag" => Content("meta") \in {None, Torn} \/ Known(w, Content("meta").etag)
  /\ at[w] \in {"judge", "openWhole", "openSlice"} => Known(w, info[w].etag)
  /\ at[w] \in {"openWhole", "openSlice"} =>
       EvaluateGetConditional(r, info[w].etag, info[w].stat.mtime) = "serve"
  /\ at[w] = "openWhole" => ~Understood(r.range) /\ ~OutOfReach(r.range, size)
  /\ at[w] = "openSlice" => Understood(r.range) /\ ~OutOfReach(r.range, size)

\* The answer to a download, in the terms of AnswerMatches.
Explained(r, a, past) ==
  LET versions == past \ {None, Torn} IN
  r.ifUnmodified = None \/ (\A v \in versions : v.mtime % 2 = 0) =>
    /\ \A v \in versions : past = {v} => a.status = Deserved(r, v)
    /\ \/ a.status \in {"notFound", "failed"} /\ None \in past
       \/ a.status \in {"failed", "preconditionFailed", "notModified"} /\ Torn \in past
       \/ a.status \notin {"notFound", "failed"} /\ \E v \in versions : Justified(r, a, v)
       \/ \E e, v \in versions : a.status = Demanded(r, e.id, v.mtime)

Replied(w) ==
  /\ at[w] = "done" /\ Downloads(req[w])
  /\ got[w].status \notin {"unauthorized", "forbidden", "badRequest"}
  => Explained(req[w], got[w], seen[w])

\* The inductive invariant of downloads, on top of those before.
DownInv ==
  /\ Table(seen, Workers)
  /\ \A w \in Workers : Watched(w) /\ Present(w) /\ Informed(w) /\ Replied(w)
-----------------------------------------------------------------------------
\* Preconditions: the handler's reading is the RFC's, on a whole second.
LEMMA VerdictExact ==
  ASSUME NEW r \in Fetches, NEW etag, NEW mtime \in Nat,
         r.ifUnmodified = None \/ mtime % 2 = 0
  PROVE  EvaluateGetConditional(r, etag, mtime) = Demanded(r, etag, mtime)
<1> DEFINE second == mtime - (mtime % 2)
           failed == IF r.ifMatch # None THEN ~EtagMatches(r.ifMatch, etag)
                     ELSE r.ifUnmodified # None /\ mtime > r.ifUnmodified
           fresh == IF r.ifNoneMatch # None THEN EtagMatches(r.ifNoneMatch, etag)
                    ELSE r.ifModified # None /\ second <= r.ifModified
           ok == IF r.ifMatch # None THEN r.ifMatch \cap {etag, AnyTag} # {}
                 ELSE r.ifUnmodified = None \/ second <= r.ifUnmodified
           changed == IF r.ifNoneMatch # None THEN r.ifNoneMatch \cap {etag, AnyTag} = {}
                      ELSE r.ifModified = None \/ r.ifModified < second
<1>1. mtime % 2 \in 0 .. 1 /\ second \in Int
  OBVIOUS
<1>2. \A tags : EtagMatches(tags, etag) <=> tags \cap {etag, AnyTag} # {}
  BY DEF EtagMatches
<1>3. r.ifUnmodified \in Nat \cup {None} /\ r.ifModified \in Nat \cup {None}
  BY DEF Fetches, Dates
<1>4. r.ifUnmodified # None => second = mtime
  BY <1>1
<1>5. failed <=> ~ok
  <2>1. r.ifUnmodified # None => (mtime > r.ifUnmodified <=> ~(second <= r.ifUnmodified))
    BY <1>3, <1>4
  <2> HIDE DEF second
  <2> QED BY <1>2, <2>1
<1>6. fresh <=> ~changed
  <2> HIDE DEF second
  <2>1. r.ifModified # None => (second <= r.ifModified <=> ~(r.ifModified < second))
    BY <1>1, <1>3
  <2> QED BY <1>2, <2>1
<1>7. EvaluateGetConditional(r, etag, mtime) =
        CASE failed -> "preconditionFailed"
          [] ~failed /\ fresh -> "notModified"
          [] ~failed /\ ~fresh -> "serve"
  BY DEF EvaluateGetConditional
<1>8. Demanded(r, etag, mtime) =
        CASE ~ok -> "preconditionFailed"
          [] ok /\ ~changed -> "notModified"
          [] ok /\ changed -> "serve"
  BY DEF Demanded
<1> HIDE DEF failed, fresh, ok, changed
<1> QED BY <1>5, <1>6, <1>7, <1>8

LEMMA VerdictRange ==
  ASSUME NEW r, NEW etag, NEW mtime
  PROVE  EvaluateGetConditional(r, etag, mtime) \in {"preconditionFailed", "notModified", "serve"}
BY DEF EvaluateGetConditional

\* Ranges: what classifyRange makes of a header.
LEMMA ClassExact ==
  ASSUME NEW g \in Ranges, NEW size \in 0 .. MaxInt
  PROVE  /\ ClassifyRange(g, size) \in {"ignore", "unsatisfiable", "satisfiable"}
         /\ ClassifyRange(g, size) = "unsatisfiable" <=> OutOfReach(g, size)
         /\ ClassifyRange(g, size) = "ignore" => ~Understood(g)
         /\ ClassifyRange(g, size) = "satisfiable" => Understood(g)
<1>1. /\ g.form \in {"none", "other", "suffix", "from", "span"} /\ g.first \in Nat /\ g.last \in Nat
      /\ MaxInt \in Nat /\ size \in Nat /\ size <= MaxInt
  BY DownloadAssumption DEF Ranges
<1>2. CASE g.form \in {"none", "other"}
  BY <1>1, <1>2 DEF ClassifyRange, OutOfReach, Understood
<1>3. CASE g.form = "suffix"
  <2>1. ClassifyRange(g, size) = ClassifySuffixRange(g.last, size)
    BY <1>3 DEF ClassifyRange
  <2>2. CASE g.last > MaxInt \/ g.last = 0
    BY <1>1, <1>3, <2>1, <2>2 DEF ClassifySuffixRange, OutOfReach, Understood
  <2>3. CASE g.last \in 1 .. MaxInt /\ size = 0
    BY <1>1, <1>3, <2>1, <2>3 DEF ClassifySuffixRange, OutOfReach, Understood
  <2>4. CASE g.last \in 1 .. MaxInt /\ size # 0
    BY <1>1, <1>3, <2>1, <2>4 DEF ClassifySuffixRange, OutOfReach, Understood
  <2> QED BY <1>1, <2>2, <2>3, <2>4
<1>4. CASE g.form \in {"from", "span"}
  <2>1. ClassifyRange(g, size) = ClassifyOffsetRange(g, size)
    BY <1>4 DEF ClassifyRange
  <2>2. CASE g.first >= size
    BY <1>1, <1>4, <2>1, <2>2 DEF ClassifyOffsetRange, OutOfReach
  <2>3. CASE g.first < size
    <3>1. CASE g.form = "span" /\ (g.last > MaxInt \/ g.last < g.first)
      BY <1>1, <1>4, <2>1, <2>3, <3>1 DEF ClassifyOffsetRange, OutOfReach, Understood
    <3>2. CASE ~(g.form = "span" /\ (g.last > MaxInt \/ g.last < g.first))
      <4>1. g.first <= MaxInt
        BY <1>1, <2>3
      <4>2. ClassifyOffsetRange(g, size) = "satisfiable"
        BY <1>1, <2>3, <3>2, <4>1 DEF ClassifyOffsetRange
      <4>3. ~OutOfReach(g, size)
        BY <1>1, <1>4, <2>3 DEF OutOfReach
      <4>4. Understood(g)
        <5>1. CASE g.form = "from"
          BY <5>1 DEF Understood
        <5>2. CASE g.form = "span"
          <6>1. g.first <= g.last /\ g.last <= MaxInt
            BY <1>1, <3>2, <5>2
          <6> QED BY <5>2, <6>1 DEF Understood
        <5> QED BY <1>4, <5>1, <5>2
      <4> QED BY <2>1, <4>2, <4>3, <4>4
    <3> QED BY <3>1, <3>2
  <2> QED BY <1>1, <2>2, <2>3
<1> QED BY <1>1, <1>2, <1>3, <1>4

\* Answers carry the bytes they say.
LEMMA WholeCarries ==
  ASSUME NEW r, NEW v \in Held
  PROVE  Justified(r, Whole(v), v) /\ Whole(v).status = "ok"
<1>1. v.size \in Nat
  BY DEF Held, Version
<1>2. Carried(Whole(v), v) = 0 .. v.size - 1
  BY <1>1 DEF Carried, Whole
<1>3. Whole(v).status = "ok" /\ Whole(v).version = v.id
  BY DEF Whole
<1> QED BY <1>2, <1>3 DEF Justified

LEMMA SliceCarries ==
  ASSUME NEW r \in Fetches, NEW v \in Held, Understood(r.range),
         NEW from \in Nat, NEW len \in Nat, from + len <= v.size,
         \A p \in 0 .. v.size - 1 : p \in Denoted(r.range, v.size) <=> from <= p /\ p < from + len
  PROVE  Justified(r, Slice(v, from, len), v) /\ Slice(v, from, len).status = "partial"
<1> DEFINE a == Slice(v, from, len)
<1>1. v.size \in Nat
  BY DEF Held, Version
<1>2. a.status = "partial" /\ a.version = v.id /\ a.offset = from /\ a.length = len
  BY DEF Slice
<1> HIDE DEF a
<1>3. Carried(a, v) = {p \in 0 .. v.size - 1 : from <= p /\ p < from + len}
  BY <1>2 DEF Carried
<1>4. Denoted(r.range, v.size) \subseteq 0 .. v.size - 1
  BY DEF Denoted
<1>5. Carried(a, v) = Denoted(r.range, v.size)
  BY <1>3, <1>4
<1>6. Carried(a, v) = from .. from + len - 1
  BY <1>1, <1>3
<1>7. Cardinality(Carried(a, v)) = len
  BY <1>6, FS_Interval
<1> QED BY <1>2, <1>5, <1>7 DEF Justified, a

(***************************************************************************)
(* http.ServeContent with a range that was understood, from the version it *)
(* opened: also if that is not the one by whose size the range was judged. *)
(***************************************************************************)
LEMMA ServedExactly ==
  ASSUME NEW r \in Fetches, NEW etag, NEW v \in Held, Understood(r.range)
  PROVE  /\ Justified(r, ServeContent(r, etag, v), v)
         /\ ServeContent(r, etag, v).status \in {"ok", "partial", "unsatisfiable"}
         /\ ~OutOfReach(r.range, v.size) =>
              ServeContent(r, etag, v).status =
                IF r.ifRange = None \/ r.ifRange = etag THEN "partial" ELSE "ok"
<1> DEFINE g == r.range
           last == IF g.form = "span" /\ g.last < v.size THEN g.last ELSE v.size - 1
           tail == IF g.last > v.size THEN v.size ELSE g.last
           a == ServeContent(r, etag, v)
<1>1. /\ v.size \in 0 .. MaxInt /\ v.size \in Nat /\ g.first \in Nat /\ g.last \in Nat
      /\ g.form \in {"suffix", "from", "span"} /\ g \in Ranges
  <2>1. v.size \in Nat /\ v.size <= MaxInt /\ MaxInt \in Nat
    BY DownloadAssumption DEF Held, Version
  <2>2. g \in Ranges
    BY DEF Fetches
  <2>3. g.form \in {"none", "other", "suffix", "from", "span"} /\ g.first \in Nat /\ g.last \in Nat
    BY <2>2 DEF Ranges
  <2>4. g.form \notin {"none", "other"}
    BY DEF Understood
  <2> QED BY <2>1, <2>2, <2>3, <2>4
<1>2. CASE r.ifRange # None /\ r.ifRange # etag
  <2>1. a = Whole(v)
    BY <1>2 DEF ServeContent
  <2> HIDE DEF a
  <2> QED BY <1>2, <2>1, WholeCarries DEF a
<1>3. CASE (r.ifRange = None \/ r.ifRange = etag) /\ g.form = "suffix"
  <2>1. a = Slice(v, v.size - tail, tail)
    BY <1>3 DEF ServeContent
  <2>2. tail \in Nat /\ v.size - tail \in Nat /\ v.size - tail + tail <= v.size
    BY <1>1
  <2>3. \A p \in 0 .. v.size - 1 :
          p \in Denoted(g, v.size) <=> v.size - tail <= p /\ p < v.size - tail + tail
    BY <1>1, <1>3 DEF Denoted
  <2> HIDE DEF a, tail
  <2>4. Justified(r, a, v) /\ a.status = "partial"
    BY <2>1, <2>2, <2>3, SliceCarries
  <2> QED BY <1>3, <2>4 DEF a
<1>4. CASE (r.ifRange = None \/ r.ifRange = etag) /\ g.form # "suffix"
  <2> DEFINE whole == CASE g.first < v.size -> Slice(v, g.first, last - g.first + 1)
                        [] g.first >= v.size /\ v.size = 0 -> Whole(v)
                        [] g.first >= v.size /\ v.size > 0 -> Beyond
  <2>0. a = whole
    BY <1>4 DEF ServeContent
  <2>1. CASE g.first < v.size
    <3>1. a = Slice(v, g.first, last - g.first + 1)
      BY <1>1, <2>0, <2>1
    <3>2. g.form = "span" => g.first <= g.last
      BY <1>1 DEF Understood
    <3>3. last - g.first + 1 \in Nat /\ g.first + (last - g.first + 1) <= v.size
      BY <1>1, <2>1, <3>2
    <3>4. \A p \in 0 .. v.size - 1 :
            p \in Denoted(g, v.size) <=> g.first <= p /\ p < g.first + (last - g.first + 1)
      <4>1. CASE g.form = "from"
        BY <1>1, <4>1 DEF Denoted
      <4>2. CASE g.form = "span"
        <5>1. \A p \in 0 .. v.size - 1 : p \in Denoted(g, v.size) <=> g.first <= p /\ p <= g.last
          BY <4>2 DEF Denoted
        <5> QED BY <1>1, <4>2, <5>1
      <4> QED BY <1>1, <1>4, <4>1, <4>2
    <3> HIDE DEF a, last, whole
    <3>5. Justified(r, a, v) /\ a.status = "partial"
      BY <1>1, <3>1, <3>3, <3>4, SliceCarries
    <3> QED BY <1>4, <3>5 DEF a
  <2>2. CASE g.first >= v.size
    <3>1. OutOfReach(g, v.size)
      BY <1>1, <1>4, <2>2 DEF OutOfReach
    <3>2. CASE v.size = 0
      <4>1. a = Whole(v)
        BY <1>1, <2>0, <2>2, <3>2
      <4> HIDE DEF a
      <4> QED BY <3>1, <4>1, WholeCarries DEF a
    <3>3. CASE v.size # 0
      <4>1. a = Beyond
        BY <1>1, <2>0, <2>2, <3>3
      <4> HIDE DEF a
      <4>2. Justified(r, a, v) /\ a.status = "unsatisfiable"
        BY <3>1, <4>1 DEF Justified, Beyond
      <4> QED BY <3>1, <4>2 DEF a
    <3> QED BY <3>2, <3>3
  <2> QED BY <1>1, <2>1, <2>2
<1> QED BY <1>2, <1>3, <1>4
-----------------------------------------------------------------------------
\* Watch, worker by worker.
LEMMA WatchFacts ==
  ASSUME Watch, Table(seen, Workers), data' \in Held \cup {None}
  PROVE  /\ Table(seen', Workers)
         /\ \A w \in Workers :
              /\ at'[w] # "idle" => seen[w] \subseteq seen'[w]
              /\ at'[w] = "done" => seen'[w] = seen[w]
              /\ Watching(w)' => data' \in seen'[w] /\ (Unmatched' => Torn \in seen'[w])
              /\ seen[w] \subseteq Held \cup {None, Torn} => seen'[w] \subseteq Held \cup {None, Torn}
<1> DEFINE extra == IF Unmatched' THEN {Torn} ELSE {}
           S == [w \in Workers |->
                   CASE Watching(w)' -> seen[w] \cup {data'} \cup extra
                     [] (at[w] = "idle")' -> {}
                     [] OTHER -> seen[w]]
<1>1. seen' = S
  BY DEF Watch, Watching
<1>2. Table(seen', Workers)
  BY <1>1 DEF Table
<1>3. \A w \in Workers : seen'[w] = CASE Watching(w)' -> seen[w] \cup {data'} \cup extra
                                      [] (at[w] = "idle")' -> {}
                                      [] OTHER -> seen[w]
  BY <1>1
<1>4. Unmatched' => extra = {Torn}
  OBVIOUS
<1>5. extra \subseteq {Torn}
  OBVIOUS
<1>6. \A w \in Workers : Watching(w)' => at'[w] \notin {"idle", "done"}
  BY DEF Watching
<1> HIDE DEF S, extra
<1> SUFFICES ASSUME NEW w \in Workers
             PROVE  /\ at'[w] # "idle" => seen[w] \subseteq seen'[w]
                    /\ at'[w] = "done" => seen'[w] = seen[w]
                    /\ Watching(w)' => data' \in seen'[w] /\ (Unmatched' => Torn \in seen'[w])
                    /\ seen[w] \subseteq Held \cup {None, Torn} =>
                         seen'[w] \subseteq Held \cup {None, Torn}
  BY <1>2
<1>7. CASE Watching(w)'
  <2>1. seen'[w] = seen[w] \cup {data'} \cup extra /\ at'[w] \notin {"idle", "done"}
    BY <1>3, <1>6, <1>7
  <2> QED BY <1>4, <1>5, <1>7, <2>1
<1>8. CASE ~Watching(w)' /\ at'[w] = "idle"
  BY <1>3, <1>8
<1>9. CASE ~Watching(w)' /\ at'[w] # "idle"
  BY <1>3, <1>9
<1> QED BY <1>7, <1>8, <1>9

\* What is known stays known.
LEMMA KnownStays ==
  ASSUME NEW w \in Workers, NEW etag, Known(w, etag), seen[w] \subseteq seen'[w]
  PROVE  Torn \in seen'[w] \/ \E v \in Met(w)' : etag = v.id
BY DEF Known, Met

\* The version in force has the ETag of the sidecar, or the history says so.
LEMMA Current ==
  ASSUME NEW w \in Workers, NEW past, data \in Held, data \in past, Unmatched => Torn \in past,
         Content("meta") \notin {None, Torn}
  PROVE  Torn \in past \/ \E v \in past \cap Held : Content("meta").etag = v.id
<1>1. data # None
  BY SidecarsAssumption DEF Held
<1> QED BY <1>1 DEF Unmatched

(***************************************************************************)
(* A step that is not v's: without a version in force the sidecar can only *)
(* go, and nobody loses the version while changing the sidecar.            *)
(***************************************************************************)
Calm == data' = None => Content("meta")' = Content("meta") \/ Content("meta")' = None

Apart(v) ==
  /\ at'[v] = at[v] /\ req'[v] = req[v] /\ got'[v] = got[v] /\ info'[v] = info[v]
  /\ Calm
  /\ data # None /\ data' = None => v \notin Pending("meta")

LEMMA ApartKeeps ==
  ASSUME DocInv, DownInv, Watch, data' \in Held \cup {None}, NEW v \in Workers, Apart(v)
  PROVE  Watched(v)' /\ Present(v)' /\ Informed(v)' /\ Replied(v)'
<1> DEFINE r == req[v]
<1>1. /\ at'[v] = at[v] /\ req'[v] = r /\ got'[v] = got[v] /\ info'[v] = info[v] /\ Calm
      /\ Watched(v) /\ Present(v) /\ Informed(v) /\ Replied(v) /\ Placed(v)
  BY DEF Apart, DownInv, DocInv
<1>2. /\ at[v] # "idle" => seen[v] \subseteq seen'[v]
      /\ at[v] = "done" => seen'[v] = seen[v]
      /\ Watching(v)' => data' \in seen'[v] /\ (Unmatched' => Torn \in seen'[v])
      /\ seen'[v] \subseteq Held \cup {None, Torn}
  BY <1>1, WatchFacts DEF DownInv, Watched
<1>3. Watched(v)'
  BY <1>2 DEF Watched
<1>4. Present(v)'
  <2>1. CASE \/ at[v] \in {"load", "create", "write", "rename"} /\ Target(r) = "meta"
             \/ at[v] \in {"truncate", "fill"}
    <3>1. v \in Pending("meta")
      BY <1>1, <2>1 DEF Placed, Pending, Changes, Target
    <3> QED BY <1>1, <2>1, <3>1 DEF Present, Apart
  <2>2. CASE ~(\/ at[v] \in {"load", "create", "write", "rename"} /\ Target(r) = "meta"
               \/ at[v] \in {"truncate", "fill"})
    BY <1>1, <2>2 DEF Present
  <2> QED BY <2>1, <2>2
<1>5. Informed(v)'
  <2>1. CASE at[v] \in {"etag", "judge", "openWhole", "openSlice"}
    <3>1. Downloads(r) /\ info[v].stat \in Met(v) /\ Watching(v)'
      BY <1>1, <2>1 DEF Informed, Watching
    <3>2. info[v].stat \in Met(v)' /\ seen[v] \subseteq seen'[v]
      BY <1>2, <2>1, <3>1 DEF Met
    <3>3. ASSUME at[v] = "etag"
          PROVE  Content("meta")' \in {None, Torn} \/ Known(v, Content("meta").etag)'
      <4>1. CASE data' = None
        <5>1. CASE Content("meta")' = None
          BY <5>1
        <5>2. CASE Content("meta")' = Content("meta")
          <6>1. CASE Content("meta") \in {None, Torn}
            BY <5>2, <6>1
          <6>2. CASE Known(v, Content("meta").etag)
            <7>1. Torn \in seen'[v] \/ \E x \in Met(v)' : Content("meta").etag = x.id
              BY <3>2, <6>2, KnownStays
            <7> QED BY <5>2, <7>1 DEF Known
          <6> QED BY <1>1, <3>3, <6>1, <6>2 DEF Informed
        <5> QED BY <1>1, <4>1, <5>1, <5>2 DEF Calm
      <4>2. CASE data' # None
        <5>1. data' \in Held /\ data' \in seen'[v] /\ (Unmatched' => Torn \in seen'[v])
          BY <1>2, <3>1, <4>2
        <5>2. data' \in Met(v)'
          BY <5>1 DEF Met
        <5>3. Content("meta")' \in {None, Torn} \/ Unmatched' \/ Content("meta")'.etag = data'.id
          BY <4>2 DEF Unmatched
        <5> QED BY <5>1, <5>2, <5>3 DEF Known
      <4> QED BY <4>1, <4>2
    <3>4. ASSUME Known(v, info[v].etag)
          PROVE  Known(v, info[v].etag)'
      <4>1. Torn \in seen'[v] \/ \E x \in Met(v)' : info[v].etag = x.id
        BY <3>2, <3>4, KnownStays
      <4> QED BY <1>1, <4>1 DEF Known
    <3> QED BY <1>1, <3>1, <3>2, <3>3, <3>4 DEF Informed
  <2>2. CASE at[v] \notin {"etag", "judge", "openWhole", "openSlice"}
    BY <1>1, <2>2 DEF Informed
  <2> QED BY <2>1, <2>2
<1>6. Replied(v)'
  BY <1>1, <1>2 DEF Replied
<1> QED BY <1>3, <1>4, <1>5, <1>6

LEMMA SidecarCalm ==
  ASSUME EnoughNodes, DocInv, AccessInv, DownInv, NEW w \in Workers, SidecarStep(w)
  PROVE  Calm /\ (data # None /\ data' = None => RemoveData(w))
<1> DEFINE Goal == Calm /\ (data # None /\ data' = None => RemoveData(w))
<1> SUFFICES Goal
  OBVIOUS
<1>1. "meta" \in Docs /\ Present(w) /\ Placed(w) /\ file \in [Docs -> Nodes \cup {None}]
  BY DEF DocInv, Tables, DownInv, Docs
<1>2. ASSUME UNCHANGED data, Content("meta")' = Content("meta") \/ Content("meta")' = None
      PROVE  Goal
  BY <1>2 DEF Calm
<1>3. ASSUME UNCHANGED data, data # None
      PROVE  Goal
  BY <1>3 DEF Calm
<1> HIDE DEF Goal
<1>4. CASE Arrive(w) \/ Finish(w) \/ Stat(w) \/ Refuse(w) \/ Load(w) \/ Open(w)
  <2>1. UNCHANGED docVars
    BY <1>4 DEF Arrive, Finish, Stat, Refuse, Load, Open
  <2> QED BY <1>2, <2>1 DEF docVars, Content
<1>5. CASE Create(w)
  BY <1>1, <1>2, <1>5, CreateKeeps DEF Create
<1>6. CASE Write(w)
  BY <1>1, <1>2, <1>6, WriteKeeps DEF Write
<1>7. CASE Read(w)
  BY <1>1, <1>2, <1>7, ReadKeeps DEF Read
<1>8. CASE Rename(w)
  <2>1. UNCHANGED data /\ at[w] = "rename" /\ req[w].op = "put"
    BY <1>1, <1>8 DEF Rename, Placed
  <2>2. CASE req[w].doc = "meta"
    <3>1. Target(req[w]) = "meta"
      BY <2>1, <2>2 DEF Target
    <3>2. data # None
      BY <1>1, <2>1, <3>1 DEF Present
    <3> QED BY <1>3, <2>1, <3>2
  <2>3. CASE req[w].doc # "meta"
    BY <1>1, <1>2, <1>8, <2>1, <2>3, RenameKeeps
  <2> QED BY <2>2, <2>3
<1>9. CASE Unlink(w)
  <2>1. UNCHANGED data /\ req[w].op = "delete" /\ Formed(req[w])
    BY <1>1, <1>9 DEF Unlink, Placed
  <2>2. Target(req[w]) # "meta"
    BY <2>1 DEF Formed, Target
  <2> QED BY <1>1, <1>2, <1>9, <2>1, <2>2, UnlinkKeeps
<1>10. CASE RemoveMeta(w)
  <2>1. UNCHANGED data /\ file' = [file EXCEPT !["meta"] = None]
    BY <1>10 DEF RemoveMeta
  <2>2. Content("meta")' = None
    BY <1>1, <2>1 DEF Content
  <2> QED BY <1>2, <2>1, <2>2
<1>11. CASE Truncate(w) \/ Fill(w)
  <2>1. UNCHANGED data /\ at[w] \in {"truncate", "fill"}
    BY <1>11 DEF Truncate, Fill
  <2> QED BY <1>1, <1>3, <2>1 DEF Present
<1>12. CASE Publish(w)
  <2>1. data' \in Held
    BY <1>12 DEF Publish, DocInv, Placed, AccessInv, Credential
  <2>2. data' # None
    BY <2>1, SidecarsAssumption DEF Held
  <2> QED BY <2>2 DEF Goal, Calm
<1>13. CASE RemoveData(w)
  BY <1>13 DEF RemoveData, Content, Goal, Calm
<1> QED BY <1>4, <1>5, <1>6, <1>7, <1>8, <1>9, <1>10, <1>11, <1>12, <1>13 DEF SidecarStep

\* Whoever removes the object is alone with it.
LEMMA SidecarApart ==
  ASSUME EnoughNodes, DocInv, AccessInv, DownInv, NEW w \in Workers, SidecarStep(w),
         UNCHANGED info, NEW v \in Workers \ {w}
  PROVE  Apart(v)
<1>1. at'[v] = at[v] /\ req'[v] = req[v] /\ got'[v] = got[v] /\ info'[v] = info[v]
  BY SidecarFrame
<1>2. ASSUME RemoveData(w)
      PROVE  v \notin Pending("meta")
  <2>1. at[w] = "removeData" /\ req[w].op = "remove"
    BY <1>2 DEF RemoveData, DocInv, Placed
  <2>2. Changes(req[w]) /\ Target(req[w]) = "meta" /\ "meta" \in Docs
    BY <2>1 DEF Changes, Target, Docs
  <2> QED BY <2>1, <2>2, AloneAt DEF Pending
<1> QED BY <1>1, <1>2, SidecarCalm DEF Apart

LEMMA SidecarDown ==
  ASSUME EnoughNodes, DocInv, AccessInv, DownInv, Watch, NEW w \in Workers, SidecarStep(w)
  PROVE  Watched(w)' /\ Present(w)' /\ Informed(w)' /\ Replied(w)'
<1>1. /\ at'[w] \in DocPlaces \cup {"idle", "done"}
      /\ at'[w] # "idle" => Proper(req'[w])
      /\ at \in [Workers -> Places] /\ Table(req, Workers)
      /\ Present(w) /\ Placed(w)
  BY SidecarFrame DEF DocInv, Tables, DownInv
<1>2. Watched(w)'
  BY OneChange, WatchFacts DEF DownInv, Watched
<1>3. Informed(w)'
  BY <1>1 DEF Informed, DocPlaces
<1>4. Replied(w)'
  BY <1>1 DEF Replied, Proper, Downloads
<1> SUFFICES Present(w)'
  BY <1>2, <1>3, <1>4
<1>5. ASSUME data' # None \/ at'[w] \notin {"load", "create", "write", "rename", "truncate", "fill"}
      PROVE  Present(w)'
  BY <1>5 DEF Present
<1>6. CASE Arrive(w)
  <2>1. PICK r : /\ r.op \in DocOps /\ req' = [req EXCEPT ![w] = r] /\ Goto(w, FirstStep(r))
                 /\ WellFormed(r)
    BY <1>6, SidecarsAssumption DEF Arrive, DocOps, DocInv, Tables
  <2>2. at'[w] = FirstStep(r) /\ req'[w] = r
    BY <1>1, <2>1 DEF Goto, Table
  <2>3. FirstStep(r) \in {"publish", "removeData", "open", "stat", "unlink"}
        \/ (FirstStep(r) = "create" /\ Target(r) # "meta")
    BY <2>1 DEF FirstStep, DocOps, WellFormed, Docs, Plain, Target
  <2> QED BY <2>2, <2>3 DEF Present
<1>7. CASE Finish(w)
  BY <1>1, <1>5, <1>7 DEF Finish, Goto
<1>8. CASE Stat(w)
  <2>1. CASE data = None
    BY <1>1, <1>5, <1>8, <2>1 DEF Stat, Answer, Reply, Goto
  <2>2. CASE data # None
    BY <1>5, <1>8, <2>2 DEF Stat, docVars
  <2> QED BY <2>1, <2>2
<1>9. CASE Load(w)
  <2>1. data # None
    BY <1>1, <1>9 DEF Load, Present, Placed, Target
  <2> QED BY <1>5, <1>9, <2>1 DEF Load, docVars
<1>10. CASE Create(w) \/ Write(w)
  <2>1. /\ at[w] \in {"create", "write"} /\ UNCHANGED <<data, req>>
        /\ at'[w] \in {"write", "rename", "done"}
    BY <1>1, <1>10 DEF Create, Write, Answer, Reply, Goto
  <2> QED BY <1>1, <2>1 DEF Present
<1>11. CASE Truncate(w)
  <2>1. data # None
    BY <1>1, <1>11 DEF Truncate, Present
  <2> QED BY <1>5, <1>11, <2>1 DEF Truncate
<1>12. CASE Publish(w)
  <2>1. data' \in Held
    BY <1>12 DEF Publish, DocInv, Placed, AccessInv, Credential
  <2> QED BY <1>5, <2>1, SidecarsAssumption DEF Held
<1>13. CASE Refuse(w) \/ Rename(w) \/ Unlink(w)
  <2>1. \E s : Answer(w, s)
    BY <1>13 DEF Refuse, Rename, Unlink
  <2> QED BY <1>1, <1>5, <2>1 DEF Answer, Reply, Goto
<1>14. CASE Fill(w) \/ RemoveData(w) \/ RemoveMeta(w) \/ Open(w) \/ Read(w)
  <2>1. (\E a : Reply(w, a)) \/ Goto(w, "removeMeta") \/ Goto(w, "read")
    BY <1>14 DEF Fill, RemoveData, RemoveMeta, Open, Read, Answer
  <2> QED BY <1>1, <1>5, <2>1 DEF Reply, Goto
<1> QED BY <1>6, <1>7, <1>8, <1>9, <1>10, <1>11, <1>12, <1>13, <1>14 DEF SidecarStep

\* A request under check is not yet a download.
LEMMA CheckDown ==
  ASSUME DocInv, AccessInv, DownInv, Watch, NEW w \in Workers,
         CheckStep(w) \/ ArriveFetch(w)
  PROVE  Watched(w)' /\ Present(w)' /\ Informed(w)' /\ Replied(w)'
<1>1. /\ at \in [Workers -> Places] /\ Table(got, Workers) /\ data \in Held \cup {None}
  BY DEF DocInv, Tables, AccessInv, Accounts
<1>2. UNCHANGED data
  BY CheckMoves DEF ArriveFetch, FetchFrame, docVars
<1>3. /\ at'[w] \in CheckPlaces \cup {"granted", "done"}
      /\ at'[w] = "done" => got'[w].status \in {"badRequest", "unauthorized", "forbidden"}
  <2>1. CASE ArriveFetch(w)
    BY <1>1, <2>1 DEF ArriveFetch, Goto, CheckPlaces
  <2>2. ASSUME NEW p \in CheckPlaces \cup {"granted"}, Goto(w, p)
        PROVE  at'[w] \in CheckPlaces \cup {"granted"}
    BY <1>1, <2>2 DEF Goto
  <2>3. ASSUME NEW s \in {"badRequest", "unauthorized", "forbidden"}, Answer(w, s)
        PROVE  at'[w] = "done" /\ got'[w].status = s
    BY <1>1, <2>3 DEF Answer, Reply, Goto, Table
  <2>4. CASE CheckStep(w)
    BY <2>2, <2>3, <2>4, CheckMoves DEF CheckPlaces
  <2> QED BY <2>1, <2>4
<1>4. Watched(w)'
  BY <1>1, <1>2, WatchFacts DEF DownInv, Watched
<1> QED BY <1>3, <1>4 DEF Present, Informed, Replied, CheckPlaces

\* Failures that the history explains.
LEMMA ExplainedAway ==
  ASSUME NEW r, NEW a, NEW past,
         \/ a.status \in {"notFound", "failed"} /\ None \in past
         \/ a.status \in {"failed", "preconditionFailed", "notModified"} /\ Torn \in past
  PROVE  Explained(r, a, past)
<1>1. \A v \in past \ {None, Torn} : past # {v}
  OBVIOUS
<1> QED BY <1>1 DEF Explained

\* Answers that carry what they should of a version that was met.
LEMMA ExplainedBy ==
  ASSUME NEW r, NEW a, NEW past, NEW v \in past \cap Held,
         a.status \notin {"notFound", "failed"}, Justified(r, a, v),
         r.ifUnmodified = None \/ v.mtime % 2 = 0 =>
           (past = {v} => a.status = Deserved(r, v))
  PROVE  Explained(r, a, past)
<1>1. v \in past \ {None, Torn}
  BY SidecarsAssumption DEF Held
<1>2. \A x : past = {x} => x = v
  BY <1>1
<1> QED BY <1>1, <1>2 DEF Explained

\* With one version about, a request knows its ETag.
LEMMA OnlyOne ==
  ASSUME NEW w \in Workers, NEW v \in Held, seen[w] = {v}, NEW etag, Known(w, etag)
  PROVE  etag = v.id
<1>1. v # Torn
  BY SidecarsAssumption DEF Held
<1> QED BY <1>1 DEF Known, Met

LEMMA DeservedIs ==
  ASSUME NEW r \in Fetches, NEW v \in Held, r.ifUnmodified = None \/ v.mtime % 2 = 0
  PROVE  LET verdict == EvaluateGetConditional(r, v.id, v.mtime) IN
         Deserved(r, v) =
           IF verdict # "serve" THEN verdict
           ELSE IF OutOfReach(r.range, v.size) THEN "unsatisfiable"
           ELSE IF Understood(r.range) /\ (r.ifRange = None \/ r.ifRange = v.id)
                THEN "partial" ELSE "ok"
<1> DEFINE verdict == EvaluateGetConditional(r, v.id, v.mtime)
<1>1. v.mtime \in Nat
  BY DEF Held, Version
<1>2. verdict = Demanded(r, v.id, v.mtime)
  BY <1>1, VerdictExact
<1> DEFINE demanded == Demanded(r, v.id, v.mtime)
<1>3. Deserved(r, v) =
        CASE demanded # "serve" -> demanded
          [] demanded = "serve" /\ OutOfReach(r.range, v.size) -> "unsatisfiable"
          [] demanded = "serve" /\ ~OutOfReach(r.range, v.size) ->
               IF Understood(r.range) /\ r.ifRange \in {None, v.id} THEN "partial" ELSE "ok"
  BY DEF Deserved
<1> HIDE DEF verdict, demanded
<1> USE <1>2 DEF demanded
<1>4. CASE verdict # "serve"
  BY <1>3, <1>4 DEF verdict
<1>5. CASE verdict = "serve" /\ OutOfReach(r.range, v.size)
  BY <1>3, <1>5 DEF verdict
<1>6. CASE verdict = "serve" /\ ~OutOfReach(r.range, v.size)
  BY <1>3, <1>6 DEF verdict
<1> QED BY <1>4, <1>5, <1>6

\* A judgement by the version looked at and by an ETag that was known.
LEMMA JudgeExplained ==
  ASSUME NEW w \in Workers, NEW r \in Fetches, NEW v \in Met(w), NEW etag, Known(w, etag),
         NEW verdict, verdict = EvaluateGetConditional(r, etag, v.mtime)
  PROVE  /\ verdict # "serve" => Explained(r, [status |-> verdict], seen[w])
         /\ verdict = "serve" /\ OutOfReach(r.range, v.size) => Explained(r, Beyond, seen[w])
<1>1. v \in seen[w] \cap Held /\ v.mtime \in Nat
  BY DEF Met, Held, Version
<1>2. \A x : seen[w] = {x} => x = v
  BY <1>1
<1>3. ASSUME seen[w] = {v}, r.ifUnmodified = None \/ v.mtime % 2 = 0
      PROVE  Deserved(r, v) = IF verdict # "serve" THEN verdict
                              ELSE IF OutOfReach(r.range, v.size) THEN "unsatisfiable"
                              ELSE IF Understood(r.range) /\ (r.ifRange = None \/ r.ifRange = v.id)
                                   THEN "partial" ELSE "ok"
  <2>1. etag = v.id
    BY <1>1, <1>3, OnlyOne
  <2> QED BY <1>1, <1>3, <2>1, DeservedIs
<1>4. ASSUME verdict # "serve"
      PROVE  Explained(r, [status |-> verdict], seen[w])
  <2> DEFINE a == [status |-> verdict]
  <2>1. a.status = verdict /\ verdict \in {"preconditionFailed", "notModified"}
    BY <1>4, VerdictRange
  <2> SUFFICES Explained(r, a, seen[w])
    OBVIOUS
  <2> HIDE DEF a
  <2>2. CASE Torn \in seen[w]
    BY <2>1, <2>2, ExplainedAway
  <2>3. CASE Torn \notin seen[w]
    <3>1. PICK e \in Met(w) : etag = e.id
      BY <2>3 DEF Known
    <3>2. e \in seen[w] \ {None, Torn} /\ v \in seen[w] \ {None, Torn}
      BY <1>1, SidecarsAssumption DEF Met, Held
    <3>3. ASSUME r.ifUnmodified = None \/ \A x \in seen[w] \ {None, Torn} : x.mtime % 2 = 0
          PROVE  /\ \A x \in seen[w] \ {None, Torn} : seen[w] = {x} => a.status = Deserved(r, x)
                 /\ a.status = Demanded(r, e.id, v.mtime)
      <4>1. r.ifUnmodified = None \/ v.mtime % 2 = 0
        BY <3>2, <3>3
      <4>2. verdict = Demanded(r, e.id, v.mtime)
        BY <1>1, <3>1, <4>1, VerdictExact
      <4>3. seen[w] = {v} => verdict = Deserved(r, v)
        BY <1>3, <1>4, <4>1
      <4> QED BY <1>2, <2>1, <4>2, <4>3
    <3>4. ASSUME r.ifUnmodified = None \/ \A x \in seen[w] \ {None, Torn} : x.mtime % 2 = 0
          PROVE  \E x, y \in seen[w] \ {None, Torn} : a.status = Demanded(r, x.id, y.mtime)
      BY <3>2, <3>3, <3>4
    <3> QED BY <3>3, <3>4, Zenon DEF Explained
  <2> QED BY <2>2, <2>3
<1>5. ASSUME verdict = "serve", OutOfReach(r.range, v.size)
      PROVE  Explained(r, Beyond, seen[w])
  <2>1. Beyond.status = "unsatisfiable"
    BY DEF Beyond
  <2>2. Justified(r, Beyond, v)
    BY <1>5, <2>1 DEF Justified
  <2>3. r.ifUnmodified = None \/ v.mtime % 2 = 0 =>
          (seen[w] = {v} => Beyond.status = Deserved(r, v))
    BY <1>3, <1>5, <2>1
  <2> QED BY <1>1, <2>1, <2>2, <2>3, ExplainedBy
<1> QED BY <1>4, <1>5

\* What is served, from the version v that was opened.
LEMMA ServedExplained ==
  ASSUME NEW w \in Workers, NEW r \in Fetches, NEW v \in Met(w), NEW stat \in Met(w),
         NEW etag, Known(w, etag), EvaluateGetConditional(r, etag, stat.mtime) = "serve",
         ~OutOfReach(r.range, stat.size)
  PROVE  /\ ~Understood(r.range) => Explained(r, Whole(v), seen[w])
         /\ Understood(r.range) => Explained(r, ServeContent(r, etag, v), seen[w])
<1>1. v \in seen[w] \cap Held /\ stat \in seen[w]
  BY DEF Met
<1>2. ASSUME seen[w] = {v}, r.ifUnmodified = None \/ v.mtime % 2 = 0
      PROVE  /\ stat = v /\ etag = v.id
             /\ Deserved(r, v) = IF Understood(r.range) /\ (r.ifRange = None \/ r.ifRange = v.id)
                                 THEN "partial" ELSE "ok"
  <2>1. stat = v /\ etag = v.id
    BY <1>1, <1>2, OnlyOne
  <2> QED BY <1>1, <1>2, <2>1, DeservedIs
<1>3. ASSUME ~Understood(r.range)
      PROVE  Explained(r, Whole(v), seen[w])
  <2>1. Whole(v).status = "ok" /\ Justified(r, Whole(v), v)
    BY <1>1, WholeCarries
  <2>2. r.ifUnmodified = None \/ v.mtime % 2 = 0 =>
          (seen[w] = {v} => Whole(v).status = Deserved(r, v))
    BY <1>2, <1>3, <2>1
  <2> QED BY <1>1, <2>1, <2>2, ExplainedBy
<1>4. ASSUME Understood(r.range)
      PROVE  Explained(r, ServeContent(r, etag, v), seen[w])
  <2> DEFINE a == ServeContent(r, etag, v)
  <2>1. /\ Justified(r, a, v) /\ a.status \in {"ok", "partial", "unsatisfiable"}
        /\ ~OutOfReach(r.range, v.size) =>
             a.status = IF r.ifRange = None \/ r.ifRange = etag THEN "partial" ELSE "ok"
    BY <1>1, <1>4, ServedExactly
  <2> HIDE DEF a
  <2>2. r.ifUnmodified = None \/ v.mtime % 2 = 0 =>
          (seen[w] = {v} => a.status = Deserved(r, v))
    BY <1>2, <1>4, <2>1
  <2>3. a.status \notin {"notFound", "failed"}
    BY <2>1
  <2>4. Explained(r, a, seen[w])
    BY <1>1, <2>1, <2>2, <2>3, ExplainedBy
  <2> QED BY <2>4 DEF a
<1> QED BY <1>3, <1>4

LEMMA DownloadDown ==
  ASSUME DocInv, AccessInv, DownInv, Watch, NEW w \in Workers, DownloadStep(w)
  PROVE  Watched(w)' /\ Present(w)' /\ Informed(w)' /\ Replied(w)'
<1> DEFINE r == req[w]
           stat == info[w].stat
           etag == info[w].etag
           c == Content("meta")
<1>1. /\ UNCHANGED <<data, file, bytes>> /\ req' = req
      /\ at \in [Workers -> Places] /\ Table(got, Workers) /\ Sightings
      /\ data \in Held \cup {None} /\ at[w] \in FetchPlaces \ CheckPlaces
  BY DownloadMoves DEF FetchFrame, docVars, DocInv, Tables, AccessInv, Accounts
<1>2. /\ r \in Fetches /\ r.op = "fetch" /\ Informed(w) /\ Watched(w)
      /\ at[w] \notin {"idle", "done"}
  BY <1>1 DEF DocInv, AccessInv, Placed, Credential, DownInv, FetchPlaces, CheckPlaces
<1>3. /\ Watched(w)' /\ (at'[w] = "done" => seen'[w] = seen[w])
      /\ at'[w] # "idle" => seen[w] \subseteq seen'[w]
      /\ Watching(w)' => data \in seen'[w] /\ (Unmatched' => Torn \in seen'[w])
  BY <1>1, <1>2, WatchFacts DEF DownInv, Watched
<1>4. ASSUME Downloads(r)
      PROVE  data \in seen[w] /\ (Unmatched => Torn \in seen[w])
  BY <1>2, <1>4 DEF Watched, Watching
<1>5. c' = c
  BY <1>1 DEF Content
<1> SUFFICES Present(w)' /\ Informed(w)' /\ Replied(w)'
  BY <1>3
<1>6. ASSUME NEW a, Respond(w, a), Downloads(r) => Explained(r, a, seen[w])
      PROVE  Present(w)' /\ Informed(w)' /\ Replied(w)'
  <2>1. at'[w] = "done" /\ got'[w] = a
    BY <1>1, <1>6 DEF Respond, Reply, Goto, Table
  <2>2. Replied(w)'
    BY <1>1, <1>3, <1>6, <2>1 DEF Replied
  <2> QED BY <2>1, <2>2 DEF Present, Informed
<1>7. CASE Elsewhere(w)
  BY <1>6, <1>7 DEF Elsewhere
<1>8. CASE Look(w)
  <2>1. Downloads(r)
    BY <1>8 DEF Look
  <2>2. CASE data = None /\ Respond(w, [status |-> "notFound"])
    <3>1. Explained(r, [status |-> "notFound"], seen[w])
      BY <1>4, <2>1, <2>2, ExplainedAway
    <3> QED BY <1>6, <2>2, <3>1
  <2>3. CASE data # None /\ info' = [info EXCEPT ![w].stat = data] /\ Goto(w, "etag")
    <3>1. at'[w] = "etag" /\ Watching(w)'
      BY <1>1, <2>1, <2>3 DEF Goto, Watching
    <3>2. info' = [info EXCEPT ![w] = [info[w] EXCEPT !.stat = data]]
      BY <2>3
    <3>3. info'[w].stat = data
      BY <1>1, <3>2 DEF Sightings
    <3>4. data \in Held /\ data \in seen'[w] /\ (Unmatched' => Torn \in seen'[w]) /\ data' = data
      BY <1>1, <1>3, <2>3, <3>1
    <3>5. data \in Met(w)'
      BY <3>4 DEF Met
    <3>6. c' \in {None, Torn} \/ Unmatched' \/ c'.etag = data.id
      BY <2>3, <3>4 DEF Unmatched
    <3>7. c' \in {None, Torn} \/ Known(w, c.etag)'
      BY <3>4, <3>5, <3>6 DEF Known
    <3>8. Informed(w)'
      BY <1>1, <2>1, <3>1, <3>3, <3>5, <3>7 DEF Informed
    <3> QED BY <3>1, <3>8 DEF Present, Replied
  <2> QED BY <1>8, <2>2, <2>3 DEF Look
<1>9. CASE LoadETag(w)
  <2>1. Downloads(r) /\ stat \in Met(w) /\ at[w] = "etag"
        /\ (c \in {None, Torn} \/ Known(w, c.etag))
    BY <1>2, <1>9 DEF LoadETag, Informed
  <2>2. CASE (c = Torn \/ (c = None /\ data = None)) /\ Respond(w, [status |-> "failed"])
    <3>1. None \in seen[w] \/ Torn \in seen[w]
      <4>1. CASE data = None
        BY <1>4, <2>1, <4>1
      <4>2. CASE data # None
        <5>1. Unmatched
          BY <2>2, <4>2 DEF Unmatched
        <5> QED BY <1>4, <2>1, <5>1
      <4> QED BY <4>1, <4>2
    <3>2. Explained(r, [status |-> "failed"], seen[w])
      BY <3>1, ExplainedAway
    <3> QED BY <1>6, <2>2, <3>2
  <2>3. CASE c \notin {Torn, None} /\ info' = [info EXCEPT ![w].etag = c.etag] /\ Goto(w, "judge")
    <3>1. at'[w] = "judge" /\ Watching(w)'
      BY <1>1, <2>1, <2>3 DEF Goto, Watching
    <3>2. info' = [info EXCEPT ![w] = [info[w] EXCEPT !.etag = c.etag]]
      BY <2>3
    <3>3. info'[w].stat = stat /\ info'[w].etag = c.etag
      BY <1>1, <3>2 DEF Sightings
    <3>4. stat \in Met(w)' /\ seen[w] \subseteq seen'[w]
      BY <1>3, <2>1, <3>1 DEF Met
    <3>5. Torn \in seen'[w] \/ \E v \in Met(w)' : c.etag = v.id
      BY <2>1, <2>3, <3>4, KnownStays
    <3>6. Known(w, info[w].etag)'
      BY <3>3, <3>5 DEF Known
    <3>7. Informed(w)'
      BY <1>1, <2>1, <3>1, <3>3, <3>4, <3>6 DEF Informed
    <3> QED BY <3>1, <3>7 DEF Present, Replied
  <2> QED BY <1>9, <2>2, <2>3 DEF LoadETag
<1>10. CASE Judge(w)
  <2> DEFINE verdict == EvaluateGetConditional(r, etag, stat.mtime)
             class == ClassifyRange(r.range, stat.size)
  <2>1. Downloads(r) /\ stat \in Met(w) /\ Known(w, etag) /\ at[w] = "judge"
    BY <1>2, <1>10 DEF Judge, Informed
  <2>2. r.range \in Ranges /\ stat.size \in 0 .. MaxInt
    BY <1>2, <2>1, DownloadAssumption DEF Fetches, Met, Held, Version
  <2>3. /\ class = "unsatisfiable" <=> OutOfReach(r.range, stat.size)
        /\ class = "ignore" => ~Understood(r.range)
        /\ class # "ignore" /\ class # "unsatisfiable" => Understood(r.range)
    BY <2>2, ClassExact
  <2>4. /\ verdict # "serve" => Explained(r, [status |-> verdict], seen[w])
        /\ verdict = "serve" /\ OutOfReach(r.range, stat.size) => Explained(r, Beyond, seen[w])
    BY <1>2, <2>1, JudgeExplained
  <2>5. \/ verdict # "serve" /\ Respond(w, [status |-> verdict])
        \/ verdict = "serve" /\ class = "unsatisfiable" /\ Respond(w, Beyond)
        \/ /\ verdict = "serve" /\ class # "unsatisfiable"
           /\ Goto(w, IF class = "ignore" THEN "openWhole" ELSE "openSlice")
           /\ UNCHANGED <<got, info>>
    BY <1>10 DEF Judge
  <2>6. CASE \/ verdict # "serve" /\ Respond(w, [status |-> verdict])
             \/ verdict = "serve" /\ class = "unsatisfiable" /\ Respond(w, Beyond)
    <3> HIDE DEF verdict, class
    <3> QED BY <1>6, <2>3, <2>4, <2>6
  <2>7. CASE /\ verdict = "serve" /\ class # "unsatisfiable"
             /\ Goto(w, IF class = "ignore" THEN "openWhole" ELSE "openSlice")
             /\ UNCHANGED <<got, info>>
    <3> HIDE DEF class
    <3>1. /\ at'[w] = IF class = "ignore" THEN "openWhole" ELSE "openSlice"
          /\ at'[w] \in {"openWhole", "openSlice"} /\ info'[w] = info[w]
      BY <1>1, <2>7 DEF Goto
    <3>2. Met(w) \subseteq Met(w)' /\ seen[w] \subseteq seen'[w]
      BY <1>3, <3>1 DEF Met
    <3>3. Torn \in seen'[w] \/ \E v \in Met(w)' : etag = v.id
      BY <2>1, <3>2, KnownStays
    <3>4. Known(w, info[w].etag)'
      BY <3>1, <3>3 DEF Known
    <3>5. /\ at'[w] = "openWhole" => ~Understood(r.range)
          /\ at'[w] = "openSlice" => Understood(r.range)
          /\ ~OutOfReach(r.range, stat.size)
      BY <2>3, <2>7, <3>1
    <3>6. Informed(w)'
      BY <1>1, <2>1, <2>7, <3>1, <3>2, <3>4, <3>5 DEF Informed
    <3> QED BY <3>1, <3>6 DEF Present, Replied
  <2> QED BY <2>5, <2>6, <2>7
<1>11. CASE OpenObject(w)
  <2> DEFINE a == CASE data = None -> [status |-> "failed"]
                    [] data # None /\ at[w] = "openWhole" -> Whole(data)
                    [] data # None /\ at[w] = "openSlice" -> ServeContent(r, etag, data)
  <2>1. Respond(w, a) /\ at[w] \in {"openWhole", "openSlice"}
    BY <1>11 DEF OpenObject
  <2>2. /\ Downloads(r) /\ stat \in Met(w) /\ Known(w, etag)
        /\ EvaluateGetConditional(r, etag, stat.mtime) = "serve" /\ ~OutOfReach(r.range, stat.size)
        /\ at[w] = "openWhole" => ~Understood(r.range)
        /\ at[w] = "openSlice" => Understood(r.range)
    BY <1>2, <2>1 DEF Informed
  <2>3. CASE data = None
    <3>1. Explained(r, [status |-> "failed"], seen[w])
      BY <1>4, <2>2, <2>3, ExplainedAway
    <3> QED BY <1>6, <2>1, <2>3, <3>1
  <2>4. CASE data # None
    <3>1. data \in Met(w)
      BY <1>1, <1>4, <2>2, <2>4 DEF Met
    <3>2. /\ ~Understood(r.range) => Explained(r, Whole(data), seen[w])
          /\ Understood(r.range) => Explained(r, ServeContent(r, etag, data), seen[w])
      BY <1>2, <2>2, <3>1, ServedExplained
    <3>3. a = IF at[w] = "openWhole" THEN Whole(data) ELSE ServeContent(r, etag, data)
      BY <2>1, <2>4
    <3> HIDE DEF a
    <3> QED BY <1>6, <2>1, <2>2, <3>2, <3>3
  <2> QED BY <2>3, <2>4
<1> QED BY <1>7, <1>8, <1>9, <1>10, <1>11 DEF DownloadStep

LEMMA DownStart ==
  ASSUME DownloadInit
  PROVE  DownInv
<1>1. at = [w \in Workers |-> "idle"] /\ seen = [w \in Workers |-> {}]
  BY DEF DownloadInit, Init
<1>2. \A w \in Workers : Watched(w) /\ Present(w) /\ Informed(w) /\ Replied(w)
  BY <1>1 DEF Watched, Watching, Present, Informed, Replied
<1> QED BY <1>1, <1>2 DEF DownInv, Table

LEMMA DownStutter ==
  ASSUME DownInv, UNCHANGED allVars
  PROVE  DownInv'
<1>1. UNCHANGED <<data, file, bytes, at, req, got, info, seen>>
  BY DEF allVars, vars, docVars
<1>2. Table(seen', Workers)
  BY <1>1 DEF DownInv, Table
<1>3. ASSUME NEW w \in Workers
      PROVE  Watched(w)' /\ Present(w)' /\ Informed(w)' /\ Replied(w)'
  <2>1. Watched(w) /\ Present(w) /\ Informed(w) /\ Replied(w)
    BY DEF DownInv
  <2>2. Content("meta")' = Content("meta") /\ Unmatched' = Unmatched
    BY <1>1 DEF Content, Unmatched
  <2>3. Watched(w)'
    BY <1>1, <2>1, <2>2 DEF Watched, Watching
  <2>4. Present(w)' /\ Replied(w)'
    BY <1>1, <2>1 DEF Present, Replied
  <2>5. Informed(w)'
    BY <1>1, <2>1, <2>2 DEF Informed, Known, Met
  <2> QED BY <2>3, <2>4, <2>5
<1> QED BY <1>2, <1>3 DEF DownInv

\* The steps that nothing of the documents depends on are nobody's.
LEMMA FetchApart ==
  ASSUME NEW v \in Workers, UNCHANGED docVars,
         at'[v] = at[v], req'[v] = req[v], got'[v] = got[v], info'[v] = info[v]
  PROVE  Apart(v)
<1>1. UNCHANGED <<data, file, bytes>>
  BY DEF docVars
<1> QED BY <1>1 DEF Apart, Calm, Content

LEMMA DownNext ==
  ASSUME EnoughNodes, DocInv, AccessInv, DownInv, [Next]_allVars
  PROVE  DownInv'
<1>1. CASE UNCHANGED allVars
  BY <1>1, DownStutter
<1>2. CASE Next
  <2>1. Watch /\ Accounts' /\ data' \in Held \cup {None}
    BY <1>2, AccountsNext DEF Next, Accounts
  <2>2. Table(seen', Workers)
    BY <2>1, WatchFacts DEF DownInv
  <2>3. ASSUME NEW v \in Workers
        PROVE  Watched(v)' /\ Present(v)' /\ Informed(v)' /\ Replied(v)'
    <3>1. CASE Administration /\ UNCHANGED info
      <4>1. UNCHANGED <<docVars, at, req, got>>
        BY <3>1, AdministrationFrame DEF vars
      <4>2. Apart(v)
        BY <3>1, <4>1, FetchApart
      <4> QED BY <2>1, <4>2, ApartKeeps
    <3>2. CASE KillAll
      <4>1. at'[v] = "idle"
        BY <3>2 DEF KillAll, Kill
      <4>2. Watched(v)'
        BY <2>1, WatchFacts DEF DownInv, Watched
      <4> QED BY <4>1, <4>2 DEF Present, Informed, Replied
    <3>3. ASSUME NEW w \in Workers,
                 \/ SidecarStep(w) /\ UNCHANGED <<accountVars, who, info>>
                 \/ AccessStep(w) /\ UNCHANGED info
                 \/ DownloadStep(w)
          PROVE  Watched(v)' /\ Present(v)' /\ Informed(v)' /\ Replied(v)'
      <4>0. AccessStep(w) => ArriveFetch(w) \/ CheckStep(w)
        BY DEF AccessStep, CheckStep
      <4>1. CASE v = w
        BY <2>1, <3>3, <4>0, <4>1, SidecarDown, CheckDown, DownloadDown
      <4>2. CASE v # w
        <5>1. Bystander(v)
          BY <3>3, <4>2, StepFrame
        <5>2. ASSUME SidecarStep(w), UNCHANGED info
              PROVE  Apart(v)
          BY <4>2, <5>2, SidecarApart
        <5>3. ASSUME AccessStep(w) \/ DownloadStep(w)
              PROVE  Apart(v)
          <6>1. UNCHANGED docVars
            BY <4>0, <5>3, CheckMoves, DownloadMoves DEF ArriveFetch, FetchFrame
          <6> QED BY <5>1, <6>1, FetchApart DEF Bystander
        <5>4. Apart(v)
          BY <3>3, <5>2, <5>3
        <5> QED BY <2>1, <5>4, ApartKeeps
      <4> QED BY <4>1, <4>2
    <3> QED BY <1>2, <3>1, <3>2, <3>3 DEF Next
  <2> QED BY <2>2, <2>3 DEF DownInv
<1> QED BY <1>1, <1>2

LEMMA DownAlways ==
  ASSUME EnoughNodes, ~Overlap
  PROVE  Spec => []DownInv
<1>1. DownloadInit => DownInv
  BY DownStart
<1>2. DocInv /\ AccessInv /\ DownInv /\ [Next]_allVars => DownInv'
  BY DownNext
<1> QED BY <1>1, <1>2, DocAlways, AccessAlways, PTL DEF Spec

(***************************************************************************)
(* DownloadObjectHandler, without a lock: a download that no overwrite     *)
(* touched gets the answer RFC 7232 and 7233 give; one that was overtaken  *)
(* carries exactly the bytes its range denotes in one version that was in  *)
(* force since it came, or an answer that such a version, a removal or a   *)
(* sidecar half written explains.                                          *)
(***************************************************************************)
THEOREM AnswerMatchesHolds ==
  ASSUME EnoughNodes, ~Overlap
  PROVE  Spec => []AnswerMatches
<1>1. DownInv => AnswerMatches
  <2> SUFFICES ASSUME DownInv, NEW w \in Workers,
                      at[w] = "done", Downloads(req[w]),
                      got[w].status \notin {"unauthorized", "forbidden", "badRequest"},
                      req[w].ifUnmodified = None
                        \/ \A v \in seen[w] \ {None, Torn} : v.mtime % 2 = 0
               PROVE  LET r == req[w]
                          a == got[w]
                          versions == seen[w] \ {None, Torn}
                      IN /\ \A v \in versions : seen[w] = {v} => a.status = Deserved(r, v)
                         /\ \/ a.status \in {"notFound", "failed"} /\ None \in seen[w]
                            \/ a.status \in {"failed", "preconditionFailed", "notModified"}
                                 /\ Torn \in seen[w]
                            \/ /\ a.status \notin {"notFound", "failed"}
                               /\ \E v \in versions : Justified(r, a, v)
                            \/ \E e, v \in versions : a.status = Demanded(r, e.id, v.mtime)
    BY Zenon DEF AnswerMatches
  <2>1. Explained(req[w], got[w], seen[w])
    BY DEF DownInv, Replied
  <2> QED BY <2>1, Zenon DEF Explained
<1> QED BY <1>1, DownAlways, PTL
=============================================================================
