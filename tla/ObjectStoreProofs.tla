------------------------- MODULE ObjectStoreProofs -------------------------
(***************************************************************************)
(* Proofs about ObjectStore for any number of workers, keys, stripes,      *)
(* directories, bodies and requests, with crashes and disk faults: the     *)
(* type invariant, what holds without any lock (FilesHaveHomes), what the  *)
(* striped lock of handlers/locks.go gives (LockDiscipline, PublishedAlone *)
(* and, for the handlers that take it, ConsistentPair), that those         *)
(* handlers implement AtomicStore, and what is promised without a lock,    *)
(* with the overlaps each promise has to exclude (UploadRepairs,           *)
(* BucketDeleteKeepsObjects, PreconditionHolds).                           *)
(***************************************************************************)
EXTENDS StoreRefinement, SoloStore, FiniteSetTheorems, TLAPS

\* The steps of finalizeObjectWrite under the stripe.
Publishing == {"mkdir", "stage", "rename", "metaTrunc", "metaWrite"}

(***************************************************************************)
(* A worker that is, or is going to be, inside finalizeObjectWrite with    *)
(* nothing left to read: also while a precondition is being evaluated.     *)
(***************************************************************************)
Uploading(w) ==
  \/ pc[w] \in {"putStat", "putNone", "putMatch"} \cup Publishing
  \/ /\ pc[w] \in {"bfRead", "bfHash", "bfTrunc", "bfWrite"}
     /\ back[w] \in {"putNone", "putMatch"}
  \/ pc[w] = "lock" /\ req[w].op # "delete"

(***************************************************************************)
(* Data flow: the locals a step is about to use have been set by the steps *)
(* that lead to it.                                                        *)
(***************************************************************************)
LocalsOK ==
  \A w \in Workers :
    /\ Uploading(w) => ver[w] \in Versions /\ req[w].acl # "bad" /\ req[w].op # "delete"
    /\ pc[w] \in {"bfHash", "bfTrunc", "bfWrite", "cpOpen", "aclTrunc", "aclWrite"}
         => side[w] \in Sidecars
    /\ pc[w] \in {"cpStat", "cpMeta", "cpOpen"} => req[w].op = "copy"
    /\ pc[w] = "cpOpen" => side[w].user \in Users
    /\ pc[w] \in {"aclStat", "aclRead"} => req[w].op = "putAcl"
    /\ pc[w] = "baStat" => req[w].op = "bucketAcl"
    /\ pc[w] = "cbAcl" => req[w].acl \in ACLs

TypeInv == TypeOK /\ LocalsOK

\* Every request is a well-formed one.
LEMMA RequestFacts ==
  ASSUME NEW r \in Requests
  PROVE  /\ r \in RequestType
         /\ WellFormed(r)
BY ConstantsAssumption

\* The fields of a request that end up in files.
LEMMA RequestFields ==
  ASSUME NEW r \in Requests
  PROVE  /\ r.key \in Keys /\ r.src \in Keys
         /\ r.op \in Ops
         /\ r.ifMatch \in ETags \cup {None} /\ r.ifNone \in ETags \cup {None, Star}
         /\ r.op # "put" => r.ifNone = None /\ r.ifMatch = None
         /\ r.acl \in ACLs \cup {None, "bad"}
         /\ r.acl = "bad" => r.op = "createBucket"
         /\ r.op \in {"putAcl", "bucketAcl"} => r.acl \in ACLs
         /\ r.op = "copy" /\ r.replace => r.user \in Users
         /\ r.op = "put" => [body |-> r.body, user |-> r.user] \in Versions
BY RequestFacts DEF RequestType, WellFormed, Versions

\* The request variable of an idle worker holds a request too.
LEMMA NoRequestFact == NoRequest \in Requests
BY ConstantsAssumption DEF NoRequest

\* What the sidecar constructors return.
LEMMA SidecarFacts ==
  /\ NoSidecar \in Sidecars
  /\ \A s \in Sidecars : s.etag \in ETags \cup {None} /\ s.user \in Users \cup {None}
  /\ \A s \in Sidecars, t \in ETags : WithETag(s, t) \in Sidecars
  /\ \A s \in Sidecars, u \in Users : WithUser(s, u) \in Sidecars /\ WithUser(s, u).user = u
  /\ \A f \in MetaFiles, a \in ACLs : f # Torn => AclSidecar(f, a) \in Sidecars
BY SentinelAssumption DEF NoSidecar, Sidecars, WithETag, WithUser, AclSidecar, MetaFiles

\* A version is its bytes with the metadata they came with.
LEMMA VersionFacts ==
  /\ \A v \in Versions : v.body \in Bodies /\ v.user \in Users
  /\ \A b \in Bodies, u \in Users : [body |-> b, user |-> u] \in Versions
  /\ \A b \in Bodies : ETagOf(b) \in ETags
BY DEF Versions, ETagOf, ETags

\* The metadata of a copy is never missing.
LEMMA CopiedUserFact ==
  ASSUME NEW r \in Requests, r.op = "copy", NEW f \in MetaFiles
  PROVE  CopiedUser(r, f) \in Users
BY RequestFields, SidecarFacts, ConstantsAssumption DEF CopiedUser, MetaFiles

\* Where the files of a request's key live, and which stripe guards it.
LEMMA KeyFacts ==
  ASSUME TypeOK, NEW w \in Workers
  PROVE  /\ Key(w) \in Keys /\ req[w].src \in Keys
         /\ Stripe[Key(w)] \in Stripes
         /\ Dir[Key(w)] \in Dirs /\ Root \in Dirs
         /\ req[w] \in Requests
BY RequestFields, ConstantsAssumption DEF TypeOK, Key

\* The sidecar of an upload.
LEMMA NewSidecarFact ==
  ASSUME NEW w \in Workers, req[w] \in Requests, ver[w] \in Versions, req[w].acl # "bad"
  PROVE  NewSidecar(w) \in Sidecars
BY RequestFields, VersionFacts DEF NewSidecar, Sidecars

\* The initial states are typed.
LEMMA InitTypeInv == Init => TypeInv
<1> SUFFICES ASSUME Init PROVE TypeInv
  OBVIOUS
<1>1. TypeOK
  BY ConstantsAssumption, SentinelAssumption, NoRequestFact
  DEF Init, TypeOK, MetaFiles, PCs, Statuses, Entries
<1>2. LocalsOK
  BY DEF Init, LocalsOK, Uploading, Publishing
<1> QED BY <1>1, <1>2 DEF TypeInv

\* A request arrives.
LEMMA StartTypeInv ==
  ASSUME TypeInv, NEW w \in Workers, Start(w)
  PROVE TypeInv'
<1> USE DEF TypeInv
<1>1. PICK r \in Requests :
       /\ req' = [req EXCEPT ![w] = r]
       /\ ver' = [ver EXCEPT ![w] =
                    IF r.op = "put" THEN [body |-> r.body, user |-> r.user]
                                    ELSE None]
       /\ Goto(w, FirstStep(r))
  BY DEF Start
<1>2. /\ r.op = "put" => FirstStep(r) \in {"lock", "putStat"}
      /\ r.op = "copy" => FirstStep(r) = "cpStat"
      /\ r.op = "delete" => FirstStep(r) = "lock"
      /\ r.op = "putAcl" => FirstStep(r) = "aclStat"
      /\ r.op = "bucketAcl" => FirstStep(r) = "baStat"
      /\ r.op \in {"get", "head", "createBucket", "deleteBucket"}
           => FirstStep(r) \in {"getStat", "headMeta", "cbStat", "dbStat"}
  BY DEF FirstStep
<1>3. TypeOK'
  BY <1>1, <1>2, RequestFields DEF Start, TypeOK, fileVars, Goto, PCs, InCritical, Ops
<1>4. LocalsOK'
  BY <1>1, <1>2, RequestFields DEF Start, TypeOK, LocalsOK, Uploading, Publishing, Goto, Ops
<1> QED BY <1>3, <1>4

\* Reads, with the backfill they may perform.
LEMMA ServeTypeInv ==
  ASSUME TypeInv, NEW w \in Workers, Serve(w)
  PROVE TypeInv'
<1> USE DEF TypeInv, Goto, Respond, fileVars, localVars
<1>0. TypeOK /\ LocalsOK
  OBVIOUS
<1>k. /\ Key(w) \in Keys /\ req[w].src \in Keys
      /\ Stripe[Key(w)] \in Stripes
      /\ Dir[Key(w)] \in Dirs /\ Root \in Dirs
      /\ req[w] \in Requests
  BY KeyFacts
<1>1. CASE BfRead(w)
  <2> DEFINE f == meta[Key(w)]
  <2>1. CASE f = Torn
    <3>1. /\ etag' = [etag EXCEPT ![w] = None]
          /\ pc' = [pc EXCEPT ![w] = back[w]]
          /\ UNCHANGED <<fileVars, lock, req, ver, side, back, todo, status>>
      BY <2>1, <1>1, SentinelAssumption DEF BfRead
    <3>2. TypeOK'
      BY <1>0, <3>1 DEF TypeOK, PCs
    <3>3. LocalsOK'
      BY <1>0, <3>1, <1>1 DEF TypeOK, LocalsOK, Uploading, Publishing, BfRead
    <3> QED BY <3>2, <3>3
  <2>2. CASE f \in Sidecars /\ f.etag # None
    <3>1. /\ etag' = [etag EXCEPT ![w] = f.etag]
          /\ pc' = [pc EXCEPT ![w] = back[w]]
          /\ UNCHANGED <<fileVars, lock, req, ver, side, back, todo, status>>
      BY <2>2, <1>1, SentinelAssumption DEF BfRead
    <3>2. f.etag \in ETags
      BY <2>2, SidecarFacts
    <3>3. TypeOK'
      BY <1>0, <3>1, <3>2 DEF TypeOK, PCs
    <3>4. LocalsOK'
      BY <1>0, <3>1, <1>1 DEF TypeOK, LocalsOK, Uploading, Publishing, BfRead
    <3> QED BY <3>3, <3>4
  <2>3. CASE f = None \/ (f \in Sidecars /\ f.etag = None)
    <3> DEFINE s == IF f = None THEN NoSidecar ELSE f
    <3>1. /\ side' = [side EXCEPT ![w] = s]
          /\ pc' = [pc EXCEPT ![w] = "bfHash"]
          /\ UNCHANGED <<fileVars, lock, req, ver, etag, back, todo, status>>
      BY <2>3, <1>1, SentinelAssumption DEF BfRead
    <3>2. s \in Sidecars
      BY <2>3, SidecarFacts
    <3> HIDE DEF s
    <3>3. TypeOK'
      BY <1>0, <3>1, <3>2 DEF TypeOK, PCs
    <3>4. LocalsOK'
      BY <1>0, <3>1, <3>2, <1>1 DEF TypeOK, LocalsOK, Uploading, Publishing, BfRead
    <3> QED BY <3>3, <3>4
  <2> QED BY <2>1, <2>2, <2>3, <1>1 DEF BfRead
<1>2. CASE BfHash(w)
  <2> DEFINE d == data[Key(w)]
  <2>1. CASE d = None
    <3>1. /\ etag' = [etag EXCEPT ![w] = None]
          /\ pc' = [pc EXCEPT ![w] = back[w]]
          /\ UNCHANGED <<fileVars, lock, req, ver, side, back, todo, status>>
      BY <2>1, <1>2 DEF BfHash
    <3>2. TypeOK'
      BY <1>0, <3>1 DEF TypeOK, PCs
    <3>3. LocalsOK'
      BY <1>0, <3>1, <1>2 DEF TypeOK, LocalsOK, Uploading, Publishing, BfHash
    <3> QED BY <3>2, <3>3
  <2>2. CASE d # None
    <3> DEFINE t == ETagOf(d.body)
               s == WithETag(side[w], t)
    <3>1. /\ etag' = [etag EXCEPT ![w] = t]
          /\ side' = [side EXCEPT ![w] = s]
          /\ pc' = [pc EXCEPT ![w] = "bfTrunc"]
          /\ UNCHANGED <<fileVars, lock, req, ver, back, todo, status>>
      BY <2>2, <1>2 DEF BfHash
    <3>2. d \in Versions
      BY <1>0, <1>k, <2>2 DEF TypeOK
    <3>3. t \in ETags
      BY <3>2, VersionFacts
    <3>4. side[w] \in Sidecars
      BY <1>0, <1>2 DEF BfHash, LocalsOK
    <3>5. s \in Sidecars
      BY <3>3, <3>4, SidecarFacts
    <3> HIDE DEF s, t
    <3>6. TypeOK'
      BY <1>0, <3>1, <3>3, <3>5 DEF TypeOK, PCs
    <3>7. LocalsOK'
      BY <1>0, <3>1, <3>5, <1>2 DEF TypeOK, LocalsOK, Uploading, Publishing, BfHash
    <3> QED BY <3>6, <3>7
  <2> QED BY <2>1, <2>2
<1>3. CASE BfTrunc(w)
  <2>1. /\ meta' \in [Keys -> MetaFiles]
        /\ metaFd' \in [Keys -> SUBSET Workers]
    BY SMTT(30), <1>0, <1>k, <1>3 DEF BfTrunc, TruncateMeta, TypeOK, MetaFiles
  <2>2. pc' \in [Workers -> PCs]
    BY <1>0, <1>3 DEF BfTrunc, TypeOK, PCs
  <2>3. TypeOK'
    BY <1>0, <2>1, <2>2, <1>3 DEF BfTrunc, TypeOK
  <2>4. LocalsOK'
    BY <1>0, <1>k, <1>3 DEF BfTrunc, TypeOK, LocalsOK, Uploading, Publishing
  <2> QED BY <2>3, <2>4
<1>4. CASE BfWrite(w)
  <2>1. TypeOK'
    BY SMTT(30), <1>0, <1>k, <1>4 DEF BfWrite, TypeOK, PCs, Statuses, InCritical, FillMeta, Overwritten, MetaFiles, LocalsOK
  <2>2. LocalsOK'
    BY <1>0, <1>k, <1>4 DEF BfWrite, TypeOK, LocalsOK, Uploading, Publishing
  <2> QED BY <2>1, <2>2
<1>5. CASE GetStat(w)
  <2>1. TypeOK'
    BY SMTT(30), <1>0, <1>k, <1>5 DEF GetStat, TypeOK, PCs, Statuses, InCritical, CallBackfill
  <2>2. LocalsOK'
    BY <1>0, <1>k, <1>5 DEF GetStat, TypeOK, LocalsOK, Uploading, Publishing, CallBackfill
  <2> QED BY <2>1, <2>2
<1>6. CASE GetTag(w)
  <2>1. /\ pc' \in [Workers -> PCs]
        /\ status' \in [Workers -> Statuses]
    BY SMTT(30), <1>0, <1>6 DEF GetTag, TypeOK, PCs, Statuses
  <2>2. TypeOK'
    BY <1>0, <2>1, <1>6 DEF GetTag, TypeOK
  <2>3. LocalsOK'
    BY <1>0, <1>k, <1>6 DEF GetTag, TypeOK, LocalsOK, Uploading, Publishing
  <2> QED BY <2>2, <2>3
<1>7. CASE GetMeta(w)
  <2>1. TypeOK'
    BY <1>0, <1>k, <1>7, SidecarFacts, SentinelAssumption DEF GetMeta, TypeOK, PCs, Statuses, InCritical
  <2>2. LocalsOK'
    BY <1>0, <1>k, <1>7, SidecarFacts, SentinelAssumption DEF GetMeta, TypeOK, LocalsOK, Uploading, Publishing
  <2> QED BY <2>1, <2>2
<1>8. CASE GetOpen(w)
  <2>1. TypeOK'
    BY <1>0, <1>k, <1>8 DEF GetOpen, TypeOK, PCs, Statuses, InCritical
  <2>2. LocalsOK'
    BY <1>0, <1>k, <1>8 DEF GetOpen, TypeOK, LocalsOK, Uploading, Publishing
  <2> QED BY <2>1, <2>2
<1>9. CASE HeadMeta(w)
  <2> DEFINE f == meta[Key(w)]
  <2>1. /\ pc' \in [Workers -> PCs]
        /\ status' \in [Workers -> Statuses]
    BY <1>0, <1>9 DEF HeadMeta, CallBackfill, TypeOK, PCs, Statuses
  <2>2. back' \in [Workers -> {"done", "putNone", "putMatch", "getTag", "headTag"}]
    BY <1>0, <1>9 DEF HeadMeta, CallBackfill, TypeOK
  <2>3. /\ side' \in [Workers -> Sidecars \cup {None}]
        /\ etag' \in [Workers -> ETags \cup {None}]
    BY <1>0, <1>9, SidecarFacts DEF HeadMeta, TypeOK
  <2>4. TypeOK'
    BY <1>0, <2>1, <2>2, <2>3, <1>9 DEF HeadMeta, TypeOK
  <2>5. LocalsOK'
    BY <1>0, <1>k, <1>9 DEF HeadMeta, TypeOK, LocalsOK, Uploading, Publishing, CallBackfill
  <2> QED BY <2>4, <2>5
<1>10. CASE HeadTag(w)
  <2>1. TypeOK'
    BY <1>0, <1>k, <1>10 DEF HeadTag, TypeOK, PCs, Statuses, InCritical
  <2>2. LocalsOK'
    BY <1>0, <1>k, <1>10 DEF HeadTag, TypeOK, LocalsOK, Uploading, Publishing
  <2> QED BY <2>1, <2>2
<1> QED
  BY <1>1, <1>2, <1>3, <1>4, <1>5, <1>6, <1>7, <1>8, <1>9, <1>10 DEF Serve

\* PUT and COPY.
LEMMA WriteTypeInv ==
  ASSUME TypeInv, NEW w \in Workers, Write(w)
  PROVE TypeInv'
<1> USE DEF TypeInv, Goto, Respond, fileVars, localVars
<1>0. TypeOK /\ LocalsOK
  OBVIOUS
<1>k. /\ Key(w) \in Keys /\ req[w].src \in Keys
      /\ Stripe[Key(w)] \in Stripes
      /\ Dir[Key(w)] \in Dirs /\ Root \in Dirs
      /\ req[w] \in Requests
  BY KeyFacts
<1>1. CASE PutStat(w)
  <2>0. /\ pc' \in [Workers -> PCs]
        /\ status' \in [Workers -> Statuses]
        /\ back' \in [Workers -> {"done", "putNone", "putMatch", "getTag", "headTag"}]
    BY SMTT(30), <1>0, <1>1 DEF PutStat, TypeOK, PCs, Statuses, CallBackfill
  <2>1. TypeOK'
    BY <1>0, <2>0, <1>1 DEF PutStat, TypeOK, CallBackfill
  <2>2. LocalsOK'
    BY <1>0, <1>k, <1>1 DEF PutStat, TypeOK, LocalsOK, Uploading, Publishing, CallBackfill
  <2> QED BY <2>1, <2>2
<1>2. CASE PutNone(w)
  <2>1. TypeOK'
    BY <1>0, <1>k, <1>2 DEF PutNone, TypeOK, PCs, Statuses, InCritical, CallBackfill
  <2>2. LocalsOK'
    BY <1>0, <1>k, <1>2 DEF PutNone, TypeOK, LocalsOK, Uploading, Publishing, CallBackfill
  <2> QED BY <2>1, <2>2
<1>3. CASE PutMatch(w)
  <2>1. TypeOK'
    BY <1>0, <1>k, <1>3 DEF PutMatch, TypeOK, PCs, Statuses, InCritical
  <2>2. LocalsOK'
    BY <1>0, <1>k, <1>3 DEF PutMatch, TypeOK, LocalsOK, Uploading, Publishing
  <2> QED BY <2>1, <2>2
<1>4. CASE CpStat(w)
  <2>1. TypeOK'
    BY SMTT(30), <1>0, <1>k, <1>4 DEF CpStat, TypeOK, PCs, Statuses, InCritical
  <2>2. LocalsOK'
    BY <1>0, <1>k, <1>4 DEF CpStat, TypeOK, LocalsOK, Uploading, Publishing
  <2> QED BY <2>1, <2>2
<1>5. CASE CpMeta(w)
  <2> DEFINE u == CopiedUser(req[w], meta[req[w].src])
             s == WithUser(NoSidecar, u)
  <2>1. req[w].op = "copy" /\ pc[w] = "cpMeta"
    BY <1>0, <1>5 DEF CpMeta, LocalsOK
  <2>2. meta[req[w].src] \in MetaFiles
    BY <1>0, <1>k DEF TypeOK
  <2>3. u \in Users
    BY <1>k, <2>1, <2>2, CopiedUserFact
  <2>4. s \in Sidecars /\ s.user \in Users
    BY <2>3, SidecarFacts
  <2>5. /\ side' = [side EXCEPT ![w] = s]
        /\ pc' = [pc EXCEPT ![w] = "cpOpen"]
        /\ UNCHANGED <<fileVars, lock, req, ver, etag, back, todo, status>>
    BY <1>5 DEF CpMeta
  <2> HIDE DEF s
  <2>6. TypeOK'
    BY <1>0, <2>4, <2>5 DEF TypeOK, PCs
  <2>7. LocalsOK'
    BY <1>0, <2>1, <2>4, <2>5 DEF TypeOK, LocalsOK, Uploading, Publishing
  <2> QED BY <2>6, <2>7
<1>6. CASE CpOpen(w)
  <2> DEFINE d == data[req[w].src]
             v == [body |-> d.body, user |-> side[w].user]
  <2>1. /\ req[w].op = "copy" /\ pc[w] = "cpOpen"
        /\ side[w].user \in Users
    BY <1>0, <1>6 DEF CpOpen, LocalsOK
  <2>2. CASE d = None
    <3>1. /\ pc' = [pc EXCEPT ![w] = "done"]
          /\ status' = [status EXCEPT ![w] = "failed"]
          /\ UNCHANGED <<fileVars, lock, localVars>>
      BY <2>2, <1>6 DEF CpOpen
    <3>2. TypeOK'
      BY <1>0, <3>1 DEF TypeOK, PCs, Statuses
    <3>3. LocalsOK'
      BY <1>0, <3>1, <2>1 DEF TypeOK, LocalsOK, Uploading, Publishing
    <3> QED BY <3>2, <3>3
  <2>3. CASE d # None
    <3>1. /\ ver' = [ver EXCEPT ![w] = v]
          /\ pc' = [pc EXCEPT ![w] = "lock"]
          /\ UNCHANGED <<fileVars, lock, req, side, etag, back, todo, status>>
      BY <2>3, <1>6 DEF CpOpen
    <3>2. d \in Versions
      BY <1>0, <1>k, <2>3 DEF TypeOK
    <3>3. v \in Versions
      BY <2>1, <3>2, VersionFacts
    <3>4. req[w].acl # "bad"
      BY <1>k, <2>1, RequestFields
    <3> HIDE DEF v
    <3>5. TypeOK'
      BY <1>0, <3>1, <3>3 DEF TypeOK, PCs
    <3>6. LocalsOK'
      BY <1>0, <3>1, <3>3, <3>4, <2>1 DEF TypeOK, LocalsOK, Uploading, Publishing
    <3> QED BY <3>5, <3>6
  <2> QED BY <2>2, <2>3
<1>7. CASE Mkdir(w)
  <2>1. dirs' \subseteq Dirs
    BY <1>0, <1>k, <1>7 DEF Mkdir, TypeOK
  <2>2. lock' \in [Stripes -> Workers \cup {NoWorker}]
    BY <1>0, <1>k, <1>7 DEF Mkdir, Fail, Unlock, TypeOK
  <2>3. /\ pc' \in [Workers -> PCs]
        /\ status' \in [Workers -> Statuses]
    <3>1. /\ "done" \in PCs /\ "stage" \in PCs
          /\ "failed" \in Statuses
      BY DEF PCs, InCritical, Statuses
    <3> QED BY <1>0, <1>7, <3>1 DEF Mkdir, Fail, TypeOK
  <2>4. TypeOK'
    BY <1>0, <2>1, <2>2, <2>3, <1>7 DEF Mkdir, TypeOK
  <2>5. LocalsOK'
    BY <1>0, <1>k, <1>7 DEF Mkdir, Fail, TypeOK, LocalsOK, Uploading, Publishing
  <2> QED BY <2>4, <2>5
<1>8. CASE Stage(w)
  <2>1. TypeOK'
    BY SMTT(30), <1>0, <1>k, <1>8
    DEF Stage, TypeOK, PCs, Statuses, InCritical, Fail, Unlock
  <2>2. LocalsOK'
    BY <1>0, <1>k, <1>8 DEF Stage, TypeOK, LocalsOK, Uploading, Publishing, Fail
  <2> QED BY <2>1, <2>2
<1>9. CASE Rename(w)
  <2>1. TypeOK'
    BY <1>0, <1>k, <1>9 DEF Rename, TypeOK, PCs, Statuses, InCritical, LocalsOK, Uploading, Publishing
  <2>2. LocalsOK'
    BY <1>0, <1>k, <1>9 DEF Rename, TypeOK, LocalsOK, Uploading, Publishing
  <2> QED BY <2>1, <2>2
<1>10. CASE StreamFails(w)
  <2>1. TypeOK'
    BY <1>0, <1>k, <1>10 DEF StreamFails, TypeOK, PCs, Statuses, InCritical, Fail, Unlock
  <2>2. LocalsOK'
    BY <1>0, <1>k, <1>10 DEF StreamFails, TypeOK, LocalsOK, Uploading, Publishing, Fail
  <2> QED BY <2>1, <2>2
<1>11. CASE MetaTrunc(w)
  <2>1. /\ meta' \in [Keys -> MetaFiles]
        /\ metaFd' \in [Keys -> SUBSET Workers]
    BY <1>0, <1>k, <1>11 DEF MetaTrunc, TruncateMeta, TypeOK, MetaFiles
  <2>2. lock' \in [Stripes -> Workers \cup {NoWorker}]
    BY <1>0, <1>k, <1>11 DEF MetaTrunc, Fail, Unlock, TypeOK
  <2>3. /\ pc' \in [Workers -> PCs]
        /\ status' \in [Workers -> Statuses]
    BY <1>0, <1>11 DEF MetaTrunc, Fail, TypeOK, PCs, InCritical, Statuses
  <2>4. TypeOK'
    BY <1>0, <2>1, <2>2, <2>3, <1>11 DEF MetaTrunc, TypeOK
  <2>5. LocalsOK'
    BY <1>0, <1>k, <1>11 DEF MetaTrunc, Fail, TypeOK, LocalsOK, Uploading, Publishing
  <2> QED BY <2>4, <2>5
<1>12. CASE MetaWrite(w)
  <2>1. NewSidecar(w) \in Sidecars
    BY <1>0, <1>k, <1>12, NewSidecarFact DEF MetaWrite, LocalsOK, Uploading, Publishing
  <2>2. meta' \in [Keys -> MetaFiles]
    BY <1>0, <1>k, <2>1, <1>12 DEF MetaWrite, FillMeta, Overwritten, TypeOK, MetaFiles
  <2>3. metaFd' \in [Keys -> SUBSET Workers]
    BY <1>0, <1>k, <1>12 DEF MetaWrite, FillMeta, TypeOK
  <2>4. lock' \in [Stripes -> Workers \cup {NoWorker}]
    BY <1>0, <1>k, <1>12 DEF MetaWrite, Fail, Unlock, TypeOK
  <2>5. /\ pc' \in [Workers -> PCs]
        /\ status' \in [Workers -> Statuses]
    BY <1>0, <1>12 DEF MetaWrite, Fail, TypeOK, PCs, Statuses
  <2>6. TypeOK'
    BY <1>0, <2>2, <2>3, <2>4, <2>5, <1>12 DEF MetaWrite, TypeOK
  <2>7. LocalsOK'
    BY <1>0, <1>k, <1>12 DEF MetaWrite, Fail, TypeOK, LocalsOK, Uploading, Publishing
  <2> QED BY <2>6, <2>7
<1> QED
  BY <1>1, <1>2, <1>3, <1>4, <1>5, <1>6, <1>7, <1>8, <1>9, <1>10, <1>11, <1>12 DEF Write

\* DELETE.
LEMMA RemoveTypeInv ==
  ASSUME TypeInv, NEW w \in Workers, Remove(w)
  PROVE TypeInv'
<1> USE DEF TypeInv, Goto, Respond, fileVars, localVars
<1>0. TypeOK /\ LocalsOK
  OBVIOUS
<1>k. /\ Key(w) \in Keys /\ req[w].src \in Keys
      /\ Stripe[Key(w)] \in Stripes
      /\ Dir[Key(w)] \in Dirs /\ Root \in Dirs
      /\ req[w] \in Requests
  BY KeyFacts
<1>1. CASE DelData(w)
  <2>1. data' \in [Keys -> Versions \cup {None}]
    BY <1>0, <1>k, <1>1 DEF DelData, TypeOK
  <2>2. lock' \in [Stripes -> Workers \cup {NoWorker}]
    BY <1>0, <1>k, <1>1 DEF DelData, Fail, Unlock, TypeOK
  <2>3. /\ pc' \in [Workers -> PCs]
        /\ status' \in [Workers -> Statuses]
    <3>1. /\ "done" \in PCs /\ "delMeta" \in PCs
          /\ "failed" \in Statuses
      BY DEF PCs, InCritical, Statuses
    <3> QED BY <1>0, <1>1, <3>1 DEF DelData, Fail, TypeOK
  <2>4. TypeOK'
    BY <1>0, <2>1, <2>2, <2>3, <1>1 DEF DelData, TypeOK
  <2>5. LocalsOK'
    BY <1>0, <1>k, <1>1 DEF DelData, Fail, TypeOK, LocalsOK, Uploading, Publishing
  <2> QED BY <2>4, <2>5
<1>2. CASE DelMeta(w)
  <2>1. TypeOK'
    BY <1>0, <1>k, <1>2 DEF DelMeta, TypeOK, PCs, Statuses, InCritical, MetaFiles
  <2>2. LocalsOK'
    BY <1>0, <1>k, <1>2 DEF DelMeta, TypeOK, LocalsOK, Uploading, Publishing
  <2> QED BY <2>1, <2>2
<1>3. CASE DelDirs(w)
  <2>1. TypeOK'
    BY <1>0, <1>k, <1>3 DEF DelDirs, TypeOK, PCs, Statuses, InCritical, Unlock, Collapsed
  <2>2. LocalsOK'
    BY <1>0, <1>k, <1>3 DEF DelDirs, TypeOK, LocalsOK, Uploading, Publishing
  <2> QED BY <2>1, <2>2
<1> QED
  BY <1>1, <1>2, <1>3 DEF Remove

\* PutObjectAcl.
LEMMA SetACLTypeInv ==
  ASSUME TypeInv, NEW w \in Workers, SetACL(w)
  PROVE TypeInv'
<1> USE DEF TypeInv, Goto, Respond, fileVars, localVars
<1>0. TypeOK /\ LocalsOK
  OBVIOUS
<1>k. /\ Key(w) \in Keys /\ req[w].src \in Keys
      /\ Stripe[Key(w)] \in Stripes
      /\ Dir[Key(w)] \in Dirs /\ Root \in Dirs
      /\ req[w] \in Requests
  BY KeyFacts
<1>1. CASE AclStat(w)
  <2>0. /\ pc' \in [Workers -> PCs]
        /\ status' \in [Workers -> Statuses]
    BY SMTT(30), <1>0, <1>1 DEF AclStat, TypeOK, PCs, Statuses
  <2>1. TypeOK'
    BY <1>0, <2>0, <1>1 DEF AclStat, TypeOK
  <2>2. LocalsOK'
    BY <1>0, <1>k, <1>1 DEF AclStat, TypeOK, LocalsOK, Uploading, Publishing
  <2> QED BY <2>1, <2>2
<1>2. CASE AclRead(w)
  <2> DEFINE f == meta[Key(w)]
             s == AclSidecar(f, req[w].acl)
  <2>1. req[w].op = "putAcl" /\ pc[w] = "aclRead"
    BY <1>0, <1>2 DEF AclRead, LocalsOK
  <2>2. CASE f = Torn
    <3>1. /\ pc' = [pc EXCEPT ![w] = "done"]
          /\ status' = [status EXCEPT ![w] = "failed"]
          /\ UNCHANGED <<fileVars, lock, localVars>>
      BY <2>2, <1>2 DEF AclRead
    <3>2. TypeOK'
      BY <1>0, <3>1 DEF TypeOK, PCs, Statuses
    <3>3. LocalsOK'
      BY <1>0, <3>1, <2>1 DEF TypeOK, LocalsOK, Uploading, Publishing
    <3> QED BY <3>2, <3>3
  <2>3. CASE f # Torn
    <3>1. /\ side' = [side EXCEPT ![w] = s]
          /\ pc' = [pc EXCEPT ![w] = "aclTrunc"]
          /\ UNCHANGED <<fileVars, lock, req, ver, etag, back, todo, status>>
      BY <2>3, <1>2 DEF AclRead
    <3>2. f \in MetaFiles
      BY <1>0, <1>k DEF TypeOK
    <3>3. req[w].acl \in ACLs
      BY <1>k, <2>1, RequestFields
    <3>4. s \in Sidecars
      BY <2>3, <3>2, <3>3, SidecarFacts
    <3> HIDE DEF s
    <3>5. TypeOK'
      BY <1>0, <3>1, <3>4 DEF TypeOK, PCs
    <3>6. LocalsOK'
      BY <1>0, <3>1, <3>4, <2>1 DEF TypeOK, LocalsOK, Uploading, Publishing
    <3> QED BY <3>5, <3>6
  <2> QED BY <2>2, <2>3
<1>3. CASE AclTrunc(w)
  <2>1. TypeOK'
    BY SMTT(30), <1>0, <1>k, <1>3 DEF AclTrunc, TypeOK, PCs, Statuses, InCritical, MetaFiles
  <2>2. LocalsOK'
    BY <1>0, <1>k, <1>3 DEF AclTrunc, TypeOK, LocalsOK, Uploading, Publishing
  <2> QED BY <2>1, <2>2
<1>4. CASE AclWrite(w)
  <2>1. side[w] \in Sidecars
    BY <1>0, <1>4 DEF AclWrite, LocalsOK
  <2>2. meta' \in [Keys -> MetaFiles]
    BY <1>0, <1>k, <2>1, <1>4 DEF AclWrite, Overwritten, TypeOK, MetaFiles
  <2>3. metaTmp' \in [Keys -> MetaFiles]
    BY <1>0, <1>k, <2>1, <1>4 DEF AclWrite, Overwritten, TypeOK, MetaFiles
  <2>4. /\ metaFd' \in [Keys -> SUBSET Workers]
        /\ tmpFd' \in [Keys -> SUBSET Workers]
    BY <1>0, <1>k, <1>4 DEF AclWrite, TypeOK
  <2>5. /\ pc' \in [Workers -> PCs]
        /\ status' \in [Workers -> Statuses]
    BY <1>0, <1>4 DEF AclWrite, TypeOK, PCs, Statuses
  <2>6. TypeOK'
    BY <1>0, <2>2, <2>3, <2>4, <2>5, <1>4 DEF AclWrite, TypeOK
  <2>7. LocalsOK'
    BY <1>0, <1>k, <1>4 DEF AclWrite, TypeOK, LocalsOK, Uploading, Publishing
  <2> QED BY <2>6, <2>7
<1>5. CASE AclRename(w)
  <2>0. None \in MetaFiles
    BY DEF MetaFiles
  <2>1. /\ meta' \in [Keys -> MetaFiles]
        /\ metaTmp' \in [Keys -> MetaFiles]
    BY SMTT(30), <1>0, <1>k, <2>0, <1>5 DEF AclRename, TypeOK
  <2>2. /\ metaFd' \in [Keys -> SUBSET Workers]
        /\ tmpFd' \in [Keys -> SUBSET Workers]
    <3>1. /\ metaFd \in [Keys -> SUBSET Workers]
          /\ tmpFd \in [Keys -> SUBSET Workers]
      BY <1>0 DEF TypeOK
    <3>2. \/ UNCHANGED <<metaFd, tmpFd>>
          \/ /\ metaFd' = [metaFd EXCEPT ![Key(w)] = tmpFd[Key(w)]]
             /\ tmpFd' = [tmpFd EXCEPT ![Key(w)] = {}]
      BY <1>5 DEF AclRename
    <3> QED BY ONLY <3>1, <3>2, <1>k
  <2>3. /\ pc' \in [Workers -> PCs]
        /\ status' \in [Workers -> Statuses]
    BY SMTT(30), <1>0, <1>5 DEF AclRename, TypeOK, PCs, Statuses
  <2>4. TypeOK'
    BY <1>0, <2>1, <2>2, <2>3, <1>5 DEF AclRename, TypeOK
  <2>5. LocalsOK'
    BY <1>0, <1>k, <1>5 DEF AclRename, TypeOK, LocalsOK, Uploading, Publishing
  <2> QED BY <2>4, <2>5
<1> QED
  BY <1>1, <1>2, <1>3, <1>4, <1>5 DEF SetACL

\* The bucket handlers.
LEMMA BucketTypeInv ==
  ASSUME TypeInv, NEW w \in Workers, Bucket(w)
  PROVE TypeInv'
<1> USE DEF TypeInv, Goto, Respond, fileVars, localVars
<1>0. TypeOK /\ LocalsOK
  OBVIOUS
<1>k. /\ Key(w) \in Keys /\ req[w].src \in Keys
      /\ Stripe[Key(w)] \in Stripes
      /\ Dir[Key(w)] \in Dirs /\ Root \in Dirs
      /\ req[w] \in Requests
  BY KeyFacts
<1>1. CASE CbStat(w)
  <2>0. /\ pc' \in [Workers -> PCs]
        /\ status' \in [Workers -> Statuses]
    BY <1>0, <1>1 DEF CbStat, TypeOK, PCs, Statuses
  <2>1. TypeOK'
    BY <1>0, <2>0, <1>1 DEF CbStat, TypeOK
  <2>2. LocalsOK'
    BY <1>0, <1>k, <1>1 DEF CbStat, TypeOK, LocalsOK, Uploading, Publishing
  <2> QED BY <2>1, <2>2
<1>2. CASE CbMkdir(w)
  <2>1. TypeOK'
    BY SMTT(30), <1>0, <1>k, <1>2 DEF CbMkdir, TypeOK, PCs, Statuses, InCritical
  <2>2. LocalsOK'
    BY <1>0, <1>k, <1>2 DEF CbMkdir, TypeOK, LocalsOK, Uploading, Publishing
  <2> QED BY <2>1, <2>2
<1>3. CASE CbAcl(w)
  <2>1. TypeOK'
    BY <1>0, <1>k, <1>3 DEF CbAcl, TypeOK, PCs, Statuses, InCritical, PutBucketACL, LocalsOK
  <2>2. LocalsOK'
    BY <1>0, <1>k, <1>3 DEF CbAcl, TypeOK, LocalsOK, Uploading, Publishing, PutBucketACL
  <2> QED BY <2>1, <2>2
<1>4. CASE BaStat(w)
  <2>1. /\ pc' \in [Workers -> PCs]
        /\ status' \in [Workers -> Statuses]
    BY <1>0, <1>4 DEF BaStat, TypeOK, PCs, Statuses
  <2>2. TypeOK'
    BY <1>0, <2>1, <1>4 DEF BaStat, TypeOK
  <2>3. req[w].acl \in ACLs
    BY <1>0, <1>k, <1>4, RequestFields DEF BaStat, LocalsOK
  <2>4. LocalsOK'
    BY <1>0, <2>3, <1>4 DEF BaStat, TypeOK, LocalsOK, Uploading, Publishing
  <2> QED BY <2>2, <2>4
<1>5. CASE DbStat(w)
  <2>1. TypeOK'
    BY <1>0, <1>k, <1>5 DEF DbStat, TypeOK, PCs, Statuses, InCritical
  <2>2. LocalsOK'
    BY <1>0, <1>k, <1>5 DEF DbStat, TypeOK, LocalsOK, Uploading, Publishing
  <2> QED BY <2>1, <2>2
<1>6. CASE DbCheck(w)
  <2>1. /\ pc' \in [Workers -> PCs]
        /\ status' \in [Workers -> Statuses]
    BY SMTT(30), <1>0, <1>6 DEF DbCheck, TypeOK, PCs, Statuses
  <2>2. TypeOK'
    BY <1>0, <2>1, <1>6 DEF DbCheck, TypeOK
  <2>3. LocalsOK'
    BY <1>0, <1>6 DEF DbCheck, TypeOK, LocalsOK, Uploading, Publishing
  <2> QED BY <2>2, <2>3
<1>7. CASE DbScan(w)
  <2>1. TypeOK'
    BY <1>0, <1>k, <1>7 DEF DbScan, TypeOK, PCs, Statuses, InCritical, AllFiles, FilesOf, SubDirs
  <2>2. LocalsOK'
    BY <1>0, <1>k, <1>7 DEF DbScan, TypeOK, LocalsOK, Uploading, Publishing
  <2> QED BY <2>1, <2>2
<1>8. CASE DbRemove(w)
  <2>1. TypeOK'
    BY <1>0, <1>k, <1>8 DEF DbRemove, TypeOK, PCs, Statuses, InCritical, Unlink, MetaFiles, Entries
  <2>2. LocalsOK'
    BY <1>0, <1>k, <1>8 DEF DbRemove, TypeOK, LocalsOK, Uploading, Publishing
  <2> QED BY <2>1, <2>2
<1>9. CASE DbFinish(w)
  <2>0. /\ pc' = [pc EXCEPT ![w] = "done"]
        /\ status' \in {[status EXCEPT ![w] = "ok"], [status EXCEPT ![w] = "failed"]}
        /\ bacl' = None /\ dirs' \subseteq dirs
        /\ UNCHANGED <<data, meta, metaTmp, metaFd, tmpFd, temps, lock, localVars>>
    BY <1>9 DEF DbFinish
  <2>a. /\ pc' \in [Workers -> PCs]
        /\ status' \in [Workers -> Statuses]
    BY <1>0, <2>0 DEF TypeOK, PCs, Statuses
  <2>1. TypeOK'
    BY <1>0, <2>0, <2>a DEF TypeOK
  <2>2. LocalsOK'
    BY <1>0, <1>k, <1>9 DEF DbFinish, TypeOK, LocalsOK, Uploading, Publishing
  <2> QED BY <2>1, <2>2
<1>10. CASE DbFails(w)
  <2>1. TypeOK'
    BY <1>0, <1>10 DEF DbFails, TypeOK, PCs, Statuses
  <2>2. LocalsOK'
    BY <1>0, <1>10 DEF DbFails, TypeOK, LocalsOK, Uploading, Publishing
  <2> QED BY <2>1, <2>2
<1> QED
  BY <1>1, <1>2, <1>3, <1>4, <1>5, <1>6, <1>7, <1>8, <1>9, <1>10 DEF Bucket

\* The end of a request, the lock, and a crash.
LEMMA FinishTypeInv ==
  ASSUME TypeInv, NEW w \in Workers, Finish(w)
  PROVE TypeInv'
<1> USE DEF TypeInv, Goto, fileVars
<1>1. TypeOK'
  BY NoRequestFact DEF Finish, TypeOK, PCs, Statuses
<1>2. LocalsOK'
  BY DEF Finish, TypeOK, LocalsOK, Uploading, Publishing
<1> QED BY <1>1, <1>2

LEMMA LockTypeInv ==
  ASSUME TypeInv, NEW w \in Workers, Lock(w)
  PROVE TypeInv'
<1> USE DEF TypeInv, Goto, fileVars, localVars
<1>1. Stripe[Key(w)] \in Stripes
  BY KeyFacts
<1>2. TypeOK'
  BY <1>1 DEF Lock, TypeOK, PCs, InCritical
<1>3. LocalsOK'
  BY DEF Lock, TypeOK, LocalsOK, Uploading, Publishing
<1> QED BY <1>2, <1>3

LEMMA CrashTypeInv ==
  ASSUME TypeInv, Crash
  PROVE TypeInv'
<1>1. temps' \subseteq Keys \X (Workers \cup {NoWorker})
  BY DEF Crash, TypeInv, TypeOK
<1>2. TypeOK'
  BY <1>1, NoRequestFact DEF Crash, TypeInv, TypeOK, PCs, Statuses
<1>3. LocalsOK'
  BY DEF Crash, LocalsOK, Uploading, Publishing
<1> QED BY <1>2, <1>3 DEF TypeInv

\* Every step keeps the types and the data flow.
LEMMA NextTypeInv == TypeInv /\ [Next]_vars => TypeInv'
<1> SUFFICES ASSUME TypeInv, [Next]_vars PROVE TypeInv'
  OBVIOUS
<1>1. ASSUME NEW w \in Workers, Start(w) \/ Lock(w) \/ Step(w) PROVE TypeInv'
  BY <1>1, StartTypeInv, LockTypeInv, FinishTypeInv, ServeTypeInv, WriteTypeInv,
     RemoveTypeInv, SetACLTypeInv, BucketTypeInv DEF Step
<1>2. CASE Crash
  BY <1>2, CrashTypeInv
<1>3. CASE UNCHANGED vars
  BY <1>3 DEF vars, fileVars, localVars, TypeInv, TypeOK, LocalsOK, Uploading
<1> QED BY <1>1, <1>2, <1>3 DEF Next

(***************************************************************************)
(* Type correctness, with the data flow it rests on: no handler reaches a  *)
(* step before it has set the locals that step uses.                       *)
(***************************************************************************)
THEOREM TypeInvariant == Spec => []TypeInv
BY InitTypeInv, NextTypeInv, PTL DEF Spec

\* In every reachable state every variable has its type.
THEOREM TypeCorrect == Spec => []TypeOK
<1>1. TypeInv => TypeOK
  BY DEF TypeInv
<1> QED BY <1>1, TypeInvariant, PTL
-----------------------------------------------------------------------------
(***************************************************************************)
(* Files and directories.  A file is in its directory and that one in the  *)
(* bucket; a staged upload has an owner; and a descriptor that still       *)
(* counts belongs to a file that is there, which is why filling a sidecar  *)
(* never brings back a file (and needs no directory).                      *)
(***************************************************************************)
Present(k) == \/ data[k] # None \/ meta[k] # None \/ metaTmp[k] # None
              \/ \E t \in temps : t[1] = k
Placed == /\ \A k \in Keys : Present(k) => {Root, Dir[k]} \subseteq dirs
          /\ dirs # {} => Root \in dirs
Owned == \A t \in temps : t[2] # NoWorker => pc[t[2]] = "rename" /\ Key(t[2]) = t[1]
Opened == \A k \in Keys : /\ metaFd[k] # {} => meta[k] # None
                          /\ tmpFd[k] # {} => metaTmp[k] # None
HomesInv == Placed /\ Owned /\ Opened

\* A listing shows a file of the key when there is one.
LEMMA FilesPresent == \A k \in Keys : FilesOf(k) # {} <=> Present(k)
<1> SUFFICES ASSUME NEW k \in Keys PROVE FilesOf(k) # {} <=> Present(k)
  OBVIOUS
<1>1. ASSUME Present(k) PROVE FilesOf(k) # {}
  <2>1. {<<"data", k>>, <<"meta", k>>, <<"metaTmp", k>>, <<"temp", k>>} \subseteq Entries
    BY DEF Entries
  <2>2. CASE data[k] # None
    BY <2>1, <2>2 DEF FilesOf
  <2>3. CASE meta[k] # None
    BY <2>1, <2>3 DEF FilesOf
  <2>4. CASE metaTmp[k] # None
    BY <2>1, <2>4 DEF FilesOf
  <2>5. CASE \E t \in temps : t[1] = k
    BY <2>1, <2>5 DEF FilesOf
  <2> QED BY <1>1, <2>2, <2>3, <2>4, <2>5 DEF Present
<1>2. ASSUME FilesOf(k) # {} PROVE Present(k)
  BY <1>2 DEF FilesOf, Present
<1> QED BY <1>1, <1>2

\* The invariant gives the property.
LEMMA HomesFiles == HomesInv => FilesHaveHomes
BY FilesPresent DEF HomesInv, Placed, Owned, FilesHaveHomes

\* A step of w, which owns no staged file; the other workers stay where they are.
StagesNone(w) == /\ \A v \in Workers \ {w} : pc'[v] = pc[v] /\ req'[v] = req[v]
                 /\ pc[w] # "rename"

\* Staged files do not change hands.
LEMMA UnstagedOwned ==
  ASSUME TypeOK, Owned, NEW w \in Workers, StagesNone(w), temps' \subseteq temps
  PROVE  Owned'
BY DEF TypeOK, Owned, StagesNone, Key

\* Files are created only where there is a directory.
LEMMA GrowsPlaced ==
  ASSUME Placed, dirs \subseteq dirs', dirs' # {} => Root \in dirs',
         \A k \in Keys : Present(k)' => Present(k) \/ Dir[k] \in dirs
  PROVE  Placed'
BY DEF Placed

\* A step that touches no file.
LEMMA LooksOnly ==
  ASSUME TypeOK, HomesInv, NEW w \in Workers, StagesNone(w),
         UNCHANGED <<data, meta, metaTmp, metaFd, tmpFd, temps, dirs>>
  PROVE  HomesInv'
<1>1. Owned'
  BY UnstagedOwned DEF HomesInv
<1>2. Placed' /\ Opened'
  BY DEF HomesInv, Placed, Opened, Present
<1> QED BY <1>1, <1>2 DEF HomesInv

\* The two halves of writing a sidecar.
LEMMA TruncateHomes ==
  ASSUME TypeOK, HomesInv, NEW w \in Workers, StagesNone(w), Dir[Key(w)] \in dirs,
         TruncateMeta(w, Key(w)), UNCHANGED <<data, metaTmp, tmpFd, temps, dirs>>
  PROVE  HomesInv'
<1>0. Key(w) \in Keys /\ Placed /\ Owned /\ Opened
  BY KeyFacts DEF HomesInv
<1>1. Opened'
  BY <1>0, SentinelAssumption DEF TypeOK, Opened, TruncateMeta
<1>2. Placed'
  BY <1>0, GrowsPlaced DEF TypeOK, Placed, Present, TruncateMeta
<1> QED BY <1>0, <1>1, <1>2, UnstagedOwned DEF HomesInv

LEMMA FillHomes ==
  ASSUME TypeOK, HomesInv, NEW w \in Workers, StagesNone(w), NEW s \in Sidecars,
         \/ FillMeta(w, Key(w), s)
         \/ metaFd' = [metaFd EXCEPT ![Key(w)] = @ \ {w}] /\ UNCHANGED meta,
         UNCHANGED <<data, metaTmp, tmpFd, temps, dirs>>
  PROVE  HomesInv'
<1>0. Key(w) \in Keys /\ Placed /\ Owned /\ Opened
  BY KeyFacts DEF HomesInv
<1>1. s # None /\ Torn # None
  BY SentinelAssumption
<1>2. /\ metaFd' = [metaFd EXCEPT ![Key(w)] = @ \ {w}]
      /\ \/ UNCHANGED meta
         \/ w \in metaFd[Key(w)] /\ \E f \in {s, Torn} : meta' = [meta EXCEPT ![Key(w)] = f]
  BY DEF FillMeta, Overwritten
<1>3. Opened'
  BY <1>0, <1>1, <1>2 DEF TypeOK, Opened
<1>4. \A k \in Keys : Present(k)' => Present(k)
  BY <1>0, <1>2 DEF TypeOK, Opened, Present
<1>5. Placed'
  BY <1>0, <1>4 DEF Placed
<1> QED BY <1>0, <1>3, <1>5, UnstagedOwned DEF HomesInv

\* Reads touch no file but for the backfill of the sidecar.
LEMMA ServeHomes ==
  ASSUME TypeInv, HomesInv, NEW w \in Workers, Serve(w)
  PROVE  HomesInv'
<1> USE DEF Goto, Respond, fileVars, localVars
<1>0. TypeOK
  BY DEF TypeInv
<1>1. CASE BfRead(w)
  BY <1>0, <1>1, LooksOnly DEF BfRead, StagesNone, TypeOK
<1>2. CASE BfHash(w)
  BY <1>0, <1>2, LooksOnly DEF BfHash, StagesNone, TypeOK
<1>3. CASE BfTrunc(w)
  <2>1. StagesNone(w) /\ UNCHANGED <<data, metaTmp, tmpFd, temps, dirs>>
    BY <1>0, <1>3 DEF BfTrunc, StagesNone, TypeOK
  <2> QED BY <1>0, <1>3, <2>1, LooksOnly, TruncateHomes DEF BfTrunc
<1>4. CASE BfWrite(w)
  <2>1. StagesNone(w) /\ UNCHANGED <<data, metaTmp, tmpFd, temps, dirs>>
    BY <1>0, <1>4 DEF BfWrite, StagesNone, TypeOK
  <2>2. side[w] \in Sidecars
    BY <1>4 DEF BfWrite, TypeInv, LocalsOK
  <2> QED BY <1>0, <1>4, <2>1, <2>2, FillHomes DEF BfWrite
<1>5. CASE GetStat(w)
  BY <1>0, <1>5, LooksOnly DEF GetStat, StagesNone, TypeOK, CallBackfill
<1>6. CASE GetTag(w)
  BY <1>0, <1>6, LooksOnly DEF GetTag, StagesNone, TypeOK
<1>7. CASE GetMeta(w)
  BY <1>0, <1>7, LooksOnly DEF GetMeta, StagesNone, TypeOK
<1>8. CASE GetOpen(w)
  BY <1>0, <1>8, LooksOnly DEF GetOpen, StagesNone, TypeOK
<1>9. CASE HeadMeta(w)
  BY <1>0, <1>9, LooksOnly DEF HeadMeta, StagesNone, TypeOK, CallBackfill
<1>10. CASE HeadTag(w)
  BY <1>0, <1>10, LooksOnly DEF HeadTag, StagesNone, TypeOK
<1> QED
  BY <1>1, <1>2, <1>3, <1>4, <1>5, <1>6, <1>7, <1>8, <1>9, <1>10 DEF Serve

\* An upload that no longer stages leaves no staged file.
LEMMA UnstageOwned ==
  ASSUME TypeOK, Owned, NEW w \in Workers, temps' = temps \ {<<Key(w), w>>},
         \A v \in Workers \ {w} : pc'[v] = pc[v] /\ req'[v] = req[v]
  PROVE  Owned'
<1> SUFFICES ASSUME NEW t \in temps', t[2] # NoWorker
             PROVE  pc'[t[2]] = "rename" /\ Key(t[2])' = t[1]
  BY DEF Owned
<1>1. t \in temps /\ t # <<Key(w), w>> /\ t = <<t[1], t[2]>> /\ t[2] \in Workers
  BY DEF TypeOK
<1>2. pc[t[2]] = "rename" /\ Key(t[2]) = t[1]
  BY <1>1 DEF Owned
<1>3. t[2] # w
  BY <1>1, <1>2
<1> QED BY <1>1, <1>2, <1>3 DEF Key

\* An upload makes the directories, stages, renames, and writes the sidecar.
LEMMA WriteHomes ==
  ASSUME TypeInv, HomesInv, NEW w \in Workers, Write(w)
  PROVE  HomesInv'
<1> USE DEF Goto, Respond, fileVars, localVars
<1>0. TypeOK /\ Key(w) \in Keys /\ Placed /\ Owned /\ Opened
  BY KeyFacts DEF TypeInv, HomesInv
<1>1. CASE PutStat(w)
  BY <1>0, <1>1, LooksOnly DEF PutStat, StagesNone, TypeOK, CallBackfill
<1>2. CASE PutNone(w)
  BY <1>0, <1>2, LooksOnly DEF PutNone, StagesNone, TypeOK, CallBackfill
<1>3. CASE PutMatch(w)
  BY <1>0, <1>3, LooksOnly DEF PutMatch, StagesNone, TypeOK
<1>4. CASE CpStat(w)
  BY <1>0, <1>4, LooksOnly DEF CpStat, StagesNone, TypeOK
<1>5. CASE CpMeta(w)
  BY <1>0, <1>5, LooksOnly DEF CpMeta, StagesNone, TypeOK
<1>6. CASE CpOpen(w)
  BY <1>0, <1>6, LooksOnly DEF CpOpen, StagesNone, TypeOK
<1>7. CASE Mkdir(w)
  <2>1. StagesNone(w) /\ UNCHANGED <<data, meta, metaTmp, metaFd, tmpFd, temps>>
    BY <1>0, <1>7 DEF Mkdir, Fail, StagesNone, TypeOK
  <2>2. dirs' = dirs \/ dirs' = dirs \cup {Root, Dir[Key(w)]}
    BY <1>7 DEF Mkdir
  <2>3. Placed' /\ Opened'
    BY <1>0, <2>1, <2>2 DEF Placed, Opened, Present
  <2> QED BY <1>0, <2>1, <2>3, UnstagedOwned DEF HomesInv
<1>8. CASE Stage(w)
  <2>1. StagesNone(w) /\ UNCHANGED <<data, meta, metaTmp, metaFd, tmpFd, dirs, req>>
    BY <1>0, <1>8 DEF Stage, Fail, StagesNone, TypeOK
  <2>2. CASE UNCHANGED temps
    BY <1>0, <2>1, <2>2, LooksOnly
  <2>3. CASE Dir[Key(w)] \in dirs /\ temps' = temps \cup {<<Key(w), w>>} /\ Goto(w, "rename")
    <3>1. Opened'
      BY <1>0, <2>1 DEF Opened
    <3>2. Placed'
      BY <1>0, <2>1, <2>3, GrowsPlaced DEF Placed, Present
    <3>3. Owned'
      <4> SUFFICES ASSUME NEW t \in temps', t[2] # NoWorker
                   PROVE  pc'[t[2]] = "rename" /\ Key(t[2])' = t[1]
        BY DEF Owned
      <4>1. CASE t = <<Key(w), w>>
        BY <1>0, <2>1, <2>3, <4>1 DEF TypeOK, Key
      <4>2. CASE t \in temps
        BY <1>0, <2>1, <2>3, <4>2 DEF TypeOK, Key, Owned, StagesNone
      <4> QED BY <2>3, <4>1, <4>2
    <3> QED BY <3>1, <3>2, <3>3 DEF HomesInv
  <2> QED BY <1>8, <2>2, <2>3 DEF Stage
<1>9. CASE Rename(w)
  <2>1. /\ \A v \in Workers \ {w} : pc'[v] = pc[v] /\ req'[v] = req[v]
        /\ UNCHANGED <<meta, metaTmp, metaFd, tmpFd, dirs>>
        /\ <<Key(w), w>> \in temps /\ temps' = temps \ {<<Key(w), w>>}
        /\ data' = [data EXCEPT ![Key(w)] = ver[w]]
    BY <1>0, <1>9 DEF Rename, TypeOK
  <2>2. \A k \in Keys : Present(k)' => Present(k)
    BY <1>0, <2>1 DEF TypeOK, Present
  <2>3. Placed' /\ Opened'
    BY <1>0, <2>1, <2>2 DEF Placed, Opened
  <2> QED BY <1>0, <2>1, <2>3, UnstageOwned DEF HomesInv
<1>10. CASE StreamFails(w)
  <2>1. /\ \A v \in Workers \ {w} : pc'[v] = pc[v] /\ req'[v] = req[v]
        /\ UNCHANGED <<data, meta, metaTmp, metaFd, tmpFd, dirs>>
        /\ temps' = temps \ {<<Key(w), w>>}
    BY <1>0, <1>10 DEF StreamFails, Fail, TypeOK
  <2>2. Placed' /\ Opened'
    BY <1>0, <2>1 DEF Placed, Opened, Present
  <2> QED BY <1>0, <2>1, <2>2, UnstageOwned DEF HomesInv
<1>11. CASE MetaTrunc(w)
  <2>1. StagesNone(w) /\ UNCHANGED <<data, metaTmp, tmpFd, temps, dirs>>
    BY <1>0, <1>11 DEF MetaTrunc, Fail, StagesNone, TypeOK
  <2> QED BY <1>0, <1>11, <2>1, LooksOnly, TruncateHomes DEF MetaTrunc
<1>12. CASE MetaWrite(w)
  <2>1. StagesNone(w) /\ UNCHANGED <<data, metaTmp, tmpFd, temps, dirs>>
    BY <1>0, <1>12 DEF MetaWrite, Fail, StagesNone, TypeOK
  <2>2. NewSidecar(w) \in Sidecars
    BY <1>0, <1>12, NewSidecarFact DEF MetaWrite, TypeInv, TypeOK, LocalsOK, Uploading, Publishing
  <2> QED BY <1>0, <1>12, <2>1, <2>2, FillHomes DEF MetaWrite
<1> QED
  BY <1>1, <1>2, <1>3, <1>4, <1>5, <1>6, <1>7, <1>8, <1>9, <1>10, <1>11, <1>12 DEF Write

\* A directory that shows no file holds no key's file.
LEMMA EmptyDirectory ==
  ASSUME NEW d, FilesIn(d) = {}, NEW k \in Keys, Dir[k] = d
  PROVE  ~Present(k)
<1>1. FilesOf(k) = {}
  BY DEF FilesIn
<1> QED BY <1>1, FilesPresent

\* Files are removed, and directories only when they are empty.
LEMMA ShrinksHomes ==
  ASSUME TypeOK, HomesInv, NEW w \in Workers, StagesNone(w),
         UNCHANGED <<data, meta, metaTmp, metaFd, tmpFd, temps>>, dirs' \subseteq dirs,
         Root \in dirs => Root \in dirs' \/ dirs' = {},
         \A d \in dirs \ dirs' : FilesIn(d) = {}
  PROVE  HomesInv'
<1>0. Placed /\ Owned /\ Opened
  BY DEF HomesInv
<1>1. \A k \in Keys : Present(k)' <=> Present(k)
  BY DEF Present
<1>2. ASSUME NEW k \in Keys, Present(k) PROVE {Root, Dir[k]} \subseteq dirs'
  <2>1. {Root, Dir[k]} \subseteq dirs
    BY <1>0, <1>2 DEF Placed
  <2>2. Dir[k] \in dirs'
    BY <1>2, <2>1, EmptyDirectory
  <2> QED BY <2>1, <2>2
<1>3. Placed'
  BY <1>0, <1>1, <1>2 DEF Placed
<1>4. Opened'
  BY <1>0 DEF Opened
<1> QED BY <1>0, <1>3, <1>4, UnstagedOwned DEF HomesInv

\* A delete removes the files of its key, then the directory if it is empty.
LEMMA RemoveHomes ==
  ASSUME TypeInv, HomesInv, NEW w \in Workers, Remove(w)
  PROVE  HomesInv'
<1> USE DEF Goto, Respond, localVars
<1>0. TypeOK /\ Key(w) \in Keys /\ Placed /\ Owned /\ Opened
  BY KeyFacts DEF TypeInv, HomesInv
<1>1. CASE DelData(w)
  <2>1. StagesNone(w) /\ UNCHANGED <<meta, metaTmp, metaFd, tmpFd, temps, dirs>>
    BY <1>0, <1>1 DEF DelData, Fail, StagesNone, TypeOK
  <2>2. data' = data \/ data' = [data EXCEPT ![Key(w)] = None]
    BY <1>1 DEF DelData
  <2>3. \A k \in Keys : Present(k)' => Present(k)
    BY <1>0, <2>1, <2>2 DEF TypeOK, Present
  <2>4. Placed' /\ Opened'
    BY <1>0, <2>1, <2>3 DEF Placed, Opened
  <2> QED BY <1>0, <2>1, <2>4, UnstagedOwned DEF HomesInv
<1>2. CASE DelMeta(w)
  <2>1. StagesNone(w) /\ UNCHANGED <<data, metaTmp, tmpFd, temps, dirs>>
    BY <1>0, <1>2 DEF DelMeta, StagesNone, TypeOK
  <2>2. CASE UNCHANGED <<meta, metaFd>>
    BY <1>0, <2>1, <2>2, LooksOnly
  <2>3. CASE /\ meta' = [meta EXCEPT ![Key(w)] = None]
             /\ metaFd' = [metaFd EXCEPT ![Key(w)] = {}]
    <3>1. \A k \in Keys : Present(k)' => Present(k)
      BY <1>0, <2>1, <2>3 DEF TypeOK, Present
    <3>2. Placed'
      BY <1>0, <2>1, <3>1 DEF Placed
    <3>3. Opened'
      BY <1>0, <2>1, <2>3 DEF TypeOK, Opened
    <3> QED BY <1>0, <2>1, <3>2, <3>3, UnstagedOwned DEF HomesInv
  <2> QED BY <1>2, <2>2, <2>3 DEF DelMeta
<1>3. CASE DelDirs(w)
  <2>1. StagesNone(w) /\ UNCHANGED <<data, meta, metaTmp, metaFd, tmpFd, temps>>
    BY <1>0, <1>3 DEF DelDirs, StagesNone, TypeOK
  <2>2. dirs' = Collapsed(Dir[Key(w)])
    BY <1>3 DEF DelDirs
  <2>3. /\ dirs' \subseteq dirs
        /\ Root \in dirs => Root \in dirs'
        /\ \A d \in dirs \ dirs' : FilesIn(d) = {}
    BY <2>2 DEF Collapsed
  <2> QED BY <1>0, <2>1, <2>3, ShrinksHomes
<1> QED
  BY <1>1, <1>2, <1>3 DEF Remove

\* The ACL is written beside the sidecar and renamed over it.
LEMMA SetACLHomes ==
  ASSUME TypeInv, HomesInv, NEW w \in Workers, SetACL(w)
  PROVE  HomesInv'
<1> USE DEF Goto, Respond, fileVars, localVars
<1>0. TypeOK /\ Key(w) \in Keys /\ Placed /\ Owned /\ Opened
  BY KeyFacts DEF TypeInv, HomesInv
<1>1. CASE AclStat(w)
  BY <1>0, <1>1, LooksOnly DEF AclStat, StagesNone, TypeOK
<1>2. CASE AclRead(w)
  BY <1>0, <1>2, LooksOnly DEF AclRead, StagesNone, TypeOK
<1>3. CASE AclTrunc(w)
  <2>1. StagesNone(w) /\ UNCHANGED <<data, meta, metaFd, temps, dirs>>
    BY <1>0, <1>3 DEF AclTrunc, StagesNone, TypeOK
  <2>2. CASE UNCHANGED <<metaTmp, tmpFd>>
    BY <1>0, <2>1, <2>2, LooksOnly
  <2>3. CASE /\ Dir[Key(w)] \in dirs
             /\ metaTmp' = [metaTmp EXCEPT ![Key(w)] = Torn]
             /\ tmpFd' = [tmpFd EXCEPT ![Key(w)] = @ \cup {w}]
    <3>1. Opened'
      BY <1>0, <2>1, <2>3, SentinelAssumption DEF TypeOK, Opened
    <3>2. Placed'
      BY <1>0, <2>1, <2>3, GrowsPlaced DEF TypeOK, Placed, Present
    <3> QED BY <1>0, <2>1, <3>1, <3>2, UnstagedOwned DEF HomesInv
  <2> QED BY <1>3, <2>2, <2>3 DEF AclTrunc
<1>4. CASE AclWrite(w)
  <2> DEFINE k == Key(w)
  <2>1. /\ StagesNone(w) /\ UNCHANGED <<data, temps, dirs>>
        /\ tmpFd' = [tmpFd EXCEPT ![k] = @ \ {w}]
        /\ metaFd' = [metaFd EXCEPT ![k] = @ \ {w}]
    BY <1>0, <1>4 DEF AclWrite, StagesNone, TypeOK
  <2>2. side[w] # None /\ Torn # None
    BY <1>4, SentinelAssumption DEF AclWrite, TypeInv, LocalsOK
  <2>3. \/ UNCHANGED metaTmp
        \/ w \in tmpFd[k] /\ \E f \in {side[w], Torn} : metaTmp' = [metaTmp EXCEPT ![k] = f]
    BY <1>4 DEF AclWrite, Overwritten
  <2>4. \/ UNCHANGED meta
        \/ w \in metaFd[k] /\ \E f \in {side[w], Torn} : meta' = [meta EXCEPT ![k] = f]
    BY <1>4 DEF AclWrite, Overwritten
  <2> HIDE DEF k
  <2>5. k \in Keys
    BY <1>0 DEF k
  <2>6. \A x \in Keys : /\ metaTmp'[x] # None <=> metaTmp[x] # None
                        /\ meta'[x] # None <=> meta[x] # None
    BY <1>0, <2>2, <2>3, <2>4, <2>5 DEF TypeOK, Opened
  <2>7. Opened'
    BY <1>0, <2>1, <2>5, <2>6 DEF TypeOK, Opened
  <2>8. \A x \in Keys : Present(x)' => Present(x)
    BY <2>1, <2>6 DEF Present
  <2>9. Placed'
    BY <1>0, <2>1, <2>8 DEF Placed
  <2> QED BY <1>0, <2>1, <2>7, <2>9, UnstagedOwned DEF HomesInv
<1>5. CASE AclRename(w)
  <2> DEFINE k == Key(w)
  <2>1. StagesNone(w) /\ UNCHANGED <<data, temps, dirs>>
    BY <1>0, <1>5 DEF AclRename, StagesNone, TypeOK
  <2>2. CASE UNCHANGED <<meta, metaFd, metaTmp, tmpFd>>
    BY <1>0, <2>1, <2>2, LooksOnly
  <2>3. CASE /\ metaTmp[k] # None
             /\ meta' = [meta EXCEPT ![k] = metaTmp[k]]
             /\ metaFd' = [metaFd EXCEPT ![k] = tmpFd[k]]
             /\ metaTmp' = [metaTmp EXCEPT ![k] = None]
             /\ tmpFd' = [tmpFd EXCEPT ![k] = {}]
    <3>1. Opened'
      BY <1>0, <2>1, <2>3 DEF TypeOK, Opened
    <3>2. \A x \in Keys : Present(x)' => Present(x)
      BY <1>0, <2>1, <2>3 DEF TypeOK, Present
    <3>3. Placed'
      BY <1>0, <2>1, <3>2 DEF Placed
    <3> QED BY <1>0, <2>1, <3>1, <3>3, UnstagedOwned DEF HomesInv
  <2> QED BY <1>5, <2>2, <2>3 DEF AclRename
<1> QED
  BY <1>1, <1>2, <1>3, <1>4, <1>5 DEF SetACL

\* Deleting a bucket removes files and then the directories they were in.
LEMMA BucketHomes ==
  ASSUME TypeInv, HomesInv, NEW w \in Workers, Bucket(w)
  PROVE  HomesInv'
<1> USE DEF Goto, Respond, fileVars, localVars
<1>0. TypeOK /\ Placed /\ Owned /\ Opened
  BY DEF TypeInv, HomesInv
<1>1. CASE CbStat(w)
  BY <1>0, <1>1, LooksOnly DEF CbStat, StagesNone, TypeOK
<1>2. CASE CbMkdir(w)
  <2>1. StagesNone(w) /\ UNCHANGED <<data, meta, metaTmp, metaFd, tmpFd, temps>>
    BY <1>0, <1>2 DEF CbMkdir, StagesNone, TypeOK
  <2>2. dirs' = dirs \/ dirs' = dirs \cup {Root}
    BY <1>2 DEF CbMkdir
  <2>3. Placed' /\ Opened'
    BY <1>0, <2>1, <2>2 DEF Placed, Opened, Present
  <2> QED BY <1>0, <2>1, <2>3, UnstagedOwned DEF HomesInv
<1>3. CASE CbAcl(w)
  BY <1>0, <1>3, LooksOnly DEF CbAcl, StagesNone, TypeOK, PutBucketACL
<1>4. CASE BaStat(w)
  BY <1>0, <1>4, LooksOnly DEF BaStat, StagesNone, TypeOK
<1>5. CASE DbStat(w)
  BY <1>0, <1>5, LooksOnly DEF DbStat, StagesNone, TypeOK
<1>6. CASE DbCheck(w)
  BY <1>0, <1>6, LooksOnly DEF DbCheck, StagesNone, TypeOK
<1>7. CASE DbScan(w)
  BY <1>0, <1>7, LooksOnly DEF DbScan, StagesNone, TypeOK
<1>8. CASE DbRemove(w)
  <2>1. StagesNone(w) /\ UNCHANGED dirs
    BY <1>0, <1>8 DEF DbRemove, StagesNone, TypeOK
  <2>2. PICK e \in Entries :
          /\ data' = Unlink(data, "data", e, None)
          /\ meta' = Unlink(meta, "meta", e, None)
          /\ metaFd' = Unlink(metaFd, "meta", e, {})
          /\ metaTmp' = Unlink(metaTmp, "metaTmp", e, None)
          /\ tmpFd' = Unlink(tmpFd, "metaTmp", e, {})
          /\ temps' = IF e[1] = "temp" THEN {t \in temps : t[1] # e[2]} ELSE temps
    BY <1>8 DEF DbRemove
  <2>3. temps' \subseteq temps /\ e[2] \in Keys
    BY <2>2 DEF Entries
  <2>4. \A k \in Keys : /\ data'[k] \in {data[k], None}
                        /\ metaTmp'[k] \in {metaTmp[k], None} /\ meta'[k] \in {meta[k], None}
    BY <1>0, <2>2, <2>3 DEF TypeOK, Unlink
  <2>5. \A k \in Keys : Present(k)' => Present(k)
    BY <2>3, <2>4 DEF Present
  <2>6. Placed'
    BY <1>0, <2>1, <2>5 DEF Placed
  <2>7. Opened'
    BY <1>0, <2>2, <2>3 DEF TypeOK, Opened, Unlink
  <2> QED BY <1>0, <2>1, <2>3, <2>6, <2>7, UnstagedOwned DEF HomesInv
<1>9. CASE DbFinish(w)
  <2> DEFINE emptied == {d \in dirs : <<"dir", d>> \in todo[w] /\ FilesIn(d) = {}}
             rest == dirs \ (emptied \ {Root})
  <2>1. StagesNone(w) /\ UNCHANGED <<data, meta, metaTmp, metaFd, tmpFd, temps>>
    BY <1>0, <1>9 DEF DbFinish, StagesNone, TypeOK
  <2>2. dirs' = rest \/ (dirs' = {} /\ rest \subseteq {Root} /\ FilesIn(Root) = {})
    BY <1>9 DEF DbFinish
  <2>3. /\ dirs' \subseteq dirs
        /\ Root \in dirs => Root \in dirs' \/ dirs' = {}
        /\ \A d \in dirs \ dirs' : FilesIn(d) = {}
    BY <2>2
  <2>4. HomesInv'
    BY <1>0, <2>1, <2>3, ShrinksHomes
  <2> QED BY <2>4
<1>10. CASE DbFails(w)
  BY <1>0, <1>10, LooksOnly DEF DbFails, StagesNone, TypeOK
<1> QED
  BY <1>1, <1>2, <1>3, <1>4, <1>5, <1>6, <1>7, <1>8, <1>9, <1>10 DEF Bucket

\* A killed process leaves its files where they are and drops its descriptors.
LEMMA CrashHomes ==
  ASSUME TypeOK, HomesInv, Crash
  PROVE  HomesInv'
<1>0. Placed /\ UNCHANGED <<data, meta, metaTmp, dirs>>
  BY DEF HomesInv, Crash
<1>1. temps' = {<<t[1], NoWorker>> : t \in temps}
  BY DEF Crash
<1>2. \A k \in Keys : Present(k)' => Present(k)
  BY <1>0, <1>1 DEF Present
<1>3. Placed'
  BY <1>0, <1>2 DEF Placed
<1>4. Owned'
  BY <1>1 DEF Owned
<1>5. Opened'
  BY DEF Crash, Opened
<1> QED BY <1>3, <1>4, <1>5 DEF HomesInv

\* Every step keeps files in their directories.
LEMMA NextHomes == TypeInv /\ HomesInv /\ [Next]_vars => HomesInv'
<1> SUFFICES ASSUME TypeInv, HomesInv, [Next]_vars PROVE HomesInv'
  OBVIOUS
<1>0. TypeOK
  BY DEF TypeInv
<1>1. ASSUME NEW w \in Workers, Start(w) PROVE HomesInv'
  BY <1>0, <1>1, LooksOnly DEF Start, StagesNone, TypeOK, Goto, fileVars
<1>2. ASSUME NEW w \in Workers, Lock(w) PROVE HomesInv'
  BY <1>0, <1>2, LooksOnly DEF Lock, StagesNone, TypeOK, Goto, fileVars, localVars
<1>3. ASSUME NEW w \in Workers, Finish(w) PROVE HomesInv'
  BY <1>0, <1>3, LooksOnly DEF Finish, StagesNone, TypeOK, Goto, fileVars
<1>4. ASSUME NEW w \in Workers, Step(w), ~Finish(w) PROVE HomesInv'
  BY <1>4, ServeHomes, WriteHomes, RemoveHomes, SetACLHomes, BucketHomes DEF Step
<1>5. CASE Crash
  BY <1>0, <1>5, CrashHomes
<1>6. CASE UNCHANGED vars
  BY <1>6 DEF vars, fileVars, localVars, HomesInv, Placed, Owned, Opened, Present, Key
<1> QED BY <1>1, <1>2, <1>3, <1>4, <1>5, <1>6 DEF Next

LEMMA HomesInvariant == Spec => []HomesInv
<1>1. Init => HomesInv
  <2> SUFFICES ASSUME Init PROVE HomesInv
    OBVIOUS
  <2>1. \A k \in Keys : Present(k) => k \in Legacy
    BY DEF Init, Present
  <2>2. Placed
    BY <2>1 DEF Init, Placed
  <2>3. Owned /\ Opened
    BY DEF Init, Owned, Opened
  <2> QED BY <2>2, <2>3 DEF HomesInv
<1> QED BY <1>1, NextHomes, TypeInvariant, PTL DEF Spec

(***************************************************************************)
(* However uploads, deletes, backfills, ACL updates and bucket deletions   *)
(* interleave, fail or are killed: no directory is removed from under a    *)
(* file, and only a killed process leaves staged bytes behind.             *)
(***************************************************************************)
THEOREM FilesStayHome == Spec => []FilesHaveHomes
BY HomesInvariant, HomesFiles, PTL
-----------------------------------------------------------------------------
(***************************************************************************)
(* What the striped lock gives: LockDiscipline and PublishedAlone for every *)
(* mix of requests, with crashes and disk faults, and ConsistentPair for   *)
(* the handlers that take it.                                              *)
(***************************************************************************)
\* A step of w that neither enters nor leaves its critical section.
StaysPut(w) ==
  /\ UNCHANGED <<lock, req>>
  /\ \E p \in PCs : /\ pc' = [pc EXCEPT ![w] = p]
                    /\ p \in InCritical <=> pc[w] \in InCritical

\* A step of w that returns from finalizeObjectWrite or removeObject.
Leaves(w) ==
  /\ pc[w] \in InCritical
  /\ Unlock(w)
  /\ pc' = [pc EXCEPT ![w] = "done"]
  /\ UNCHANGED req

\* Steps that stay inside or outside the critical section keep the discipline.
LEMMA StaysPutDiscipline ==
  ASSUME TypeOK, LockDiscipline, NEW w \in Workers, StaysPut(w)
  PROVE LockDiscipline'
BY DEF TypeOK, LockDiscipline, StaysPut, Key

\* So do returns: the lock was the worker's own.
LEMMA LeavesDiscipline ==
  ASSUME TypeOK, LockDiscipline, NEW w \in Workers, Leaves(w)
  PROVE LockDiscipline'
<1>1. "done" \notin InCritical
  BY DEF InCritical
<1>2. NoWorker \notin Workers
  BY SentinelAssumption
<1> QED BY <1>1, <1>2, KeyFacts DEF TypeOK, LockDiscipline, Leaves, Unlock, Key

\* Reads take no lock.
LEMMA ServeSection ==
  ASSUME TypeOK, NEW w \in Workers, Serve(w)
  PROVE StaysPut(w)
<1> USE DEF StaysPut, Goto, Respond, PCs, InCritical, localVars
<1>1. CASE BfRead(w)
  BY <1>1 DEF BfRead, TypeOK
<1>2. CASE BfHash(w)
  BY <1>2 DEF BfHash, TypeOK
<1>3. CASE BfTrunc(w)
  BY <1>3 DEF BfTrunc, TypeOK
<1>4. CASE BfWrite(w)
  BY <1>4 DEF BfWrite, TypeOK
<1>5. CASE GetStat(w)
  BY <1>5 DEF GetStat, TypeOK, CallBackfill
<1>6. CASE GetTag(w)
  BY <1>6 DEF GetTag, TypeOK
<1>7. CASE GetMeta(w)
  BY <1>7 DEF GetMeta, TypeOK
<1>8. CASE GetOpen(w)
  BY <1>8 DEF GetOpen, TypeOK
<1>9. CASE HeadMeta(w)
  BY <1>9 DEF HeadMeta, TypeOK, CallBackfill
<1>10. CASE HeadTag(w)
  BY <1>10 DEF HeadTag, TypeOK
<1> QED
  BY <1>1, <1>2, <1>3, <1>4, <1>5, <1>6, <1>7, <1>8, <1>9, <1>10 DEF Serve

\* An upload keeps its stripe until it returns.
LEMMA WriteSection ==
  ASSUME TypeOK, NEW w \in Workers, Write(w)
  PROVE StaysPut(w) \/ Leaves(w)
<1> USE DEF StaysPut, Goto, Respond, PCs, InCritical, localVars
<1>1. CASE PutStat(w)
  BY <1>1 DEF PutStat, TypeOK, CallBackfill
<1>2. CASE PutNone(w)
  BY <1>2 DEF PutNone, TypeOK, CallBackfill
<1>3. CASE PutMatch(w)
  BY <1>3 DEF PutMatch, TypeOK
<1>4. CASE CpStat(w)
  BY <1>4 DEF CpStat, TypeOK
<1>5. CASE CpMeta(w)
  BY <1>5 DEF CpMeta, TypeOK
<1>6. CASE CpOpen(w)
  BY <1>6 DEF CpOpen, TypeOK
<1>7. CASE Mkdir(w)
  BY <1>7 DEF Mkdir, TypeOK, Fail, Leaves
<1>8. CASE Stage(w)
  BY <1>8 DEF Stage, TypeOK, Fail, Leaves
<1>9. CASE Rename(w)
  BY <1>9 DEF Rename, TypeOK
<1>10. CASE StreamFails(w)
  BY <1>10 DEF StreamFails, TypeOK, Fail, Leaves
<1>11. CASE MetaTrunc(w)
  BY <1>11 DEF MetaTrunc, TypeOK, Fail, Leaves
<1>12. CASE MetaWrite(w)
  BY <1>12 DEF MetaWrite, TypeOK, Fail, Leaves
<1> QED
  BY <1>1, <1>2, <1>3, <1>4, <1>5, <1>6, <1>7, <1>8, <1>9, <1>10, <1>11, <1>12 DEF Write

\* A delete keeps its stripe until it returns.
LEMMA RemoveSection ==
  ASSUME TypeOK, NEW w \in Workers, Remove(w)
  PROVE StaysPut(w) \/ Leaves(w)
<1> USE DEF StaysPut, Goto, Respond, PCs, InCritical, localVars
<1>1. CASE DelData(w)
  BY <1>1 DEF DelData, TypeOK, Fail, Leaves
<1>2. CASE DelMeta(w)
  BY <1>2 DEF DelMeta, TypeOK
<1>3. CASE DelDirs(w)
  BY <1>3 DEF DelDirs, TypeOK, Leaves
<1> QED
  BY <1>1, <1>2, <1>3 DEF Remove

\* Setting an ACL takes no lock.
LEMMA SetACLSection ==
  ASSUME TypeOK, NEW w \in Workers, SetACL(w)
  PROVE StaysPut(w)
<1> USE DEF StaysPut, Goto, Respond, PCs, InCritical, localVars
<1>1. CASE AclStat(w)
  BY <1>1 DEF AclStat, TypeOK
<1>2. CASE AclRead(w)
  BY <1>2 DEF AclRead, TypeOK
<1>3. CASE AclTrunc(w)
  BY <1>3 DEF AclTrunc, TypeOK
<1>4. CASE AclWrite(w)
  BY <1>4 DEF AclWrite, TypeOK
<1>5. CASE AclRename(w)
  BY <1>5 DEF AclRename, TypeOK
<1> QED
  BY <1>1, <1>2, <1>3, <1>4, <1>5 DEF SetACL

\* The bucket handlers take no lock.
LEMMA BucketSection ==
  ASSUME TypeOK, NEW w \in Workers, Bucket(w)
  PROVE StaysPut(w)
<1> USE DEF StaysPut, Goto, Respond, PCs, InCritical, localVars
<1>1. CASE CbStat(w)
  BY <1>1 DEF CbStat, TypeOK
<1>2. CASE CbMkdir(w)
  BY <1>2 DEF CbMkdir, TypeOK
<1>3. CASE CbAcl(w)
  BY <1>3 DEF CbAcl, TypeOK, PutBucketACL
<1>4. CASE BaStat(w)
  BY <1>4 DEF BaStat, TypeOK
<1>5. CASE DbStat(w)
  BY <1>5 DEF DbStat, TypeOK
<1>6. CASE DbCheck(w)
  BY <1>6 DEF DbCheck, TypeOK
<1>7. CASE DbScan(w)
  BY <1>7 DEF DbScan, TypeOK
<1>8. CASE DbRemove(w)
  BY <1>8 DEF DbRemove, TypeOK
<1>9. CASE DbFinish(w)
  BY <1>9 DEF DbFinish, TypeOK
<1>10. CASE DbFails(w)
  BY <1>10 DEF DbFails, TypeOK
<1> QED
  BY <1>1, <1>2, <1>3, <1>4, <1>5, <1>6, <1>7, <1>8, <1>9, <1>10 DEF Bucket

\* Every step keeps the discipline.
LEMMA NextDiscipline ==
  TypeOK /\ LockDiscipline /\ [Next]_vars => LockDiscipline'
<1> SUFFICES ASSUME TypeOK, LockDiscipline, [Next]_vars PROVE LockDiscipline'
  OBVIOUS
<1>1. ASSUME NEW w \in Workers, Start(w) PROVE LockDiscipline'
  <2>1. PICK r \in Requests : Goto(w, FirstStep(r)) /\ req' = [req EXCEPT ![w] = r]
    BY <1>1 DEF Start
  <2>2. FirstStep(r) \notin InCritical
    BY RequestFields DEF FirstStep, InCritical, Ops
  <2>3. "idle" \notin InCritical /\ pc[w] = "idle" /\ lock' = lock
    BY <1>1 DEF Start, InCritical
  <2> QED BY <2>1, <2>2, <2>3 DEF TypeOK, LockDiscipline, Goto, Key
<1>2. ASSUME NEW w \in Workers, Lock(w) PROVE LockDiscipline'
  <2>1. PICK p \in InCritical : pc' = [pc EXCEPT ![w] = p]
    BY <1>2 DEF Lock, Goto, InCritical
  <2>2. /\ pc[w] \notin InCritical
        /\ lock[Stripe[Key(w)]] = NoWorker
        /\ lock' = [lock EXCEPT ![Stripe[Key(w)]] = w]
        /\ req' = req
    BY <1>2 DEF Lock, localVars, InCritical
  <2>3. Stripe[Key(w)] \in Stripes
    BY KeyFacts
  <2> QED BY <2>1, <2>2, <2>3, SentinelAssumption DEF TypeOK, LockDiscipline, Key
<1>3. ASSUME NEW w \in Workers, Finish(w) PROVE LockDiscipline'
  <2>1. "idle" \notin InCritical /\ "done" \notin InCritical
    BY DEF InCritical
  <2> QED BY <1>3, <2>1 DEF Finish, Goto, TypeOK, LockDiscipline, Key
<1>4. ASSUME NEW w \in Workers, Step(w), ~Finish(w) PROVE LockDiscipline'
  BY <1>4, ServeSection, WriteSection, RemoveSection, SetACLSection, BucketSection,
     StaysPutDiscipline, LeavesDiscipline DEF Step
<1>5. CASE Crash
  <2>1. "idle" \notin InCritical
    BY DEF InCritical
  <2> QED BY <1>5, <2>1, SentinelAssumption DEF Crash, LockDiscipline
<1>6. CASE UNCHANGED vars
  BY <1>6 DEF vars, localVars, LockDiscipline, Key
<1> QED BY <1>1, <1>2, <1>3, <1>4, <1>5, <1>6 DEF Next

(***************************************************************************)
(* objectLocks is used correctly on every path of finalizeObjectWrite and  *)
(* removeObject: a stripe is held exactly by the request inside one of     *)
(* them, so two requests never mutate keys of one stripe at a time, and no *)
(* error return leaves a stripe locked.                                    *)
(***************************************************************************)
THEOREM LocksAreDisciplined == Spec => []LockDiscipline
<1>1. Init => LockDiscipline
  BY SentinelAssumption DEF Init, LockDiscipline, InCritical
<1> QED BY <1>1, NextDiscipline, TypeCorrect, PTL DEF Spec
-----------------------------------------------------------------------------
\* After the rename of a PUT; after the first removal of a DELETE.
Published == {"metaTrunc", "metaWrite"}
Gone == {"delMeta", "delDirs"}

(***************************************************************************)
(* A step of w that publishes nothing: data files stay or disappear, the   *)
(* other workers are not touched, and w moves within its own phase.        *)
(***************************************************************************)
Quiet(w) ==
  /\ \A k \in Keys : data'[k] \in {data[k], None}
  /\ \A v \in Workers \ {w} : pc'[v] = pc[v] /\ ver'[v] = ver[v] /\ req'[v] = req[v]
  /\ pc'[w] \in Published => pc[w] \in Published
  /\ pc'[w] \in Gone => pc[w] \in Gone
  /\ pc'[w] \in Published \cup Gone => ver'[w] = ver[w] /\ req'[w] = req[w]

\* Quiet steps keep the published files.
LEMMA QuietPublished ==
  ASSUME TypeOK, PublishedAlone, NEW w \in Workers, Quiet(w)
  PROVE PublishedAlone'
<1> SUFFICES ASSUME NEW v \in Workers
             PROVE  /\ pc'[v] \in Published => data'[Key(v)'] \in {ver'[v], None}
                    /\ pc'[v] \in Gone => data'[Key(v)'] = None
  BY DEF PublishedAlone, Published, Gone
<1>1. /\ pc[v] \in Published => data[Key(v)] \in {ver[v], None}
      /\ pc[v] \in Gone => data[Key(v)] = None
      /\ Key(v) \in Keys
  BY KeyFacts DEF PublishedAlone, Published, Gone
<1>2. CASE v # w
  BY <1>1, <1>2 DEF Quiet, Key
<1>3. CASE v = w
  BY <1>1, <1>3 DEF Quiet, Key
<1> QED BY <1>2, <1>3

\* Reads publish nothing.
LEMMA ServeQuiet ==
  ASSUME TypeOK, NEW w \in Workers, Serve(w)
  PROVE Quiet(w)
<1> USE DEF Quiet, Published, Gone, Goto, Respond, fileVars, localVars
<1>1. CASE BfRead(w)
  BY <1>1 DEF BfRead, TypeOK
<1>2. CASE BfHash(w)
  BY <1>2 DEF BfHash, TypeOK
<1>3. CASE BfTrunc(w)
  BY <1>3 DEF BfTrunc, TypeOK
<1>4. CASE BfWrite(w)
  BY <1>4 DEF BfWrite, TypeOK
<1>5. CASE GetStat(w)
  BY <1>5 DEF GetStat, TypeOK, CallBackfill
<1>6. CASE GetTag(w)
  BY <1>6 DEF GetTag, TypeOK
<1>7. CASE GetMeta(w)
  BY <1>7 DEF GetMeta, TypeOK
<1>8. CASE GetOpen(w)
  BY <1>8 DEF GetOpen, TypeOK
<1>9. CASE HeadMeta(w)
  BY <1>9 DEF HeadMeta, TypeOK, CallBackfill
<1>10. CASE HeadTag(w)
  BY <1>10 DEF HeadTag, TypeOK
<1> QED
  BY <1>1, <1>2, <1>3, <1>4, <1>5, <1>6, <1>7, <1>8, <1>9, <1>10 DEF Serve

\* An upload publishes with its rename only.
LEMMA WriteQuiet ==
  ASSUME TypeOK, NEW w \in Workers, Write(w), ~Rename(w)
  PROVE Quiet(w)
<1> USE DEF Quiet, Published, Gone, Goto, Respond, fileVars, localVars
<1>1. CASE PutStat(w)
  BY <1>1 DEF PutStat, TypeOK, CallBackfill
<1>2. CASE PutNone(w)
  BY <1>2 DEF PutNone, TypeOK, CallBackfill
<1>3. CASE PutMatch(w)
  BY <1>3 DEF PutMatch, TypeOK
<1>4. CASE CpStat(w)
  BY <1>4 DEF CpStat, TypeOK
<1>5. CASE CpMeta(w)
  BY <1>5 DEF CpMeta, TypeOK
<1>6. CASE CpOpen(w)
  BY <1>6 DEF CpOpen, TypeOK
<1>7. CASE Mkdir(w)
  BY <1>7 DEF Mkdir, TypeOK, Fail
<1>8. CASE Stage(w)
  BY <1>8 DEF Stage, TypeOK, Fail
<1>9. CASE StreamFails(w)
  BY <1>9 DEF StreamFails, TypeOK, Fail
<1>10. CASE MetaTrunc(w)
  BY <1>10 DEF MetaTrunc, TypeOK, Fail
<1>11. CASE MetaWrite(w)
  BY <1>11 DEF MetaWrite, TypeOK, Fail
<1> QED
  BY <1>1, <1>2, <1>3, <1>4, <1>5, <1>6, <1>7, <1>8, <1>9, <1>10, <1>11 DEF Write

\* A delete removes the data file with its first step only.
LEMMA RemoveQuiet ==
  ASSUME TypeOK, NEW w \in Workers, Remove(w), ~DelData(w)
  PROVE Quiet(w)
<1> USE DEF Quiet, Published, Gone, Goto, Respond, fileVars, localVars
<1>1. CASE DelMeta(w)
  BY <1>1 DEF DelMeta, TypeOK
<1>2. CASE DelDirs(w)
  BY <1>2 DEF DelDirs, TypeOK
<1> QED
  BY <1>1, <1>2 DEF Remove

\* Setting an ACL leaves the data files alone.
LEMMA SetACLQuiet ==
  ASSUME TypeOK, NEW w \in Workers, SetACL(w)
  PROVE Quiet(w)
<1> USE DEF Quiet, Published, Gone, Goto, Respond, fileVars, localVars
<1>1. CASE AclStat(w)
  BY <1>1 DEF AclStat, TypeOK
<1>2. CASE AclRead(w)
  BY <1>2 DEF AclRead, TypeOK
<1>3. CASE AclTrunc(w)
  BY <1>3 DEF AclTrunc, TypeOK
<1>4. CASE AclWrite(w)
  BY <1>4 DEF AclWrite, TypeOK
<1>5. CASE AclRename(w)
  BY <1>5 DEF AclRename, TypeOK
<1> QED
  BY <1>1, <1>2, <1>3, <1>4, <1>5 DEF SetACL

\* The bucket handlers at most remove data files.
LEMMA BucketQuiet ==
  ASSUME TypeOK, NEW w \in Workers, Bucket(w)
  PROVE Quiet(w)
<1> USE DEF Quiet, Published, Gone, Goto, Respond, fileVars, localVars
<1>1. CASE CbStat(w)
  BY <1>1 DEF CbStat, TypeOK
<1>2. CASE CbMkdir(w)
  BY <1>2 DEF CbMkdir, TypeOK
<1>3. CASE CbAcl(w)
  BY <1>3 DEF CbAcl, TypeOK, PutBucketACL
<1>4. CASE BaStat(w)
  BY <1>4 DEF BaStat, TypeOK
<1>5. CASE DbStat(w)
  BY <1>5 DEF DbStat, TypeOK
<1>6. CASE DbCheck(w)
  BY <1>6 DEF DbCheck, TypeOK
<1>7. CASE DbScan(w)
  BY <1>7 DEF DbScan, TypeOK
<1>8. CASE DbRemove(w)
  BY <1>8 DEF DbRemove, TypeOK, Unlink
<1>9. CASE DbFinish(w)
  BY <1>9 DEF DbFinish, TypeOK
<1>10. CASE DbFails(w)
  BY <1>10 DEF DbFails, TypeOK
<1> QED
  BY <1>1, <1>2, <1>3, <1>4, <1>5, <1>6, <1>7, <1>8, <1>9, <1>10 DEF Bucket

\* Two workers inside the critical section work on different keys.
LEMMA DifferentKeys ==
  ASSUME TypeOK, LockDiscipline, NEW v \in Workers, NEW w \in Workers, v # w,
         pc[v] \in InCritical, pc[w] \in InCritical
  PROVE  Key(v) # Key(w)
BY KeyFacts DEF LockDiscipline

\* Every step keeps the published files.
LEMMA NextPublished ==
  TypeOK /\ LockDiscipline /\ PublishedAlone /\ [Next]_vars => PublishedAlone'
<1> SUFFICES ASSUME TypeOK, LockDiscipline, PublishedAlone, [Next]_vars
             PROVE  PublishedAlone'
  OBVIOUS
<1> USE DEF Published, Gone
<1>1. ASSUME NEW w \in Workers, Start(w) PROVE PublishedAlone'
  <2>1. PICK r \in Requests : /\ Goto(w, FirstStep(r))
                              /\ req' = [req EXCEPT ![w] = r]
                              /\ \E v : ver' = [ver EXCEPT ![w] = v]
    BY <1>1 DEF Start
  <2>2. FirstStep(r) \notin Published \cup Gone
    BY RequestFields DEF FirstStep, Ops
  <2>3. Quiet(w)
    BY <1>1, <2>1, <2>2 DEF Start, Quiet, TypeOK, Goto, fileVars
  <2> QED BY <2>3, QuietPublished
<1>2. ASSUME NEW w \in Workers, Lock(w) PROVE PublishedAlone'
  <2>1. Quiet(w)
    BY <1>2 DEF Lock, Quiet, TypeOK, Goto, fileVars, localVars
  <2> QED BY <2>1, QuietPublished
<1>3. ASSUME NEW w \in Workers, Finish(w) PROVE PublishedAlone'
  <2>1. Quiet(w)
    BY <1>3 DEF Finish, Quiet, TypeOK, Goto, fileVars
  <2> QED BY <2>1, QuietPublished
<1>4. ASSUME NEW w \in Workers, Rename(w) PROVE PublishedAlone'
  <2> SUFFICES ASSUME NEW v \in Workers
               PROVE  /\ pc'[v] \in Published => data'[Key(v)'] \in {ver'[v], None}
                      /\ pc'[v] \in Gone => data'[Key(v)'] = None
    BY DEF PublishedAlone
  <2>1. /\ data' = [data EXCEPT ![Key(w)] = ver[w]]
        /\ pc' = [pc EXCEPT ![w] = "metaTrunc"]
        /\ pc[w] \in InCritical
        /\ ver' = ver /\ req' = req /\ Key(v)' = Key(v)
    BY <1>4 DEF Rename, Goto, localVars, InCritical, Key
  <2>2. Key(v) \in Keys /\ Key(w) \in Keys
    BY KeyFacts
  <2>3. CASE v = w
    BY <2>1, <2>2, <2>3 DEF TypeOK
  <2>4. CASE v # w /\ pc[v] \in InCritical
    <3>1. Key(v) # Key(w)
      BY <2>1, <2>4, DifferentKeys
    <3> QED BY <2>1, <2>2, <2>4, <3>1 DEF TypeOK, PublishedAlone
  <2>5. CASE v # w /\ pc[v] \notin InCritical
    BY <2>1, <2>5 DEF TypeOK, InCritical
  <2> QED BY <2>3, <2>4, <2>5
<1>5. ASSUME NEW w \in Workers, DelData(w) PROVE PublishedAlone'
  <2>1. CASE Fail(w) /\ data' = data
    <3>1. Quiet(w)
      BY <1>5, <2>1 DEF DelData, Fail, Quiet, TypeOK, Goto, Respond, localVars
    <3> QED BY <3>1, QuietPublished
  <2>2. CASE data' = [data EXCEPT ![Key(w)] = None] /\ Goto(w, "delMeta")
    <3> SUFFICES ASSUME NEW v \in Workers
                 PROVE  /\ pc'[v] \in Published => data'[Key(v)'] \in {ver'[v], None}
                        /\ pc'[v] \in Gone => data'[Key(v)'] = None
      BY DEF PublishedAlone
    <3>1. ver' = ver /\ req' = req /\ Key(v)' = Key(v)
      BY <1>5 DEF DelData, localVars, Key
    <3>2. Key(v) \in Keys /\ Key(w) \in Keys
      BY KeyFacts
    <3> QED BY <2>2, <3>1, <3>2 DEF TypeOK, PublishedAlone, Goto
  <2> QED BY <1>5, <2>1, <2>2 DEF DelData
<1>6. ASSUME NEW w \in Workers, Step(w), ~Finish(w), ~Rename(w), ~DelData(w)
      PROVE  PublishedAlone'
  <2>1. Quiet(w)
    BY <1>6, ServeQuiet, WriteQuiet, RemoveQuiet, SetACLQuiet, BucketQuiet DEF Step
  <2> QED BY <2>1, QuietPublished
<1>7. CASE Crash
  BY <1>7 DEF Crash, PublishedAlone
<1>8. CASE UNCHANGED vars
  BY <1>8 DEF vars, fileVars, localVars, PublishedAlone, Key
<1> QED BY <1>1, <1>2, <1>3, <1>4, <1>5, <1>6, <1>7, <1>8 DEF Next

(***************************************************************************)
(* What PUT and DELETE share the stripe for: between the rename of an      *)
(* upload and the write of its sidecar no other request of any kind puts   *)
(* another data file in its place, and none reappears under a DELETE.      *)
(***************************************************************************)
THEOREM UploadsPublishAlone == Spec => []PublishedAlone
<1>1. Init => PublishedAlone
  BY DEF Init, PublishedAlone
<1> QED BY <1>1, NextPublished, TypeCorrect, LocksAreDisciplined, PTL DEF Spec
-----------------------------------------------------------------------------
(***************************************************************************)
(* The promise of handlers/locks.go, for the handlers that keep it: if     *)
(* only the operations that mutate an object under its stripe are used     *)
(* (uploads, copies, deletes), an object's data file and sidecar are a     *)
(* consistent pair whenever the stripe is free.  The run of                *)
(* ObjectStoreAclRace shows that the hypothesis about the other handlers   *)
(* is needed.                                                              *)
(***************************************************************************)

(***************************************************************************)
(* No handler that writes the sidecar without the lock, no bucket          *)
(* deletion, no legacy object, no failing disk, no crash.                  *)
(***************************************************************************)
LockedOnly ==
  /\ Legacy = {} /\ ~Crashes /\ ~DiskFaults
  /\ \A r \in Requests :
       /\ r.op \in {"put", "copy", "delete", "createBucket", "bucketAcl"}
       /\ r.op = "put" => r.ifNone \in {None, Star} /\ r.ifMatch = None

\* Where such requests can be.
LockedPCs == InCritical \cup
  {"idle", "done", "putStat", "lock", "cpStat", "cpMeta", "cpOpen",
   "cbStat", "cbMkdir", "cbAcl", "baStat"}

\* The steps between the two halves of a mutation.
Dirty == {"metaTrunc", "metaWrite", "delMeta"}

\* Nothing else is running.
OnlyLocked ==
  \A w \in Workers : /\ pc[w] \in LockedPCs
                     /\ pc[w] = "putStat" => req[w].op = "put"

\* Data files and staged uploads are in directories that exist.
Homes ==
  /\ \A k \in Keys : data[k] # None => Dir[k] \in dirs
  /\ \A t \in temps : Dir[t[1]] \in dirs

\* A key that no worker is in the middle of has a matching pair.
CleanPairs ==
  \A k \in Keys : (\A w \in Workers : pc[w] \in Dirty => Key(w) # k) => PairOK(k)

\* What the worker in the middle knows.
DirtyKeys ==
  \A w \in Workers :
    /\ pc[w] \in {"metaTrunc", "metaWrite"} => data[Key(w)] = ver[w]
    /\ pc[w] = "metaWrite" => meta[Key(w)] = Torn /\ w \in metaFd[Key(w)]
    /\ pc[w] = "delMeta" => data[Key(w)] = None
    /\ pc[w] = "delDirs" => PairOK(Key(w))

\* The inductive invariant, on top of TypeInv and LockDiscipline.
PairInv == OnlyLocked /\ Homes /\ CleanPairs /\ DirtyKeys

(***************************************************************************)
(* A step of w outside the window between the two halves.                  *)
(***************************************************************************)
Bystander(w) ==
  /\ UNCHANGED <<data, meta, metaFd>>
  /\ dirs \subseteq dirs' /\ temps' \subseteq temps
  /\ \A v \in Workers \ {w} : pc'[v] = pc[v] /\ ver'[v] = ver[v] /\ req'[v] = req[v]
  /\ pc[w] \notin Dirty /\ pc'[w] \notin Dirty \cup {"delDirs"}
  /\ pc'[w] \in LockedPCs
  /\ pc'[w] = "putStat" => req'[w].op = "put"

\* Such a step disturbs no pair.
LEMMA BystanderPair ==
  ASSUME TypeOK, PairInv, NEW w \in Workers, Bystander(w)
  PROVE PairInv'
<1>1. OnlyLocked'
  BY DEF PairInv, OnlyLocked, Bystander
<1>2. Homes'
  BY DEF PairInv, Homes, Bystander
<1>3. ASSUME NEW k \in Keys, \A v \in Workers : pc'[v] \in Dirty => Key(v)' # k
      PROVE  PairOK(k)'
  <2>1. \A v \in Workers : pc[v] \in Dirty => Key(v) # k
    BY <1>3 DEF Bystander, Key
  <2>2. PairOK(k)
    BY <2>1 DEF PairInv, CleanPairs
  <2> QED BY <2>2 DEF PairOK, Bystander
<1>4. CleanPairs'
  BY <1>3 DEF CleanPairs
<1>5. ASSUME NEW v \in Workers
      PROVE  /\ pc'[v] \in {"metaTrunc", "metaWrite"} => data'[Key(v)'] = ver'[v]
             /\ pc'[v] = "metaWrite" => meta'[Key(v)'] = Torn /\ v \in metaFd'[Key(v)']
             /\ pc'[v] = "delMeta" => data'[Key(v)'] = None
             /\ pc'[v] = "delDirs" => PairOK(Key(v))'
  <2>1. CASE v = w
    BY <2>1 DEF Bystander, Dirty
  <2>2. CASE v # w
    BY <2>2 DEF PairInv, DirtyKeys, Bystander, Key, PairOK
  <2> QED BY <2>1, <2>2
<1>6. DirtyKeys'
  BY <1>5 DEF DirtyKeys
<1> QED BY <1>1, <1>2, <1>4, <1>6 DEF PairInv

(***************************************************************************)
(* A step of w under its stripe: only files of its own key change, and it  *)
(* establishes what DirtyKeys or CleanPairs asks of that key.              *)
(***************************************************************************)
Focused(w) ==
  /\ pc[w] \in InCritical
  /\ pc' = [pc EXCEPT ![w] = pc'[w]]
  /\ pc'[w] \in LockedPCs \ {"putStat"}
  /\ UNCHANGED <<req, ver>>
  /\ \A k \in Keys \ {Key(w)} :
       data'[k] = data[k] /\ meta'[k] = meta[k] /\ metaFd'[k] = metaFd[k]
  /\ pc'[w] \in {"metaTrunc", "metaWrite"} => data'[Key(w)] = ver[w]
  /\ pc'[w] = "metaWrite" => meta'[Key(w)] = Torn /\ w \in metaFd'[Key(w)]
  /\ pc'[w] = "delMeta" => data'[Key(w)] = None
  /\ pc'[w] \notin Dirty => PairOK(Key(w))'

\* Such a step keeps every pair, because no one else has the key.
LEMMA FocusedPair ==
  ASSUME TypeOK, LockDiscipline, PairInv, NEW w \in Workers, Focused(w), Homes'
  PROVE PairInv'
<1>k. /\ Key(w) \in Keys
      /\ \A v \in Workers : Key(v) \in Keys /\ Key(v)' = Key(v)
  BY KeyFacts DEF Focused, Key
<1>d. \A v \in Workers \ {w} : pc'[v] = pc[v]
  BY DEF TypeOK, Focused
<1>1. OnlyLocked'
  BY <1>d DEF PairInv, OnlyLocked, Focused
<1>2. ASSUME NEW k \in Keys, \A v \in Workers : pc'[v] \in Dirty => Key(v)' # k
      PROVE  PairOK(k)'
  <2>1. CASE k = Key(w)
    BY <1>2, <1>k, <2>1 DEF Focused
  <2>2. CASE k # Key(w)
    <3>1. \A v \in Workers : pc[v] \in Dirty => Key(v) # k
      BY <1>2, <1>k, <1>d, <2>2
    <3>2. PairOK(k)
      BY <3>1 DEF PairInv, CleanPairs
    <3> QED BY <2>2, <3>2 DEF PairOK, Focused
  <2> QED BY <2>1, <2>2
<1>3. CleanPairs'
  BY <1>2 DEF CleanPairs
<1>4. ASSUME NEW v \in Workers
      PROVE  /\ pc'[v] \in {"metaTrunc", "metaWrite"} => data'[Key(v)'] = ver'[v]
             /\ pc'[v] = "metaWrite" => meta'[Key(v)'] = Torn /\ v \in metaFd'[Key(v)']
             /\ pc'[v] = "delMeta" => data'[Key(v)'] = None
             /\ pc'[v] = "delDirs" => PairOK(Key(v))'
  <2>1. CASE v = w
    BY <1>k, <2>1 DEF Focused, Dirty, PairOK
  <2>2. CASE v # w /\ pc[v] \in InCritical
    <3>1. Key(v) # Key(w)
      BY <2>2, DifferentKeys DEF Focused
    <3>2. /\ pc[v] \in {"metaTrunc", "metaWrite"} => data[Key(v)] = ver[v]
          /\ pc[v] = "metaWrite" => meta[Key(v)] = Torn /\ v \in metaFd[Key(v)]
          /\ pc[v] = "delMeta" => data[Key(v)] = None
          /\ pc[v] = "delDirs" => PairOK(Key(v))
      BY DEF PairInv, DirtyKeys
    <3>3. data'[Key(v)] = data[Key(v)] /\ meta'[Key(v)] = meta[Key(v)]
          /\ metaFd'[Key(v)] = metaFd[Key(v)] /\ ver' = ver
      BY <1>k, <3>1 DEF Focused
    <3>4. PairOK(Key(v)) => PairOK(Key(v))'
      BY <1>k, <3>3 DEF PairOK
    <3> QED BY <1>k, <1>d, <2>2, <3>2, <3>3, <3>4
  <2>3. CASE v # w /\ pc[v] \notin InCritical
    BY <1>d, <2>3 DEF InCritical
  <2> QED BY <2>1, <2>2, <2>3
<1>5. DirtyKeys'
  BY <1>4 DEF DirtyKeys
<1> QED BY <1>1, <1>3, <1>5 DEF PairInv

\* Only locked requests start.
LEMMA StartPair ==
  ASSUME LockedOnly, TypeInv, PairInv, NEW w \in Workers, Start(w)
  PROVE PairInv'
<1>1. PICK r \in Requests : /\ pc' = [pc EXCEPT ![w] = FirstStep(r)]
                            /\ req' = [req EXCEPT ![w] = r]
                            /\ \E v : ver' = [ver EXCEPT ![w] = v]
  BY DEF Start, Goto
<1>2. /\ FirstStep(r) \in {"lock", "putStat", "cpStat", "cbStat", "baStat"}
      /\ FirstStep(r) = "putStat" => r.op = "put"
  BY DEF LockedOnly, FirstStep
<1>3. TypeOK /\ pc[w] = "idle" /\ UNCHANGED fileVars
  BY DEF TypeInv, Start
<1>4. Bystander(w)
  BY <1>1, <1>2, <1>3 DEF TypeOK, Bystander, LockedPCs, Dirty, fileVars
<1> QED BY <1>3, <1>4, BystanderPair

\* The steps of uploads and copies before the rename, and the bucket handlers.
LEMMA OutsidePair ==
  ASSUME LockedOnly, TypeInv, PairInv, NEW w \in Workers,
         \/ Lock(w) \/ Finish(w) \/ PutStat(w) \/ CpStat(w) \/ CpMeta(w)
         \/ CpOpen(w) \/ Mkdir(w) \/ StreamFails(w)
         \/ CbStat(w) \/ CbMkdir(w) \/ CbAcl(w) \/ BaStat(w)
  PROVE PairInv'
<1> SUFFICES Bystander(w)
  BY BystanderPair DEF TypeInv
<1>0. TypeOK /\ ~DiskFaults
  BY DEF TypeInv, LockedOnly
<1> USE <1>0 DEF TypeOK, Bystander, LockedPCs, InCritical, Dirty, Goto, Respond,
                 fileVars, localVars
<1>1. CASE Lock(w)
  BY <1>1 DEF Lock
<1>2. CASE Finish(w)
  BY <1>2 DEF Finish
<1>3. CASE PutStat(w)
  <2>1. req[w] \in Requests /\ req[w].op = "put"
    BY <1>3 DEF PairInv, OnlyLocked, PutStat
  <2>2. req[w].ifNone \in {None, Star} /\ req[w].ifMatch = None
    BY <2>1 DEF LockedOnly
  <2>3. Star \notin ETags /\ None \notin ETags
    BY SentinelAssumption
  <2> QED BY <1>3, <2>2, <2>3 DEF PutStat
<1>4. CASE CpStat(w)
  BY <1>4 DEF CpStat
<1>5. CASE CpMeta(w)
  BY <1>5 DEF CpMeta
<1>6. CASE CpOpen(w)
  BY <1>6 DEF CpOpen
<1>7. CASE Mkdir(w)
  BY <1>7 DEF Mkdir
<1>8. CASE StreamFails(w)
  BY <1>8 DEF StreamFails, Fail
<1>9. CASE CbStat(w)
  BY <1>9 DEF CbStat
<1>10. CASE CbMkdir(w)
  BY <1>10 DEF CbMkdir
<1>11. CASE CbAcl(w)
  BY <1>11 DEF CbAcl, PutBucketACL
<1>12. CASE BaStat(w)
  BY <1>12 DEF BaStat
<1> QED BY <1>1, <1>2, <1>3, <1>4, <1>5, <1>6, <1>7, <1>8, <1>9, <1>10, <1>11, <1>12

\* Staging creates a file in a directory that exists.
LEMMA StagePair ==
  ASSUME LockedOnly, TypeInv, PairInv, NEW w \in Workers, Stage(w)
  PROVE PairInv'
<1>0. TypeOK /\ ~DiskFaults /\ pc[w] = "stage" /\ Key(w) \in Keys
  BY KeyFacts DEF TypeInv, LockedOnly, Stage
<1>1. CASE temps' = temps
  <2>1. Bystander(w)
    BY <1>0, <1>1 DEF Stage, Fail, TypeOK, Bystander, LockedPCs, InCritical, Dirty,
                      Goto, Respond, localVars
  <2> QED BY <1>0, <2>1, BystanderPair
<1>2. CASE temps' = temps \cup {<<Key(w), w>>} /\ Dir[Key(w)] \in dirs
           /\ pc' = [pc EXCEPT ![w] = "rename"]
  <2>1. UNCHANGED <<data, meta, metaFd, dirs, req, ver>>
    BY DEF Stage, localVars
  <2>2. Homes'
    BY <1>2, <2>1 DEF PairInv, Homes
  <2>3. OnlyLocked' /\ DirtyKeys'
    BY <1>0, <1>2, <2>1 DEF PairInv, OnlyLocked, DirtyKeys, TypeOK, LockedPCs, InCritical,
                       Key, PairOK
  <2>4. CleanPairs'
    BY <1>0, <1>2, <2>1 DEF PairInv, CleanPairs, TypeOK, Dirty, Key, PairOK
  <2> QED BY <2>2, <2>3, <2>4 DEF PairInv
<1> QED BY <1>0, <1>1, <1>2 DEF Stage, Goto

\* The rename publishes the data file: the sidecar is now the old one.
LEMMA RenamePair ==
  ASSUME TypeInv, LockDiscipline, PairInv, NEW w \in Workers, Rename(w)
  PROVE PairInv'
<1>0. TypeOK /\ Key(w) \in Keys /\ pc[w] = "rename"
  BY KeyFacts DEF TypeInv, Rename
<1>1. /\ <<Key(w), w>> \in temps /\ temps' = temps \ {<<Key(w), w>>}
      /\ data' = [data EXCEPT ![Key(w)] = ver[w]]
      /\ pc' = [pc EXCEPT ![w] = "metaTrunc"]
      /\ UNCHANGED <<meta, metaFd, dirs, req, ver>>
  BY DEF Rename, Goto, localVars
<1>2. Homes'
  <2>1. Dir[Key(w)] \in dirs
    BY <1>1 DEF PairInv, Homes
  <2> QED BY <1>0, <1>1, <2>1 DEF PairInv, Homes, TypeOK
<1>3. Focused(w)
  BY <1>0, <1>1 DEF Focused, TypeOK, InCritical, LockedPCs, Dirty
<1> QED BY <1>0, <1>2, <1>3, FocusedPair

\* The sidecar is truncated: its directory is still there.
LEMMA MetaTruncPair ==
  ASSUME LockedOnly, TypeInv, LockDiscipline, PairInv, NEW w \in Workers, MetaTrunc(w)
  PROVE PairInv'
<1>0. TypeOK /\ Key(w) \in Keys /\ pc[w] = "metaTrunc" /\ ~DiskFaults
  BY KeyFacts DEF TypeInv, MetaTrunc, LockedOnly
<1>1. data[Key(w)] = ver[w] /\ ver[w] \in Versions
  BY <1>0 DEF PairInv, DirtyKeys, TypeInv, LocalsOK, Uploading, Publishing
<1>2. Dir[Key(w)] \in dirs
  BY <1>0, <1>1, SentinelAssumption DEF PairInv, Homes
<1>3. /\ meta' = [meta EXCEPT ![Key(w)] = Torn]
      /\ metaFd' = [metaFd EXCEPT ![Key(w)] = @ \cup {w}]
      /\ pc' = [pc EXCEPT ![w] = "metaWrite"]
      /\ UNCHANGED <<data, temps, dirs, req, ver>>
  BY <1>0, <1>2 DEF MetaTrunc, TruncateMeta, Goto, localVars
<1>4. Homes'
  BY <1>3 DEF PairInv, Homes
<1>5. Focused(w)
  BY <1>0, <1>1, <1>3 DEF Focused, TypeOK, InCritical, LockedPCs, Dirty
<1> QED BY <1>0, <1>4, <1>5, FocusedPair

\* The sidecar of this upload completes the pair.
LEMMA MetaWritePair ==
  ASSUME LockedOnly, TypeInv, LockDiscipline, PairInv, NEW w \in Workers, MetaWrite(w)
  PROVE PairInv'
<1>0. TypeOK /\ Key(w) \in Keys /\ pc[w] = "metaWrite" /\ ~DiskFaults /\ req[w] \in Requests
  BY KeyFacts DEF TypeInv, MetaWrite, LockedOnly
<1>1. /\ data[Key(w)] = ver[w] /\ ver[w] \in Versions /\ req[w].acl # "bad"
      /\ meta[Key(w)] = Torn /\ w \in metaFd[Key(w)]
  BY <1>0 DEF PairInv, DirtyKeys, TypeInv, LocalsOK, Uploading, Publishing
<1>2. /\ meta' = [meta EXCEPT ![Key(w)] = NewSidecar(w)]
      /\ metaFd' = [metaFd EXCEPT ![Key(w)] = @ \ {w}]
      /\ pc' = [pc EXCEPT ![w] = "done"]
      /\ UNCHANGED <<data, temps, dirs, req, ver>>
  BY <1>0, <1>1 DEF MetaWrite, FillMeta, Overwritten, Respond, Goto, localVars
<1>3. NewSidecar(w) \in Sidecars
  BY <1>0, <1>1, NewSidecarFact
<1>4. meta'[Key(w)] = NewSidecar(w) /\ data'[Key(w)] = ver[w] /\ Key(w)' = Key(w)
  BY <1>0, <1>1, <1>2 DEF TypeOK, Key
<1>5. PairOK(Key(w))'
  BY <1>1, <1>3, <1>4, SentinelAssumption DEF PairOK, NewSidecar
<1>6. Homes'
  BY <1>2 DEF PairInv, Homes
<1>7. Focused(w)
  BY <1>0, <1>2, <1>5 DEF Focused, TypeOK, InCritical, LockedPCs
<1> QED BY <1>0, <1>6, <1>7, FocusedPair

\* A delete: data file, sidecar, then directories that hold nothing.
LEMMA RemovePair ==
  ASSUME LockedOnly, TypeInv, LockDiscipline, PairInv, NEW w \in Workers, Remove(w)
  PROVE PairInv'
<1>0. TypeOK /\ Key(w) \in Keys /\ ~DiskFaults
  BY KeyFacts DEF TypeInv, LockedOnly
<1>1. CASE DelData(w)
  <2>1. /\ pc[w] = "delData"
        /\ data' = [data EXCEPT ![Key(w)] = None]
        /\ pc' = [pc EXCEPT ![w] = "delMeta"]
        /\ UNCHANGED <<meta, metaFd, temps, dirs, req, ver>>
    BY <1>0, <1>1 DEF DelData, Goto, localVars
  <2>2. Homes'
    BY <1>0, <2>1 DEF PairInv, Homes, TypeOK
  <2>3. Focused(w)
    BY <1>0, <2>1 DEF Focused, TypeOK, InCritical, LockedPCs, Dirty
  <2> QED BY <1>0, <2>2, <2>3, FocusedPair
<1>2. CASE DelMeta(w)
  <2>1. /\ pc[w] = "delMeta"
        /\ meta' = [meta EXCEPT ![Key(w)] = None]
        /\ metaFd' = [metaFd EXCEPT ![Key(w)] = {}]
        /\ pc' = [pc EXCEPT ![w] = "delDirs"]
        /\ UNCHANGED <<data, temps, dirs, req, ver>>
    BY <1>0, <1>2 DEF DelMeta, Goto, localVars
  <2>2. data[Key(w)] = None
    BY <2>1 DEF PairInv, DirtyKeys
  <2>3. PairOK(Key(w))'
    BY <1>0, <2>1, <2>2 DEF PairOK, TypeOK, Key
  <2>4. Homes'
    BY <2>1 DEF PairInv, Homes
  <2>5. Focused(w)
    BY <1>0, <2>1, <2>3 DEF Focused, TypeOK, InCritical, LockedPCs
  <2> QED BY <1>0, <2>4, <2>5, FocusedPair
<1>3. CASE DelDirs(w)
  <2>1. /\ pc[w] = "delDirs"
        /\ dirs' = Collapsed(Dir[Key(w)])
        /\ pc' = [pc EXCEPT ![w] = "done"]
        /\ UNCHANGED <<data, meta, metaFd, temps, req, ver>>
    BY <1>3 DEF DelDirs, Respond, Goto, localVars
  <2>2. PairOK(Key(w))'
    BY <2>1 DEF PairInv, DirtyKeys, PairOK, Key
  <2>3. ASSUME NEW k \in Keys, FilesOf(k) # {}, Dir[k] \in dirs PROVE Dir[k] \in dirs'
    <3>1. FilesOf(k) \subseteq FilesIn(Dir[k])
      BY DEF FilesIn
    <3> QED BY <2>1, <2>3, <3>1 DEF Collapsed
  <2>4. \A k \in Keys : data[k] # None => <<"data", k>> \in FilesOf(k)
    BY DEF FilesOf, Entries
  <2>5. \A t \in temps : t[1] \in Keys /\ <<"temp", t[1]>> \in FilesOf(t[1])
    BY <1>0 DEF FilesOf, Entries, TypeOK
  <2>6. Homes'
    <3>1. \A k \in Keys : data'[k] # None => Dir[k] \in dirs'
      BY <2>1, <2>3, <2>4 DEF PairInv, Homes
    <3>2. \A t \in temps' : Dir[t[1]] \in dirs'
      BY <2>1, <2>3, <2>5 DEF PairInv, Homes
    <3> QED BY <3>1, <3>2 DEF Homes
  <2>7. Focused(w)
    BY <1>0, <2>1, <2>2 DEF Focused, TypeOK, InCritical, LockedPCs
  <2> QED BY <1>0, <2>6, <2>7, FocusedPair
<1> QED BY <1>1, <1>2, <1>3 DEF Remove

\* Every step keeps the pairs.
LEMMA NextPair ==
  ASSUME LockedOnly, TypeInv, LockDiscipline, PairInv, [Next]_vars
  PROVE PairInv'
<1>1. ASSUME NEW w \in Workers, Step(w) PROVE PairInv'
  <2>1. pc[w] \in LockedPCs
    BY DEF PairInv, OnlyLocked
  <2>2. ~Serve(w)
    BY <2>1 DEF LockedPCs, InCritical, Serve, BfRead, BfHash, BfTrunc, BfWrite, GetStat,
                GetTag, GetMeta, GetOpen, HeadMeta, HeadTag
  <2>3. ~SetACL(w) /\ ~PutNone(w) /\ ~PutMatch(w)
    BY <2>1 DEF LockedPCs, InCritical, SetACL, AclStat, AclRead, AclTrunc, AclWrite,
                AclRename, PutNone, PutMatch
  <2>4. Bucket(w) => CbStat(w) \/ CbMkdir(w) \/ CbAcl(w) \/ BaStat(w)
    BY <2>1 DEF LockedPCs, InCritical, Bucket, DbStat, DbCheck, DbScan, DbRemove, DbFinish,
                DbFails
  <2>5. Write(w) => \/ PutStat(w) \/ CpStat(w) \/ CpMeta(w) \/ CpOpen(w) \/ Mkdir(w)
                    \/ Stage(w) \/ Rename(w) \/ StreamFails(w) \/ MetaTrunc(w) \/ MetaWrite(w)
    BY <2>3 DEF Write
  <2> QED BY <1>1, <2>2, <2>3, <2>4, <2>5, OutsidePair, StagePair, RenamePair,
             MetaTruncPair, MetaWritePair, RemovePair DEF Step
<1>2. ASSUME NEW w \in Workers, Start(w) \/ Lock(w) PROVE PairInv'
  BY <1>2, StartPair, OutsidePair
<1>3. CASE UNCHANGED vars
  BY <1>3 DEF vars, fileVars, localVars, PairInv, OnlyLocked, Homes, CleanPairs, DirtyKeys,
              PairOK, Key
<1>4. ~Crash
  BY DEF LockedOnly, Crash
<1> QED BY <1>1, <1>2, <1>3, <1>4 DEF Next

\* The invariant holds throughout.
LEMMA PairInvariant == ASSUME LockedOnly PROVE Spec => []PairInv
<1>1. Init => PairInv
  <2> SUFFICES ASSUME Init PROVE PairInv
    OBVIOUS
  <2>1. OnlyLocked
    BY DEF Init, OnlyLocked, LockedPCs
  <2>2. Homes
    BY DEF Init, Homes, LockedOnly
  <2>3. CleanPairs
    BY DEF Init, CleanPairs, PairOK, LockedOnly
  <2>4. DirtyKeys
    BY DEF Init, DirtyKeys
  <2> QED BY <2>1, <2>2, <2>3, <2>4 DEF PairInv
<1>2. TypeInv /\ LockDiscipline /\ PairInv /\ [Next]_vars => PairInv'
  BY NextPair
<1> QED BY <1>1, <1>2, TypeInvariant, LocksAreDisciplined, PTL DEF Spec

(***************************************************************************)
(* "objectLocks serializes mutations of a single object so its data file   *)
(* and .meta sidecar are always updated as a consistent pair": true for    *)
(* the mutations that use the lock.                                        *)
(***************************************************************************)
THEOREM PairsAreConsistent == ASSUME LockedOnly PROVE Spec => []ConsistentPair
<1>1. TypeInv /\ LockDiscipline /\ PairInv => ConsistentPair
  <2> SUFFICES ASSUME TypeInv, LockDiscipline, PairInv, NEW k \in Keys,
                      lock[Stripe[k]] = NoWorker
               PROVE  PairOK(k)
    BY DEF ConsistentPair
  <2>1. ASSUME NEW w \in Workers, pc[w] \in Dirty PROVE Key(w) # k
    BY <2>1, SentinelAssumption, ConstantsAssumption DEF LockDiscipline, Dirty, InCritical
  <2> QED BY <2>1 DEF PairInv, CleanPairs
<1> QED BY <1>1, PairInvariant, TypeInvariant, LocksAreDisciplined, PTL
-----------------------------------------------------------------------------
(***************************************************************************)
(* The handlers that take the stripe implement the atomic store, for any   *)
(* number of workers, keys, stripes and requests.  Each step of a handler  *)
(* is one step of AtomicStore or leaves its variables alone:               *)
(*                                                                         *)
(*   Start of a PUT or DELETE, CpOpen      Ask                             *)
(*   Rename, DelData                       Hold                            *)
(*   MetaWrite, DelDirs                    Commit                          *)
(*   an error answer                       Refuse                          *)
(*   Finish                                Rest                            *)
(***************************************************************************)
BucketPCs == {"cbStat", "cbMkdir", "cbAcl", "baStat"}
CopyPCs == {"cpStat", "cpMeta", "cpOpen"}
DeletePCs == {"delData", "delMeta", "delDirs"}

\* Which request can be where, and that a copy has no value before it opens its source.
InPlace(w) ==
  /\ pc[w] \in DeletePCs => req[w].op = "delete"
  /\ pc[w] \in Publishing => req[w].op \in {"put", "copy"}
  /\ pc[w] = "lock" => req[w].op \in {"put", "copy", "delete"}
  /\ pc[w] \in CopyPCs => ver[w] = None
  /\ pc[w] \in BucketPCs => req[w].op \in {"createBucket", "bucketAcl"}
RequestsInPlace == \A w \in Workers : InPlace(w)

\* What the mapping needs of a state.
MapInv == TypeInv /\ LockDiscipline /\ PublishedAlone /\ PairInv /\ RequestsInPlace

\* Only w moves.
Alone(w) ==
  \A v \in Workers \ {w} : /\ pc'[v] = pc[v] /\ req'[v] = req[v]
                           /\ ver'[v] = ver[v] /\ status'[v] = status[v]

\* The steps left by LockedOnly.
LockedStep(w) ==
  \/ Lock(w) \/ Finish(w) \/ PutStat(w) \/ CpStat(w) \/ CpMeta(w) \/ CpOpen(w)
  \/ Mkdir(w) \/ Stage(w) \/ StreamFails(w) \/ Rename(w) \/ MetaTrunc(w) \/ MetaWrite(w)
  \/ DelData(w) \/ DelMeta(w) \/ DelDirs(w)
  \/ CbStat(w) \/ CbMkdir(w) \/ CbAcl(w) \/ BaStat(w)

\* Nothing else can happen.
LEMMA LockedNext ==
  ASSUME LockedOnly, PairInv, Next
  PROVE  \E w \in Workers : Start(w) \/ LockedStep(w)
<1>1. ASSUME NEW w \in Workers, Step(w) PROVE LockedStep(w)
  <2>1. pc[w] \in LockedPCs
    BY DEF PairInv, OnlyLocked
  <2>2. ~Serve(w)
    BY <2>1 DEF LockedPCs, InCritical, Serve, BfRead, BfHash, BfTrunc, BfWrite, GetStat,
                GetTag, GetMeta, GetOpen, HeadMeta, HeadTag
  <2>3. ~SetACL(w) /\ ~PutNone(w) /\ ~PutMatch(w)
    BY <2>1 DEF LockedPCs, InCritical, SetACL, AclStat, AclRead, AclTrunc, AclWrite,
                AclRename, PutNone, PutMatch
  <2>4. Bucket(w) => CbStat(w) \/ CbMkdir(w) \/ CbAcl(w) \/ BaStat(w)
    BY <2>1 DEF LockedPCs, InCritical, Bucket, DbStat, DbCheck, DbScan, DbRemove, DbFinish,
                DbFails
  <2> QED BY <1>1, <2>2, <2>3, <2>4 DEF Step, Write, Remove, LockedStep
<1>2. ~Crash
  BY DEF LockedOnly, Crash
<1> QED BY <1>1, <1>2 DEF Next, LockedStep

\* A request that starts is where its operation begins.
LEMMA StartInPlace ==
  ASSUME LockedOnly, TypeInv, NEW w \in Workers, Start(w)
  PROVE  /\ Alone(w) /\ UNCHANGED fileVars /\ pc[w] = "idle"
         /\ \/ /\ req'[w].op = "put" /\ ver'[w] \in Versions
               /\ pc'[w] \in {"lock", "putStat"}
            \/ /\ req'[w].op = "delete" /\ pc'[w] = "lock"
            \/ /\ req'[w].op = "copy" /\ ver'[w] = None /\ pc'[w] = "cpStat"
            \/ /\ req'[w].op \in {"createBucket", "bucketAcl"}
               /\ pc'[w] \in {"cbStat", "baStat"}
<1>1. PICK r \in Requests :
        /\ pc' = [pc EXCEPT ![w] = FirstStep(r)]
        /\ req' = [req EXCEPT ![w] = r]
        /\ ver' = [ver EXCEPT ![w] = IF r.op = "put" THEN [body |-> r.body, user |-> r.user]
                                     ELSE None]
  BY DEF Start, Goto
<1>2. r.op \in {"put", "copy", "delete", "createBucket", "bucketAcl"}
  BY DEF LockedOnly
<1>3. /\ r.op = "put" => FirstStep(r) \in {"lock", "putStat"}
      /\ r.op = "delete" => FirstStep(r) = "lock"
      /\ r.op = "copy" => FirstStep(r) = "cpStat"
      /\ r.op \in {"createBucket", "bucketAcl"} => FirstStep(r) \in {"cbStat", "baStat"}
  BY DEF FirstStep
<1>4. /\ pc'[w] = FirstStep(r) /\ req'[w] = r
      /\ ver'[w] = IF r.op = "put" THEN [body |-> r.body, user |-> r.user] ELSE None
  BY <1>1 DEF TypeInv, TypeOK
<1>5. r.op = "put" => [body |-> r.body, user |-> r.user] \in Versions
  BY RequestFields
<1>6. Alone(w) /\ UNCHANGED fileVars /\ pc[w] = "idle"
  BY <1>1 DEF Start, Alone, TypeInv, TypeOK
<1> QED BY <1>2, <1>3, <1>4, <1>5, <1>6

(***************************************************************************)
(* What each step of a handler does to the variables the mapping reads.    *)
(***************************************************************************)
\* Neither publishes nor answers: what was asked stays asked.
Silent(w) ==
  /\ Alone(w)
  /\ UNCHANGED <<data, meta, req, ver>>
  /\ pc[w] \notin Holding \cup {"idle", "done"} /\ pc'[w] \notin Holding \cup {"idle", "done"}

\* Answers an error, or answers a request that changes no object.
Answers(w) ==
  /\ Alone(w)
  /\ UNCHANGED <<data, meta, req, ver>>
  /\ pc[w] \notin Holding \cup {"idle", "done"} /\ pc'[w] = "done"
  /\ status'[w] # "ok" \/ pc[w] \in BucketPCs

\* A copy opens its source.
Opens(w) ==
  /\ Alone(w)
  /\ UNCHANGED <<data, meta, req>>
  /\ pc[w] = "cpOpen" /\ pc'[w] = "lock"
  /\ ver'[w] \in Versions

\* Takes the object: the data file is replaced or removed.
Takes(w) ==
  /\ Alone(w)
  /\ UNCHANGED <<req, ver>>
  /\ \A k \in Keys \ {Key(w)} : data'[k] = data[k] /\ meta'[k] = meta[k]
  /\ \/ pc[w] = "rename" /\ pc'[w] = "metaTrunc"
     \/ pc[w] = "delData" /\ pc'[w] = "delMeta"

\* Works on the sidecar of the object it has taken.
Keeps(w) ==
  /\ Alone(w)
  /\ UNCHANGED <<req, ver>>
  /\ \A k \in Keys \ {Key(w)} : data'[k] = data[k] /\ meta'[k] = meta[k]
  /\ \/ pc[w] = "metaTrunc" /\ pc'[w] = "metaWrite"
     \/ pc[w] = "delMeta" /\ pc'[w] = "delDirs"

\* Answers success: the object is the value asked for.
Gives(w) ==
  /\ Alone(w)
  /\ UNCHANGED <<req, ver>>
  /\ \A k \in Keys \ {Key(w)} : data'[k] = data[k] /\ meta'[k] = meta[k]
  /\ pc'[w] = "done" /\ status'[w] = "ok"
  /\ \/ pc[w] = "metaWrite" /\ ver[w] \in Versions /\ ValueOf(Key(w))' = ver[w]
     \/ pc[w] = "delDirs" /\ ValueOf(Key(w))' = None

\* The steps before the rename, and the bucket handlers.
LEMMA OutsideKinds ==
  ASSUME LockedOnly, MapInv, NEW w \in Workers,
         \/ Lock(w) \/ PutStat(w) \/ CpStat(w) \/ CpMeta(w) \/ CpOpen(w)
         \/ Mkdir(w) \/ Stage(w) \/ StreamFails(w)
         \/ CbStat(w) \/ CbMkdir(w) \/ CbAcl(w) \/ BaStat(w)
  PROVE  (Silent(w) \/ Answers(w) \/ Opens(w)) /\ InPlace(w)'
<1>0. TypeOK /\ ~DiskFaults /\ req[w] \in Requests /\ InPlace(w)
  BY KeyFacts DEF MapInv, TypeInv, LockedOnly, RequestsInPlace
<1> USE <1>0 DEF TypeOK, Silent, Answers, Alone, InPlace, Holding, BucketPCs, CopyPCs,
                 DeletePCs, Publishing, Goto, Respond, fileVars, localVars
<1>1. CASE Lock(w)
  BY <1>1 DEF Lock
<1>3. CASE PutStat(w)
  <2>1. req[w].op = "put"
    BY <1>3 DEF MapInv, PairInv, OnlyLocked, PutStat
  <2>2. req[w].ifNone \in {None, Star} /\ req[w].ifMatch = None
    BY <2>1 DEF LockedOnly
  <2>3. Star \notin ETags /\ None \notin ETags
    BY SentinelAssumption
  <2> QED BY <1>3, <2>1, <2>2, <2>3 DEF PutStat
<1>4. CASE CpStat(w)
  BY <1>4 DEF CpStat
<1>5. CASE CpMeta(w)
  BY <1>5 DEF CpMeta
<1>6. CASE CpOpen(w)
  <2>1. req[w].op = "copy" /\ side[w].user \in Users
    BY <1>6 DEF MapInv, TypeInv, LocalsOK, CpOpen
  <2>2. CASE data[req[w].src] = None
    BY <1>6, <2>2 DEF CpOpen
  <2>3. CASE data[req[w].src] # None
    <3>1. data[req[w].src] \in Versions
      BY <2>3, KeyFacts
    <3>2. [body |-> data[req[w].src].body, user |-> side[w].user] \in Versions
      BY <2>1, <3>1, VersionFacts
    <3> QED BY <1>6, <2>1, <2>3, <3>2 DEF CpOpen, Opens
  <2> QED BY <2>2, <2>3
<1>7. CASE Mkdir(w)
  BY <1>7 DEF Mkdir
<1>8. CASE Stage(w)
  BY <1>8 DEF Stage, Fail
<1>9. CASE StreamFails(w)
  BY <1>9 DEF StreamFails, Fail
<1>10. CASE CbStat(w)
  BY <1>10 DEF CbStat
<1>11. CASE CbMkdir(w)
  BY <1>11 DEF CbMkdir
<1>12. CASE CbAcl(w)
  BY <1>12 DEF CbAcl, PutBucketACL
<1>13. CASE BaStat(w)
  BY <1>13 DEF BaStat
<1> QED BY <1>1, <1>3, <1>4, <1>5, <1>6, <1>7, <1>8, <1>9, <1>10, <1>11, <1>12, <1>13

\* The steps between the two halves of an upload.
LEMMA UploadKinds ==
  ASSUME LockedOnly, MapInv, NEW w \in Workers, Rename(w) \/ MetaTrunc(w) \/ MetaWrite(w)
  PROVE  (Takes(w) \/ Keeps(w) \/ Gives(w)) /\ InPlace(w)'
<1>0. TypeOK /\ ~DiskFaults /\ req[w] \in Requests /\ InPlace(w) /\ Key(w) \in Keys
  BY KeyFacts DEF MapInv, TypeInv, LockedOnly, RequestsInPlace
<1>i. pc[w] \in {"rename", "metaTrunc", "metaWrite"} => ver[w] \in Versions /\ req[w].acl # "bad"
  BY DEF MapInv, TypeInv, LocalsOK, Uploading, Publishing
<1>1. CASE Rename(w)
  BY <1>0, <1>1 DEF Rename, Goto, localVars, TypeOK, Takes, Alone, InPlace, Publishing,
                    CopyPCs, BucketPCs, DeletePCs
<1>2. CASE MetaTrunc(w)
  <2>1. Dir[Key(w)] \in dirs
    BY <1>0, <1>2, <1>i, SentinelAssumption DEF MetaTrunc, MapInv, PairInv, DirtyKeys, Homes
  <2> QED BY <1>0, <1>2, <2>1 DEF MetaTrunc, TruncateMeta, Goto, localVars, TypeOK, Keeps,
                    Alone, InPlace, Publishing, CopyPCs, BucketPCs, DeletePCs
<1>3. CASE MetaWrite(w)
  <2>1. /\ pc[w] = "metaWrite" /\ data[Key(w)] = ver[w]
        /\ meta[Key(w)] = Torn /\ w \in metaFd[Key(w)]
    BY <1>3 DEF MetaWrite, MapInv, PairInv, DirtyKeys
  <2>2. /\ meta' = [meta EXCEPT ![Key(w)] = NewSidecar(w)]
        /\ pc' = [pc EXCEPT ![w] = "done"]
        /\ status' = [status EXCEPT ![w] = "ok"]
        /\ UNCHANGED <<data, req, ver>>
    BY <1>0, <1>3, <2>1 DEF MetaWrite, FillMeta, Overwritten, Respond, Goto, localVars
  <2>3. NewSidecar(w) \in Sidecars
    BY <1>0, <1>i, <2>1, NewSidecarFact
  <2>4. meta'[Key(w)] = NewSidecar(w) /\ data'[Key(w)] = ver[w] /\ Key(w)' = Key(w)
    BY <1>0, <2>1, <2>2 DEF TypeOK, Key
  <2>5. ver[w] \in Versions /\ ver[w] # None
    BY <1>i, <2>1, SentinelAssumption
  <2>6. NewSidecar(w).user = ver[w].user
    BY DEF NewSidecar
  <2>7. ValueOf(Key(w))' = [body |-> ver[w].body, user |-> ver[w].user]
    BY <2>3, <2>4, <2>5, <2>6 DEF ValueOf
  <2>8. ValueOf(Key(w))' = ver[w]
    BY <2>5, <2>7 DEF Versions
  <2> QED BY <1>0, <2>1, <2>2, <2>5, <2>8
          DEF TypeOK, Gives, Alone, InPlace, Publishing, CopyPCs, BucketPCs, DeletePCs
<1> QED BY <1>1, <1>2, <1>3

\* The steps of a delete.
LEMMA DeleteKinds ==
  ASSUME LockedOnly, MapInv, NEW w \in Workers, DelData(w) \/ DelMeta(w) \/ DelDirs(w)
  PROVE  (Takes(w) \/ Keeps(w) \/ Gives(w)) /\ InPlace(w)'
<1>0. TypeOK /\ ~DiskFaults /\ req[w] \in Requests /\ InPlace(w) /\ Key(w) \in Keys
  BY KeyFacts DEF MapInv, TypeInv, LockedOnly, RequestsInPlace
<1> USE <1>0 DEF TypeOK, Alone, InPlace, Publishing, CopyPCs, BucketPCs, DeletePCs,
                 Goto, Respond, localVars
<1>1. CASE DelData(w)
  BY <1>1 DEF DelData, Takes
<1>2. CASE DelMeta(w)
  BY <1>2 DEF DelMeta, Keeps
<1>3. CASE DelDirs(w)
  <2>1. data[Key(w)] = None /\ data' = data /\ req' = req
    BY <1>3 DEF DelDirs, MapInv, PublishedAlone
  <2>2. ValueOf(Key(w))' = None
    BY <2>1 DEF ValueOf, Key
  <2> QED BY <1>3, <2>2 DEF DelDirs, Gives
<1> QED BY <1>1, <1>2, <1>3

\* The response has been sent.
LEMMA FinishFacts ==
  ASSUME MapInv, NEW w \in Workers, Finish(w)
  PROVE  /\ Alone(w) /\ UNCHANGED <<data, meta>>
         /\ pc[w] = "done" /\ pc'[w] = "idle"
         /\ InPlace(w)'
BY DEF MapInv, TypeInv, TypeOK, Finish, Goto, Alone, fileVars, InPlace, DeletePCs, Publishing,
       CopyPCs, BucketPCs

\* The kinds of step there are.
LEMMA StepKinds ==
  ASSUME LockedOnly, MapInv, NEW w \in Workers, LockedStep(w)
  PROVE  /\ Alone(w) /\ InPlace(w)'
         /\ Silent(w) \/ Answers(w) \/ Opens(w) \/ Takes(w) \/ Keeps(w) \/ Gives(w) \/ Finish(w)
BY OutsideKinds, UploadKinds, DeleteKinds, FinishFacts
   DEF LockedStep, Silent, Answers, Opens, Takes, Keeps, Gives

\* Every step leaves every request where its operation can be.
LEMMA NextInPlace ==
  ASSUME LockedOnly, MapInv, [Next]_vars
  PROVE  RequestsInPlace'
<1>1. ASSUME NEW w \in Workers, Alone(w), InPlace(w)' PROVE RequestsInPlace'
  <2>1. \A v \in Workers \ {w} : InPlace(v)'
    BY <1>1 DEF MapInv, RequestsInPlace, InPlace, Alone
  <2> QED BY <1>1, <2>1 DEF RequestsInPlace
<1>2. ASSUME NEW w \in Workers, Start(w) PROVE Alone(w) /\ InPlace(w)'
  BY <1>2, StartInPlace DEF MapInv, InPlace, DeletePCs, Publishing, CopyPCs, BucketPCs
<1>3. CASE UNCHANGED vars
  BY <1>3 DEF vars, fileVars, localVars, MapInv, RequestsInPlace, InPlace
<1>4. CASE Next
  <2>1. PICK w \in Workers : Start(w) \/ LockedStep(w)
    BY <1>4, LockedNext DEF MapInv
  <2> QED BY <1>1, <1>2, <2>1, StepKinds
<1> QED BY <1>3, <1>4

-----------------------------------------------------------------------------
(***************************************************************************)
(* The same steps, seen through the mapping.                               *)
(***************************************************************************)
\* The tasks of the others do not move.
LEMMA TaskFrame ==
  ASSUME NEW w \in Workers, Alone(w)
  PROVE  /\ \A v \in Workers \ {w} : TaskOf(v)' = TaskOf(v)
         /\ DOMAIN taskBar' = Workers /\ DOMAIN taskBar = Workers
         /\ taskBar' = [taskBar EXCEPT ![w] = TaskOf(w)']
         /\ taskBar[w] = TaskOf(w)
<1>1. \A v \in Workers \ {w} : TaskOf(v)' = TaskOf(v)
  BY DEF Alone, TaskOf, Changes, Progress, Key
<1> QED BY <1>1 DEF taskBar

\* A step that neither takes nor gives an object, and moves no file.
LEMMA ObjectFrame ==
  ASSUME NEW w \in Workers, Alone(w), UNCHANGED <<data, meta>>,
         pc[w] \notin Holding, pc'[w] \notin Holding
  PROVE  objectBar' = objectBar
<1>1. ASSUME NEW k \in Keys PROVE ObjectOf(k)' = ObjectOf(k)
  <2>1. HolderOf(k)' = HolderOf(k)
    BY DEF HolderOf, Alone, Key
  <2>2. ValueOf(k)' = ValueOf(k)
    BY DEF ValueOf
  <2> QED BY <2>1, <2>2 DEF ObjectOf
<1> QED BY <1>1 DEF objectBar

\* Holders are alone: the stripe keeps the others out.
LEMMA HoldersAlone ==
  ASSUME MapInv, NEW w \in Workers, pc[w] \in InCritical
  PROVE  HolderOf(Key(w)) = IF pc[w] \in Holding THEN {w} ELSE {}
<1>1. Holding \subseteq InCritical
  BY DEF Holding, InCritical
<1>2. \A v \in HolderOf(Key(w)) : v = w
  BY <1>1, DifferentKeys DEF MapInv, TypeInv, HolderOf
<1> QED BY <1>2 DEF HolderOf

\* Which holders a step of w changes: none but w, and only of its own key.
LEMMA HolderFrame ==
  ASSUME NEW w \in Workers, Alone(w), UNCHANGED req, NEW k
  PROVE  /\ k # Key(w) => HolderOf(k)' = HolderOf(k)
         /\ HolderOf(Key(w))' = (HolderOf(Key(w)) \ {w})
                                \cup (IF pc'[w] \in Holding THEN {w} ELSE {})
BY DEF HolderOf, Alone, Key

\* The objects of other keys do not change under a step on one key.
LEMMA OtherObjects ==
  ASSUME NEW w \in Workers, Alone(w), UNCHANGED req,
         \A k \in Keys \ {Key(w)} : data'[k] = data[k] /\ meta'[k] = meta[k]
  PROVE  \A k \in Keys \ {Key(w)} : ObjectOf(k)' = ObjectOf(k)
<1> SUFFICES ASSUME NEW k \in Keys \ {Key(w)} PROVE ObjectOf(k)' = ObjectOf(k)
  OBVIOUS
<1>1. HolderOf(k)' = HolderOf(k)
  BY HolderFrame
<1>2. ValueOf(k)' = ValueOf(k)
  BY DEF ValueOf
<1> QED BY <1>1, <1>2 DEF ObjectOf

\* What a task is, by where its worker is.
LEMMA TaskFacts ==
  ASSUME NEW w \in Workers
  PROVE  /\ ~Changes(w) => TaskOf(w) = [state |-> "idle", key |-> None, value |-> None]
         /\ Changes(w) => /\ TaskOf(w).key = Key(w)
                          /\ TaskOf(w).value = IF req[w].op = "delete" THEN None ELSE ver[w]
                          /\ TaskOf(w).state = Progress(w)
BY DEF TaskOf

\* A worker inside the critical section has asked for something.
LEMMA CriticalChanges ==
  ASSUME MapInv, NEW w \in Workers, pc[w] \in InCritical
  PROVE  /\ Changes(w)
         /\ pc[w] \in DeletePCs => req[w].op = "delete"
         /\ pc[w] \in Publishing => req[w].op # "delete" /\ ver[w] \in Versions
<1>1. InPlace(w) /\ TypeOK
  BY DEF MapInv, RequestsInPlace, TypeInv
<1>2. pc[w] \in Publishing => req[w].op # "delete" /\ ver[w] \in Versions
  BY DEF MapInv, TypeInv, LocalsOK, Uploading
<1> QED BY <1>1, <1>2, SentinelAssumption
        DEF InPlace, Changes, InCritical, DeletePCs, Publishing

\* Rename and the removal of the data file take the object.
LEMMA TakesHolds ==
  ASSUME MapInv, NEW w \in Workers, Takes(w)
  PROVE  Store!Hold(w)
<1>0. /\ Alone(w) /\ UNCHANGED <<req, ver>> /\ Key(w)' = Key(w) /\ Key(w) \in Keys
      /\ pc[w] \in InCritical /\ pc[w] \notin Holding /\ pc'[w] \in Holding
  BY KeyFacts DEF MapInv, TypeInv, Takes, InCritical, Holding, Key
<1>1. Changes(w) /\ Changes(w)'
  BY <1>0, CriticalChanges DEF Changes, Holding
<1>2. Progress(w) = "asked" /\ Progress(w)' = "holding"
  BY DEF Takes, Progress, Holding
<1>3. TaskOf(w)' = [TaskOf(w) EXCEPT !.state = "holding"] /\ TaskOf(w).state = "asked"
      /\ TaskOf(w).key = Key(w)
  BY <1>0, <1>1, <1>2 DEF TaskOf
<1>4. HolderOf(Key(w)) = {} /\ HolderOf(Key(w))' = {w}
  BY <1>0, HoldersAlone, HolderFrame
<1>5. AnyOf({w}) = w
  BY DEF AnyOf
<1>6. ObjectOf(Key(w))' = [holder |-> w]
  BY <1>0, <1>4, <1>5 DEF ObjectOf
<1>7. ObjectOf(Key(w)) \notin {[holder |-> v] : v \in Workers}
  <2>1. ObjectOf(Key(w)) = ValueOf(Key(w))
    BY <1>4 DEF ObjectOf
  <2>2. CASE ValueOf(Key(w)) = None
    BY <2>1, <2>2, HolderAssumption
  <2>3. CASE \E u : ValueOf(Key(w)) = [body |-> data[Key(w)].body, user |-> u]
    <3>1. DOMAIN ObjectOf(Key(w)) = {"body", "user"}
      BY <2>1, <2>3
    <3>2. \A v \in Workers : DOMAIN [holder |-> v] = {"holder"}
      OBVIOUS
    <3>3. "holder" \notin {"body", "user"}
      OBVIOUS
    <3> QED BY <3>1, <3>2, <3>3
  <2> QED BY <2>2, <2>3 DEF ValueOf
<1>8. objectBar' = [objectBar EXCEPT ![Key(w)] = [holder |-> w]]
  <2>1. \A k \in Keys \ {Key(w)} : ObjectOf(k)' = ObjectOf(k)
    BY <1>0, OtherObjects DEF Takes
  <2> QED BY <1>0, <1>6, <2>1 DEF objectBar
<1>9. taskBar[w] = TaskOf(w) /\ taskBar' = [taskBar EXCEPT ![w].state = "holding"]
  BY <1>0, <1>3, TaskFrame
<1>10. objectBar[Key(w)] = ObjectOf(Key(w))
  BY <1>0 DEF objectBar
<1> QED BY <1>3, <1>7, <1>8, <1>9, <1>10 DEF Store!Hold, Store!HeldBy, Store!Move

\* The sidecar step of an upload or a delete is not seen.
LEMMA KeepsStutters ==
  ASSUME MapInv, NEW w \in Workers, Keeps(w)
  PROVE  UNCHANGED <<objectBar, taskBar>>
<1>0. /\ Alone(w) /\ UNCHANGED <<req, ver>> /\ Key(w)' = Key(w) /\ Key(w) \in Keys
      /\ pc[w] \in InCritical /\ pc[w] \in Holding /\ pc'[w] \in Holding
  BY KeyFacts DEF MapInv, TypeInv, Keeps, InCritical, Holding, Key
<1>1. HolderOf(Key(w)) = {w} /\ HolderOf(Key(w))' = {w}
  BY <1>0, HoldersAlone, HolderFrame
<1>2. \A k \in Keys : ObjectOf(k)' = ObjectOf(k)
  BY <1>0, <1>1, OtherObjects DEF Keeps, ObjectOf
<1>3. TaskOf(w)' = TaskOf(w)
  BY <1>0 DEF TaskOf, Changes, Progress, Holding
<1>4. taskBar' = taskBar
  BY <1>0, <1>3, TaskFrame DEF taskBar
<1> QED BY <1>2, <1>4 DEF objectBar

\* The answer of an upload or a delete commits its value.
LEMMA GivesCommits ==
  ASSUME MapInv, NEW w \in Workers, Gives(w)
  PROVE  Store!Commit(w)
<1>0. /\ Alone(w) /\ UNCHANGED <<req, ver>> /\ Key(w)' = Key(w) /\ Key(w) \in Keys
      /\ pc[w] \in InCritical /\ pc[w] \in Holding /\ pc'[w] \notin Holding
  BY KeyFacts DEF MapInv, TypeInv, Gives, InCritical, Holding, Key
<1>1. Changes(w) /\ Changes(w)'
  BY <1>0, CriticalChanges DEF Changes, Gives
<1>2. Progress(w) = "holding" /\ Progress(w)' = "done"
  BY DEF Gives, Progress, Holding
<1>3. TaskOf(w)' = [TaskOf(w) EXCEPT !.state = "done"] /\ TaskOf(w).state = "holding"
      /\ TaskOf(w).key = Key(w)
  BY <1>0, <1>1, <1>2 DEF TaskOf
<1>4. HolderOf(Key(w))' = {}
  BY <1>0, HoldersAlone, HolderFrame
<1>5. ValueOf(Key(w))' = TaskOf(w).value
  BY <1>0, <1>1, CriticalChanges DEF Gives, TaskOf, DeletePCs, Publishing
<1>6. ObjectOf(Key(w))' = TaskOf(w).value
  BY <1>0, <1>4, <1>5 DEF ObjectOf
<1>7. objectBar' = [objectBar EXCEPT ![Key(w)] = TaskOf(w).value]
  <2>1. \A k \in Keys \ {Key(w)} : ObjectOf(k)' = ObjectOf(k)
    BY <1>0, OtherObjects DEF Gives
  <2> QED BY <1>0, <1>6, <2>1 DEF objectBar
<1>8. taskBar[w] = TaskOf(w) /\ taskBar' = [taskBar EXCEPT ![w].state = "done"]
  BY <1>0, <1>3, TaskFrame
<1> QED BY <1>3, <1>7, <1>8 DEF Store!Commit, Store!Move

\* Steps on the way change nothing that was asked.
LEMMA SilentStutters ==
  ASSUME NEW w \in Workers, Silent(w)
  PROVE  UNCHANGED <<objectBar, taskBar>>
<1>1. objectBar' = objectBar
  BY ObjectFrame DEF Silent
<1>2. TaskOf(w)' = TaskOf(w)
  BY DEF Silent, TaskOf, Changes, Progress, Key
<1>3. taskBar' = taskBar
  BY <1>2, TaskFrame DEF Silent, taskBar
<1> QED BY <1>1, <1>3

\* An error answer refuses what was asked, if anything was.
LEMMA AnswersRefuses ==
  ASSUME MapInv, NEW w \in Workers, Answers(w)
  PROVE  Store!Refuse(w) \/ UNCHANGED <<objectBar, taskBar>>
<1>1. objectBar' = objectBar
  BY ObjectFrame DEF Answers, Holding
<1>2. Changes(w)' = Changes(w)
  BY DEF Answers, Changes
<1>3. CASE ~Changes(w)
  <2>1. TaskOf(w)' = TaskOf(w)
    BY <1>2, <1>3 DEF TaskOf
  <2> QED BY <1>1, <2>1, TaskFrame DEF Answers, taskBar
<1>4. CASE Changes(w)
  <2>1. status'[w] # "ok"
    BY <1>4 DEF Answers, MapInv, RequestsInPlace, InPlace, Changes
  <2>2. Progress(w) = "asked" /\ Progress(w)' = "refused"
    BY <2>1 DEF Answers, Progress, Holding
  <2>3. TaskOf(w)' = [TaskOf(w) EXCEPT !.state = "refused"] /\ TaskOf(w).state = "asked"
    BY <1>2, <1>4, <2>2 DEF TaskOf, Answers, Key
  <2>4. taskBar[w] = TaskOf(w) /\ taskBar' = [taskBar EXCEPT ![w].state = "refused"]
    BY <2>3, TaskFrame DEF Answers
  <2> QED BY <1>1, <2>3, <2>4 DEF Store!Refuse, Store!Move
<1> QED BY <1>3, <1>4

\* A worker whose request changes an object asks for it.
LEMMA Asks ==
  ASSUME MapInv, MapInv', NEW w \in Workers, Alone(w), objectBar' = objectBar,
         ~Changes(w), pc'[w] \in {"lock", "putStat"}
  PROVE  Store!Ask(w)
<1>0. TypeOK' /\ Key(w)' \in Keys /\ InPlace(w)'
  BY RequestFields DEF MapInv, TypeInv, RequestsInPlace, TypeOK, Key
<1>1. /\ req'[w].op \in {"put", "copy", "delete"}
      /\ req'[w].op # "delete" => ver'[w] \in Versions
  BY <1>0 DEF InPlace, MapInv, PairInv, OnlyLocked, TypeInv, LocalsOK, Uploading, Publishing
<1>2. Changes(w)' /\ Progress(w)' = "asked"
  BY <1>1, SentinelAssumption DEF Changes, Progress, Holding
<1>3. PICK v \in Versions \cup {None} :
        TaskOf(w)' = [state |-> "asked", key |-> Key(w)', value |-> v]
  BY <1>1, <1>2 DEF TaskOf
<1>4. taskBar[w] = [state |-> "idle", key |-> None, value |-> None]
  BY TaskFrame DEF TaskOf
<1>5. taskBar' = [taskBar EXCEPT ![w] = [state |-> "asked", key |-> Key(w)', value |-> v]]
  BY <1>3, TaskFrame
<1> QED BY <1>0, <1>4, <1>5 DEF Store!Ask, Store!Idle

\* A copy asks when it has opened its source.
LEMMA OpensAsks ==
  ASSUME MapInv, MapInv', NEW w \in Workers, Opens(w)
  PROVE  Store!Ask(w)
<1>1. objectBar' = objectBar
  BY ObjectFrame DEF Opens, Holding
<1>2. req[w].op = "copy" /\ ver[w] = None
  BY DEF MapInv, TypeInv, LocalsOK, RequestsInPlace, InPlace, CopyPCs, Opens
<1> QED BY <1>1, <1>2, Asks DEF Opens, Changes

\* A PUT or a DELETE asks when it arrives.
LEMMA StartAsks ==
  ASSUME LockedOnly, MapInv, MapInv', NEW w \in Workers, Start(w)
  PROVE  Store!Ask(w) \/ UNCHANGED <<objectBar, taskBar>>
<1>1. Alone(w) /\ UNCHANGED <<data, meta>> /\ ~Changes(w)
  BY StartInPlace DEF MapInv, fileVars, Changes
<1>2. objectBar' = objectBar
  BY <1>1, StartInPlace, ObjectFrame DEF MapInv, Holding
<1>3. CASE pc'[w] \in {"lock", "putStat"}
  BY <1>1, <1>2, <1>3, Asks
<1>4. CASE pc'[w] \notin {"lock", "putStat"}
  <2>1. ~Changes(w)'
    BY <1>4, StartInPlace DEF MapInv, Changes
  <2> QED BY <1>1, <1>2, <2>1, TaskFrame DEF TaskOf, taskBar
<1> QED BY <1>3, <1>4

\* The worker of a finished request rests.
LEMMA FinishRests ==
  ASSUME MapInv, NEW w \in Workers, Finish(w)
  PROVE  Store!Rest(w) \/ UNCHANGED <<objectBar, taskBar>>
<1>1. objectBar' = objectBar
  BY FinishFacts, ObjectFrame DEF Holding
<1>2. TaskOf(w)' = [state |-> "idle", key |-> None, value |-> None]
  BY FinishFacts DEF TaskOf, Changes
<1>3. CASE Changes(w)
  <2>1. TaskOf(w).state \in {"done", "refused"}
    BY <1>3, FinishFacts DEF TaskOf, Progress, Holding
  <2> QED BY <1>1, <1>2, <2>1, FinishFacts, TaskFrame DEF Store!Rest, Store!Idle
<1>4. CASE ~Changes(w)
  <2>1. TaskOf(w)' = TaskOf(w)
    BY <1>2, <1>4 DEF TaskOf
  <2> QED BY <1>1, <2>1, FinishFacts, TaskFrame DEF taskBar
<1> QED BY <1>3, <1>4

\* Every step of the handlers is a step of the atomic store, or none.
LEMMA NextRefines ==
  ASSUME LockedOnly, MapInv, MapInv', [Next]_vars
  PROVE  [Store!Next]_<<objectBar, taskBar>>
<1>1. CASE UNCHANGED vars
  BY <1>1 DEF vars, fileVars, localVars, objectBar, ObjectOf, HolderOf, ValueOf, Key, taskBar,
              TaskOf, Changes, Progress
<1>2. CASE Next
  <2>1. PICK w \in Workers : Start(w) \/ LockedStep(w)
    BY <1>2, LockedNext DEF MapInv
  <2>2. \/ Start(w) \/ Silent(w) \/ Answers(w) \/ Opens(w) \/ Takes(w) \/ Keeps(w)
        \/ Gives(w) \/ Finish(w)
    BY <2>1, StepKinds
  <2> QED BY <2>2, StartAsks, SilentStutters, AnswersRefuses, OpensAsks, TakesHolds,
             KeepsStutters, GivesCommits, FinishRests DEF Store!Next
<1> QED BY <1>1, <1>2

\* The state the mapping needs is reached by every step.
LEMMA MapInvariant == ASSUME LockedOnly PROVE Spec => []MapInv
<1>1. Init => RequestsInPlace
  BY DEF Init, RequestsInPlace, InPlace, DeletePCs, Publishing, CopyPCs, BucketPCs
<1>2. TypeInv /\ LockDiscipline /\ PublishedAlone /\ PairInv /\ RequestsInPlace /\ [Next]_vars
        => RequestsInPlace'
  BY NextInPlace DEF MapInv
<1> QED BY <1>1, <1>2, TypeInvariant, LocksAreDisciplined, UploadsPublishAlone, PairInvariant,
           PTL DEF Spec, MapInv

(***************************************************************************)
(* locks.go, for uploads, copies and deletes that go through the stripe:   *)
(* seen from outside, an object changes from one whole value to another in *)
(* the step that answers success, only one change holds it at a time, and  *)
(* a change that answers an error has left every object as it was.         *)
(***************************************************************************)
THEOREM StoreIsAtomic == ASSUME LockedOnly PROVE Spec => ImplementsStore
<1>1. Init => Store!Init
  <2> SUFFICES ASSUME Init PROVE Store!Init
    OBVIOUS
  <2>1. \A k \in Keys : ObjectOf(k) = None
    BY DEF Init, LockedOnly, ObjectOf, HolderOf, ValueOf, Holding
  <2>2. \A w \in Workers : TaskOf(w) = Store!Idle
    BY DEF Init, TaskOf, Changes, Store!Idle
  <2> QED BY <2>1, <2>2 DEF Store!Init, objectBar, taskBar
<1>2. MapInv /\ MapInv' /\ [Next]_vars => [Store!Next]_<<objectBar, taskBar>>
  BY NextRefines
<1> QED BY <1>1, <1>2, MapInvariant, PTL DEF Spec, ImplementsStore, Store!Spec
-----------------------------------------------------------------------------
(***************************************************************************)
(* Which request brings a worker to which step, for every handler, with    *)
(* crashes and disk faults.                                                *)
(***************************************************************************)
Resolving == {"bfRead", "bfHash", "bfTrunc", "bfWrite"}
GetPCs == {"getStat", "getTag", "getMeta", "getOpen"}
HeadPCs == {"headMeta", "headTag"}
AclPCs == {"aclStat", "aclRead", "aclTrunc", "aclWrite", "aclRename"}
RemovalPCs == {"dbStat", "dbCheck", "dbScan", "dbRemove"}

Serves(w) ==
  /\ pc[w] \in {"putStat", "putNone", "putMatch"} => req[w].op = "put"
  /\ pc[w] \in CopyPCs => req[w].op = "copy"
  /\ pc[w] = "lock" => req[w].op \in {"put", "copy", "delete"}
  /\ pc[w] \in Publishing => req[w].op \in {"put", "copy"}
  /\ pc[w] \in DeletePCs => req[w].op = "delete"
  /\ pc[w] \in GetPCs => req[w].op = "get"
  /\ pc[w] \in HeadPCs => req[w].op = "head"
  /\ pc[w] \in AclPCs => req[w].op = "putAcl"
  /\ pc[w] \in BucketPCs => req[w].op \in {"createBucket", "bucketAcl"}
  /\ pc[w] \in RemovalPCs => req[w].op = "deleteBucket"
  /\ pc[w] \in Resolving => \/ back[w] \in {"putNone", "putMatch"} /\ req[w].op = "put"
                            \/ back[w] = "getTag" /\ req[w].op = "get"
                            \/ back[w] = "headTag" /\ req[w].op = "head"

\* Only finalizeObjectWrite acknowledges an upload or a copy, and a bucket is
\* only removed after a look at what is in it.
Leads(w) ==
  /\ pc'[w] \in Published => Rename(w) \/ MetaTrunc(w)
  /\ pc'[w] = "done" /\ status'[w] = "ok" /\ req'[w].op \in {"put", "copy"} => MetaWrite(w)
  /\ pc'[w] \in {"dbScan", "dbRemove"} => DbCheck(w) \/ DbScan(w) \/ DbRemove(w)

\* A step of w leaves the other workers alone.
Apart(w) ==
  \A v \in Workers \ {w} :
    /\ pc'[v] = pc[v] /\ req'[v] = req[v] /\ ver'[v] = ver[v] /\ side'[v] = side[v]
    /\ etag'[v] = etag[v] /\ back'[v] = back[v] /\ todo'[v] = todo[v] /\ status'[v] = status[v]

LEMMA ServeServes ==
  ASSUME TypeOK, NEW w \in Workers, Serves(w), Serve(w)
  PROVE  Serves(w)' /\ Leads(w) /\ Apart(w) /\ pc[w] \in Resolving \cup GetPCs \cup HeadPCs
<1> USE DEF Serves, Leads, Apart, Goto, Respond, localVars, Resolving, GetPCs, HeadPCs, AclPCs,
            RemovalPCs, CopyPCs, DeletePCs, BucketPCs, Publishing, Published, TypeOK
<1>1. CASE BfRead(w)
  BY <1>1 DEF BfRead
<1>2. CASE BfHash(w)
  BY <1>2 DEF BfHash
<1>3. CASE BfTrunc(w)
  BY <1>3 DEF BfTrunc
<1>4. CASE BfWrite(w)
  BY <1>4 DEF BfWrite
<1>5. CASE GetStat(w)
  BY <1>5 DEF GetStat, CallBackfill
<1>6. CASE GetTag(w)
  BY <1>6 DEF GetTag
<1>7. CASE GetMeta(w)
  BY <1>7 DEF GetMeta
<1>8. CASE GetOpen(w)
  BY <1>8 DEF GetOpen
<1>9. CASE HeadMeta(w)
  BY <1>9 DEF HeadMeta, CallBackfill
<1>10. CASE HeadTag(w)
  BY <1>10 DEF HeadTag
<1> QED
  BY <1>1, <1>2, <1>3, <1>4, <1>5, <1>6, <1>7, <1>8, <1>9, <1>10 DEF Serve

LEMMA WriteServes ==
  ASSUME TypeOK, NEW w \in Workers, Serves(w), Write(w)
  PROVE  /\ Serves(w)' /\ Leads(w) /\ Apart(w)
         /\ pc[w] \in {"putStat", "putNone", "putMatch"} \cup CopyPCs \cup Publishing
<1> USE DEF Serves, Leads, Apart, Goto, Respond, localVars, Resolving, GetPCs, HeadPCs, AclPCs,
            RemovalPCs, CopyPCs, DeletePCs, BucketPCs, Publishing, Published, TypeOK
<1>1. CASE PutStat(w)
  BY <1>1 DEF PutStat, CallBackfill
<1>2. CASE PutNone(w)
  BY <1>2 DEF PutNone, CallBackfill
<1>3. CASE PutMatch(w)
  BY <1>3 DEF PutMatch
<1>4. CASE CpStat(w)
  BY <1>4 DEF CpStat
<1>5. CASE CpMeta(w)
  BY <1>5 DEF CpMeta
<1>6. CASE CpOpen(w)
  BY <1>6 DEF CpOpen
<1>7. CASE Mkdir(w)
  BY <1>7 DEF Mkdir, Fail
<1>8. CASE Stage(w)
  BY <1>8 DEF Stage, Fail
<1>9. CASE Rename(w)
  BY <1>9 DEF Rename
<1>10. CASE StreamFails(w)
  BY <1>10 DEF StreamFails, Fail
<1>11. CASE MetaTrunc(w)
  BY <1>11 DEF MetaTrunc, Fail
<1>12. CASE MetaWrite(w)
  BY <1>12 DEF MetaWrite, Fail
<1> QED
  BY <1>1, <1>2, <1>3, <1>4, <1>5, <1>6, <1>7, <1>8, <1>9, <1>10, <1>11, <1>12 DEF Write

LEMMA RemoveServes ==
  ASSUME TypeOK, NEW w \in Workers, Serves(w), Remove(w)
  PROVE  Serves(w)' /\ Leads(w) /\ Apart(w) /\ pc[w] \in DeletePCs
<1> USE DEF Serves, Leads, Apart, Goto, Respond, localVars, Resolving, GetPCs, HeadPCs, AclPCs,
            RemovalPCs, CopyPCs, DeletePCs, BucketPCs, Publishing, Published, TypeOK
<1>1. CASE DelData(w)
  BY <1>1 DEF DelData, Fail
<1>2. CASE DelMeta(w)
  BY <1>2 DEF DelMeta
<1>3. CASE DelDirs(w)
  BY <1>3 DEF DelDirs
<1> QED BY <1>1, <1>2, <1>3 DEF Remove

LEMMA SetACLServes ==
  ASSUME TypeOK, NEW w \in Workers, Serves(w), SetACL(w)
  PROVE  Serves(w)' /\ Leads(w) /\ Apart(w) /\ pc[w] \in AclPCs
<1> USE DEF Serves, Leads, Apart, Goto, Respond, localVars, Resolving, GetPCs, HeadPCs, AclPCs,
            RemovalPCs, CopyPCs, DeletePCs, BucketPCs, Publishing, Published, TypeOK
<1>1. CASE AclStat(w)
  BY <1>1 DEF AclStat
<1>2. CASE AclRead(w)
  BY <1>2 DEF AclRead
<1>3. CASE AclTrunc(w)
  BY <1>3 DEF AclTrunc
<1>4. CASE AclWrite(w)
  BY <1>4 DEF AclWrite
<1>5. CASE AclRename(w)
  BY <1>5 DEF AclRename
<1> QED BY <1>1, <1>2, <1>3, <1>4, <1>5 DEF SetACL

LEMMA BucketServes ==
  ASSUME TypeOK, NEW w \in Workers, Serves(w), Bucket(w)
  PROVE  Serves(w)' /\ Leads(w) /\ Apart(w) /\ pc[w] \in BucketPCs \cup RemovalPCs
<1> USE DEF Serves, Leads, Apart, Goto, Respond, localVars, Resolving, GetPCs, HeadPCs, AclPCs,
            RemovalPCs, CopyPCs, DeletePCs, BucketPCs, Publishing, Published, TypeOK
<1>1. CASE CbStat(w)
  BY <1>1 DEF CbStat
<1>2. CASE CbMkdir(w)
  BY <1>2 DEF CbMkdir
<1>3. CASE CbAcl(w)
  BY <1>3 DEF CbAcl, PutBucketACL
<1>4. CASE BaStat(w)
  BY <1>4, KeyFacts, RequestFields DEF BaStat
<1>5. CASE DbStat(w)
  BY <1>5 DEF DbStat
<1>6. CASE DbCheck(w)
  BY <1>6 DEF DbCheck
<1>7. CASE DbScan(w)
  BY <1>7 DEF DbScan
<1>8. CASE DbRemove(w)
  <2>1. /\ pc[w] = "dbRemove" /\ pc' = pc
        /\ UNCHANGED <<req, ver, side, etag, back, status>>
        /\ \E t : todo' = [todo EXCEPT ![w] = t]
    BY <1>8 DEF DbRemove
  <2> QED BY <1>8, <2>1
<1>9. CASE DbFinish(w)
  BY <1>9 DEF DbFinish
<1>10. CASE DbFails(w)
  BY <1>10 DEF DbFails
<1> QED
  BY <1>1, <1>2, <1>3, <1>4, <1>5, <1>6, <1>7, <1>8, <1>9, <1>10 DEF Bucket

LEMMA TurnServes ==
  ASSUME TypeOK, NEW w \in Workers, Serves(w), Start(w) \/ Lock(w) \/ Finish(w)
  PROVE  Serves(w)' /\ Leads(w) /\ Apart(w) /\ pc[w] \in {"idle", "lock", "done"}
<1> USE DEF Serves, Leads, Apart, Goto, localVars, Resolving, GetPCs, HeadPCs, AclPCs,
            RemovalPCs, CopyPCs, DeletePCs, BucketPCs, Publishing, Published, TypeOK
<1>1. CASE Start(w)
  <2>1. PICK r \in Requests : /\ req' = [req EXCEPT ![w] = r] /\ pc' = [pc EXCEPT ![w] = FirstStep(r)]
                              /\ pc[w] = "idle" /\ UNCHANGED <<side, etag, back, todo, status>>
                              /\ Apart(w)
    BY <1>1 DEF Start
  <2>2. r.op \in Ops /\ req'[w] = r /\ pc'[w] = FirstStep(r)
    BY <2>1, RequestFields
  <2>3. pc'[w] = FirstStep(r) /\ req'[w].op = r.op
    BY <2>1, <2>2
  <2>4. \/ r.op = "put" /\ pc'[w] \in {"lock", "putStat"}
        \/ r.op = "copy" /\ pc'[w] = "cpStat"
        \/ r.op = "delete" /\ pc'[w] = "lock"
        \/ r.op = "get" /\ pc'[w] = "getStat"
        \/ r.op = "head" /\ pc'[w] = "headMeta"
        \/ r.op = "putAcl" /\ pc'[w] = "aclStat"
        \/ r.op = "createBucket" /\ pc'[w] = "cbStat"
        \/ r.op = "bucketAcl" /\ pc'[w] = "baStat"
        \/ r.op = "deleteBucket" /\ pc'[w] = "dbStat"
    BY <2>2, <2>3 DEF FirstStep, Ops
  <2> QED BY <2>1, <2>3, <2>4
<1>2. CASE Lock(w)
  BY <1>2 DEF Lock
<1>3. CASE Finish(w)
  BY <1>3 DEF Finish
<1> QED BY <1>1, <1>2, <1>3

AllServe == \A w \in Workers : Serves(w)

\* A step of one worker.
LEMMA StepServes ==
  ASSUME TypeOK, AllServe, NEW w \in Workers, Start(w) \/ Lock(w) \/ Step(w)
  PROVE  AllServe' /\ Leads(w) /\ Apart(w) /\ (Start(w) \/ pc[w] # "idle")
<1>1. Serves(w)' /\ Leads(w) /\ Apart(w)
  BY ServeServes, WriteServes, RemoveServes, SetACLServes, BucketServes, TurnServes DEF Step, AllServe
<1>2. Start(w) \/ pc[w] # "idle"
  BY ServeServes, WriteServes, RemoveServes, SetACLServes, BucketServes
     DEF Step, AllServe, Lock, Finish, Resolving, GetPCs, HeadPCs, AclPCs, RemovalPCs, CopyPCs,
         DeletePCs, BucketPCs, Publishing
<1>3. ASSUME NEW v \in Workers \ {w} PROVE Serves(v)'
  <2>1. pc'[v] = pc[v] /\ req'[v] = req[v] /\ back'[v] = back[v] /\ Serves(v)
    BY <1>1 DEF Apart, AllServe
  <2> QED BY <2>1 DEF Serves
<1> QED BY <1>1, <1>2, <1>3 DEF AllServe

\* The invariant holds whatever happens.
LEMMA EveryoneServes == Spec => []AllServe
<1>1. Init => AllServe
  BY DEF Init, AllServe, Serves, CopyPCs, DeletePCs, BucketPCs, GetPCs, HeadPCs, AclPCs, RemovalPCs,
         Resolving, Publishing
<1>2. TypeOK /\ AllServe /\ [Next]_vars => AllServe'
  <2> SUFFICES ASSUME TypeOK, AllServe, [Next]_vars PROVE AllServe'
    OBVIOUS
  <2>1. CASE Crash
    BY <2>1 DEF Crash, AllServe, Serves, CopyPCs, DeletePCs, BucketPCs, GetPCs, HeadPCs, AclPCs,
                RemovalPCs, Resolving, Publishing
  <2>2. CASE UNCHANGED vars
    BY <2>2 DEF vars, localVars, AllServe, Serves
  <2> QED BY <2>1, <2>2, StepServes DEF Next
<1> QED BY <1>1, <1>2, TypeCorrect, PTL DEF Spec
-----------------------------------------------------------------------------
(***************************************************************************)
(* An upload or a copy that runs alone.                                    *)
(***************************************************************************)
\* At most one request is being served.
OneBusy == \A v, w \in Workers : pc[v] # "idle" /\ pc[w] # "idle" => v = w

\* A request that has arrived is being served.
LEMMA StartBusy ==
  ASSUME TypeOK, NEW w \in Workers, Start(w)
  PROVE  pc[w] = "idle" /\ pc'[w] # "idle"
<1>1. PICK r \in Requests : pc[w] = "idle" /\ pc' = [pc EXCEPT ![w] = FirstStep(r)]
  BY DEF Start, Goto
<1>2. r.op \in Ops
  BY RequestFields
<1>3. FirstStep(r) # "idle"
  BY <1>2 DEF FirstStep, Ops
<1> QED BY <1>1, <1>3 DEF TypeOK

\* What a publishing request leaves behind it, whatever it found.
Mended(w) ==
  /\ pc[w] \in Published => data[Key(w)] = ver[w]
  /\ pc[w] = "metaWrite" => meta[Key(w)] = Torn /\ w \in metaFd[Key(w)]
  /\ pc[w] = "done" /\ req[w].op \in {"put", "copy"} /\ status[w] = "ok" => PairOK(Key(w))

RepairInv == /\ solo \in BOOLEAN
             /\ solo => OneBusy /\ \A w \in Workers : Mended(w)

\* An idle worker has nothing to mend.
LEMMA IdleMended == \A w \in Workers : pc[w] = "idle" => Mended(w)
  BY DEF Mended, Published

LEMMA StepMends ==
  ASSUME TypeInv, AllServe, NEW w \in Workers, Mended(w), Start(w) \/ Lock(w) \/ Step(w)
  PROVE  Mended(w)'
<1> USE DEF TypeInv, TypeOK
<1>1. Leads(w)
  BY StepServes
<1>2. ASSUME pc'[w] \in Published
      PROVE  /\ data'[Key(w)'] = ver'[w]
             /\ pc'[w] = "metaWrite" => meta'[Key(w)'] = Torn /\ w \in metaFd'[Key(w)']
  <2>1. CASE Rename(w)
    BY <2>1, <1>2, KeyFacts DEF Rename, localVars, Goto, Key
  <2>2. CASE MetaTrunc(w)
    <3>1. pc[w] = "metaTrunc" /\ data[Key(w)] = ver[w]
      BY <2>2 DEF MetaTrunc, Mended, Published
    <3>2. Key(w)' = Key(w) /\ data' = data /\ ver' = ver
      BY <2>2 DEF MetaTrunc, localVars, Key
    <3>3. TruncateMeta(w, Key(w))
      BY <2>2, <1>2 DEF MetaTrunc, Fail, Respond, Goto, Published
    <3> QED BY <3>1, <3>2, <3>3, KeyFacts DEF TruncateMeta
  <2> QED BY <1>1, <1>2, <2>1, <2>2 DEF Leads
<1>3. ASSUME pc'[w] = "done", status'[w] = "ok", req'[w].op \in {"put", "copy"}
      PROVE  PairOK(Key(w))'
  <2>1. MetaWrite(w)
    BY <1>1, <1>3 DEF Leads
  <2>2. pc[w] = "metaWrite" /\ Key(w)' = Key(w) /\ data' = data
    BY <2>1 DEF MetaWrite, localVars, Key
  <2>3. FillMeta(w, Key(w), NewSidecar(w))
    BY <2>1, <1>3 DEF MetaWrite, Fail, Respond
  <2>4. data[Key(w)] = ver[w] /\ meta[Key(w)] = Torn /\ w \in metaFd[Key(w)]
    BY <2>2 DEF Mended, Published
  <2>5. meta'[Key(w)] = NewSidecar(w)
    BY <2>3, <2>4, KeyFacts DEF FillMeta, Overwritten
  <2>6. ver[w] \in Versions /\ NewSidecar(w) \in Sidecars
    BY <2>2, NewSidecarFact DEF LocalsOK, Uploading, Publishing
  <2> QED BY <2>2, <2>4, <2>5, <2>6, SentinelAssumption DEF PairOK, NewSidecar
<1> QED BY <1>2, <1>3 DEF Mended, Published

(***************************************************************************)
(* A copy or an upload that is acknowledged and overlapped no other        *)
(* request leaves a whole object, whatever crashes, disk faults and        *)
(* overlapping requests left on the key before it (finalizeObjectWrite     *)
(* truncates the sidecar it finds and rewrites all of it).                 *)
(***************************************************************************)
THEOREM UploadRepairsHolds == AllSpec => []UploadRepairs
<1>1. AllInit => RepairInv
  <2> SUFFICES ASSUME AllInit PROVE RepairInv
    OBVIOUS
  <2>1. solo = TRUE /\ \A w \in Workers : pc[w] = "idle"
    BY DEF AllInit, Init
  <2> QED BY <2>1, IdleMended DEF RepairInv, OneBusy
<1>2. TypeInv /\ AllServe /\ RepairInv /\ [AllNext]_<<vars, solo>> => RepairInv'
  <2> SUFFICES ASSUME TypeInv, AllServe, RepairInv, [AllNext]_<<vars, solo>> PROVE RepairInv'
    OBVIOUS
  <2> USE DEF TypeInv
  <2>1. CASE UNCHANGED <<vars, solo>>
    BY <2>1 DEF vars, fileVars, localVars, RepairInv, OneBusy, Mended, PairOK, Key
  <2>2. CASE AllNext /\ Busy' = {}
    <3>1. solo' = TRUE /\ \A w \in Workers : pc'[w] = "idle"
      BY <2>2 DEF AllNext, Busy
    <3> QED BY <3>1 DEF RepairInv, OneBusy, Mended, Published
  <2>3. CASE AllNext /\ Busy' # {} /\ solo /\ \E x \in Workers : Busy' = {x}
    <3>1. PICK w \in Workers : Start(w) \/ Lock(w) \/ Step(w)
      <4>1. ~Crash
        BY <2>3 DEF Crash, Busy
      <4> QED BY <2>3, <4>1 DEF AllNext, Next
    <3>2. Mended(w)' /\ Apart(w)
      BY <3>1, <2>3, StepMends, StepServes DEF RepairInv
    <3>3. PICK x : Busy' = {x}
      BY <2>3
    <3>4. \A u, v \in Workers : pc'[u] # "idle" /\ pc'[v] # "idle" => u = v
      BY <3>3 DEF Busy
    <3>5. ASSUME NEW v \in Workers, v # w PROVE pc'[v] = "idle"
      <4>1. pc'[v] = pc[v]
        BY <3>2, <3>5 DEF Apart
      <4>2. CASE pc[w] = "idle"
        <5>1. pc'[w] # "idle"
          BY <3>1, <4>2, StepServes, StartBusy
        <5> QED BY <3>4, <3>5, <5>1
      <4>3. CASE pc[w] # "idle"
        BY <2>3, <3>5, <4>1, <4>3 DEF RepairInv, OneBusy
      <4> QED BY <4>2, <4>3
    <3>6. \A v \in Workers : Mended(v)'
      BY <3>2, <3>5 DEF Mended, Published
    <3>7. solo' \in BOOLEAN
      BY <2>3 DEF AllNext
    <3> QED BY <3>4, <3>6, <3>7 DEF RepairInv, OneBusy
  <2>4. CASE AllNext /\ Busy' # {} /\ ~(solo /\ \E x \in Workers : Busy' = {x})
    BY <2>4 DEF AllNext, RepairInv
  <2> QED BY <2>1, <2>2, <2>3, <2>4
<1>3. RepairInv => UploadRepairs
  BY DEF RepairInv, UploadRepairs, Mended
<1>4. AllSpec => Spec
  <2>1. AllInit => Init
    BY DEF AllInit
  <2>2. [AllNext]_<<vars, solo>> => [Next]_vars
    BY DEF AllNext
  <2> QED BY <2>1, <2>2, PTL DEF AllSpec, Spec
<1> QED BY <1>1, <1>2, <1>3, <1>4, TypeInvariant, EveryoneServes, PTL DEF AllSpec
-----------------------------------------------------------------------------
(***************************************************************************)
(* The removal of a bucket.                                                *)
(***************************************************************************)
\* Only uploads and copies bring data files into being, and only the steps of
\* DeleteBucketHandler move a request through them.
LEMMA StepFiles ==
  ASSUME TypeOK, AllServe, NEW w \in Workers, Start(w) \/ Lock(w) \/ Step(w)
  PROVE  /\ Rename(w) \/ \A k \in Keys : data'[k] \in {data[k], None}
         /\ pc[w] \in RemovalPCs => Bucket(w)
<1>1. CASE Serve(w)
  <2>1. data' = data
    BY <1>1 DEF Serve, BfRead, BfHash, BfTrunc, BfWrite, GetStat, GetTag, GetMeta, GetOpen,
                HeadMeta, HeadTag, fileVars
  <2> QED BY <1>1, <2>1, ServeServes DEF AllServe, Resolving, GetPCs, HeadPCs, RemovalPCs
<1>2. CASE Write(w)
  <2>1. data' = data \/ Rename(w)
    BY <1>2 DEF Write, PutStat, PutNone, PutMatch, CpStat, CpMeta, CpOpen, Mkdir, Stage,
                StreamFails, MetaTrunc, MetaWrite, fileVars
  <2> QED BY <1>2, <2>1, WriteServes DEF AllServe, CopyPCs, Publishing, RemovalPCs
<1>3. CASE Remove(w)
  <2>1. \A k \in Keys : data'[k] \in {data[k], None}
    BY <1>3 DEF Remove, DelData, DelMeta, DelDirs, TypeOK
  <2> QED BY <1>3, <2>1, RemoveServes DEF AllServe, DeletePCs, RemovalPCs
<1>4. CASE SetACL(w)
  <2>1. data' = data
    BY <1>4 DEF SetACL, AclStat, AclRead, AclTrunc, AclWrite, AclRename, fileVars
  <2> QED BY <1>4, <2>1, SetACLServes DEF AllServe, AclPCs, RemovalPCs
<1>5. CASE Bucket(w)
  <2>1. CASE DbRemove(w)
    <3>1. PICK e \in todo[w] \cap Entries : data' = Unlink(data, "data", e, None)
      BY <2>1 DEF DbRemove
    <3> QED BY <1>5, <3>1 DEF Unlink, TypeOK
  <2>2. CASE ~DbRemove(w)
    BY <1>5, <2>2 DEF Bucket, CbStat, CbMkdir, CbAcl, BaStat, DbStat, DbCheck, DbScan, DbFinish,
                      DbFails, fileVars
  <2> QED BY <1>5, <2>1, <2>2
<1>6. CASE Start(w) \/ Lock(w) \/ Finish(w)
  <2>1. data' = data
    BY <1>6 DEF Start, Lock, Finish, fileVars
  <2> QED BY <1>6, <2>1, TurnServes DEF AllServe, RemovalPCs
<1> QED BY <1>1, <1>2, <1>3, <1>4, <1>5, <1>6 DEF Step

\* What the handler checked is still so.
Emptied == \A w \in Workers : pc[w] \in {"dbScan", "dbRemove"} => \A k \in Keys : data[k] = None

\* A bucket is seen to be empty.
LEMMA SeenEmpty ==
  ASSUME NEW w \in Workers, DbCheck(w), TypeOK, pc'[w] = "dbScan"
  PROVE  \A k \in Keys : data'[k] = None
<1>1. BucketIsEmpty /\ data' = data
  BY DEF DbCheck, Respond, Goto, TypeOK, fileVars
<1>2. ASSUME NEW k \in Keys, data[k] # None PROVE FALSE
  <2>1. <<"data", k>> \in FilesOf(k)
    BY <1>2 DEF FilesOf, Entries
  <2>2. <<"data", k>> \in AllFiles
    BY <2>1 DEF AllFiles
  <2> QED BY <1>1, <2>2 DEF BucketIsEmpty
<1> QED BY <1>1, <1>2

(***************************************************************************)
(* Deleting a bucket removes no object unless an upload or a copy renames  *)
(* its data file into place after bucketIsEmpty has looked: the one        *)
(* overlap that can lose an object, with crashes, disk faults and every    *)
(* other overlap of requests allowed.                                      *)
(***************************************************************************)
THEOREM BucketDeleteKeepsObjectsHolds == Spec /\ NoLateUpload => BucketDeleteKeepsObjects
<1> DEFINE NotLate == \A v, w \in Workers : pc[v] \in {"dbScan", "dbRemove"} => ~Rename(w)
           Keeping == \A w \in Workers :
                        /\ pc[w] \in {"dbStat", "dbCheck", "dbScan", "dbRemove"}
                        /\ pc'[w] # pc[w] \/ todo'[w] # todo[w]
                        => data' = data
<1>1. Init => Emptied
  BY DEF Init, Emptied
<1>2. TypeInv /\ AllServe /\ Emptied /\ [Next]_vars /\ [NotLate]_vars => Emptied'
  <2> SUFFICES ASSUME TypeInv, AllServe, Emptied, [Next]_vars, [NotLate]_vars,
                      NEW v \in Workers, pc'[v] \in {"dbScan", "dbRemove"}, NEW k \in Keys
               PROVE  data'[k] = None
    BY DEF Emptied
  <2> USE DEF TypeInv
  <2>1. CASE UNCHANGED vars
    BY <2>1 DEF vars, fileVars, Emptied
  <2>2. CASE Crash
    BY <2>2 DEF Crash
  <2>3. ASSUME NEW w \in Workers, Start(w) \/ Lock(w) \/ Step(w), NotLate PROVE data'[k] = None
    <3>1. Leads(w) /\ Apart(w)
      BY <2>3, StepServes
    <3>2. CASE pc[v] \in {"dbScan", "dbRemove"}
      BY <2>3, <3>2, StepFiles DEF Emptied
    <3>3. CASE pc[v] \notin {"dbScan", "dbRemove"}
      <4>1. v = w
        BY <3>1, <3>3 DEF Apart
      <4>2. DbCheck(w)
        BY <3>1, <3>3, <4>1 DEF Leads, DbScan, DbRemove
      <4>3. pc'[w] = "dbScan"
        BY <4>1, <4>2 DEF DbCheck, Respond, Goto, TypeOK
      <4> QED BY <4>2, <4>3, SeenEmpty
    <3> QED BY <3>2, <3>3
  <2>4. CASE Next /\ NotLate
    BY <2>2, <2>3, <2>4 DEF Next
  <2> QED BY <2>1, <2>4
<1>3. TypeInv /\ AllServe /\ Emptied /\ [Next]_vars => [Keeping]_vars
  <2> SUFFICES ASSUME TypeInv, AllServe, Emptied, Next, NEW w \in Workers, pc[w] \in RemovalPCs,
                      pc'[w] # pc[w] \/ todo'[w] # todo[w]
               PROVE  data' = data
    BY DEF RemovalPCs
  <2> USE DEF TypeInv
  <2>1. CASE Crash
    BY <2>1 DEF Crash
  <2>2. ASSUME NEW v \in Workers, Start(v) \/ Lock(v) \/ Step(v) PROVE data' = data
    <3>1. v = w
      BY <2>2, StepServes DEF Apart
    <3>2. Bucket(w)
      BY <2>2, <3>1, StepFiles
    <3>3. CASE DbRemove(w)
      <4>1. PICK e \in todo[w] \cap Entries : data' = Unlink(data, "data", e, None)
        BY <3>3 DEF DbRemove
      <4>2. \A k \in Keys : data[k] = None
        BY <3>3 DEF Emptied, DbRemove
      <4> QED BY <4>1, <4>2 DEF Unlink, TypeOK
    <3>4. CASE ~DbRemove(w)
      BY <3>2, <3>4 DEF Bucket, CbStat, CbMkdir, CbAcl, BaStat, DbStat, DbCheck, DbScan, DbFinish,
                        DbFails, fileVars
    <3> QED BY <3>3, <3>4
  <2> QED BY <2>1, <2>2 DEF Next
<1>4. NoLateUpload => [][NotLate]_vars
  BY DEF NoLateUpload
<1>5. [][Keeping]_vars => BucketDeleteKeepsObjects
  BY DEF BucketDeleteKeepsObjects
<1> HIDE DEF NotLate, Keeping
<1> QED BY <1>1, <1>2, <1>3, <1>4, <1>5, TypeInvariant, EveryoneServes, PTL DEF Spec
-----------------------------------------------------------------------------
(***************************************************************************)
(* Conditional uploads.  A sidecar is trusted by the next precondition:    *)
(* whoever writes one must have seen the bytes it describes.               *)
(***************************************************************************)
Right(k, s) ==
  s \in Sidecars /\ s.etag # None /\ data[k] # None => s.etag = ETagOf(data[k].body)

\* The ETag that loadOrBackfillETag has resolved.
Known(w) == etag[w] # None /\ data[Key(w)] # None => etag[w] = ETagOf(data[Key(w)].body)

\* The preconditions of the request are met.
Held(w) ==
  /\ req[w].ifNone = Star => data[Key(w)] = None
  /\ req[w].ifMatch # None =>
       data[Key(w)] # None /\ ETagOf(data[Key(w)].body) = req[w].ifMatch

\* Resolving the ETag of an object that exists, for a precondition.
Comparing(w) == \/ pc[w] \in {"putNone", "putMatch"}
                \/ pc[w] \in Resolving /\ back[w] \in {"putNone", "putMatch"}

Honest(w) ==
  /\ pc[w] \in Published => data[Key(w)] = ver[w]
  /\ pc[w] \in {"bfTrunc", "bfWrite", "aclTrunc", "aclWrite"} => Right(Key(w), side[w])
  /\ pc[w] \in {"aclWrite", "aclRename"} => Right(Key(w), metaTmp[Key(w)])
  /\ pc[w] \in {"bfTrunc", "bfWrite", "putNone", "putMatch"} => Known(w)
  /\ Comparing(w) => data[Key(w)] # None /\ req[w].ifNone # Star
  /\ pc[w] \in {"lock", "mkdir", "stage", "rename"} => Held(w)

\* The sidecar of a key describes its bytes, between a rename and the
\* truncation of the sidecar excepted.
Tagged(k) == Right(k, meta[k]) \/ \E w \in Workers : pc[w] = "metaTrunc" /\ Key(w) = k

HonestInv == (\A w \in Workers : Honest(w)) /\ (\A k \in Keys : Tagged(k))

\* What a step of w makes of the key k it works on.
Kept(w, k) == Honest(w)' /\ (Right(k, meta[k])' \/ pc'[w] = "metaTrunc")

\* A sidecar that is gone or does not decode says nothing.
LEMMA RightShrinks ==
  ASSUME NEW k \in Keys, Right(k, meta[k]), data'[k] \in {data[k], None},
         meta'[k] \in {meta[k], None, Torn}
  PROVE  Right(k, meta[k])'
BY SentinelAssumption DEF Right

LEMMA FillRight ==
  ASSUME TypeOK, NEW w \in Workers, NEW k \in Keys, NEW s, Right(k, meta[k]), Right(k, s),
         FillMeta(w, k, s), data' = data
  PROVE  Right(k, meta[k])'
<1>1. meta'[k] \in {meta[k], s, Torn}
  BY DEF FillMeta, Overwritten, TypeOK
<1> QED BY <1>1, SentinelAssumption DEF Right

LEMMA ServeHonest ==
  ASSUME ~DiskFaults, TypeInv, AllServe, NEW w \in Workers, Honest(w), Serve(w),
         NEW k \in Keys, k = Key(w), Right(k, meta[k])
  PROVE  Kept(w, k)
<1> USE DEF Kept, Honest, Comparing, Known, Resolving, Published, Goto, Respond, localVars, fileVars,
            TypeInv, TypeOK, Key
<1>1. Serves(w)
  BY DEF AllServe
<1>2. CASE BfRead(w)
  <2>1. CASE meta[k] \in Sidecars /\ meta[k].etag # None /\ etag' = [etag EXCEPT ![w] = meta[k].etag]
    BY <1>1, <1>2, <2>1 DEF BfRead, Serves, Right
  <2>2. CASE etag' = [etag EXCEPT ![w] = None] \/ pc'[w] = "bfHash"
    BY <1>1, <1>2, <2>2 DEF BfRead, Serves, Right
  <2> QED BY <1>2, <2>1, <2>2 DEF BfRead
<1>3. CASE BfHash(w)
  <2>1. CASE data[k] = None
    BY <1>1, <1>3, <2>1 DEF BfHash, Serves, Right
  <2>2. CASE data[k] # None
    <3>1. side[w] \in Sidecars /\ side'[w] = WithETag(side[w], ETagOf(data[k].body))
      BY <1>3, <2>2 DEF BfHash, LocalsOK
    <3>2. side'[w].etag = ETagOf(data[k].body)
      BY <3>1 DEF WithETag, Sidecars
    <3> QED BY <1>1, <1>3, <2>2, <3>2 DEF BfHash, Right
  <2> QED BY <2>1, <2>2
<1>4. CASE BfTrunc(w)
  <2>1. CASE TruncateMeta(w, k) /\ pc'[w] = "bfWrite"
    BY <1>4, <2>1, SentinelAssumption DEF BfTrunc, TruncateMeta, Right
  <2>2. CASE pc'[w] = back[w] /\ meta' = meta
    BY <1>1, <1>4, <2>2 DEF BfTrunc, Serves, Right
  <2> QED BY <1>4, <2>1, <2>2 DEF BfTrunc
<1>5. CASE BfWrite(w)
  <2>1. Right(k, meta[k])'
    BY <1>5, FillRight DEF BfWrite
  <2> QED BY <1>1, <1>5, <2>1 DEF BfWrite, Serves
<1>6. CASE GetStat(w)
  BY <1>6 DEF GetStat, CallBackfill, Right
<1>7. CASE GetTag(w)
  BY <1>7 DEF GetTag, Right
<1>8. CASE GetMeta(w)
  BY <1>8 DEF GetMeta, Right
<1>9. CASE GetOpen(w)
  BY <1>9 DEF GetOpen, Right
<1>10. CASE HeadMeta(w)
  BY <1>10 DEF HeadMeta, CallBackfill, Right
<1>11. CASE HeadTag(w)
  BY <1>11 DEF HeadTag, Right
<1> QED
  BY <1>2, <1>3, <1>4, <1>5, <1>6, <1>7, <1>8, <1>9, <1>10, <1>11 DEF Serve

LEMMA WriteHonest ==
  ASSUME ~DiskFaults, TypeInv, AllServe, Placed, NEW w \in Workers, Honest(w), Write(w),
         NEW k \in Keys, k = Key(w), Right(k, meta[k]) \/ pc[w] = "metaTrunc"
  PROVE  Kept(w, k)
<1> USE DEF Kept, Honest, Comparing, Known, Held, Resolving, Published, Goto, Respond, Fail, localVars,
            fileVars, TypeInv, TypeOK, Key
<1>1. CASE PutStat(w)
  BY <1>1, SentinelAssumption DEF PutStat, CallBackfill, Right
<1>2. CASE PutNone(w)
  BY <1>2 DEF PutNone, CallBackfill, Right
<1>3. CASE PutMatch(w)
  BY <1>3 DEF PutMatch, Right
<1>4. CASE CpStat(w)
  BY <1>4 DEF CpStat, Right
<1>5. CASE CpMeta(w)
  BY <1>5 DEF CpMeta, Right
<1>6. CASE CpOpen(w)
  <2>1. req[w].ifNone = None /\ req[w].ifMatch = None
    BY <1>6, RequestFields DEF CpOpen, LocalsOK
  <2> QED BY <1>6, <2>1, SentinelAssumption DEF CpOpen, Right
<1>7. CASE Mkdir(w)
  BY <1>7 DEF Mkdir, Right
<1>8. CASE Stage(w)
  BY <1>8 DEF Stage, Right
<1>9. CASE Rename(w)
  BY <1>9 DEF Rename
<1>10. CASE StreamFails(w)
  BY <1>10 DEF StreamFails, Right
<1>11. CASE MetaTrunc(w)
  <2>1. data[k] = ver[w] /\ ver[w] \in Versions
    BY <1>11 DEF MetaTrunc, LocalsOK, Uploading, Publishing
  <2>2. Dir[k] \in dirs
    BY <2>1, SentinelAssumption DEF Placed, Present
  <2>3. meta'[k] = Torn /\ pc'[w] = "metaWrite" /\ data' = data /\ ver' = ver /\ req' = req
    BY <1>11, <2>2 DEF MetaTrunc, TruncateMeta
  <2>4. Right(k, meta[k])'
    BY <2>3, SentinelAssumption DEF Right
  <2> QED BY <2>1, <2>3, <2>4
<1>12. CASE MetaWrite(w)
  <2>1. data[k] = ver[w] /\ data' = data /\ pc'[w] = "done" /\ FillMeta(w, k, NewSidecar(w))
    BY <1>12 DEF MetaWrite
  <2>2. Right(k, NewSidecar(w))
    BY <2>1 DEF Right, NewSidecar
  <2>3. Right(k, meta[k])'
    BY <1>12, <2>1, <2>2, FillRight DEF MetaWrite
  <2> QED BY <2>1, <2>3
<1> QED
  BY <1>1, <1>2, <1>3, <1>4, <1>5, <1>6, <1>7, <1>8, <1>9, <1>10, <1>11, <1>12 DEF Write

LEMMA RemoveHonest ==
  ASSUME ~DiskFaults, TypeInv, NEW w \in Workers, Remove(w), NEW k \in Keys, k = Key(w),
         Right(k, meta[k])
  PROVE  Kept(w, k)
<1>1. pc'[w] \in {"delMeta", "delDirs", "done"}
  BY DEF Remove, DelData, DelMeta, DelDirs, Goto, Respond, Fail, TypeInv, TypeOK
<1>2. data'[k] \in {data[k], None} /\ meta'[k] \in {meta[k], None}
  BY DEF Remove, DelData, DelMeta, DelDirs, TypeInv, TypeOK
<1> QED BY <1>1, <1>2, RightShrinks DEF Kept, Honest, Comparing, Resolving, Published

LEMMA SetACLHonest ==
  ASSUME ~DiskFaults, TypeInv, NEW w \in Workers, Honest(w), SetACL(w), NEW k \in Keys, k = Key(w),
         Right(k, meta[k])
  PROVE  Kept(w, k)
<1> USE DEF Kept, Honest, Comparing, Resolving, Published, Goto, Respond, localVars, fileVars, TypeInv,
            TypeOK, Key
<1>1. CASE AclStat(w)
  BY <1>1 DEF AclStat, Right
<1>2. CASE AclRead(w)
  <2>1. meta[k] \in Sidecars => AclSidecar(meta[k], req[w].acl).etag = meta[k].etag
    BY SentinelAssumption DEF AclSidecar, Sidecars
  <2>2. meta[k] = None => AclSidecar(meta[k], req[w].acl).etag = None
    BY DEF AclSidecar, NoSidecar
  <2>3. Right(k, meta[k])'
    BY <1>2 DEF AclRead, Right
  <2>4. pc'[w] = "done" \/ (pc'[w] = "aclTrunc" /\ meta[k] # Torn
                            /\ side'[w] = AclSidecar(meta[k], req[w].acl))
    BY <1>2 DEF AclRead
  <2>5. CASE pc'[w] = "aclTrunc"
    <3>1. data' = data /\ Key(w)' = k
      BY <1>2 DEF AclRead
    <3>2. meta[k] \in Sidecars \/ meta[k] = None
      BY <2>4, <2>5 DEF MetaFiles
    <3>3. Right(k, AclSidecar(meta[k], req[w].acl))
      BY <2>1, <2>2, <3>2 DEF Right
    <3>4. Right(Key(w), side[w])'
      BY <2>4, <2>5, <3>1, <3>3 DEF Right
    <3> QED BY <2>3, <2>5, <3>4
  <2> QED BY <2>3, <2>4, <2>5
<1>3. CASE AclTrunc(w)
  BY <1>3, SentinelAssumption DEF AclTrunc, Right
<1>4. CASE AclWrite(w)
  <2>1. metaTmp'[k] \in {metaTmp[k], side[w], Torn} /\ meta'[k] \in {meta[k], side[w], Torn}
    BY <1>4 DEF AclWrite, Overwritten
  <2>2. data' = data /\ pc'[w] = "aclRename" /\ req' = req
    BY <1>4 DEF AclWrite
  <2>3. Right(k, side[w]) /\ Right(k, metaTmp[k])
    BY <1>4 DEF AclWrite
  <2>4. Right(k, meta[k])' /\ Right(k, metaTmp[k])'
    BY <2>1, <2>2, <2>3, SentinelAssumption DEF Right
  <2> QED BY <2>2, <2>4
<1>5. CASE AclRename(w)
  BY <1>5 DEF AclRename, Right
<1> QED BY <1>1, <1>2, <1>3, <1>4, <1>5 DEF SetACL

LEMMA BucketHonest ==
  ASSUME TypeInv, AllServe, NEW w \in Workers, Bucket(w), NEW k \in Keys, Right(k, meta[k])
  PROVE  Kept(w, k)
<1>1. Serves(w)' /\ pc[w] \in BucketPCs \cup RemovalPCs
  BY BucketServes DEF AllServe, TypeInv
<1>2. data'[k] \in {data[k], None} /\ meta'[k] \in {meta[k], None}
  <2>1. CASE DbRemove(w)
    <3>1. PICK e \in todo[w] \cap Entries : /\ data' = Unlink(data, "data", e, None)
                                            /\ meta' = Unlink(meta, "meta", e, None)
      BY <2>1 DEF DbRemove
    <3> QED BY <3>1 DEF Unlink, TypeInv, TypeOK
  <2>2. CASE ~DbRemove(w)
    BY <2>2 DEF Bucket, CbStat, CbMkdir, CbAcl, BaStat, DbStat, DbCheck, DbScan, DbFinish, DbFails,
                fileVars
  <2> QED BY <2>1, <2>2
<1>3. pc'[w] \in BucketPCs \cup RemovalPCs \cup {"done"}
  BY DEF Bucket, CbStat, CbMkdir, CbAcl, PutBucketACL, BaStat, DbStat, DbCheck, DbScan, DbRemove,
         DbFinish, DbFails, Goto, Respond, TypeInv, TypeOK, BucketPCs, RemovalPCs
<1> QED BY <1>2, <1>3, RightShrinks
        DEF Kept, Honest, Comparing, Resolving, Published, BucketPCs, RemovalPCs

LEMMA StartHonest ==
  ASSUME TypeInv, NEW w \in Workers, Start(w)
  PROVE  Honest(w)' /\ pc[w] = "idle" /\ UNCHANGED fileVars
<1>1. PICK r \in Requests : req'[w] = r /\ pc'[w] = FirstStep(r)
  BY DEF Start, Goto, TypeInv, TypeOK
<1>2. FirstStep(r) = "lock" => r.ifNone = None /\ r.ifMatch = None
  BY RequestFields DEF FirstStep, Ops
<1>3. FirstStep(r) \in {"lock", "putStat", "cpStat", "getStat", "headMeta", "aclStat", "cbStat",
                        "baStat", "dbStat"}
  BY RequestFields DEF FirstStep, Ops
<1>4. pc[w] = "idle" /\ UNCHANGED fileVars
  BY DEF Start
<1> QED BY <1>1, <1>2, <1>3, <1>4, SentinelAssumption
        DEF Honest, Comparing, Resolving, Published, Held

LEMMA TurnHonest ==
  ASSUME TypeInv, NEW w \in Workers, Honest(w), Lock(w) \/ Finish(w), NEW k \in Keys,
         Right(k, meta[k]) \/ pc[w] = "metaTrunc"
  PROVE  Kept(w, k)
<1>1. Right(k, meta[k])'
  BY DEF Lock, Finish, fileVars, Right
<1>2. CASE Lock(w)
  BY <1>1, <1>2 DEF Lock, Goto, TypeInv, TypeOK, fileVars, localVars, Kept, Honest, Comparing,
                    Resolving, Published, Held, Key
<1>3. CASE Finish(w)
  BY <1>1, <1>3 DEF Finish, Goto, TypeInv, TypeOK, Kept, Honest, Comparing, Resolving, Published
<1> QED BY <1>2, <1>3

\* A step leaves the files of the other keys alone, or removes them.
Elsewhere(w) ==
  \A k \in Keys :
    /\ k # Key(w) => data'[k] \in {data[k], None} /\ meta'[k] \in {meta[k], None}
    /\ k # Key(w) /\ req[w].op # "deleteBucket" =>
         data'[k] = data[k] /\ meta'[k] = meta[k] /\ metaTmp'[k] = metaTmp[k]

LEMMA StepElsewhere ==
  ASSUME TypeInv, AllServe, NEW w \in Workers, Start(w) \/ Lock(w) \/ Step(w)
  PROVE  Elsewhere(w)
<1> USE DEF Elsewhere, TypeInv, TypeOK
<1>1. CASE Serve(w)
  BY <1>1 DEF Serve, BfRead, BfHash, BfTrunc, BfWrite, GetStat, GetTag, GetMeta, GetOpen, HeadMeta,
              HeadTag, TruncateMeta, FillMeta, fileVars
<1>2. CASE Write(w)
  BY <1>2 DEF Write, PutStat, PutNone, PutMatch, CpStat, CpMeta, CpOpen, Mkdir, Stage, Rename,
              StreamFails, MetaTrunc, MetaWrite, TruncateMeta, FillMeta, fileVars
<1>3. CASE Remove(w)
  BY <1>3 DEF Remove, DelData, DelMeta, DelDirs
<1>4. CASE SetACL(w)
  BY <1>4 DEF SetACL, AclStat, AclRead, AclTrunc, AclWrite, AclRename, fileVars
<1>5. CASE Bucket(w)
  <2>1. CASE DbRemove(w)
    <3>1. PICK e \in todo[w] \cap Entries : /\ data' = Unlink(data, "data", e, None)
                                            /\ meta' = Unlink(meta, "meta", e, None)
      BY <2>1 DEF DbRemove
    <3>2. req[w].op = "deleteBucket"
      BY <2>1 DEF DbRemove, AllServe, Serves, RemovalPCs
    <3> QED BY <3>1, <3>2 DEF Unlink
  <2>2. CASE ~DbRemove(w)
    BY <1>5, <2>2 DEF Bucket, CbStat, CbMkdir, CbAcl, BaStat, DbStat, DbCheck, DbScan, DbFinish,
                      DbFails, fileVars
  <2> QED BY <2>1, <2>2
<1>6. CASE Start(w) \/ Lock(w) \/ Finish(w)
  BY <1>6 DEF Start, Lock, Finish, fileVars
<1> QED BY <1>1, <1>2, <1>3, <1>4, <1>5, <1>6 DEF Step

\* A step of w, which no other request on its key and no deletion overlaps.
LEMMA OwnHonest ==
  ASSUME ~DiskFaults, TypeInv, AllServe, Placed, NEW w \in Workers, Honest(w), Lock(w) \/ Step(w),
         NEW k \in Keys, k = Key(w), Right(k, meta[k]) \/ pc[w] = "metaTrunc"
  PROVE  Kept(w, k) /\ pc[w] # "idle"
<1>1. CASE Serve(w)
  BY <1>1, ServeHonest, ServeServes DEF TypeInv, AllServe, Resolving, GetPCs, HeadPCs
<1>2. CASE Write(w)
  BY <1>2, WriteHonest, WriteServes DEF TypeInv, AllServe, CopyPCs, Publishing
<1>3. CASE Remove(w)
  BY <1>3, RemoveHonest, RemoveServes DEF TypeInv, AllServe, DeletePCs
<1>4. CASE SetACL(w)
  BY <1>4, SetACLHonest, SetACLServes DEF TypeInv, AllServe, AclPCs
<1>5. CASE Bucket(w)
  BY <1>5, BucketHonest, BucketServes DEF TypeInv, AllServe, BucketPCs, RemovalPCs
<1>6. CASE Lock(w) \/ Finish(w)
  BY <1>6, TurnHonest DEF Lock, Finish
<1> QED BY <1>1, <1>2, <1>3, <1>4, <1>5, <1>6 DEF Step

LEMMA OthersHonest ==
  ASSUME TypeInv, AllServe, Separate, NEW w \in Workers, Start(w) \/ Lock(w) \/ Step(w),
         NEW v \in Workers \ {w}, Honest(v)
  PROVE  Honest(v)'
<1>1. Apart(w) /\ Elsewhere(w) /\ (Start(w) \/ pc[w] # "idle")
  BY StepServes, StepElsewhere DEF TypeInv
<1>2. /\ pc'[v] = pc[v] /\ req'[v] = req[v] /\ ver'[v] = ver[v] /\ side'[v] = side[v]
      /\ etag'[v] = etag[v] /\ back'[v] = back[v]
  BY <1>1 DEF Apart
<1>3. CASE pc[v] = "idle"
  BY <1>2, <1>3 DEF Honest, Comparing, Resolving, Published
<1>4. CASE pc[v] # "idle"
  <2>1. Key(v) \in Keys
    BY KeyFacts DEF TypeInv
  <2>2. data'[Key(v)] = data[Key(v)] /\ metaTmp'[Key(v)] = metaTmp[Key(v)]
    <3>1. CASE Start(w)
      BY <3>1, StartHonest DEF fileVars
    <3>2. CASE pc[w] # "idle"
      BY <1>1, <1>4, <2>1, <3>2 DEF Separate, Elsewhere
    <3> QED BY <1>1, <3>1, <3>2
  <2> QED BY <1>2, <2>2 DEF Honest, Comparing, Resolving, Published, Known, Held, Right, Key
<1> QED BY <1>3, <1>4

LEMMA NextHonest ==
  ASSUME ~Crashes, ~DiskFaults, TypeInv, AllServe, Placed, Separate, HonestInv, Next
  PROVE  HonestInv'
<1>1. PICK w \in Workers : Start(w) \/ Lock(w) \/ Step(w)
  BY DEF Next, Crash
<1>2. Apart(w) /\ Elsewhere(w) /\ Leads(w)
  BY <1>1, StepServes, StepElsewhere DEF TypeInv
<1>3. CASE Start(w)
  <2>1. \A v \in Workers : Honest(v)'
    BY <1>1, <1>3, StartHonest, OthersHonest DEF HonestInv
  <2>2. ASSUME NEW k \in Keys PROVE Tagged(k)'
    <3>1. CASE Right(k, meta[k])
      BY <1>3, <3>1, StartHonest DEF Tagged, Right, fileVars
    <3>2. CASE \E v \in Workers : pc[v] = "metaTrunc" /\ Key(v) = k
      BY <1>2, <1>3, <3>2, StartHonest DEF Tagged, Apart, Key
    <3> QED BY <3>1, <3>2 DEF HonestInv, Tagged
  <2> QED BY <2>1, <2>2 DEF HonestInv
<1>4. CASE Lock(w) \/ Step(w)
  <2>1. pc[w] # "idle" /\ Key(w) \in Keys
    <3>1. Start(w) \/ pc[w] # "idle"
      BY <1>1, StepServes DEF TypeInv
    <3>2. Lock(w) \/ Step(w) => pc[w] # "idle"
      BY ServeServes, WriteServes, RemoveServes, SetACLServes, BucketServes
         DEF TypeInv, Step, AllServe, Lock, Finish, Resolving, GetPCs, HeadPCs, AclPCs, RemovalPCs,
             CopyPCs, DeletePCs, BucketPCs, Publishing
    <3> QED BY <1>4, <3>2, KeyFacts DEF TypeInv
  <2> PICK x \in Keys : x = Key(w)
    BY <2>1
  <2>2. Kept(w, x)
    <3>1. Right(x, meta[x]) \/ pc[w] = "metaTrunc"
      BY <2>1 DEF HonestInv, Tagged, Separate
    <3> QED BY <1>4, <3>1, OwnHonest DEF HonestInv
  <2>3. \A v \in Workers : Honest(v)'
    BY <1>1, <2>2, OthersHonest DEF HonestInv, Kept
  <2>4. ASSUME NEW k \in Keys PROVE Tagged(k)'
    <3>1. CASE k = x
      <4>1. pc'[w] = "metaTrunc" => Key(w)' = k
        BY <1>2, <3>1 DEF Leads, Published, Rename, MetaTrunc, localVars, Key
      <4> QED BY <2>2, <3>1, <4>1 DEF Kept, Tagged
    <3>2. CASE k # x /\ Right(k, meta[k])
      BY <1>2, <3>2, RightShrinks DEF Elsewhere, Tagged
    <3>3. CASE k # x /\ \E v \in Workers : pc[v] = "metaTrunc" /\ Key(v) = k
      BY <1>2, <3>3 DEF Tagged, Apart, Key
    <3> QED BY <3>1, <3>2, <3>3 DEF HonestInv, Tagged
  <2> QED BY <2>3, <2>4 DEF HonestInv
<1> QED BY <1>1, <1>3, <1>4

(***************************************************************************)
(* README: "If-None-Match: *" creates only, "If-Match" overwrites only     *)
(* what is unchanged.  The precondition holds when the upload replaces the *)
(* data file, provided requests on one key do not overlap (other keys may  *)
(* be as busy as they like), no bucket deletion overlaps, and no sidecar   *)
(* has been left behind by a kill or a failed write: the sidecar, where    *)
(* loadOrBackfillETag looks first, then describes the bytes beside it.     *)
(***************************************************************************)
THEOREM PreconditionHoldsApart ==
  ASSUME ~Crashes, ~DiskFaults PROVE Spec /\ []Separate => PreconditionHolds
<1> DEFINE Met == \A w \in Workers :
                    pc[w] = "rename" /\ pc'[w] = "metaTrunc" =>
                      /\ req[w].ifNone = Star => data[Key(w)] = None
                      /\ req[w].ifMatch # None =>
                           /\ data[Key(w)] # None
                           /\ ETagOf(data[Key(w)].body) = req[w].ifMatch
<1>1. Init => HonestInv
  <2> SUFFICES ASSUME Init PROVE HonestInv
    OBVIOUS
  <2>1. \A w \in Workers : Honest(w)
    BY DEF Init, Honest, Comparing, Resolving, Published
  <2>2. \A k \in Keys : Right(k, meta[k])
    BY SentinelAssumption DEF Init, Right
  <2> QED BY <2>1, <2>2 DEF HonestInv, Tagged
<1>2. TypeInv /\ AllServe /\ HomesInv /\ Separate /\ HonestInv /\ [Next]_vars => HonestInv'
  <2>1. HonestInv /\ UNCHANGED vars => HonestInv'
    BY DEF vars, fileVars, localVars, HonestInv, Honest, Comparing, Known, Held, Right, Tagged, Key
  <2> QED BY <2>1, NextHonest DEF HomesInv
<1>3. HonestInv => [Met]_vars
  BY DEF HonestInv, Honest, Held
<1>4. [][Met]_vars => PreconditionHolds
  BY DEF PreconditionHolds
<1> HIDE DEF Met
<1> QED BY <1>1, <1>2, <1>3, <1>4, TypeInvariant, EveryoneServes, HomesInvariant, PTL DEF Spec
=============================================================================
