-------------------------- MODULE MultipartProofs --------------------------
(***************************************************************************)
(* Proofs about Multipart for any number of workers, uploads, parts and    *)
(* requests, with failing writes and kills, if clients wait for the answer *)
(* before they repeat a request (~Overlap).  Aborts come at any time.      *)
(***************************************************************************)
EXTENDS Multipart, FiniteSetTheorems, SequenceTheorems, TLAPS

CreatePCs == {"crMkdir", "crManifest"}
PartPCs == {"ptOpen", "ptCreate", "ptWrite", "ptRename"}
CompletePCs == {"coOpen", "coList", "coCreate", "coStream", "coTrunc", "coMeta", "coRemove"}
AbortPCs == {"abOpen", "abRemove"}
PutPCs == {"poLock", "poMeta"}
PCs == {"idle", "done"} \cup CreatePCs \cup PartPCs \cup CompletePCs \cup AbortPCs \cup PutPCs

\* A request is at a step of its own handler; the upload of a Create has its ID.
Placed ==
  /\ pc \in [Workers -> PCs]
  /\ \A w \in Workers : /\ pc[w] \in CreatePCs => req[w].op = "create" /\ Upload(w) \in created
                        /\ pc[w] \in PartPCs => req[w].op = "part"
                        /\ pc[w] \in CompletePCs => req[w].op = "complete"
                        /\ pc[w] \in PutPCs => req[w].op = "put"

\* What clients do not send at a time is not served at a time.
Waiting ==
  \A v, w \in Workers : v # w /\ pc[v] # "idle" /\ pc[w] # "idle" => ~Conflict(req[v], req[w])

(***************************************************************************)
(* The .tmp file of a part belongs to the upload of that part: torn while  *)
(* it is written and the whole body, or removed by an abort, afterwards.   *)
(***************************************************************************)
Writing(w) ==
  LET u == Upload(w)
      n == Number(w)
  IN /\ pc[w] = "ptWrite" => tmp[u][n] = None \/ (tmp[u][n] = Torn /\ tmpFd[u][n] = {w})
     /\ pc[w] = "ptRename" => tmp[u][n] = None \/ (tmp[u][n] = req[w].body /\ tmpFd[u][n] = {})

PartsWhole ==
  /\ \A u \in Uploads, n \in Parts :
       /\ part[u][n] # Torn
       /\ partFd[u][n] = {}
       /\ tmp[u][n] = None => tmpFd[u][n] = {}
       /\ \A w \in tmpFd[u][n] : pc[w] = "ptWrite" /\ Upload(w) = u /\ Number(w) = n
  /\ \A w \in Workers : Writing(w)

(***************************************************************************)
(* Complete has checked its list, the parts it lists are as listed or      *)
(* removed by an abort, and the file it assembles is what it has streamed. *)
(***************************************************************************)
Listed(w) == req[w].parts # <<>> /\ Ascending(req[w])
Unchanged(w) ==
  \A i \in 1 .. Len(req[w].parts) :
    part[Upload(w)][req[w].parts[i].number] \in {None, req[w].parts[i].body}
Streamed(w) ==
  /\ Len(got[w]) <= Len(req[w].parts)
  /\ \A i \in 1 .. Len(got[w]) : got[w][i] = req[w].parts[i].body

Assembling(w) ==
  /\ pc[w] \in CompletePCs \ {"coOpen"} => Listed(w)
  /\ pc[w] \in {"coCreate", "coStream"} => Unchanged(w)
  /\ pc[w] = "coStream" => Streamed(w) /\ mpu = got[w] /\ mpuFd = {w}
  /\ pc[w] \in {"coTrunc", "coMeta"} => got[w] = Committed(req[w])
  /\ pc[w] \notin {"coStream", "coTrunc", "coMeta", "coRemove", "done"} => got[w] = <<>>

\* What one Complete or one PUT writes.
Written(o) ==
  \E r \in Requests : \/ r.op = "complete" /\ r.parts # <<>> /\ Ascending(r) /\ o = Committed(r)
                      \/ r.op = "put" /\ o = <<r.body>>

ObjectWhole ==
  /\ \A w \in Workers : Assembling(w)
  /\ \A w \in mpuFd : pc[w] = "coStream"
  /\ objFd = {}
  /\ obj # None => Written(obj)

(***************************************************************************)
(* As long as requests come one by one and none fails: how far the one     *)
(* that is served has taken the sidecar, the gauge and the directories.    *)
(***************************************************************************)
ManifestName == <<"manifest", 0>>
Removing(w) == pc[w] \in {"coRemove", "abRemove"}
Describing(w) == pc[w] \in {"coTrunc", "coMeta", "poMeta"}

Served(w) ==
  /\ pc[w] \in CreatePCs => Upload(w) \notin manifest
  /\ pc[w] \in CompletePCs \ {"coOpen", "coRemove"} => Upload(w) \in manifest
  /\ pc[w] \in {"coTrunc", "coMeta"} => obj = got[w]
  /\ pc[w] = "poMeta" => obj = <<req[w].body>>
  /\ pc[w] = "crManifest" => staged = manifest \cup {Upload(w)}
  /\ Removing(w) => /\ staged = manifest \cup {Upload(w)}
                    /\ ManifestName \in todo[w] <=> Upload(w) \in manifest
                    /\ gauge = Cardinality(manifest \ {Upload(w)}) + 1
  /\ ~Removing(w) /\ pc[w] # "idle" => gauge = Cardinality(manifest)
  /\ ~Removing(w) /\ pc[w] \notin {"idle", "crManifest"} => staged = manifest
  /\ ~Describing(w) /\ pc[w] # "idle" => meta = obj

Settled ==
  /\ IsFiniteSet(manifest) /\ manifest \subseteq created
  /\ alone => /\ \A v, w \in Workers : v # w /\ pc[v] # "idle" => pc[w] = "idle"
              /\ \A w \in Workers : Served(w)
              /\ AllIdle => meta = obj /\ gauge = Cardinality(manifest) /\ staged = manifest

\* The inductive invariant.
Inv == TypeOK /\ Placed /\ Waiting /\ PartsWhole /\ ObjectWhole /\ Settled

Step(w) == Create(w) \/ UploadPart(w) \/ Complete(w) \/ Remove(w) \/ Put(w)
-----------------------------------------------------------------------------
\* What a worker's request is made of.
LEMMA RequestFacts ==
  ASSUME TypeOK, NEW w \in Workers
  PROVE  /\ req[w] \in Requests /\ req[w].op \in Ops
         /\ Upload(w) \in Uploads /\ Number(w) \in Parts
         /\ req[w].parts \in Seq([number : Parts, body : Bodies])
         /\ Len(req[w].parts) \in Nat
         /\ \A i \in 1 .. Len(req[w].parts) :
              req[w].parts[i].number \in Parts /\ req[w].parts[i].body \in Bodies
         /\ req[w].op \in {"part", "put"} => req[w].body \in Bodies
<1>1. req[w] \in Requests
  BY DEF TypeOK
<1>2. req[w] \in RequestType
  BY <1>1, MultipartAssumption
<1>3. req[w].parts \in Seq([number : Parts, body : Bodies])
  BY <1>2 DEF RequestType
<1>4. /\ Len(req[w].parts) \in Nat
      /\ \A i \in 1 .. Len(req[w].parts) : req[w].parts[i] \in [number : Parts, body : Bodies]
  BY <1>3, LenProperties, ElementOfSeq
<1>5. req[w].op \in {"part", "put"} => req[w].body \in Bodies
  BY <1>1, MultipartAssumption
<1> QED BY <1>1, <1>2, <1>3, <1>4, <1>5 DEF RequestType, Upload, Number

\* A step of a handler moves its own worker and leaves the requests alone.
LEMMA StepFacts ==
  ASSUME Inv, NEW w \in Workers, Step(w)
  PROVE  /\ req' = req /\ created' = created
         /\ pc[w] \notin {"idle", "done"}
         /\ pc' = [pc EXCEPT ![w] = pc'[w]] /\ pc'[w] \in PCs \ {"idle"}
<1>1. pc \in [Workers -> PCs]
  BY DEF Inv, Placed
<1>2. CASE Create(w)
  BY <1>1, <1>2 DEF Create, CrMkdir, CrManifest, Goto, Respond, localVars, stageVars, PCs, CreatePCs
<1>3. CASE UploadPart(w)
  BY <1>1, <1>3 DEF UploadPart, PtOpen, PtCreate, PtWrite, PtFails, PtRename, OpenUpload, Goto,
                    Respond, localVars, stageVars, PCs, PartPCs
<1>4. CASE Complete(w)
  BY <1>1, <1>4 DEF Complete, CoOpen, CoList, CoCreate, CoStream, CoRename, CoTrunc, CoMeta, Goto,
                    Respond, localVars, stageVars, PCs, CompletePCs
<1>5. CASE Remove(w)
  BY <1>1, <1>5 DEF Remove, AbOpen, RmFile, RmDir, OpenUpload, Goto, Respond, localVars, stageVars,
                    PCs, AbortPCs, CompletePCs
<1>6. CASE Put(w)
  BY <1>1, <1>6 DEF Put, PoRename, PoMeta, Goto, Respond, localVars, stageVars, PCs, PutPCs
<1> QED BY <1>2, <1>3, <1>4, <1>5, <1>6 DEF Step

\* A behaviour that was spoilt stays so.
LEMMA AloneFacts ==
  ASSUME Inv, NEW w \in Workers, Step(w)
  PROVE  alone' \in BOOLEAN /\ (alone' => alone)
<1>1. alone \in BOOLEAN
  BY DEF Inv, TypeOK
<1>2. \/ alone' = alone
      \/ alone' = FALSE
      \/ \E s : alone' = (alone /\ s # "failed")
  BY DEF Step, Create, CrMkdir, CrManifest, UploadPart, PtOpen, PtCreate, PtWrite, PtFails, PtRename,
         Complete, CoOpen, CoList, CoCreate, CoStream, CoRename, CoTrunc, CoMeta, Remove, AbOpen,
         RmFile, RmDir, Put, PoRename, PoMeta, OpenUpload, Goto, Respond
<1>3. ASSUME NEW s, alone' = (alone /\ s # "failed") PROVE alone' \in BOOLEAN /\ (alone' => alone)
  BY <1>1, <1>3, Zenon
<1>4. CASE alone' = alone
  BY <1>1, <1>4, Zenon
<1>5. CASE alone' = FALSE
  BY <1>5, Zenon
<1> QED BY <1>2, <1>3, <1>4, <1>5, Zenon

(***************************************************************************)
(* Where workers are.                                                      *)
(***************************************************************************)
LEMMA PlacedSteps ==
  ASSUME Inv, NEW w \in Workers, Step(w)
  PROVE  Placed'
<1>1. /\ req' = req /\ created' = created /\ pc \in [Workers -> PCs]
      /\ pc' = [pc EXCEPT ![w] = pc'[w]] /\ pc'[w] \in PCs \ {"idle"}
  BY StepFacts DEF Inv, Placed
<1>2. /\ pc'[w] \in CreatePCs => req[w].op = "create" /\ Upload(w) \in created
      /\ pc'[w] \in PartPCs => req[w].op = "part"
      /\ pc'[w] \in CompletePCs => req[w].op = "complete"
      /\ pc'[w] \in PutPCs => req[w].op = "put"
  <2> USE <1>1 DEF CreatePCs, PartPCs, CompletePCs, PutPCs, Goto, Respond
  <2>1. CASE Create(w)
    BY <2>1 DEF Inv, Placed, Create, CrMkdir, CrManifest
  <2>2. CASE UploadPart(w)
    BY <2>2 DEF Inv, Placed, UploadPart, PtOpen, PtCreate, PtWrite, PtFails, PtRename, OpenUpload
  <2>3. CASE Complete(w)
    BY <2>3 DEF Inv, Placed, Complete, CoOpen, CoList, CoCreate, CoStream, CoRename, CoTrunc, CoMeta
  <2>4. CASE Remove(w)
    BY <2>4 DEF Inv, Placed, Remove, AbOpen, RmFile, RmDir, OpenUpload
  <2>5. CASE Put(w)
    BY <2>5 DEF Inv, Placed, Put, PoRename, PoMeta
  <2> QED BY <2>1, <2>2, <2>3, <2>4, <2>5 DEF Step
<1> QED BY <1>1, <1>2 DEF Inv, Placed, Upload

LEMMA WaitingSteps ==
  ASSUME Inv, NEW w \in Workers, Step(w)
  PROVE  Waiting'
<1>1. /\ req' = req /\ pc[w] # "idle" /\ pc \in [Workers -> PCs]
      /\ pc' = [pc EXCEPT ![w] = pc'[w]] /\ pc'[w] \in PCs \ {"idle"}
  BY StepFacts DEF Inv, Placed
<1>2. \A v \in Workers : pc'[v] # "idle" => pc[v] # "idle"
  BY <1>1
<1> QED BY <1>1, <1>2 DEF Inv, Waiting

(***************************************************************************)
(* Types.                                                                  *)
(***************************************************************************)
LEMMA WrittenAtEnd ==
  ASSUME NEW s \in Seq(Contents), NEW c \in Contents
  PROVE  WriteAt(s, Len(s) + 1, c) = Append(s, c)
<1>1. Len(s) \in Nat
  BY LenProperties
<1>2. WriteAt(s, Len(s) + 1, c) = [j \in 1 .. Len(s) + 1 |-> IF j = Len(s) + 1 THEN c ELSE s[j]]
  BY <1>1 DEF WriteAt
<1>3. /\ Append(s, c) \in Seq(Contents) /\ Len(Append(s, c)) = Len(s) + 1
      /\ \A j \in 1 .. Len(s) : Append(s, c)[j] = s[j]
      /\ Append(s, c)[Len(s) + 1] = c
  BY AppendProperties
<1>4. DOMAIN Append(s, c) = 1 .. Len(s) + 1 /\ Append(s, c) = [j \in 1 .. Len(s) + 1 |-> Append(s, c)[j]]
  BY <1>3, LenProperties
<1>5. \A j \in 1 .. Len(s) + 1 : Append(s, c)[j] = IF j = Len(s) + 1 THEN c ELSE s[j]
  BY <1>1, <1>3
<1>6. Append(s, c) = [j \in 1 .. Len(s) + 1 |-> IF j = Len(s) + 1 THEN c ELSE s[j]]
  BY <1>4, <1>5
<1> QED BY <1>2, <1>6

\* One entry of a table of parts is replaced.
Table(S) == [Uploads -> [Parts -> S]]
Change(f, u, n, c) == [f EXCEPT ![u][n] = c]

LEMMA OneEntry ==
  ASSUME NEW S, NEW f \in Table(S), NEW u \in Uploads, NEW n \in Parts, NEW c \in S,
         NEW g, (g = f /\ c = f[u][n]) \/ g = Change(f, u, n, c)
  PROVE  /\ g \in Table(S) /\ g[u][n] = c
         /\ \A v \in Uploads, m \in Parts : v # u \/ m # n => g[v][m] = f[v][m]
<1>1. f[u] \in [Parts -> S]
  BY DEF Table
<1>2. [f[u] EXCEPT ![n] = c] \in [Parts -> S]
  BY <1>1
<1>3. \A m \in Parts : [f[u] EXCEPT ![n] = c][m] = IF m = n THEN c ELSE f[u][m]
  BY <1>1
<1> QED BY <1>1, <1>2, <1>3 DEF Change, Table

(***************************************************************************)
(* What the four tables of parts hold after a change of some entries of    *)
(* one part: c, d, p and q are its new .tmp file and descriptors, part     *)
(* file and descriptors.                                                   *)
(***************************************************************************)
Entry(u, n, c, d, p, q) ==
  /\ tmp' \in Table(Contents \cup {None})
  /\ part' \in Table(Contents \cup {None})
  /\ tmpFd' \in Table(SUBSET Workers)
  /\ partFd' \in Table(SUBSET Workers)
  /\ tmp'[u][n] = c /\ tmpFd'[u][n] = d /\ part'[u][n] = p /\ partFd'[u][n] = q
  /\ \A v \in Uploads, m \in Parts : v # u \/ m # n =>
       /\ tmp'[v][m] = tmp[v][m] /\ tmpFd'[v][m] = tmpFd[v][m]
       /\ part'[v][m] = part[v][m] /\ partFd'[v][m] = partFd[v][m]

LEMMA EntryFacts ==
  ASSUME TypeOK, NEW u \in Uploads, NEW n \in Parts,
         NEW c \in Contents \cup {None}, NEW d \in SUBSET Workers,
         NEW p \in Contents \cup {None}, NEW q \in SUBSET Workers,
         (tmp' = tmp /\ c = tmp[u][n]) \/ tmp' = Change(tmp, u, n, c),
         (tmpFd' = tmpFd /\ d = tmpFd[u][n]) \/ tmpFd' = Change(tmpFd, u, n, d),
         (part' = part /\ p = part[u][n]) \/ part' = Change(part, u, n, p),
         (partFd' = partFd /\ q = partFd[u][n]) \/ partFd' = Change(partFd, u, n, q)
  PROVE  Entry(u, n, c, d, p, q)
<1>1. /\ tmp \in Table(Contents \cup {None})
      /\ part \in Table(Contents \cup {None})
      /\ tmpFd \in Table(SUBSET Workers)
      /\ partFd \in Table(SUBSET Workers)
  BY DEF TypeOK, Table
<1>2. /\ tmp' \in Table(Contents \cup {None}) /\ tmp'[u][n] = c
      /\ \A v \in Uploads, m \in Parts : v # u \/ m # n => tmp'[v][m] = tmp[v][m]
  <2> DEFINE S == Contents \cup {None}
  <2>1. tmp \in Table(S) /\ c \in S
    BY <1>1
  <2>2. /\ tmp' \in Table(S) /\ tmp'[u][n] = c
        /\ \A v \in Uploads, m \in Parts : v # u \/ m # n => tmp'[v][m] = tmp[v][m]
    BY <2>1, OneEntry
  <2> QED BY <2>2
<1>3. /\ part' \in Table(Contents \cup {None}) /\ part'[u][n] = p
      /\ \A v \in Uploads, m \in Parts : v # u \/ m # n => part'[v][m] = part[v][m]
  <2> DEFINE S == Contents \cup {None}
  <2>1. part \in Table(S) /\ p \in S
    BY <1>1
  <2>2. /\ part' \in Table(S) /\ part'[u][n] = p
        /\ \A v \in Uploads, m \in Parts : v # u \/ m # n => part'[v][m] = part[v][m]
    BY <2>1, OneEntry
  <2> QED BY <2>2
<1>4. /\ tmpFd' \in Table(SUBSET Workers) /\ tmpFd'[u][n] = d
      /\ \A v \in Uploads, m \in Parts : v # u \/ m # n => tmpFd'[v][m] = tmpFd[v][m]
  <2> DEFINE S == SUBSET Workers
  <2>1. tmpFd \in Table(S) /\ d \in S
    BY <1>1
  <2>2. /\ tmpFd' \in Table(S) /\ tmpFd'[u][n] = d
        /\ \A v \in Uploads, m \in Parts : v # u \/ m # n => tmpFd'[v][m] = tmpFd[v][m]
    BY <2>1, OneEntry
  <2> QED BY <2>2
<1>5. /\ partFd' \in Table(SUBSET Workers) /\ partFd'[u][n] = q
      /\ \A v \in Uploads, m \in Parts : v # u \/ m # n => partFd'[v][m] = partFd[v][m]
  <2> DEFINE S == SUBSET Workers
  <2>1. partFd \in Table(S) /\ q \in S
    BY <1>1
  <2>2. /\ partFd' \in Table(S) /\ partFd'[u][n] = q
        /\ \A v \in Uploads, m \in Parts : v # u \/ m # n => partFd'[v][m] = partFd[v][m]
    BY <2>1, OneEntry
  <2> QED BY <2>2
<1> QED BY <1>2, <1>3, <1>4, <1>5 DEF Entry

\* The current entries have their types.
LEMMA EntryTypes ==
  ASSUME TypeOK, NEW u \in Uploads, NEW n \in Parts
  PROVE  /\ tmp[u][n] \in Contents \cup {None} /\ part[u][n] \in Contents \cup {None}
         /\ tmpFd[u][n] \in SUBSET Workers /\ partFd[u][n] \in SUBSET Workers
BY DEF TypeOK

(***************************************************************************)
(* What the steps of UploadPart do to the entries of their part.           *)
(***************************************************************************)
LEMMA PtCreateEntry ==
  ASSUME Inv, NEW w \in Workers, PtCreate(w)
  PROVE  LET u == Upload(w)
             n == Number(w)
         IN \/ /\ Entry(u, n, Torn, tmpFd[u][n] \cup {w}, part[u][n], partFd[u][n])
               /\ pc'[w] = "ptWrite"
            \/ UNCHANGED <<tmp, tmpFd, part, partFd>> /\ pc'[w] = "done"
<1> DEFINE u == Upload(w)
           n == Number(w)
<1>1. u \in Uploads /\ n \in Parts /\ TypeOK /\ pc \in [Workers -> PCs]
  BY RequestFacts DEF Inv, Placed
<1>2. /\ tmpFd[u][n] \cup {w} \in SUBSET Workers /\ Torn \in Contents \cup {None}
      /\ part[u][n] \in Contents \cup {None} /\ partFd[u][n] \in SUBSET Workers
  BY <1>1, EntryTypes DEF Contents
<1>3. part' = part /\ partFd' = partFd
  BY DEF PtCreate
<1>4. \/ /\ tmp' = Change(tmp, u, n, Torn)
         /\ tmpFd' = Change(tmpFd, u, n, tmpFd[u][n] \cup {w}) /\ pc'[w] = "ptWrite"
      \/ UNCHANGED <<tmp, tmpFd>> /\ pc'[w] = "done"
  BY <1>1 DEF PtCreate, Change, Goto, Respond
<1> HIDE DEF u, n
<1>5. CASE UNCHANGED <<tmp, tmpFd>> /\ pc'[w] = "done"
  BY <1>3, <1>5 DEF u, n
<1>6. CASE /\ tmp' = Change(tmp, u, n, Torn)
           /\ tmpFd' = Change(tmpFd, u, n, tmpFd[u][n] \cup {w}) /\ pc'[w] = "ptWrite"
  <2>1. Entry(u, n, Torn, tmpFd[u][n] \cup {w}, part[u][n], partFd[u][n])
    BY <1>1, <1>2, <1>3, <1>6, EntryFacts
  <2> QED BY <1>6, <2>1 DEF u, n
<1> QED BY <1>4, <1>5, <1>6

LEMMA PtWriteEntry ==
  ASSUME Inv, NEW w \in Workers, PtWrite(w)
  PROVE  LET u == Upload(w)
             n == Number(w)
         IN \E c \in Contents \cup {None} :
              /\ w \in tmpFd[u][n] => c \in Overwritten(tmp[u][n], req[w].body)
              /\ w \notin tmpFd[u][n] => c = tmp[u][n]
              /\ Entry(u, n, c, tmpFd[u][n] \ {w}, part[u][n], {})
<1> DEFINE u == Upload(w)
           n == Number(w)
<1>1. u \in Uploads /\ n \in Parts /\ TypeOK
  BY RequestFacts DEF Inv
<1>2. req[w].body \in Bodies /\ partFd[u][n] = {}
  BY <1>1, RequestFacts DEF PtWrite, Inv, Placed, PartPCs, PartsWhole
<1>3. \A old : Overwritten(old, req[w].body) \subseteq Contents \cup {None}
  BY <1>2 DEF Contents, Overwritten
<1>4. /\ tmpFd[u][n] \ {w} \in SUBSET Workers /\ tmp[u][n] \in Contents \cup {None}
      /\ part[u][n] \in Contents \cup {None} /\ {} \in SUBSET Workers
  BY <1>1, EntryTypes
<1>5. PICK c \in Contents \cup {None} :
        /\ w \in tmpFd[u][n] => c \in Overwritten(tmp[u][n], req[w].body)
        /\ w \notin tmpFd[u][n] => c = tmp[u][n]
        /\ tmp' = Change(tmp, u, n, c) \/ (tmp' = tmp /\ c = tmp[u][n])
  BY <1>3, <1>4 DEF PtWrite, Change
<1>6. /\ tmpFd' = Change(tmpFd, u, n, tmpFd[u][n] \ {w})
      /\ partFd' = Change(partFd, u, n, partFd[u][n] \ {w})
      /\ part' = part
  BY <1>2 DEF PtWrite, Change
<1>7. partFd[u][n] \ {w} = {}
  BY <1>2
<1> HIDE DEF u, n
<1>8. Entry(u, n, c, tmpFd[u][n] \ {w}, part[u][n], {})
  BY <1>1, <1>4, <1>5, <1>6, <1>7, EntryFacts
<1> QED BY <1>5, <1>8 DEF u, n

LEMMA PtFailsEntry ==
  ASSUME Inv, NEW w \in Workers, PtFails(w)
  PROVE  Entry(Upload(w), Number(w), None, {}, part[Upload(w)][Number(w)], {})
<1> DEFINE u == Upload(w)
           n == Number(w)
<1>1. u \in Uploads /\ n \in Parts /\ TypeOK /\ partFd[u][n] = {}
  BY RequestFacts DEF Inv, PartsWhole
<1>2. part[u][n] \in Contents \cup {None} /\ None \in Contents \cup {None} /\ {} \in SUBSET Workers
  BY <1>1, EntryTypes
<1>3. /\ tmp' = Change(tmp, u, n, None) /\ tmpFd' = Change(tmpFd, u, n, {})
      /\ partFd' = Change(partFd, u, n, partFd[u][n] \ {w}) /\ part' = part
  BY DEF PtFails, Change
<1>4. partFd[u][n] \ {w} = {}
  BY <1>1
<1> HIDE DEF u, n
<1>5. Entry(u, n, None, {}, part[u][n], {})
  BY <1>1, <1>2, <1>3, <1>4, EntryFacts
<1> QED BY <1>5 DEF u, n

LEMMA PtRenameEntry ==
  ASSUME Inv, NEW w \in Workers, PtRename(w)
  PROVE  LET u == Upload(w)
             n == Number(w)
         IN \/ tmp[u][n] # None /\ Entry(u, n, None, {}, tmp[u][n], tmpFd[u][n])
            \/ UNCHANGED <<tmp, tmpFd, part, partFd>>
<1> DEFINE u == Upload(w)
           n == Number(w)
<1>1. u \in Uploads /\ n \in Parts /\ TypeOK
  BY RequestFacts DEF Inv
<1>2. /\ tmp[u][n] \in Contents \cup {None} /\ tmpFd[u][n] \in SUBSET Workers
      /\ None \in Contents \cup {None} /\ {} \in SUBSET Workers
  BY <1>1, EntryTypes
<1>3. \/ /\ tmp[u][n] # None
         /\ part' = Change(part, u, n, tmp[u][n]) /\ partFd' = Change(partFd, u, n, tmpFd[u][n])
         /\ tmp' = Change(tmp, u, n, None) /\ tmpFd' = Change(tmpFd, u, n, {})
      \/ UNCHANGED <<tmp, tmpFd, part, partFd>>
  BY DEF PtRename, Change
<1> HIDE DEF u, n
<1>4. \/ tmp[u][n] # None /\ Entry(u, n, None, {}, tmp[u][n], tmpFd[u][n])
      \/ UNCHANGED <<tmp, tmpFd, part, partFd>>
  BY <1>1, <1>2, <1>3, EntryFacts
<1> QED BY <1>4 DEF u, n

LEMMA RmFileEntry ==
  ASSUME Inv, NEW w \in Workers, RmFile(w)
  PROVE  LET u == Upload(w)
         IN \/ \E n \in Parts : \/ Entry(u, n, None, {}, part[u][n], partFd[u][n])
                                \/ Entry(u, n, tmp[u][n], tmpFd[u][n], None, {})
            \/ UNCHANGED <<tmp, tmpFd, part, partFd>>
<1> DEFINE u == Upload(w)
<1>1. u \in Uploads /\ TypeOK /\ todo[w] \subseteq Names
  BY RequestFacts DEF Inv, TypeOK
<1>2. PICK f \in Names :
        /\ part' = IF f[1] = "part" THEN Change(part, u, f[2], None) ELSE part
        /\ partFd' = IF f[1] = "part" THEN Change(partFd, u, f[2], {}) ELSE partFd
        /\ tmp' = IF f[1] = "tmp" THEN Change(tmp, u, f[2], None) ELSE tmp
        /\ tmpFd' = IF f[1] = "tmp" THEN Change(tmpFd, u, f[2], {}) ELSE tmpFd
  BY <1>1 DEF RmFile, Change
<1> HIDE DEF u
<1>3. f[1] \in {"part", "tmp"} => f[2] \in Parts
  BY DEF Names
<1>4. CASE f[1] = "part"
  <2>1. /\ part' = Change(part, u, f[2], None) /\ partFd' = Change(partFd, u, f[2], {})
        /\ tmp' = tmp /\ tmpFd' = tmpFd
    BY <1>2, <1>4
  <2>2. Entry(u, f[2], tmp[u][f[2]], tmpFd[u][f[2]], None, {})
    BY <1>1, <1>3, <1>4, <2>1, EntryTypes, EntryFacts
  <2> QED BY <1>3, <1>4, <2>2 DEF u
<1>5. CASE f[1] = "tmp"
  <2>1. /\ tmp' = Change(tmp, u, f[2], None) /\ tmpFd' = Change(tmpFd, u, f[2], {})
        /\ part' = part /\ partFd' = partFd
    BY <1>2, <1>5
  <2>2. Entry(u, f[2], None, {}, part[u][f[2]], partFd[u][f[2]])
    BY <1>1, <1>3, <1>5, <2>1, EntryTypes, EntryFacts
  <2> QED BY <1>3, <1>5, <2>2 DEF u
<1> QED BY <1>2, <1>4, <1>5

\* The next part of a Complete.
LEMMA NextPart ==
  ASSUME Inv, NEW w \in Workers, pc[w] = "coStream", Len(got[w]) + 1 <= Len(req[w].parts)
  PROVE  LET i == Len(got[w]) + 1
             c == part[Upload(w)][req[w].parts[i].number]
         IN /\ i \in 1 .. Len(req[w].parts) /\ req[w].parts[i].number \in Parts
            /\ c \in {None, req[w].parts[i].body} /\ req[w].parts[i].body \in Bodies
            /\ got[w] \in Seq(Contents) /\ mpu = got[w] /\ mpuFd = {w} /\ objFd = {}
            /\ c # None => Append(got[w], c) \in Seq(Contents) /\ WriteAt(mpu, i, c) = Append(got[w], c)
<1>1. /\ got[w] \in Seq(Contents) /\ mpu = got[w] /\ mpuFd = {w} /\ objFd = {} /\ Unchanged(w)
  BY DEF Inv, TypeOK, ObjectWhole, Assembling
<1>2. Len(got[w]) \in Nat /\ Len(req[w].parts) \in Nat
  BY <1>1, LenProperties, RequestFacts DEF Inv
<1>3. Len(got[w]) + 1 \in 1 .. Len(req[w].parts)
  BY <1>2
<1>4. /\ req[w].parts[Len(got[w]) + 1].number \in Parts /\ req[w].parts[Len(got[w]) + 1].body \in Bodies
      /\ part[Upload(w)][req[w].parts[Len(got[w]) + 1].number] \in {None, req[w].parts[Len(got[w]) + 1].body}
  BY <1>1, <1>3, RequestFacts DEF Inv, Unchanged
<1>5. ASSUME NEW c \in Bodies
      PROVE  Append(got[w], c) \in Seq(Contents) /\ WriteAt(mpu, Len(got[w]) + 1, c) = Append(got[w], c)
  <2>1. c \in Contents
    BY DEF Contents
  <2> QED BY <1>1, <2>1, WrittenAtEnd, AppendProperties
<1> QED BY <1>1, <1>3, <1>4, <1>5

LEMMA TypeSteps ==
  ASSUME Inv, NEW w \in Workers, Step(w)
  PROVE  TypeOK'
<1>1. req' = req /\ created' = created /\ alone' \in BOOLEAN
  BY StepFacts, AloneFacts
<1>2. Upload(w) \in Uploads /\ Number(w) \in Parts /\ TypeOK
  BY RequestFacts DEF Inv
<1>3. CASE CrMkdir(w) \/ CrManifest(w)
  BY <1>1, <1>2, <1>3 DEF TypeOK, CrMkdir, CrManifest, objVars, localVars
<1>4. CASE PtOpen(w) \/ CoOpen(w) \/ CoList(w)
  BY <1>1, <1>2, <1>4 DEF TypeOK, PtOpen, CoOpen, CoList, stageVars, objVars, localVars
<1>5. CASE PtCreate(w)
  BY <1>1, <1>2, <1>5, PtCreateEntry DEF TypeOK, PtCreate, Entry, Table, objVars, localVars
<1>6. CASE PtWrite(w)
  BY <1>1, <1>2, <1>6, PtWriteEntry DEF TypeOK, PtWrite, Entry, Table, objVars, localVars
<1>7. CASE PtFails(w)
  BY <1>1, <1>2, <1>7 DEF TypeOK, PtFails, objVars, localVars
<1>8. CASE PtRename(w)
  BY <1>1, <1>2, <1>8, PtRenameEntry DEF TypeOK, PtRename, Entry, Table, objVars, localVars
<1>9. CASE CoCreate(w)
  <2>1. <<>> \in Seq(Contents)
    BY EmptySeq
  <2> QED BY <1>1, <1>2, <1>9, <2>1 DEF TypeOK, CoCreate, stageVars, localVars
<1>10. CASE CoStream(w)
  <2>1. Len(got[w]) + 1 <= Len(req[w].parts) /\ pc[w] = "coStream"
    BY <1>10 DEF CoStream
  <2> DEFINE c == part[Upload(w)][req[w].parts[Len(got[w]) + 1].number]
  <2>2. /\ mpuFd = {w} /\ objFd = {} /\ got \in [Workers -> Seq(Contents)]
        /\ c # None => /\ Append(got[w], c) \in Seq(Contents)
                       /\ WriteAt(mpu, Len(got[w]) + 1, c) = Append(got[w], c)
    BY <1>2, <2>1, NextPart DEF TypeOK
  <2>3. \/ c # None /\ got' = [got EXCEPT ![w] = Append(got[w], c)] /\ obj' = obj
           /\ mpu' = WriteAt(mpu, Len(got[w]) + 1, c) /\ UNCHANGED <<mpuFd, objFd>>
        \/ got' = got /\ obj' = obj /\ mpu' = None /\ mpuFd' = {} /\ objFd' = objFd \ {w}
    BY <1>10, <2>2 DEF CoStream
  <2>4. UNCHANGED <<staged, manifest, created, part, tmp, partFd, tmpFd, meta, lock, gauge, todo>>
    BY <1>10 DEF CoStream, stageVars
  <2> HIDE DEF c
  <2> QED BY <1>1, <1>2, <2>2, <2>3, <2>4 DEF TypeOK
<1>11. CASE CoRename(w)
  BY <1>1, <1>2, <1>11 DEF TypeOK, CoRename, stageVars, localVars
<1>12. CASE CoTrunc(w)
  <2>1. <<Torn>> \in Seq(Contents)
    BY DEF Contents
  <2> QED BY <1>1, <1>2, <1>12, <2>1 DEF TypeOK, CoTrunc, stageVars, localVars
<1>13. CASE CoMeta(w)
  <2>1. FilesOf(Upload(w)) \in SUBSET Names
    BY DEF FilesOf
  <2>2. todo' \in [Workers -> SUBSET Names]
    BY <1>2, <1>13, <2>1 DEF TypeOK, CoMeta
  <2>3. (meta' = got[w] \/ meta' = meta) /\ got' = got /\ got[w] \in Seq(Contents)
    BY <1>2, <1>13 DEF TypeOK, CoMeta
  <2> QED BY <1>1, <1>2, <1>13, <2>2, <2>3 DEF TypeOK, CoMeta, stageVars
<1>14. CASE AbOpen(w)
  BY <1>1, <1>2, <1>14 DEF TypeOK, AbOpen, stageVars, objVars, FilesOf
<1>15. CASE RmFile(w)
  <2>1. PICK f \in todo[w] :
          /\ todo' = [todo EXCEPT ![w] = @ \ {f}]
          /\ manifest' = IF f[1] = "manifest" THEN manifest \ {Upload(w)} ELSE manifest
          /\ part' = IF f[1] = "part" THEN [part EXCEPT ![Upload(w)][f[2]] = None] ELSE part
          /\ partFd' = IF f[1] = "part" THEN [partFd EXCEPT ![Upload(w)][f[2]] = {}] ELSE partFd
          /\ tmp' = IF f[1] = "tmp" THEN [tmp EXCEPT ![Upload(w)][f[2]] = None] ELSE tmp
          /\ tmpFd' = IF f[1] = "tmp" THEN [tmpFd EXCEPT ![Upload(w)][f[2]] = {}] ELSE tmpFd
    BY <1>15 DEF RmFile
  <2>2. UNCHANGED <<staged, created, obj, mpu, objFd, mpuFd, meta, lock, gauge, got>>
    BY <1>15 DEF RmFile, objVars
  <2> QED BY <1>1, <1>2, <2>1, <2>2 DEF TypeOK
<1>16. CASE RmDir(w)
  BY <1>1, <1>2, <1>16 DEF TypeOK, RmDir, objVars, localVars
<1>17. CASE PoRename(w)
  <2>1. req[w].body \in Bodies
    BY <1>17, RequestFacts DEF PoRename, Inv, Placed, PutPCs
  <2>2. <<req[w].body>> \in Seq(Contents)
    BY <2>1 DEF Contents
  <2> QED BY <1>1, <1>2, <1>17, <2>2 DEF TypeOK, PoRename, stageVars, localVars
<1>18. CASE PoMeta(w)
  <2>1. req[w].body \in Bodies
    BY <1>18, RequestFacts DEF PoMeta, Inv, Placed, PutPCs
  <2>2. <<req[w].body>> \in Seq(Contents)
    BY <2>1 DEF Contents
  <2> QED BY <1>1, <1>2, <1>18, <2>2 DEF TypeOK, PoMeta, stageVars, localVars
<1> QED BY <1>3, <1>4, <1>5, <1>6, <1>7, <1>8, <1>9, <1>10, <1>11, <1>12, <1>13, <1>14, <1>15,
           <1>16, <1>17, <1>18 DEF Step, Create, UploadPart, Complete, Remove, Put

(***************************************************************************)
(* Part files.  Two workers that upload a part upload different ones.      *)
(***************************************************************************)
LEMMA OtherPart ==
  ASSUME Inv, NEW v \in Workers, NEW w \in Workers, v # w, pc[v] \in PartPCs, pc[w] \in PartPCs
  PROVE  Upload(v) # Upload(w) \/ Number(v) # Number(w)
<1>1. pc[v] # "idle" /\ pc[w] # "idle" /\ req[v].op = "part" /\ req[w].op = "part"
  BY DEF Inv, Placed, PartPCs
<1> QED BY <1>1 DEF Inv, Waiting, Conflict, Upload, Number

LEMMA EntryKeeps ==
  ASSUME Inv, NEW w \in Workers, NEW u \in Uploads, NEW n \in Parts, NEW c, NEW d, NEW p,
         Entry(u, n, c, d, p, {}), p # Torn, c = None => d = {},
         req' = req, pc' = [pc EXCEPT ![w] = pc'[w]],
         pc'[w] = pc[w] \/ pc[w] # "ptWrite" \/ (Upload(w) = u /\ Number(w) = n),
         \A v \in d : pc'[v] = "ptWrite" /\ Upload(v) = u /\ Number(v) = n,
         Writing(w)',
         \A v \in Workers :
           v # w /\ pc[v] \in PartPCs /\ Upload(v) = u /\ Number(v) = n
             => c = None \/ (c = tmp[u][n] /\ d = tmpFd[u][n])
  PROVE  PartsWhole'
<1>1. pc \in [Workers -> PCs] /\ \A v \in Workers : Upload(v)' = Upload(v) /\ Number(v)' = Number(v)
  BY DEF Inv, Placed, Upload, Number
<1>2. \A v \in Workers : v # w => pc'[v] = pc[v]
  BY <1>1
<1>3. PartsWhole /\ TypeOK
  BY DEF Inv
<1>4. ASSUME NEW x \in Uploads, NEW m \in Parts
      PROVE  /\ part'[x][m] # Torn
             /\ partFd'[x][m] = {}
             /\ tmp'[x][m] = None => tmpFd'[x][m] = {}
             /\ \A v \in tmpFd'[x][m] : pc'[v] = "ptWrite" /\ Upload(v) = x /\ Number(v) = m
  <2>1. CASE x = u /\ m = n
    BY <2>1 DEF Entry
  <2>2. CASE ~(x = u /\ m = n)
    <3>1. /\ part'[x][m] = part[x][m] /\ partFd'[x][m] = partFd[x][m]
          /\ tmp'[x][m] = tmp[x][m] /\ tmpFd'[x][m] = tmpFd[x][m]
      BY <2>2 DEF Entry
    <3>2. \A v \in tmpFd[x][m] : v \in Workers /\ pc[v] = "ptWrite" /\ Upload(v) = x /\ Number(v) = m
      BY <1>3, EntryTypes DEF PartsWhole
    <3>3. \A v \in tmpFd[x][m] : pc'[v] = "ptWrite"
      BY <1>2, <2>2, <3>2
    <3> QED BY <1>3, <3>1, <3>2, <3>3 DEF PartsWhole
  <2> QED BY <2>1, <2>2
<1>5. ASSUME NEW v \in Workers, v # w PROVE Writing(v)'
  <2>1. /\ pc'[v] = pc[v] /\ req'[v] = req[v] /\ Writing(v)
        /\ Upload(v) \in Uploads /\ Number(v) \in Parts
    BY <1>2, <1>3, <1>5, RequestFacts DEF PartsWhole
  <2>2. CASE Upload(v) = u /\ Number(v) = n
    <3>1. pc[v] \in PartPCs => c = None \/ (c = tmp[u][n] /\ d = tmpFd[u][n])
      BY <1>5, <2>2
    <3>2. tmp'[u][n] = c /\ tmpFd'[u][n] = d
      BY DEF Entry
    <3> QED BY <1>1, <2>1, <2>2, <3>1, <3>2 DEF Writing, PartPCs
  <2>3. CASE ~(Upload(v) = u /\ Number(v) = n)
    <3>1. /\ tmp'[Upload(v)][Number(v)] = tmp[Upload(v)][Number(v)]
          /\ tmpFd'[Upload(v)][Number(v)] = tmpFd[Upload(v)][Number(v)]
      BY <2>1, <2>3 DEF Entry
    <3> QED BY <1>1, <2>1, <3>1 DEF Writing
  <2> QED BY <2>2, <2>3
<1>6. \A v \in Workers : Writing(v)'
  BY <1>5
<1>7. \A x \in Uploads, m \in Parts : \A v \in tmpFd'[x][m] : v \in Workers
  BY DEF Entry, Table
<1> QED BY <1>1, <1>4, <1>6, <1>7 DEF PartsWhole

LEMMA PartsFrame ==
  ASSUME Inv, NEW w \in Workers, UNCHANGED <<part, tmp, partFd, tmpFd, req>>,
         pc' = [pc EXCEPT ![w] = pc'[w]], pc[w] # "ptWrite", pc'[w] \notin {"ptWrite", "ptRename"}
  PROVE  PartsWhole'
<1>1. pc \in [Workers -> PCs] /\ \A v \in Workers : Upload(v)' = Upload(v) /\ Number(v)' = Number(v)
  BY DEF Inv, Placed, Upload, Number
<1>2. \A v \in Workers : v # w => pc'[v] = pc[v]
  BY <1>1
<1>3. PartsWhole /\ TypeOK
  BY DEF Inv
<1>4. \A v \in Workers : Writing(v)'
  BY <1>1, <1>2, <1>3 DEF PartsWhole, Writing
<1>5. \A u \in Uploads, n \in Parts : \A v \in tmpFd[u][n] :
        v \in Workers /\ pc'[v] = "ptWrite" /\ Upload(v)' = u /\ Number(v)' = n
  BY <1>1, <1>2, <1>3, EntryTypes DEF PartsWhole
<1> QED BY <1>3, <1>4, <1>5 DEF PartsWhole

LEMMA PartsSteps ==
  ASSUME Inv, NEW w \in Workers, Step(w)
  PROVE  PartsWhole'
<1> DEFINE u == Upload(w)
           n == Number(w)
<1>1. /\ req' = req /\ pc[w] \notin {"idle", "done"}
      /\ pc' = [pc EXCEPT ![w] = pc'[w]] /\ pc \in [Workers -> PCs]
  BY StepFacts DEF Inv, Placed
<1>2. /\ u \in Uploads /\ n \in Parts /\ TypeOK /\ PartsWhole
      /\ \A v \in Workers : Upload(v)' = Upload(v) /\ Number(v)' = Number(v)
  BY <1>1, RequestFacts DEF Inv, Upload, Number
<1>3. /\ part[u][n] # Torn /\ partFd[u][n] = {}
      /\ tmp[u][n] = None => tmpFd[u][n] = {}
      /\ \A v \in tmpFd[u][n] : v \in Workers /\ pc[v] = "ptWrite" /\ Upload(v) = u /\ Number(v) = n
      /\ Writing(w)
  BY <1>2, EntryTypes DEF PartsWhole
<1>4. None # Torn /\ None \notin Bodies /\ Torn \notin Bodies
  BY MultipartAssumption
<1>5. pc[w] \in PartPCs =>
        \A v \in Workers : ~(v # w /\ pc[v] \in PartPCs /\ Upload(v) = u /\ Number(v) = n)
  BY OtherPart
<1>6. CASE PtCreate(w)
  <2>1. pc[w] = "ptCreate"
    BY <1>6 DEF PtCreate
  <2>2. tmpFd[u][n] = {}
    BY <1>3, <1>5, <2>1 DEF PartPCs
  <2>3. CASE UNCHANGED <<tmp, tmpFd, part, partFd>> /\ pc'[w] = "done"
    BY <1>1, <2>1, <2>3, PartsFrame
  <2>4. CASE /\ Entry(u, n, Torn, tmpFd[u][n] \cup {w}, part[u][n], partFd[u][n])
             /\ pc'[w] = "ptWrite"
    <3>1. Entry(u, n, Torn, {w}, part[u][n], {})
      BY <1>3, <2>2, <2>4
    <3>2. Writing(w)'
      BY <1>2, <2>4, <3>1 DEF Writing, Entry
    <3> HIDE DEF u, n
    <3>3. pc[w] \in PartPCs /\ Upload(w) = u /\ Number(w) = n
      BY <2>1 DEF PartPCs, u, n
    <3> QED BY <1>1, <1>2, <1>3, <1>4, <1>5, <2>1, <2>4, <3>1, <3>2, <3>3, EntryKeeps
  <2> QED BY <1>6, <2>3, <2>4, PtCreateEntry
<1>7. CASE PtWrite(w)
  <2>1. pc[w] = "ptWrite" /\ pc'[w] = "ptRename"
    BY <1>1, <1>7 DEF PtWrite, Goto
  <2>2. PICK c \in Contents \cup {None} :
          /\ w \in tmpFd[u][n] => c \in Overwritten(tmp[u][n], req[w].body)
          /\ w \notin tmpFd[u][n] => c = tmp[u][n]
          /\ Entry(u, n, c, tmpFd[u][n] \ {w}, part[u][n], {})
    BY <1>7, PtWriteEntry
  <2>3. tmpFd[u][n] \ {w} = {} /\ (c = None \/ c = req[w].body)
    BY <1>3, <1>4, <2>1, <2>2 DEF Writing, Overwritten
  <2>4. Entry(u, n, c, {}, part[u][n], {})
    BY <2>2, <2>3
  <2>5. Writing(w)'
    BY <1>1, <1>2, <2>1, <2>3, <2>4 DEF Writing, Entry
  <2> HIDE DEF u, n
  <2>6. pc[w] \in PartPCs /\ Upload(w) = u /\ Number(w) = n
    BY <2>1 DEF PartPCs, u, n
  <2> QED BY <1>1, <1>2, <1>3, <1>4, <1>5, <2>1, <2>4, <2>5, <2>6, EntryKeeps
<1>8. CASE PtFails(w)
  <2>1. pc[w] = "ptWrite" /\ pc'[w] = "done"
    BY <1>1, <1>8 DEF PtFails, Respond
  <2>2. Entry(u, n, None, {}, part[u][n], {})
    BY <1>8, PtFailsEntry
  <2>3. Writing(w)'
    BY <2>1 DEF Writing
  <2> HIDE DEF u, n
  <2>4. pc[w] \in PartPCs /\ Upload(w) = u /\ Number(w) = n
    BY <2>1 DEF PartPCs, u, n
  <2> QED BY <1>1, <1>2, <1>3, <1>4, <1>5, <2>1, <2>2, <2>3, <2>4, EntryKeeps
<1>9. CASE PtRename(w)
  <2>1. pc[w] = "ptRename" /\ pc'[w] = "done"
    BY <1>1, <1>9 DEF PtRename, Respond
  <2>2. CASE UNCHANGED <<tmp, tmpFd, part, partFd>>
    BY <1>1, <2>1, <2>2, PartsFrame
  <2>3. CASE tmp[u][n] # None /\ Entry(u, n, None, {}, tmp[u][n], tmpFd[u][n])
    <3>1. req[w].body \in Bodies
      BY <2>1, RequestFacts DEF Inv, Placed, PartPCs
    <3>2. tmp[u][n] = req[w].body /\ tmpFd[u][n] = {}
      BY <1>3, <2>1, <2>3 DEF Writing
    <3>3. tmp[u][n] # Torn /\ Entry(u, n, None, {}, tmp[u][n], {})
      BY <1>4, <2>3, <3>1, <3>2
    <3>4. Writing(w)'
      BY <2>1 DEF Writing
    <3> HIDE DEF u, n
    <3> QED BY <1>1, <1>2, <2>1, <3>3, <3>4, EntryKeeps
  <2> QED BY <1>9, <2>2, <2>3, PtRenameEntry
<1>10. CASE RmFile(w)
  <2>1. pc[w] \in {"coRemove", "abRemove"} /\ pc'[w] = pc[w] /\ pc' = pc
    BY <1>1, <1>10 DEF RmFile
  <2>2. CASE UNCHANGED <<tmp, tmpFd, part, partFd>>
    BY <1>1, <2>1, <2>2, PartsFrame
  <2>3. ASSUME NEW m \in Parts,
               \/ Entry(u, m, None, {}, part[u][m], partFd[u][m])
               \/ Entry(u, m, tmp[u][m], tmpFd[u][m], None, {})
        PROVE  PartsWhole'
    <3>1. /\ part[u][m] # Torn /\ partFd[u][m] = {}
          /\ tmp[u][m] = None => tmpFd[u][m] = {}
          /\ \A v \in tmpFd[u][m] : v \in Workers /\ pc[v] = "ptWrite" /\ Upload(v) = u /\ Number(v) = m
      BY <1>2, EntryTypes DEF PartsWhole
    <3>2. Writing(w)'
      BY <2>1 DEF Writing
    <3> HIDE DEF u, n
    <3>3. CASE Entry(u, m, None, {}, part[u][m], partFd[u][m])
      <4>1. Entry(u, m, None, {}, part[u][m], {})
        BY <3>1, <3>3
      <4> QED BY <1>1, <1>2, <2>1, <3>1, <3>2, <4>1, EntryKeeps
    <3>4. CASE Entry(u, m, tmp[u][m], tmpFd[u][m], None, {})
      BY <1>1, <1>2, <1>4, <2>1, <3>1, <3>2, <3>4, EntryKeeps
    <3> QED BY <2>3, <3>3, <3>4
  <2> QED BY <1>10, <2>2, <2>3, RmFileEntry
<1>11. CASE PtOpen(w)
  BY <1>1, <1>11, PartsFrame DEF PtOpen, OpenUpload, Goto, Respond, stageVars
<1>12. CASE Create(w)
  BY <1>1, <1>12, PartsFrame DEF Create, CrMkdir, CrManifest, Goto, Respond
<1>13. CASE Complete(w)
  BY <1>1, <1>13, PartsFrame DEF Complete, CoOpen, CoList, CoCreate, CoStream, CoRename, CoTrunc,
                                 CoMeta, Goto, Respond, stageVars
<1>14. CASE AbOpen(w) \/ RmDir(w)
  BY <1>1, <1>14, PartsFrame DEF AbOpen, OpenUpload, RmDir, Goto, Respond, stageVars
<1>15. CASE Put(w)
  BY <1>1, <1>15, PartsFrame DEF Put, PoRename, PoMeta, Goto, Respond, stageVars
<1> QED BY <1>6, <1>7, <1>8, <1>9, <1>10, <1>11, <1>12, <1>13, <1>14, <1>15 DEF Step, UploadPart, Remove

(***************************************************************************)
(* The object.  A Complete runs beside no other Complete, no PUT, and no   *)
(* upload of its own parts.                                                *)
(***************************************************************************)
LEMMA OneComplete ==
  ASSUME Inv, NEW v \in Workers, NEW w \in Workers, v # w, pc[v] \in CompletePCs
  PROVE  /\ pc[w] \notin CompletePCs /\ pc[w] \notin PutPCs
         /\ pc[w] \in PartPCs => Upload(w) # Upload(v)
<1>1. pc[v] # "idle" /\ req[v].op = "complete"
  BY DEF Inv, Placed, CompletePCs
<1>2. pc[w] # "idle" => ~Conflict(req[v], req[w])
  BY <1>1 DEF Inv, Waiting
<1>3. /\ pc[w] \in CompletePCs => pc[w] # "idle" /\ req[w].op = "complete"
      /\ pc[w] \in PutPCs => pc[w] # "idle" /\ req[w].op = "put"
      /\ pc[w] \in PartPCs => pc[w] # "idle" /\ req[w].op = "part"
  BY DEF Inv, Placed, CompletePCs, PutPCs, PartPCs
<1> QED BY <1>1, <1>2, <1>3 DEF Conflict, Upload

LEMMA OthersAssemble ==
  ASSUME Inv, NEW w \in Workers, req' = req, pc' = [pc EXCEPT ![w] = pc'[w]],
         \A v \in Workers : v # w => got'[v] = got[v],
         \A v \in Workers : v # w /\ pc[v] \in CompletePCs =>
           /\ UNCHANGED <<mpu, mpuFd>>
           /\ \A n \in Parts : part'[Upload(v)][n] \in {None, part[Upload(v)][n]}
  PROVE  \A v \in Workers : v # w => Assembling(v)'
<1> TAKE v \in Workers
<1> HAVE v # w
<1>1. /\ pc'[v] = pc[v] /\ got'[v] = got[v] /\ req'[v] = req[v] /\ Assembling(v)
      /\ Upload(v)' = Upload(v)
  BY DEF Inv, Placed, ObjectWhole, Upload
<1>2. (pc[v] \in CompletePCs \ {"coOpen"})' => Listed(v)'
  BY <1>1 DEF Assembling, Listed
<1>3. pc[v] \in {"coCreate", "coStream"} => Unchanged(v)'
  <2>1. SUFFICES ASSUME pc[v] \in {"coCreate", "coStream"}, NEW i \in 1 .. Len(req[v].parts)
                 PROVE  part'[Upload(v)][req[v].parts[i].number] \in {None, req[v].parts[i].body}
    BY <1>1 DEF Unchanged
  <2>2. part[Upload(v)][req[v].parts[i].number] \in {None, req[v].parts[i].body}
    BY <1>1, <2>1 DEF Assembling, Unchanged
  <2>3. req[v].parts[i].number \in Parts /\ pc[v] \in CompletePCs
    BY <2>1, RequestFacts DEF Inv, CompletePCs
  <2> QED BY <2>2, <2>3
<1>4. pc[v] = "coStream" => Streamed(v)' /\ mpu' = got'[v] /\ mpuFd' = {v}
  BY <1>1 DEF Assembling, Streamed, CompletePCs
<1>5. pc[v] \in {"coTrunc", "coMeta"} => got'[v] = Committed(req'[v])
  BY <1>1 DEF Assembling
<1>6. pc[v] \notin {"coStream", "coTrunc", "coMeta", "coRemove", "done"} => got'[v] = <<>>
  BY <1>1 DEF Assembling
<1> QED BY <1>1, <1>2, <1>3, <1>4, <1>5, <1>6 DEF Assembling

\* Steps that are not of Complete or of the PUT's rename.
LEMMA ObjectFrame ==
  ASSUME Inv, NEW w \in Workers, req' = req, pc' = [pc EXCEPT ![w] = pc'[w]],
         UNCHANGED <<obj, mpu, objFd, mpuFd, got>>,
         \A v \in Workers : v # w /\ pc[v] \in CompletePCs =>
           \A n \in Parts : part'[Upload(v)][n] \in {None, part[Upload(v)][n]},
         pc[w] # "coStream", Assembling(w)'
  PROVE  ObjectWhole'
<1>1. \A v \in Workers : v # w => Assembling(v)'
  BY OthersAssemble
<1>2. \A v \in mpuFd : v \in Workers /\ pc'[v] = "coStream"
  BY DEF Inv, TypeOK, Placed, ObjectWhole
<1>3. obj' # None => Written(obj')
  BY DEF Inv, ObjectWhole
<1>4. objFd' = {}
  BY DEF Inv, ObjectWhole
<1> QED BY <1>1, <1>2, <1>3, <1>4 DEF ObjectWhole

LEMMA StreamedAll ==
  ASSUME Inv, NEW w \in Workers, pc[w] = "coStream", Len(got[w]) = Len(req[w].parts)
  PROVE  got[w] = Committed(req[w])
<1>1. got[w] \in Seq(Contents) /\ Streamed(w)
  BY DEF Inv, TypeOK, ObjectWhole, Assembling
<1>2. got[w] = [i \in 1 .. Len(got[w]) |-> got[w][i]]
  BY <1>1, LenProperties
<1>3. \A i \in 1 .. Len(req[w].parts) : got[w][i] = req[w].parts[i].body
  BY <1>1 DEF Streamed
<1>4. got[w] = [i \in 1 .. Len(req[w].parts) |-> req[w].parts[i].body]
  BY <1>2, <1>3
<1> QED BY <1>4 DEF Committed

LEMMA CompleteSteps ==
  ASSUME Inv, NEW w \in Workers, Complete(w)
  PROVE  ObjectWhole'
<1>1. /\ req' = req /\ pc' = [pc EXCEPT ![w] = pc'[w]] /\ pc \in [Workers -> PCs]
      /\ Upload(w)' = Upload(w) /\ got \in [Workers -> Seq(Contents)]
  BY StepFacts DEF Step, Inv, Placed, TypeOK, Upload
<1>2. pc[w] \in CompletePCs
  BY DEF Complete, CoOpen, CoList, CoCreate, CoStream, CoRename, CoTrunc, CoMeta, CompletePCs
<1>3. \A v \in Workers : v # w => pc[v] \notin CompletePCs /\ pc'[v] = pc[v]
  BY <1>1, <1>2, OneComplete
<1>4. /\ Assembling(w) /\ objFd = {} /\ (obj # None => Written(obj))
      /\ \A v \in mpuFd : v = w /\ pc[v] = "coStream"
  BY <1>3 DEF Inv, TypeOK, ObjectWhole, CompletePCs
<1>5. part' = part
  BY DEF Complete, CoOpen, CoList, CoCreate, CoStream, CoRename, CoTrunc, CoMeta, stageVars
<1>6. CASE CoOpen(w)
  <2>1. /\ pc[w] = "coOpen" /\ UNCHANGED <<obj, mpu, objFd, mpuFd, got>>
        /\ pc'[w] = "done" \/ (pc'[w] = "coList" /\ req[w].parts # <<>> /\ Ascending(req[w]))
    BY <1>1, <1>6 DEF CoOpen, Goto, Respond, objVars, localVars
  <2>2. Assembling(w)'
    BY <1>1, <1>4, <2>1 DEF Assembling, Listed, CompletePCs
  <2> QED BY <1>1, <1>3, <2>1, <2>2, ObjectFrame
<1>7. CASE CoList(w)
  <2>1. /\ pc[w] = "coList" /\ UNCHANGED <<obj, mpu, objFd, mpuFd, got>>
        /\ \/ pc'[w] = "done"
           \/ pc'[w] = "coCreate" /\ \A i \in DOMAIN req[w].parts : Stored(Upload(w), req[w].parts[i])
    BY <1>1, <1>7 DEF CoList, Goto, Respond, objVars, localVars
  <2>2. DOMAIN req[w].parts = 1 .. Len(req[w].parts)
    BY RequestFacts, LenProperties DEF Inv
  <2>3. pc'[w] = "coCreate" => Unchanged(w)'
    BY <1>1, <1>5, <2>1, <2>2 DEF Stored, Unchanged
  <2>4. Assembling(w)'
    BY <1>1, <1>4, <2>1, <2>3 DEF Assembling, Listed, CompletePCs
  <2> QED BY <1>1, <1>3, <2>1, <2>4, ObjectFrame
<1>8. CASE CoCreate(w)
  <2>1. pc[w] = "coCreate" /\ UNCHANGED <<obj, objFd, got>>
    BY <1>8 DEF CoCreate, localVars
  <2>2. mpuFd = {}
    BY <1>4, <2>1
  <2>3. \/ mpu' = <<>> /\ mpuFd' = {w} /\ pc'[w] = "coStream"
        \/ pc'[w] = "done" /\ UNCHANGED <<mpu, mpuFd>>
    BY <1>1, <1>8, <2>2 DEF CoCreate, Goto, Respond
  <2>4. Assembling(w)'
    <3>1. got[w] = <<>> /\ Listed(w) /\ Unchanged(w)
      BY <1>4, <2>1 DEF Assembling, CompletePCs
    <3>2. Len(got[w]) = 0 /\ Len(req[w].parts) \in Nat
      BY <3>1, RequestFacts DEF Inv
    <3>3. Streamed(w)'
      BY <1>1, <2>1, <3>2 DEF Streamed
    <3>4. Listed(w)' /\ Unchanged(w)'
      BY <1>1, <1>5, <3>1 DEF Listed, Unchanged
    <3> QED BY <2>1, <2>3, <3>1, <3>3, <3>4 DEF Assembling, CompletePCs
  <2>5. \A v \in Workers : v # w => Assembling(v)'
    BY <1>1, <1>3, <2>1, OthersAssemble
  <2>6. \A v \in mpuFd' : pc'[v] = "coStream"
    BY <2>2, <2>3
  <2> QED BY <1>4, <2>1, <2>4, <2>5, <2>6 DEF ObjectWhole
<1>9. CASE CoStream(w)
  <2>1. pc[w] = "coStream" /\ Len(got[w]) + 1 <= Len(req[w].parts)
    BY <1>9 DEF CoStream
  <2> DEFINE i == Len(got[w]) + 1
             c == part[Upload(w)][req[w].parts[i].number]
  <2>2. /\ i \in 1 .. Len(req[w].parts)
        /\ c \in {None, req[w].parts[i].body}
        /\ got[w] \in Seq(Contents) /\ mpu = got[w] /\ mpuFd = {w} /\ objFd = {}
        /\ c # None => /\ Append(got[w], c) \in Seq(Contents)
                       /\ WriteAt(mpu, i, c) = Append(got[w], c)
    BY <2>1, NextPart
  <2>3. \/ c # None /\ got' = [got EXCEPT ![w] = Append(got[w], c)] /\ obj' = obj
           /\ mpu' = WriteAt(mpu, i, c) /\ UNCHANGED <<mpuFd, objFd, pc>>
        \/ got' = got /\ obj' = obj /\ mpu' = None /\ mpuFd' = {} /\ objFd' = objFd \ {w}
           /\ pc'[w] = "done"
    BY <1>1, <1>9, <2>2 DEF CoStream, Respond
  <2> HIDE DEF c
  <2>4. \A v \in Workers : v # w => Assembling(v)'
    BY <1>1, <1>3, <2>3, OthersAssemble
  <2>5. \A v \in mpuFd' : pc'[v] = "coStream"
    BY <2>1, <2>2, <2>3
  <2>6. Assembling(w)'
    <3>1. CASE pc'[w] = "done"
      BY <3>1 DEF Assembling, CompletePCs
    <3>2. CASE /\ c # None /\ got' = [got EXCEPT ![w] = Append(got[w], c)]
               /\ mpu' = WriteAt(mpu, i, c) /\ UNCHANGED <<mpuFd, pc>>
      <4>1. /\ got'[w] = Append(got[w], c) /\ mpu' = got'[w] /\ mpuFd' = {w} /\ pc'[w] = "coStream"
            /\ c = req[w].parts[i].body
        BY <1>1, <2>1, <2>2, <3>2
      <4>2. Listed(w)' /\ Unchanged(w)'
        BY <1>1, <1>4, <1>5, <2>1 DEF Assembling, Listed, Unchanged, CompletePCs
      <4>3. /\ Len(got'[w]) = i /\ got'[w][i] = c
            /\ \A j \in 1 .. Len(got[w]) : got'[w][j] = got[w][j]
        BY <2>2, <4>1, AppendProperties DEF c
      <4>4. \A j \in 1 .. Len(got[w]) : got[w][j] = req[w].parts[j].body
        BY <1>4, <2>1 DEF Assembling, Streamed
      <4>5. Len(got[w]) \in Nat
        BY <2>2, LenProperties
      <4>6. Streamed(w)'
        BY <1>1, <2>1, <4>1, <4>3, <4>4, <4>5 DEF Streamed
      <4> QED BY <4>1, <4>2, <4>6 DEF Assembling
    <3> QED BY <2>3, <3>1, <3>2
  <2>7. objFd' = {} /\ obj' = obj
    BY <2>2, <2>3
  <2> QED BY <1>4, <2>4, <2>5, <2>6, <2>7 DEF ObjectWhole
<1>10. CASE CoRename(w)
  <2>1. pc[w] = "coStream" /\ Len(got[w]) = Len(req[w].parts) /\ UNCHANGED got
    BY <1>10 DEF CoRename, localVars
  <2>2. mpu = got[w] /\ mpuFd = {w} /\ got[w] = Committed(req[w]) /\ Listed(w)
    BY <1>4, <2>1, StreamedAll DEF Assembling, CompletePCs
  <2>3. \/ obj' = mpu /\ objFd' = {} /\ mpuFd' = {} /\ pc'[w] = "coTrunc"
        \/ obj' = obj /\ objFd' = {} /\ mpuFd' = mpuFd /\ mpu = None /\ pc'[w] = "done"
    BY <1>1, <1>4, <1>10, <2>2 DEF CoRename, Goto, Respond
  <2>4. CASE obj' = mpu /\ objFd' = {} /\ mpuFd' = {} /\ pc'[w] = "coTrunc"
    <3>1. Assembling(w)'
      BY <1>1, <2>1, <2>2, <2>4 DEF Assembling, Listed
    <3>2. \A v \in Workers : v # w => Assembling(v)'
      BY <1>1, <1>3, <2>1, OthersAssemble
    <3>3. Written(obj')
      <4>1. req[w] \in Requests /\ req[w].op = "complete"
        BY <1>2, RequestFacts DEF Inv, Placed
      <4> QED BY <2>2, <2>4, <4>1 DEF Written, Listed
    <3> QED BY <2>4, <3>1, <3>2, <3>3 DEF ObjectWhole
  <2>5. CASE obj' = obj /\ objFd' = {} /\ mpuFd' = mpuFd /\ mpu = None /\ pc'[w] = "done"
    BY <1>1, <2>2, <2>5, MultipartAssumption DEF Contents
  <2> QED BY <2>3, <2>4, <2>5
<1>11. CASE CoTrunc(w)
  <2>1. /\ pc[w] = "coTrunc" /\ UNCHANGED <<obj, mpu, objFd, mpuFd, got>>
        /\ pc'[w] \in {"coMeta", "done"}
    BY <1>1, <1>11 DEF CoTrunc, Goto, Respond, localVars
  <2>2. Assembling(w)'
    BY <1>1, <1>4, <2>1 DEF Assembling, Listed, CompletePCs
  <2> QED BY <1>1, <1>3, <2>1, <2>2, ObjectFrame
<1>12. CASE CoMeta(w)
  <2>1. /\ pc[w] = "coMeta" /\ UNCHANGED <<obj, mpu, objFd, mpuFd, got>>
        /\ pc'[w] \in {"coRemove", "done"}
    BY <1>1, <1>12 DEF CoMeta, Goto, Respond
  <2>2. Assembling(w)'
    BY <1>1, <1>4, <2>1 DEF Assembling, Listed, CompletePCs
  <2> QED BY <1>1, <1>3, <2>1, <2>2, ObjectFrame
<1> QED BY <1>6, <1>7, <1>8, <1>9, <1>10, <1>11, <1>12 DEF Complete

LEMMA ObjectSteps ==
  ASSUME Inv, NEW w \in Workers, Step(w)
  PROVE  ObjectWhole'
<1>1. /\ req' = req /\ pc' = [pc EXCEPT ![w] = pc'[w]] /\ pc \in [Workers -> PCs]
      /\ Upload(w)' = Upload(w) /\ Assembling(w)
  BY StepFacts DEF Inv, Placed, Upload, ObjectWhole
<1>2. CASE Create(w)
  <2>1. /\ pc[w] \in CreatePCs /\ pc'[w] \in {"crManifest", "done"} /\ part' = part
        /\ UNCHANGED <<obj, mpu, objFd, mpuFd, got>>
    BY <1>1, <1>2 DEF Create, CrMkdir, CrManifest, Goto, Respond, CreatePCs, objVars, localVars
  <2>2. Assembling(w)'
    BY <1>1, <2>1 DEF Assembling, CreatePCs, CompletePCs
  <2> QED BY <1>1, <2>1, <2>2, ObjectFrame DEF CreatePCs
<1>3. CASE UploadPart(w)
  <2>1. pc[w] \in PartPCs /\ pc'[w] \in PartPCs \cup {"done"}
    BY <1>1, <1>3 DEF UploadPart, PtOpen, PtCreate, PtWrite, PtFails, PtRename, OpenUpload, Goto,
                      Respond, PartPCs
  <2>2. UNCHANGED <<obj, mpu, objFd, mpuFd, got>>
    BY <1>3 DEF UploadPart, PtOpen, PtCreate, PtWrite, PtFails, PtRename, objVars, localVars
  <2>3. Assembling(w)'
    BY <1>1, <2>1, <2>2 DEF Assembling, PartPCs, CompletePCs
  <2>4. \A u \in Uploads, n \in Parts : u # Upload(w) => part'[u][n] = part[u][n]
    <3>1. CASE PtOpen(w) \/ PtCreate(w) \/ PtFails(w)
      BY <3>1 DEF PtOpen, PtCreate, PtFails, stageVars
    <3>2. CASE PtWrite(w)
      BY <3>2, PtWriteEntry DEF Entry
    <3>3. CASE PtRename(w)
      BY <3>3, PtRenameEntry DEF Entry
    <3> QED BY <1>3, <3>1, <3>2, <3>3 DEF UploadPart
  <2>5. \A v \in Workers : v # w /\ pc[v] \in CompletePCs => Upload(v) \in Uploads /\ Upload(w) # Upload(v)
    BY <2>1, OneComplete, RequestFacts DEF Inv
  <2>6. pc[w] # "coStream"
    BY <2>1 DEF PartPCs
  <2> QED BY <1>1, <2>2, <2>3, <2>4, <2>5, <2>6, ObjectFrame
<1>4. CASE Complete(w)
  BY <1>4, CompleteSteps
<1>5. CASE AbOpen(w) \/ RmDir(w)
  <2>1. /\ UNCHANGED <<obj, mpu, objFd, mpuFd, got, part>> /\ pc[w] # "coStream"
        /\ (pc[w] = "abOpen" /\ pc'[w] = "abRemove") \/ pc'[w] = "done"
    BY <1>1, <1>5 DEF AbOpen, OpenUpload, RmDir, Goto, Respond, stageVars, objVars, localVars
  <2>2. Assembling(w)'
    BY <1>1, <2>1 DEF Assembling, CompletePCs
  <2> QED BY <1>1, <2>1, <2>2, ObjectFrame
<1>6. CASE RmFile(w)
  <2>1. /\ UNCHANGED <<obj, mpu, objFd, mpuFd, got, pc>> /\ pc[w] \in {"coRemove", "abRemove"}
    BY <1>6 DEF RmFile, objVars
  <2>2. Assembling(w)'
    BY <1>1, <2>1 DEF Assembling, Listed
  <2>3. \A u \in Uploads, n \in Parts : part'[u][n] \in {None, part[u][n]}
    BY <1>6, RmFileEntry DEF Entry
  <2>4. \A v \in Workers : Upload(v) \in Uploads
    BY RequestFacts DEF Inv
  <2> QED BY <1>1, <2>1, <2>2, <2>3, <2>4, ObjectFrame
<1>7. CASE PoMeta(w)
  <2>1. /\ UNCHANGED <<obj, mpu, objFd, mpuFd, got, part>> /\ pc[w] = "poMeta" /\ pc'[w] = "done"
    BY <1>1, <1>7 DEF PoMeta, Respond, stageVars, localVars
  <2>2. Assembling(w)'
    BY <2>1 DEF Assembling, CompletePCs
  <2> QED BY <1>1, <2>1, <2>2, ObjectFrame
<1>8. CASE PoRename(w)
  <2>1. /\ UNCHANGED <<mpu, mpuFd, got, part>> /\ pc[w] = "poLock" /\ pc'[w] = "poMeta"
        /\ obj' = <<req[w].body>> /\ objFd' = {}
    BY <1>1, <1>8 DEF PoRename, Goto, stageVars, localVars
  <2>2. Assembling(w)'
    BY <1>1, <2>1 DEF Assembling, CompletePCs
  <2>3. \A v \in Workers : v # w => Assembling(v)'
    BY <1>1, <2>1, OthersAssemble
  <2>4. req[w] \in Requests /\ req[w].op = "put"
    BY <2>1, RequestFacts DEF Inv, Placed, PutPCs
  <2>5. Written(obj')
    BY <2>1, <2>4 DEF Written
  <2>6. \A v \in mpuFd : pc'[v] = "coStream"
    BY <1>1, <2>1 DEF Inv, TypeOK, ObjectWhole
  <2> QED BY <2>1, <2>2, <2>3, <2>5, <2>6 DEF ObjectWhole
<1> QED BY <1>2, <1>3, <1>4, <1>5, <1>6, <1>7, <1>8 DEF Step, Remove, Put

(***************************************************************************)
(* Sidecar, gauge and directories.  The manifests are finitely many.       *)
(***************************************************************************)
LEMMA ManifestSteps ==
  ASSUME Inv, NEW w \in Workers, Step(w)
  PROVE  IsFiniteSet(manifest)' /\ (manifest \subseteq created)'
<1>1. created' = created /\ IsFiniteSet(manifest) /\ manifest \subseteq created
  BY StepFacts DEF Inv, Settled
<1>2. IsFiniteSet(manifest \ {Upload(w)}) /\ IsFiniteSet(manifest \cup {Upload(w)})
  BY <1>1, FS_RemoveElement, FS_AddElement
<1>3. manifest' \in {manifest, manifest \ {Upload(w)}} \/ (pc[w] = "crManifest" /\ manifest' = manifest \cup {Upload(w)})
  BY DEF Step, Create, CrMkdir, CrManifest, UploadPart, PtOpen, PtCreate, PtWrite, PtFails, PtRename,
         Complete, CoOpen, CoList, CoCreate, CoStream, CoRename, CoTrunc, CoMeta, Remove, AbOpen,
         RmFile, RmDir, Put, PoRename, PoMeta, stageVars
<1>4. pc[w] = "crManifest" => Upload(w) \in created
  BY DEF Inv, Placed, CreatePCs
<1> QED BY <1>1, <1>2, <1>3, <1>4

\* A worker that is served alone has to keep its own promises only.
LEMMA SettledFrame ==
  ASSUME Inv, NEW w \in Workers, Step(w), alone' => Served(w)'
  PROVE  Settled'
<1>1. /\ pc[w] # "idle" /\ pc'[w] # "idle" /\ pc \in [Workers -> PCs]
      /\ pc' = [pc EXCEPT ![w] = pc'[w]]
  BY StepFacts DEF Inv, Placed
<1>2. IsFiniteSet(manifest)' /\ (manifest \subseteq created)'
  BY ManifestSteps
<1>3. ASSUME alone'
      PROVE  /\ \A v \in Workers : v # w => pc'[v] = "idle"
             /\ \A v \in Workers : Served(v)'
  <2>1. alone
    BY <1>3, AloneFacts
  <2>2. \A v \in Workers : v # w => pc'[v] = "idle"
    BY <1>1, <2>1 DEF Inv, Settled
  <2>3. \A v \in Workers : pc'[v] = "idle" => Served(v)'
    BY DEF Served, Removing, Describing, CreatePCs, CompletePCs
  <2> QED BY <1>3, <2>2, <2>3
<1>4. ~AllIdle'
  BY <1>1 DEF AllIdle
<1>5. alone' => \A v, x \in Workers : v # x /\ pc'[v] # "idle" => pc'[x] = "idle"
  BY <1>3
<1> QED BY <1>2, <1>3, <1>4, <1>5 DEF Settled

\* Steps that change nothing of what Served speaks of but where the worker is.
LEMMA ServedFrame ==
  ASSUME Inv, NEW w \in Workers, Step(w), alone',
         UNCHANGED <<obj, meta, manifest, staged, gauge, todo>>, got'[w] = got[w],
         \/ pc'[w] = pc[w] \/ pc'[w] = "done" \/ pc'[w] \in PartPCs
         \/ pc'[w] \in CompletePCs \ {"coRemove"} /\ Upload(w) \in manifest
             /\ (pc'[w] \in {"coTrunc", "coMeta"} => obj = got[w]),
         pc[w] \notin {"crManifest", "coTrunc", "coMeta", "poMeta", "coRemove", "abRemove"}
  PROVE  Served(w)'
<1>1. req' = req /\ Upload(w)' = Upload(w) /\ pc[w] # "idle" /\ Served(w)
  BY StepFacts, AloneFacts DEF Upload, Inv, Settled
<1>2. gauge = Cardinality(manifest) /\ staged = manifest /\ meta = obj
  BY <1>1 DEF Served, Removing, Describing
<1> QED BY <1>1, <1>2 DEF Served, Removing, Describing, CreatePCs, PartPCs, CompletePCs

\* The manifest is among the files of an upload that has one.
LEMMA ManifestFile ==
  ASSUME NEW u
  PROVE  ManifestName \in FilesOf(u) <=> u \in manifest
BY DEF ManifestName, FilesOf, Names

\* The sessions without one of them.
LEMMA OneLess ==
  ASSUME Inv, NEW u
  PROVE  /\ u \in manifest => Cardinality(manifest) = Cardinality(manifest \ {u}) + 1
         /\ u \notin manifest => /\ Cardinality(manifest \cup {u}) = Cardinality(manifest) + 1
                               /\ manifest \ {u} = manifest
<1>1. IsFiniteSet(manifest)
  BY DEF Inv, Settled
<1>2. u \notin manifest => Cardinality(manifest \cup {u}) = Cardinality(manifest) + 1
  BY <1>1, FS_AddElement
<1>3. Cardinality(manifest) \in Nat /\ Cardinality(manifest \ {u}) \in Nat
  BY <1>1, FS_CardinalityType, FS_RemoveElement
<1>4. u \in manifest => Cardinality(manifest \ {u}) = Cardinality(manifest) - 1
  BY <1>1, FS_RemoveElement
<1> QED BY <1>2, <1>3, <1>4

LEMMA SettledSteps ==
  ASSUME Inv, NEW w \in Workers, Step(w)
  PROVE  Settled'
<1> SUFFICES ASSUME alone' PROVE Served(w)'
  BY SettledFrame
<1> DEFINE u == Upload(w)
<1>1. /\ req' = req /\ pc' = [pc EXCEPT ![w] = pc'[w]] /\ pc \in [Workers -> PCs]
      /\ Upload(w)' = u /\ Served(w) /\ pc[w] \notin {"idle", "done"}
      /\ todo \in [Workers -> SUBSET Names] /\ got \in [Workers -> Seq(Contents)]
  BY StepFacts, AloneFacts DEF Upload, Inv, Settled, Placed, TypeOK
<1>2. /\ u \in manifest => Cardinality(manifest) = Cardinality(manifest \ {u}) + 1
      /\ u \notin manifest => /\ Cardinality(manifest \cup {u}) = Cardinality(manifest) + 1
                            /\ manifest \ {u} = manifest
  BY OneLess
<1>3. ManifestName \in FilesOf(u) <=> u \in manifest
  BY ManifestFile
<1> HIDE DEF u
<1> USE DEF Removing, Describing, CreatePCs, CompletePCs
<1>4. CASE CrMkdir(w)
  <2>1. /\ pc[w] = "crMkdir" /\ pc'[w] = "crManifest" /\ staged' = staged \cup {u}
        /\ UNCHANGED <<manifest, gauge, meta, obj>>
    BY <1>1, <1>4 DEF CrMkdir, Goto, Respond, objVars, u
  <2> QED BY <1>1, <2>1 DEF Served, u
<1>5. CASE CrManifest(w)
  <2>1. /\ pc[w] = "crManifest" /\ pc'[w] = "done" /\ manifest' = manifest \cup {u}
        /\ gauge' = gauge + 1 /\ UNCHANGED <<staged, meta, obj>>
    BY <1>1, <1>5 DEF CrManifest, Respond, objVars, u
  <2>2. u \notin manifest /\ gauge = Cardinality(manifest) /\ staged = manifest \cup {u} /\ meta = obj
    BY <1>1, <2>1 DEF Served, u
  <2> QED BY <1>1, <1>2, <2>1, <2>2 DEF Served
<1>6. CASE UploadPart(w)
  <2>1. UNCHANGED <<obj, meta, manifest, staged, gauge, todo, got>>
    BY <1>6 DEF UploadPart, PtOpen, PtCreate, PtWrite, PtFails, PtRename, stageVars, objVars, localVars
  <2>2. pc[w] \in PartPCs /\ pc'[w] \in PartPCs \cup {"done"}
    BY <1>1, <1>6 DEF UploadPart, PtOpen, PtCreate, PtWrite, PtFails, PtRename, OpenUpload, Goto,
                      Respond, PartPCs
  <2> QED BY <2>1, <2>2, ServedFrame DEF PartPCs
<1>7. CASE CoOpen(w) \/ CoList(w) \/ CoCreate(w)
  <2>1. /\ UNCHANGED <<obj, meta, manifest, staged, gauge, todo, got>>
        /\ pc[w] \in {"coOpen", "coList", "coCreate"}
    BY <1>7 DEF CoOpen, CoList, CoCreate, stageVars, objVars, localVars
  <2>2. \/ pc'[w] = "done"
        \/ pc'[w] \in {"coList", "coCreate", "coStream"} /\ (pc[w] = "coOpen" => u \in manifest)
    BY <1>1, <1>7 DEF CoOpen, CoList, CoCreate, Goto, Respond, u
  <2>3. pc'[w] # "done" => Upload(w) \in manifest
    BY <1>1, <2>1, <2>2 DEF Served, u
  <2> QED BY <2>1, <2>2, <2>3, ServedFrame
<1>8. CASE CoStream(w)
  <2>1. /\ UNCHANGED <<meta, manifest, staged, gauge, todo>> /\ pc[w] = "coStream"
        /\ pc'[w] \in {"coStream", "done"} /\ Len(got[w]) + 1 <= Len(req[w].parts)
    BY <1>1, <1>8 DEF CoStream, Respond, stageVars
  <2>2. obj' = obj
    BY <1>8, <2>1, NextPart DEF CoStream
  <2>3. gauge = Cardinality(manifest) /\ staged = manifest /\ meta = obj /\ u \in manifest
    BY <1>1, <2>1 DEF Served, u
  <2> QED BY <1>1, <2>1, <2>2, <2>3 DEF Served
<1>9. CASE CoRename(w)
  <2>1. /\ pc[w] = "coStream" /\ obj' = mpu /\ pc'[w] = "coTrunc"
        /\ UNCHANGED <<meta, manifest, staged, gauge, got>>
    BY <1>1, <1>9 DEF CoRename, Goto, Respond, stageVars, localVars
  <2>2. mpu = got[w]
    BY <2>1 DEF Inv, ObjectWhole, Assembling
  <2> QED BY <1>1, <2>1, <2>2 DEF Served, u
<1>10. CASE CoTrunc(w)
  <2>1. /\ pc[w] = "coTrunc" /\ pc'[w] = "coMeta" /\ UNCHANGED <<obj, manifest, staged, gauge, got>>
    BY <1>1, <1>10 DEF CoTrunc, Goto, Respond, stageVars, localVars
  <2> QED BY <1>1, <2>1 DEF Served, u
<1>11. CASE CoMeta(w)
  <2>1. /\ pc[w] = "coMeta" /\ pc'[w] = "coRemove" /\ UNCHANGED <<obj, manifest, staged, gauge>>
        /\ meta' = got[w] /\ todo'[w] = FilesOf(u)
    BY <1>1, <1>11 DEF CoMeta, Goto, Respond, stageVars, u
  <2>2. /\ obj = got[w] /\ u \in manifest /\ gauge = Cardinality(manifest) /\ staged = manifest
    BY <1>1, <2>1 DEF Served, u
  <2> QED BY <1>1, <1>2, <1>3, <2>1, <2>2 DEF Served
<1>12. CASE AbOpen(w)
  <2>1. /\ UNCHANGED <<obj, meta, manifest, staged, gauge>> /\ pc[w] = "abOpen"
        /\ \/ pc'[w] = "done"
           \/ pc'[w] = "abRemove" /\ u \in manifest /\ todo'[w] = FilesOf(u)
    BY <1>1, <1>12 DEF AbOpen, OpenUpload, Goto, Respond, stageVars, objVars, u
  <2>2. gauge = Cardinality(manifest) /\ staged = manifest /\ meta = obj
    BY <1>1, <2>1 DEF Served
  <2>3. staged = manifest \cup {u} <=> u \in manifest
    BY <2>2
  <2> QED BY <1>1, <1>2, <1>3, <2>1, <2>2, <2>3 DEF Served
<1>13. CASE RmFile(w)
  <2>1. pc' = pc /\ Removing(w) /\ UNCHANGED <<obj, meta, staged, gauge>>
    BY <1>13 DEF RmFile, objVars
  <2>2. PICK f \in todo[w] :
          /\ todo'[w] = todo[w] \ {f}
          /\ manifest' = IF f[1] = "manifest" THEN manifest \ {u} ELSE manifest
    BY <1>1, <1>13 DEF RmFile, u
  <2>3. f[1] = "manifest" <=> f = ManifestName
    BY <1>1, <2>2 DEF Names, ManifestName
  <2>4. /\ staged = manifest \cup {u}
        /\ ManifestName \in todo[w] <=> u \in manifest
        /\ gauge = Cardinality(manifest \ {u}) + 1 /\ meta = obj
    BY <1>1, <2>1 DEF Served, u
  <2>5. manifest' \cup {u} = manifest \cup {u} /\ manifest' \ {u} = manifest \ {u}
    BY <2>2
  <2>6. (ManifestName \in todo[w])' <=> u \in manifest'
    BY <2>2, <2>3, <2>4
  <2> QED BY <1>1, <2>1, <2>4, <2>5, <2>6 DEF Served
<1>14. CASE RmDir(w)
  <2>1. /\ pc'[w] = "done" /\ UNCHANGED <<obj, meta, manifest>> /\ Removing(w) /\ todo[w] = {}
        /\ staged' = staged \ {u} /\ gauge' = gauge - 1
    BY <1>1, <1>14 DEF RmDir, Respond, objVars, u
  <2>2. /\ staged = manifest \cup {u}
        /\ ManifestName \in todo[w] <=> u \in manifest
        /\ gauge = Cardinality(manifest \ {u}) + 1 /\ meta = obj
    BY <1>1, <2>1 DEF Served, u
  <2>3. u \notin manifest
    BY <2>1, <2>2
  <2>4. Cardinality(manifest) \in Nat
    BY FS_CardinalityType DEF Inv, Settled
  <2>5. gauge' = Cardinality(manifest) /\ staged' = manifest
    <3>1. gauge = Cardinality(manifest) + 1
      BY <1>2, <2>2, <2>3
    <3>2. gauge' = Cardinality(manifest)
      BY <2>1, <2>4, <3>1
    <3>3. staged' = manifest
      BY <2>1, <2>2, <2>3
    <3> QED BY <3>2, <3>3
  <2> QED BY <1>1, <2>1, <2>2, <2>5 DEF Served
<1>15. CASE PoRename(w)
  <2>1. /\ pc[w] = "poLock" /\ pc'[w] = "poMeta" /\ obj' = <<req[w].body>>
        /\ UNCHANGED <<meta, manifest, staged, gauge>>
    BY <1>1, <1>15 DEF PoRename, Goto, stageVars
  <2> QED BY <1>1, <2>1 DEF Served
<1>16. CASE PoMeta(w)
  <2>1. /\ pc[w] = "poMeta" /\ pc'[w] = "done" /\ meta' = <<req[w].body>>
        /\ UNCHANGED <<obj, manifest, staged, gauge>>
    BY <1>1, <1>16 DEF PoMeta, Respond, stageVars
  <2> QED BY <1>1, <2>1 DEF Served
<1> QED BY <1>4, <1>5, <1>6, <1>7, <1>8, <1>9, <1>10, <1>11, <1>12, <1>13, <1>14, <1>15, <1>16
        DEF Step, Create, Complete, Remove, Put
-----------------------------------------------------------------------------
(***************************************************************************)
(* A request begins, a request ends, the process is killed.                *)
(***************************************************************************)
LEMMA FirstSteps ==
  ASSUME NEW r \in Requests
  PROVE  /\ r.op = "create" => FirstStep(r) = "crMkdir"
         /\ r.op = "part" => FirstStep(r) = "ptOpen"
         /\ r.op = "complete" => FirstStep(r) = "coOpen"
         /\ r.op = "abort" => FirstStep(r) = "abOpen"
         /\ r.op = "put" => FirstStep(r) = "poLock"
         /\ r.op \in Ops /\ r.upload \in Uploads
<1>1. r \in RequestType
  BY MultipartAssumption
<1> QED BY <1>1 DEF FirstStep, RequestType, Ops

LEMMA StartStep ==
  ASSUME Inv, ~Overlap, NEW w \in Workers, Start(w)
  PROVE  Inv'
<1>1. PICK r \in Requests :
        /\ r.op = "create" => r.upload \notin created
        /\ \A v \in Workers : pc[v] # "idle" => ~Conflict(r, req[v]) /\ ~Conflict(req[v], r)
        /\ created' = IF r.op = "create" THEN created \cup {r.upload} ELSE created
        /\ req' = [req EXCEPT ![w] = r]
        /\ pc' = [pc EXCEPT ![w] = FirstStep(r)]
  BY DEF Start
<1>2. /\ pc[w] = "idle" /\ alone' = (alone /\ AllIdle)
      /\ UNCHANGED <<staged, manifest, part, tmp, partFd, tmpFd, obj, mpu, objFd, mpuFd, meta, lock,
                     gauge, got, todo>>
  BY DEF Start, objVars
<1>3. /\ TypeOK /\ pc \in [Workers -> PCs] /\ req \in [Workers -> Requests]
      /\ pc'[w] = FirstStep(r) /\ req'[w] = r
      /\ \A v \in Workers : v # w => pc'[v] = pc[v] /\ req'[v] = req[v]
  BY <1>1 DEF Inv, TypeOK, Placed
<1>4. /\ FirstStep(r) \in {"crMkdir", "ptOpen", "coOpen", "abOpen", "poLock"}
      /\ FirstStep(r) = "crMkdir" <=> r.op = "create"
      /\ FirstStep(r) = "ptOpen" <=> r.op = "part"
      /\ FirstStep(r) = "coOpen" <=> r.op = "complete"
      /\ FirstStep(r) = "poLock" <=> r.op = "put"
      /\ r.upload \in Uploads
  BY FirstSteps DEF Ops
<1>5. created \subseteq created' /\ created' \subseteq Uploads
  BY <1>1, <1>3, <1>4 DEF TypeOK
<1>6. alone' \in BOOLEAN /\ (alone' => alone /\ AllIdle)
  <2>1. AllIdle \in BOOLEAN
    BY DEF AllIdle
  <2>2. alone \in BOOLEAN
    BY <1>3 DEF TypeOK
  <2> QED BY <1>2, <2>1, <2>2, Zenon
<1>7. TypeOK'
  BY <1>1, <1>2, <1>3, <1>5, <1>6 DEF TypeOK
<1>8. Placed'
  <2>1. pc' \in [Workers -> PCs]
    BY <1>1, <1>3, <1>4 DEF PCs, CreatePCs, PartPCs, CompletePCs, AbortPCs, PutPCs
  <2>2. ASSUME NEW v \in Workers, v # w
        PROVE  /\ pc'[v] \in CreatePCs => req'[v].op = "create" /\ Upload(v)' \in created'
               /\ pc'[v] \in PartPCs => req'[v].op = "part"
               /\ pc'[v] \in CompletePCs => req'[v].op = "complete"
               /\ pc'[v] \in PutPCs => req'[v].op = "put"
    BY <1>3, <1>5, <2>2 DEF Inv, Placed, Upload
  <2>3. /\ pc'[w] \in CreatePCs => req'[w].op = "create" /\ Upload(w)' \in created'
        /\ pc'[w] \in PartPCs => req'[w].op = "part"
        /\ pc'[w] \in CompletePCs => req'[w].op = "complete"
        /\ pc'[w] \in PutPCs => req'[w].op = "put"
    BY <1>1, <1>3, <1>4 DEF CreatePCs, PartPCs, CompletePCs, PutPCs, Upload
  <2>4. \A v \in Workers : /\ pc'[v] \in CreatePCs => req'[v].op = "create" /\ Upload(v)' \in created'
                           /\ pc'[v] \in PartPCs => req'[v].op = "part"
                           /\ pc'[v] \in CompletePCs => req'[v].op = "complete"
                           /\ pc'[v] \in PutPCs => req'[v].op = "put"
    BY <2>2, <2>3
  <2> QED BY <2>1, <2>4 DEF Placed
<1>9. Waiting'
  <2>1. SUFFICES ASSUME NEW v \in Workers, NEW x \in Workers, v # x, pc'[v] # "idle", pc'[x] # "idle"
                 PROVE  ~Conflict(req'[v], req'[x])
    BY DEF Waiting
  <2>2. CASE v = w
    BY <1>1, <1>3, <2>1, <2>2
  <2>3. CASE x = w
    BY <1>1, <1>3, <2>1, <2>3
  <2>4. CASE v # w /\ x # w
    BY <1>3, <2>1, <2>4 DEF Inv, Waiting
  <2> QED BY <2>2, <2>3, <2>4
<1>10. PartsWhole'
  <2>1. \A v \in Workers : Writing(v)'
    <3>1. ASSUME NEW v \in Workers, v # w PROVE Writing(v)'
      <4>1. /\ pc'[v] = pc[v] /\ req'[v] = req[v] /\ Writing(v)
            /\ Upload(v)' = Upload(v) /\ Number(v)' = Number(v)
        BY <1>3, <3>1 DEF Upload, Number, Inv, PartsWhole
      <4> QED BY <1>2, <4>1 DEF Writing
    <3>2. Writing(w)'
      BY <1>3, <1>4 DEF Writing
    <3> QED BY <3>1, <3>2
  <2>2. \A u \in Uploads, n \in Parts : \A v \in tmpFd[u][n] :
          v \in Workers /\ pc[v] = "ptWrite" /\ Upload(v) = u /\ Number(v) = n
    BY <1>3, EntryTypes DEF Inv, PartsWhole
  <2>3. \A u \in Uploads, n \in Parts : \A v \in tmpFd[u][n] :
          pc'[v] = "ptWrite" /\ Upload(v)' = u /\ Number(v)' = n
    BY <1>2, <1>3, <2>2 DEF Upload, Number
  <2> QED BY <1>2, <2>1, <2>3 DEF Inv, PartsWhole
<1>11. ObjectWhole'
  <2>1. \A v \in Workers : v # w => Assembling(v)'
    <3> TAKE v \in Workers
    <3> HAVE v # w
    <3>1. /\ pc'[v] = pc[v] /\ req'[v] = req[v] /\ got' = got /\ mpu' = mpu /\ mpuFd' = mpuFd
          /\ Upload(v)' = Upload(v) /\ part' = part /\ Assembling(v)
      BY <1>2, <1>3 DEF Upload, Inv, ObjectWhole
    <3>2. (Listed(v)' <=> Listed(v)) /\ (Unchanged(v)' <=> Unchanged(v)) /\ (Streamed(v)' <=> Streamed(v))
      BY <3>1 DEF Listed, Unchanged, Streamed
    <3> QED BY <3>1, <3>2 DEF Assembling
  <2>2. Assembling(w)'
    <3>1. got[w] = <<>>
      BY <1>2 DEF Inv, ObjectWhole, Assembling
    <3> QED BY <1>2, <1>3, <1>4, <3>1 DEF Assembling, CompletePCs
  <2>3. \A v \in mpuFd : v \in Workers /\ pc'[v] = "coStream"
    BY <1>2, <1>3 DEF Inv, TypeOK, ObjectWhole
  <2> QED BY <1>2, <2>1, <2>2, <2>3 DEF Inv, ObjectWhole
<1>12. Settled'
  <2>1. IsFiniteSet(manifest)' /\ (manifest \subseteq created)' /\ manifest \subseteq created
    BY <1>2, <1>5 DEF Inv, Settled
  <2>2. pc'[w] # "idle" /\ ~AllIdle'
    BY <1>3, <1>4 DEF AllIdle
  <2>3. ASSUME alone'
        PROVE  /\ \A v \in Workers : v # w => pc'[v] = "idle"
               /\ \A v \in Workers : Served(v)'
    <3>1. alone /\ AllIdle /\ meta = obj /\ gauge = Cardinality(manifest) /\ staged = manifest
      BY <1>6, <2>3 DEF Inv, Settled
    <3>2. \A v \in Workers : v # w => pc'[v] = "idle"
      BY <1>3, <3>1 DEF AllIdle
    <3>3. \A v \in Workers : pc'[v] = "idle" => Served(v)'
      BY DEF Served, Removing, Describing, CreatePCs, CompletePCs
    <3>4. pc'[w] \in CreatePCs => Upload(w)' \notin manifest
      BY <1>1, <1>3, <1>4, <2>1 DEF CreatePCs, Upload
    <3>5. Served(w)'
      BY <1>2, <1>3, <1>4, <3>1, <3>4 DEF Served, Removing, Describing, CreatePCs, CompletePCs
    <3> QED BY <3>2, <3>3, <3>5
  <2>4. alone' => \A v, x \in Workers : v # x /\ pc'[v] # "idle" => pc'[x] = "idle"
    BY <2>3
  <2> QED BY <2>1, <2>2, <2>3, <2>4 DEF Settled
<1> QED BY <1>7, <1>8, <1>9, <1>10, <1>11, <1>12 DEF Inv

LEMMA FinishStep ==
  ASSUME Inv, NEW w \in Workers, Finish(w)
  PROVE  Inv'
<1>1. /\ pc[w] = "done" /\ pc' = [pc EXCEPT ![w] = "idle"] /\ alone' = alone
      /\ req' = [req EXCEPT ![w] = NoRequest] /\ got' = [got EXCEPT ![w] = <<>>]
      /\ todo' = [todo EXCEPT ![w] = {}]
      /\ UNCHANGED <<staged, manifest, created, part, tmp, partFd, tmpFd, obj, mpu, objFd, mpuFd, meta,
                     lock, gauge>>
  BY DEF Finish, Goto, stageVars, objVars
<1>2. /\ TypeOK /\ pc \in [Workers -> PCs] /\ pc'[w] = "idle" /\ got'[w] = <<>>
      /\ \A v \in Workers : v # w => pc'[v] = pc[v] /\ req'[v] = req[v] /\ got'[v] = got[v] /\ todo'[v] = todo[v]
  BY <1>1 DEF Inv, TypeOK, Placed
<1>3. TypeOK'
  <2>1. NoRequest \in Requests
    BY MultipartAssumption DEF NoRequest
  <2>2. <<>> \in Seq(Contents)
    BY EmptySeq
  <2> QED BY <1>1, <1>2, <2>1, <2>2 DEF TypeOK
<1>4. Placed'
  <2>1. pc' \in [Workers -> PCs]
    BY <1>1, <1>2 DEF PCs
  <2> QED BY <1>1, <1>2, <2>1 DEF Inv, Placed, Upload, CreatePCs, PartPCs, CompletePCs, PutPCs
<1>5. Waiting'
  BY <1>2 DEF Inv, Waiting
<1>6. PartsWhole'
  <2>1. \A v \in Workers : Writing(v)'
    <3>1. ASSUME NEW v \in Workers, v # w PROVE Writing(v)'
      <4>1. /\ pc'[v] = pc[v] /\ req'[v] = req[v] /\ Writing(v)
            /\ Upload(v)' = Upload(v) /\ Number(v)' = Number(v)
        BY <1>2, <3>1 DEF Upload, Number, Inv, PartsWhole
      <4> QED BY <1>1, <4>1 DEF Writing
    <3>2. Writing(w)'
      BY <1>2 DEF Writing
    <3> QED BY <3>1, <3>2
  <2>2. \A u \in Uploads, n \in Parts : \A v \in tmpFd[u][n] :
          v \in Workers /\ pc[v] = "ptWrite" /\ Upload(v) = u /\ Number(v) = n
    BY <1>2, EntryTypes DEF Inv, PartsWhole
  <2>3. \A u \in Uploads, n \in Parts : \A v \in tmpFd[u][n] :
          pc'[v] = "ptWrite" /\ Upload(v)' = u /\ Number(v)' = n
    BY <1>1, <1>2, <2>2 DEF Upload, Number
  <2> QED BY <1>1, <2>1, <2>3 DEF Inv, PartsWhole
<1>7. ObjectWhole'
  <2>1. \A v \in Workers : v # w => Assembling(v)'
    <3> TAKE v \in Workers
    <3> HAVE v # w
    <3>1. /\ pc'[v] = pc[v] /\ req'[v] = req[v] /\ got'[v] = got[v] /\ mpu' = mpu /\ mpuFd' = mpuFd
          /\ Upload(v)' = Upload(v) /\ part' = part /\ Assembling(v)
      BY <1>1, <1>2 DEF Upload, Inv, ObjectWhole
    <3>2. (Listed(v)' <=> Listed(v)) /\ (Unchanged(v)' <=> Unchanged(v)) /\ (Streamed(v)' <=> Streamed(v))
      BY <3>1 DEF Listed, Unchanged, Streamed
    <3> QED BY <3>1, <3>2 DEF Assembling
  <2>2. Assembling(w)'
    BY <1>2 DEF Assembling, CompletePCs
  <2>3. \A v \in mpuFd : v \in Workers /\ pc'[v] = "coStream"
    BY <1>1, <1>2 DEF Inv, TypeOK, ObjectWhole
  <2> QED BY <1>1, <2>1, <2>2, <2>3 DEF Inv, ObjectWhole
<1>8. Settled'
  <2>1. IsFiniteSet(manifest)' /\ (manifest \subseteq created)'
    BY <1>1 DEF Inv, Settled
  <2>2. ASSUME alone'
        PROVE  /\ \A v \in Workers : pc'[v] = "idle"
               /\ \A v \in Workers : Served(v)'
               /\ (meta = obj /\ gauge = Cardinality(manifest) /\ staged = manifest)'
    <3>1. alone /\ Served(w) /\ \A v \in Workers : v # w => pc[v] = "idle"
      BY <1>1, <2>2 DEF Inv, Settled
    <3>2. \A v \in Workers : pc'[v] = "idle"
      BY <1>2, <3>1
    <3>3. \A v \in Workers : Served(v)'
      BY <3>2 DEF Served, Removing, Describing, CreatePCs, CompletePCs
    <3>4. meta = obj /\ gauge = Cardinality(manifest) /\ staged = manifest
      BY <1>1, <3>1 DEF Served, Removing, Describing
    <3> QED BY <1>1, <3>2, <3>3, <3>4
  <2> QED BY <2>1, <2>2 DEF Settled
<1> QED BY <1>3, <1>4, <1>5, <1>6, <1>7, <1>8 DEF Inv

LEMMA CrashStep ==
  ASSUME Inv, Crash
  PROVE  Inv'
<1>1. /\ alone' = FALSE /\ objFd' = {} /\ mpuFd' = {} /\ lock' = NoWorker /\ gauge' = 0
      /\ partFd' = [u \in Uploads |-> [n \in Parts |-> {}]]
      /\ tmpFd' = [u \in Uploads |-> [n \in Parts |-> {}]]
      /\ pc' = [w \in Workers |-> "idle"] /\ req' = [w \in Workers |-> NoRequest]
      /\ got' = [w \in Workers |-> <<>>] /\ todo' = [w \in Workers |-> {}]
      /\ UNCHANGED <<staged, manifest, created, part, tmp, obj, mpu, meta>>
  BY DEF Crash
<1>2. NoRequest \in Requests /\ <<>> \in Seq(Contents)
  BY MultipartAssumption, EmptySeq DEF NoRequest
<1>3. TypeOK'
  <2>1. /\ partFd' \in [Uploads -> [Parts -> SUBSET Workers]]
        /\ tmpFd' \in [Uploads -> [Parts -> SUBSET Workers]]
    BY <1>1
  <2>2. /\ req' \in [Workers -> Requests] /\ got' \in [Workers -> Seq(Contents)]
        /\ todo' \in [Workers -> SUBSET Names]
    BY <1>1, <1>2
  <2>3. alone' \in BOOLEAN /\ objFd' \subseteq Workers /\ mpuFd' \subseteq Workers
    BY <1>1
  <2> QED BY <1>1, <2>1, <2>2, <2>3 DEF Inv, TypeOK
<1>4. Placed' /\ Waiting'
  BY <1>1 DEF Placed, Waiting, PCs, CreatePCs, PartPCs, CompletePCs, PutPCs
<1>5. PartsWhole'
  BY <1>1 DEF Inv, PartsWhole, Writing
<1>6. ObjectWhole'
  BY <1>1 DEF Inv, ObjectWhole, Assembling, CompletePCs
<1>7. Settled'
  BY <1>1 DEF Inv, Settled
<1> QED BY <1>3, <1>4, <1>5, <1>6, <1>7 DEF Inv

LEMMA InvInit ==
  ASSUME Init
  PROVE  Inv
<1>1. NoRequest \in Requests /\ <<>> \in Seq(Contents)
  BY MultipartAssumption, EmptySeq DEF NoRequest
<1>2. TypeOK
  BY <1>1 DEF Init, TypeOK
<1>3. Placed /\ Waiting
  BY DEF Init, Placed, Waiting, PCs, CreatePCs, PartPCs, CompletePCs, PutPCs
<1>4. PartsWhole
  BY MultipartAssumption DEF Init, PartsWhole, Writing
<1>5. ObjectWhole
  BY DEF Init, ObjectWhole, Assembling, CompletePCs
<1>6. Settled
  <2>1. IsFiniteSet(manifest) /\ Cardinality(manifest) = 0
    BY FS_EmptySet DEF Init
  <2> QED BY <2>1 DEF Init, Settled, Served, Removing, Describing, CreatePCs, CompletePCs
<1> QED BY <1>2, <1>3, <1>4, <1>5, <1>6 DEF Inv

\* Stuttering keeps what the invariant speaks of.
LEMMA InvStutters ==
  ASSUME Inv, UNCHANGED vars
  PROVE  Inv'
<1>1. UNCHANGED <<staged, manifest, created, part, tmp, partFd, tmpFd, obj, mpu, objFd, mpuFd, meta, lock,
                  gauge, pc, req, got, todo, alone>>
  BY DEF vars, stageVars, objVars, localVars
<1>2. TypeOK'
  BY <1>1 DEF Inv, TypeOK
<1>3. Placed' /\ Waiting'
  BY <1>1 DEF Inv, Placed, Waiting, Upload
<1>4. PartsWhole'
  BY <1>1 DEF Inv, PartsWhole, Writing, Upload, Number
<1>5. ObjectWhole'
  BY <1>1 DEF Inv, ObjectWhole, Assembling, Listed, Unchanged, Streamed, Upload
<1>6. Settled'
  BY <1>1 DEF Inv, Settled, Served, Removing, Describing, AllIdle, Upload
<1> QED BY <1>2, <1>3, <1>4, <1>5, <1>6 DEF Inv

LEMMA InvNext ==
  ASSUME Inv, ~Overlap, [Next]_vars
  PROVE  Inv'
<1>1. ASSUME NEW w \in Workers, Step(w) PROVE Inv'
  BY <1>1, TypeSteps, PlacedSteps, WaitingSteps, PartsSteps, ObjectSteps, SettledSteps DEF Inv
<1>2. CASE Crash
  BY <1>2, CrashStep
<1>3. CASE UNCHANGED vars
  BY <1>3, InvStutters
<1>4. ASSUME NEW w \in Workers, Start(w) \/ Finish(w) PROVE Inv'
  BY <1>4, StartStep, FinishStep
<1> QED BY <1>1, <1>2, <1>3, <1>4 DEF Next, Step
-----------------------------------------------------------------------------
(***************************************************************************)
(* If clients wait for their answers, a part under its final name is the   *)
(* whole body of one UploadPart, whatever writes fail, however many        *)
(* aborts, PUTs and other uploads run beside it, and wherever a kill falls.*)
(***************************************************************************)
THEOREM PartIntactHolds ==
  ASSUME ~Overlap
  PROVE  Spec => []PartIntact
<1>1. Init => Inv
  BY InvInit
<1>2. Inv /\ [Next]_vars => Inv'
  BY InvNext
<1>3. Inv => PartIntact
  BY DEF Inv, PartsWhole, PartIntact
<1> QED BY <1>1, <1>2, <1>3, PTL DEF Spec

(***************************************************************************)
(* If clients wait for their answers, the object is, whenever nothing is   *)
(* running, what one whole Complete or one whole PUT wrote.                *)
(***************************************************************************)
THEOREM ObjectIntactHolds ==
  ASSUME ~Overlap
  PROVE  Spec => []ObjectIntact
<1>1. Init => Inv
  BY InvInit
<1>2. Inv /\ [Next]_vars => Inv'
  BY InvNext
<1>3. Inv => ObjectIntact
  BY DEF Inv, ObjectWhole, Written, ObjectIntact
<1> QED BY <1>1, <1>2, <1>3, PTL DEF Spec

(***************************************************************************)
(* If clients wait for their answers, CompleteMultipartUpload publishes    *)
(* the bytes its request lists and no others, an abort of the same upload  *)
(* between its check and its rename included.                              *)
(***************************************************************************)
THEOREM CommittedBytesHolds ==
  ASSUME ~Overlap
  PROVE  Spec => CommittedBytes
<1>1. Init => Inv
  BY InvInit
<1>2. Inv /\ [Next]_vars => Inv'
  BY InvNext
<1>3. Inv /\ [Next]_vars
        => [\A w \in Workers : pc[w] = "coStream" /\ pc'[w] = "coTrunc" => obj' = Committed(req[w])]_vars
  <2> SUFFICES ASSUME Inv, Next, NEW w \in Workers, pc[w] = "coStream", pc'[w] = "coTrunc"
               PROVE  obj' = Committed(req[w])
    OBVIOUS
  <2>1. ASSUME NEW v \in Workers, Step(v) PROVE obj' = Committed(req[w])
    <3>1. pc' = [pc EXCEPT ![v] = pc'[v]] /\ pc \in [Workers -> PCs]
      BY <2>1, StepFacts DEF Inv, Placed
    <3>2. v = w
      BY <3>1
    <3>3. CoRename(w)
      BY <2>1, <3>1, <3>2 DEF Step, Create, CrMkdir, CrManifest, UploadPart, PtOpen, PtCreate, PtWrite,
           PtFails, PtRename, Complete, CoOpen, CoList, CoCreate, CoStream, CoTrunc, CoMeta,
           Remove, AbOpen, RmFile, RmDir, Put, PoRename, PoMeta, OpenUpload, Goto, Respond
    <3>4. Len(got[w]) = Len(req[w].parts) /\ obj' = mpu
      BY <3>1, <3>3 DEF CoRename, Respond
    <3>5. mpu = got[w]
      BY DEF Inv, ObjectWhole, Assembling
    <3> QED BY <3>4, <3>5, StreamedAll
  <2>2. ASSUME NEW v \in Workers, Start(v) \/ Finish(v) PROVE FALSE
    <3>1. pc' = [pc EXCEPT ![v] = pc'[v]] /\ pc \in [Workers -> PCs] /\ pc[v] \in {"idle", "done"}
      BY <2>2 DEF Start, Finish, Goto, Inv, Placed
    <3> QED BY <3>1
  <2>3. CASE Crash
    BY <2>3 DEF Crash
  <2> QED BY <2>1, <2>2, <2>3 DEF Next, Step
<1> QED BY <1>1, <1>2, <1>3, PTL DEF Spec, CommittedBytes

(***************************************************************************)
(* If clients wait for their answers, then after requests that came one by *)
(* one and did not fail the sidecar describes the object, the gauge counts *)
(* the uploads in progress and no staging directory is without a manifest. *)
(***************************************************************************)
THEOREM SettledUploadsHolds ==
  ASSUME ~Overlap
  PROVE  Spec => []SettledUploads
<1>1. Init => Inv
  BY InvInit
<1>2. Inv /\ [Next]_vars => Inv'
  BY InvNext
<1>3. Inv => SettledUploads
  BY DEF Inv, Settled, SettledUploads, SidecarMatches, GaugeMatches, NoOrphans
<1> QED BY <1>1, <1>2, <1>3, PTL DEF Spec
=============================================================================
