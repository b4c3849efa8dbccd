----------------------------- MODULE Multipart -----------------------------
(***************************************************************************)
(* Multipart uploads of one object: CreateMultipartUpload, UploadPart,     *)
(* CompleteMultipartUpload and AbortMultipartUpload, with a plain PutObject *)
(* of the same key beside them.  As in ObjectStore a handler is a          *)
(* goroutine and every file-system call is one step.                       *)
(*                                                                         *)
(* Staging is a directory per upload ID with a manifest and one file per   *)
(* part.  No multipart operation takes a lock, a part is staged under one  *)
(* ".tmp" name per part number, and Complete assembles the object under    *)
(* one ".mpu.tmp" name per key.                                            *)
(*                                                                         *)
(* Abstracted: a part's bytes are a model value whose MD5 is injective,    *)
(* parts have one length, metadata and wire formats are left out.          *)
(***************************************************************************)
EXTENDS Naturals, Integers, Sequences, FiniteSets

CONSTANTS
  Workers,      \* goroutines serving requests
  Uploads,      \* upload IDs (bounds the number of creates)
  Parts,        \* part numbers
  Bodies,       \* contents of parts and of plain objects
  Requests,     \* the requests clients may send
  Overlap,      \* TRUE: clients repeat requests that are still being served
  Crashes,      \* TRUE: the process may be killed and restarted
  DiskFaults,   \* TRUE: a write may fail
  None, Torn, NoWorker

Ops == {"create", "part", "complete", "abort", "put"}

(***************************************************************************)
(* parts is the list of a Complete request: part numbers with the ETags    *)
(* the client was given, that is, the bytes it committed to.               *)
(***************************************************************************)
RequestType ==
  [op : Ops, upload : Uploads, number : Parts, body : Bodies \cup {None},
   parts : Seq([number : Parts, body : Bodies])]

ASSUME MultipartAssumption ==
  /\ Parts \subseteq Nat \ {0}
  /\ Requests \subseteq RequestType /\ Requests # {}
  /\ \A r \in Requests : r.op \in {"part", "put"} => r.body \in Bodies
  /\ Overlap \in BOOLEAN /\ Crashes \in BOOLEAN /\ DiskFaults \in BOOLEAN
  /\ None \notin Bodies /\ Torn \notin Bodies /\ None # Torn
  /\ None \notin Seq(Bodies \cup {Torn})
  /\ NoWorker \notin Workers

VARIABLES
  staged,    \* uploads whose staging directory exists
  manifest,  \* uploads whose manifest.json exists
  created,   \* upload IDs that have been handed out
  part,      \* part file of each upload and number, or None
  tmp,       \* its .tmp file
  partFd,    \* workers that have the current part file open for writing
  tmpFd,     \* workers that have the current .tmp file open
  obj,       \* the object: the sequence of its parts, or None
  mpu,       \* the .mpu.tmp file being assembled, or None
  objFd,     \* workers that have the current object file open for writing
  mpuFd,     \* workers that have the current .mpu.tmp open
  meta,      \* the sidecar: the content it was written for, or None
  lock,      \* holder of the object's stripe
  gauge,     \* MultipartUploadsInProgress
  pc, req,   \* where a worker is, and the request it serves
  got,       \* contents a Complete has streamed so far
  todo,      \* files os.RemoveAll has seen and not yet removed
  status,    \* outcome of the worker's last request
  alone      \* history: requests came one after the other and none failed

stageVars == <<staged, manifest, created, part, tmp, partFd, tmpFd>>
objVars == <<obj, mpu, objFd, mpuFd, meta, lock>>
localVars == <<req, got, todo>>
vars == <<stageVars, objVars, gauge, pc, localVars, status, alone>>

Contents == Bodies \cup {Torn}
Names == {<<"manifest", 0>>} \cup ({"part", "tmp"} \X Parts)
NoRequest == CHOOSE r \in Requests : TRUE

Upload(w) == req[w].upload
Number(w) == req[w].number
Goto(w, p) == pc' = [pc EXCEPT ![w] = p] /\ UNCHANGED alone
Respond(w, s) ==
  /\ pc' = [pc EXCEPT ![w] = "done"]
  /\ status' = [status EXCEPT ![w] = s]
  /\ alone' = (alone /\ s # "failed")

AllIdle == \A w \in Workers : pc[w] = "idle"

\* Files in the staging directory of an upload.
FilesOf(u) ==
  {f \in Names : \/ f[1] = "manifest" /\ u \in manifest
                 \/ f[1] = "part" /\ part[u][f[2]] # None
                 \/ f[1] = "tmp" /\ tmp[u][f[2]] # None}

\* The bytes a client lists in a Complete request, in order.
Committed(r) == [i \in 1 .. Len(r.parts) |-> r.parts[i].body]

Init ==
  /\ staged = {} /\ manifest = {} /\ created = {}
  /\ part = [u \in Uploads |-> [n \in Parts |-> None]]
  /\ tmp = [u \in Uploads |-> [n \in Parts |-> None]]
  /\ partFd = [u \in Uploads |-> [n \in Parts |-> {}]]
  /\ tmpFd = [u \in Uploads |-> [n \in Parts |-> {}]]
  /\ obj = None /\ mpu = None /\ objFd = {} /\ mpuFd = {} /\ meta = None
  /\ lock = NoWorker
  /\ gauge = 0
  /\ pc = [w \in Workers |-> "idle"]
  /\ req = [w \in Workers |-> NoRequest]
  /\ got = [w \in Workers |-> <<>>]
  /\ todo = [w \in Workers |-> {}]
  /\ status = [w \in Workers |-> "none"]
  /\ alone = TRUE
-----------------------------------------------------------------------------
\* Two requests that a client which waits for its answers does not overlap.
Conflict(r, s) ==
  \/ r.op = "complete" /\ s.op \in {"complete", "put"}
  \/ r.op = "part" /\ s.op = "part" /\ r.upload = s.upload /\ r.number = s.number
  \/ r.op = "complete" /\ s.op = "part" /\ r.upload = s.upload

FirstStep(r) ==
  CASE r.op = "create" -> "crMkdir"
    [] r.op = "part" -> "ptOpen"
    [] r.op = "complete" -> "coOpen"
    [] r.op = "abort" -> "abOpen"
    [] r.op = "put" -> "poLock"

Start(w) ==
  /\ pc[w] = "idle"
  /\ \E r \in Requests :
       /\ r.op = "create" => r.upload \notin created
       /\ Overlap \/ \A v \in Workers :
            pc[v] # "idle" => ~Conflict(r, req[v]) /\ ~Conflict(req[v], r)
       /\ created' = IF r.op = "create" THEN created \cup {r.upload} ELSE created
       /\ req' = [req EXCEPT ![w] = r]
       /\ pc' = [pc EXCEPT ![w] = FirstStep(r)]
  /\ alone' = (alone /\ AllIdle)
  /\ UNCHANGED <<staged, manifest, part, tmp, partFd, tmpFd, objVars, gauge,
                 got, todo, status>>

Finish(w) ==
  /\ pc[w] = "done"
  /\ Goto(w, "idle")
  /\ req' = [req EXCEPT ![w] = NoRequest]
  /\ got' = [got EXCEPT ![w] = <<>>]
  /\ todo' = [todo EXCEPT ![w] = {}]
  /\ status' = [status EXCEPT ![w] = "none"]
  /\ UNCHANGED <<stageVars, objVars, gauge>>
-----------------------------------------------------------------------------
(***************************************************************************)
(* CreateMultipartUpload: a fresh ID, its directory, its manifest.         *)
(***************************************************************************)
CrMkdir(w) ==
  /\ pc[w] = "crMkdir"
  /\ \/ /\ staged' = staged \cup {Upload(w)}
        /\ Goto(w, "crManifest")
        /\ UNCHANGED status
     \/ /\ DiskFaults
        /\ Respond(w, "failed")
        /\ UNCHANGED staged
  /\ UNCHANGED <<manifest, created, part, tmp, partFd, tmpFd, objVars, gauge, localVars>>

\* Nobody knows the ID yet, so writeManifest and its clean-up are one step.
CrManifest(w) ==
  /\ pc[w] = "crManifest"
  /\ \/ /\ manifest' = manifest \cup {Upload(w)}
        /\ gauge' = gauge + 1
        /\ Respond(w, "ok")
        /\ UNCHANGED staged
     \/ /\ DiskFaults
        /\ staged' = staged \ {Upload(w)}
        /\ Respond(w, "failed")
        /\ UNCHANGED <<manifest, gauge>>
  /\ UNCHANGED <<created, part, tmp, partFd, tmpFd, objVars, localVars>>
-----------------------------------------------------------------------------
\* openUpload: the manifest must be there.
OpenUpload(w, next) ==
  \/ /\ Upload(w) \in manifest
     /\ Goto(w, next)
     /\ UNCHANGED status
  \/ /\ Upload(w) \notin manifest
     /\ Respond(w, "noSuchUpload")

(***************************************************************************)
(* UploadPart: os.Create truncates (or creates) the .tmp file of the part  *)
(* number, the body is copied through the descriptor, the file is renamed. *)
(***************************************************************************)
PtOpen(w) ==
  /\ pc[w] = "ptOpen"
  /\ OpenUpload(w, "ptCreate")
  /\ UNCHANGED <<stageVars, objVars, gauge, localVars>>

PtCreate(w) ==
  LET u == Upload(w)
      n == Number(w)
  IN
  /\ pc[w] = "ptCreate"
  /\ \/ /\ u \in staged
        /\ tmp' = [tmp EXCEPT ![u][n] = Torn]
        /\ tmpFd' = [tmpFd EXCEPT ![u][n] = @ \cup {w}]
        /\ Goto(w, "ptWrite")
        /\ UNCHANGED status
     \/ /\ u \notin staged \/ DiskFaults
        /\ Respond(w, "failed")
        /\ UNCHANGED <<tmp, tmpFd>>
  /\ UNCHANGED <<staged, manifest, created, part, partFd, objVars, gauge, localVars>>

\* Bytes of another writer of the same file may remain behind this body.
Overwritten(old, new) == IF old = Torn THEN {new} ELSE {new, Torn}

PtWrite(w) ==
  LET u == Upload(w)
      n == Number(w)
      b == req[w].body
  IN
  /\ pc[w] = "ptWrite"
  /\ IF w \in tmpFd[u][n]
     THEN \E c \in Overwritten(tmp[u][n], b) : tmp' = [tmp EXCEPT ![u][n] = c]
     ELSE UNCHANGED tmp
  /\ IF w \in partFd[u][n]
     THEN \E c \in Overwritten(part[u][n], b) : part' = [part EXCEPT ![u][n] = c]
     ELSE UNCHANGED part
  /\ tmpFd' = [tmpFd EXCEPT ![u][n] = @ \ {w}]
  /\ partFd' = [partFd EXCEPT ![u][n] = @ \ {w}]
  /\ Goto(w, "ptRename")
  /\ UNCHANGED <<staged, manifest, created, objVars, gauge, localVars, status>>

\* Mutant: a body that was cut short is published.
PtFailsPublishing(w) ==
  LET u == Upload(w)
      n == Number(w)
  IN
  /\ pc[w] = "ptWrite"
  /\ part' = [part EXCEPT ![u][n] = tmp[u][n]]
  /\ tmp' = [tmp EXCEPT ![u][n] = None]
  /\ tmpFd' = [tmpFd EXCEPT ![u][n] = {}]
  /\ Respond(w, "failed")
  /\ UNCHANGED <<staged, manifest, created, partFd, objVars, gauge, localVars>>

\* The client went away in the middle: the .tmp name is removed.
PtFails(w) ==
  LET u == Upload(w)
      n == Number(w)
  IN
  /\ pc[w] = "ptWrite"
  /\ tmp' = [tmp EXCEPT ![u][n] = None]
  /\ tmpFd' = [tmpFd EXCEPT ![u][n] = {}]
  /\ partFd' = [partFd EXCEPT ![u][n] = @ \ {w}]
  /\ Respond(w, "failed")
  /\ UNCHANGED <<staged, manifest, created, part, objVars, gauge, localVars>>

PtRename(w) ==
  LET u == Upload(w)
      n == Number(w)
  IN
  /\ pc[w] = "ptRename"
  /\ \/ /\ tmp[u][n] # None
        /\ part' = [part EXCEPT ![u][n] = tmp[u][n]]
        /\ partFd' = [partFd EXCEPT ![u][n] = tmpFd[u][n]]
        /\ tmp' = [tmp EXCEPT ![u][n] = None]
        /\ tmpFd' = [tmpFd EXCEPT ![u][n] = {}]
        /\ Respond(w, "ok")
     \/ /\ tmp[u][n] = None
        /\ Respond(w, "failed")
        /\ UNCHANGED <<part, partFd, tmp, tmpFd>>
  /\ UNCHANGED <<staged, manifest, created, objVars, gauge, localVars>>
-----------------------------------------------------------------------------
(***************************************************************************)
(* CompleteMultipartUpload.  The listed parts are compared with the files  *)
(* first and copied afterwards, one by one.                                *)
(***************************************************************************)
Ascending(r) == \A i \in 2 .. Len(r.parts) : r.parts[i].number > r.parts[i - 1].number

CoOpen(w) ==
  /\ pc[w] = "coOpen"
  /\ IF Upload(w) \notin manifest THEN Respond(w, "noSuchUpload")
     ELSE IF req[w].parts = <<>> THEN Respond(w, "invalidPart")
     ELSE IF ~Ascending(req[w]) THEN Respond(w, "invalidPartOrder")
     ELSE Goto(w, "coList") /\ UNCHANGED status
  /\ UNCHANGED <<stageVars, objVars, gauge, localVars>>

\* Mutant: a listed part needs only to exist.
StoredAny(u, p) == part[u][p.number] # None

\* A stored part whose bytes have the ETag the client lists.
Stored(u, p) == part[u][p.number] = p.body

CoList(w) ==
  /\ pc[w] = "coList"
  /\ \/ /\ Upload(w) \notin staged
        /\ Respond(w, "failed")
     \/ /\ Upload(w) \in staged
        /\ IF \A i \in DOMAIN req[w].parts : Stored(Upload(w), req[w].parts[i])
           THEN Goto(w, "coCreate") /\ UNCHANGED status
           ELSE Respond(w, "invalidPart")
  /\ UNCHANGED <<stageVars, objVars, gauge, localVars>>

\* Mutant: the object is assembled under its final name.
CoCreateInPlace(w) ==
  /\ pc[w] = "coCreate"
  /\ obj' = <<>>
  /\ objFd' = objFd \cup {w}
  /\ Goto(w, "coStream")
  /\ UNCHANGED <<stageVars, mpu, mpuFd, meta, lock, gauge, localVars, status>>

CoCreate(w) ==
  /\ pc[w] = "coCreate"
  /\ \/ /\ mpu' = <<>>
        /\ mpuFd' = mpuFd \cup {w}
        /\ Goto(w, "coStream")
        /\ UNCHANGED status
     \/ /\ DiskFaults
        /\ Respond(w, "failed")
        /\ UNCHANGED <<mpu, mpuFd>>
  /\ UNCHANGED <<stageVars, obj, objFd, meta, lock, gauge, localVars>>

\* A write of one part at its offset; a gap that nobody wrote reads as zeros.
WriteAt(s, i, c) ==
  [j \in 1 .. (IF Len(s) < i THEN i ELSE Len(s)) |->
     IF j = i THEN c ELSE IF j <= Len(s) THEN s[j] ELSE Torn]

\* streamPart: open the next part and append it to the assembled file.
CoStream(w) ==
  LET i == Len(got[w]) + 1
      c == part[Upload(w)][req[w].parts[i].number]
  IN
  /\ pc[w] = "coStream"
  /\ i <= Len(req[w].parts)
  /\ \/ /\ c # None
        /\ got' = [got EXCEPT ![w] = Append(@, c)]
        /\ mpu' = IF w \in mpuFd THEN WriteAt(mpu, i, c) ELSE mpu
        /\ obj' = IF w \in objFd THEN WriteAt(obj, i, c) ELSE obj
        /\ UNCHANGED <<mpuFd, objFd, pc, status, alone>>
     \/ /\ c = None \/ DiskFaults
        /\ mpu' = None
        /\ mpuFd' = {}
        /\ objFd' = objFd \ {w}
        /\ Respond(w, IF c = None THEN "invalidPart" ELSE "failed")
        /\ UNCHANGED <<got, obj>>
  /\ UNCHANGED <<stageVars, meta, lock, gauge, req, todo>>

\* Mutant: the sidecar is left as it was.
CoRenameOnly(w) ==
  /\ pc[w] = "coStream"
  /\ Len(got[w]) = Len(req[w].parts)
  /\ mpu # None
  /\ obj' = mpu
  /\ objFd' = mpuFd \ {w}
  /\ mpu' = None
  /\ mpuFd' = {}
  /\ todo' = [todo EXCEPT ![w] = FilesOf(Upload(w))]
  /\ Goto(w, "coRemove")
  /\ UNCHANGED <<stageVars, meta, lock, gauge, req, got, status>>

CoRename(w) ==
  /\ pc[w] = "coStream"
  /\ Len(got[w]) = Len(req[w].parts)
  /\ \/ /\ mpu # None
        /\ obj' = mpu
        /\ objFd' = mpuFd \ {w}
        /\ mpu' = None
        /\ mpuFd' = {}
        /\ Goto(w, "coTrunc")
        /\ UNCHANGED status
     \/ /\ mpu = None
        /\ objFd' = objFd \ {w}
        /\ Respond(w, "failed")
        /\ UNCHANGED <<obj, mpu, mpuFd>>
  /\ UNCHANGED <<stageVars, meta, lock, gauge, localVars>>

\* os.WriteFile of the sidecar truncates it first.
CoTrunc(w) ==
  /\ pc[w] = "coTrunc"
  /\ \/ /\ meta' = <<Torn>>
        /\ Goto(w, "coMeta")
        /\ UNCHANGED status
     \/ /\ DiskFaults
        /\ Respond(w, "failed")
        /\ UNCHANGED meta
  /\ UNCHANGED <<stageVars, obj, mpu, objFd, mpuFd, lock, gauge, localVars>>

\* The composite ETag is that of the streamed parts.
CoMeta(w) ==
  /\ pc[w] = "coMeta"
  /\ \/ /\ meta' = got[w]
        /\ todo' = [todo EXCEPT ![w] = FilesOf(Upload(w))]
        /\ Goto(w, "coRemove")
        /\ UNCHANGED status
     \/ /\ DiskFaults
        /\ Respond(w, "failed")
        /\ UNCHANGED <<meta, todo>>
  /\ UNCHANGED <<stageVars, obj, mpu, objFd, mpuFd, lock, gauge, req, got>>
-----------------------------------------------------------------------------
\* AbortMultipartUpload
AbOpen(w) ==
  /\ pc[w] = "abOpen"
  /\ OpenUpload(w, "abRemove")
  /\ todo' = [todo EXCEPT ![w] = IF Upload(w) \in manifest THEN FilesOf(Upload(w)) ELSE {}]
  /\ UNCHANGED <<stageVars, objVars, gauge, req, got>>

(***************************************************************************)
(* os.RemoveAll of the staging directory, for Complete and for Abort: the  *)
(* files it saw go one by one, in the order of the directory, and then the *)
(* directory, unless a new file has appeared in it.                        *)
(***************************************************************************)
RmFile(w) ==
  LET u == Upload(w) IN
  /\ pc[w] \in {"coRemove", "abRemove"}
  /\ \E f \in todo[w] :
       /\ todo' = [todo EXCEPT ![w] = @ \ {f}]
       /\ manifest' = IF f[1] = "manifest" THEN manifest \ {u} ELSE manifest
       /\ part' = IF f[1] = "part" THEN [part EXCEPT ![u][f[2]] = None] ELSE part
       /\ partFd' = IF f[1] = "part" THEN [partFd EXCEPT ![u][f[2]] = {}] ELSE partFd
       /\ tmp' = IF f[1] = "tmp" THEN [tmp EXCEPT ![u][f[2]] = None] ELSE tmp
       /\ tmpFd' = IF f[1] = "tmp" THEN [tmpFd EXCEPT ![u][f[2]] = {}] ELSE tmpFd
  /\ UNCHANGED <<staged, created, objVars, gauge, pc, req, got, status, alone>>

\* Complete ignores a failure here; Abort reports it and keeps the gauge.
RmDir(w) ==
  LET u == Upload(w) IN
  /\ pc[w] \in {"coRemove", "abRemove"}
  /\ todo[w] = {}
  /\ \/ /\ FilesOf(u) = {}
        /\ staged' = staged \ {u}
        /\ gauge' = gauge - 1
        /\ Respond(w, "ok")
     \/ /\ FilesOf(u) # {} \/ DiskFaults
        /\ pc' = [pc EXCEPT ![w] = "done"]
        /\ status' = [status EXCEPT ![w] = IF pc[w] = "coRemove" THEN "ok" ELSE "failed"]
        /\ gauge' = IF pc[w] = "coRemove" THEN gauge - 1 ELSE gauge
        /\ alone' = FALSE
        /\ UNCHANGED staged
  /\ UNCHANGED <<manifest, created, part, tmp, partFd, tmpFd, objVars, localVars>>
-----------------------------------------------------------------------------
(***************************************************************************)
(* A plain PUT of the same key: ObjectStore's finalizeObjectWrite, reduced *)
(* to its lock and its two effects.                                        *)
(***************************************************************************)
PoRename(w) ==
  /\ pc[w] = "poLock"
  /\ lock = NoWorker
  /\ lock' = w
  /\ obj' = <<req[w].body>>
  /\ objFd' = {}
  /\ Goto(w, "poMeta")
  /\ UNCHANGED <<stageVars, mpu, mpuFd, meta, gauge, localVars, status>>

PoMeta(w) ==
  /\ pc[w] = "poMeta"
  /\ meta' = <<req[w].body>>
  /\ lock' = NoWorker
  /\ Respond(w, "ok")
  /\ UNCHANGED <<stageVars, obj, mpu, objFd, mpuFd, gauge, localVars>>
-----------------------------------------------------------------------------
\* Staging survives a restart; the gauge, a counter in memory, does not.
Crash ==
  /\ Crashes
  /\ ~AllIdle
  /\ alone' = FALSE
  /\ partFd' = [u \in Uploads |-> [n \in Parts |-> {}]]
  /\ tmpFd' = [u \in Uploads |-> [n \in Parts |-> {}]]
  /\ objFd' = {} /\ mpuFd' = {}
  /\ lock' = NoWorker
  /\ gauge' = 0
  /\ pc' = [w \in Workers |-> "idle"]
  /\ req' = [w \in Workers |-> NoRequest]
  /\ got' = [w \in Workers |-> <<>>]
  /\ todo' = [w \in Workers |-> {}]
  /\ status' = [w \in Workers |-> "none"]
  /\ UNCHANGED <<staged, manifest, created, part, tmp, obj, mpu, meta>>

Create(w) == CrMkdir(w) \/ CrManifest(w)
UploadPart(w) == PtOpen(w) \/ PtCreate(w) \/ PtWrite(w) \/ PtFails(w) \/ PtRename(w)
Complete(w) == \/ CoOpen(w) \/ CoList(w) \/ CoCreate(w) \/ CoStream(w)
               \/ CoRename(w) \/ CoTrunc(w) \/ CoMeta(w)
Remove(w) == AbOpen(w) \/ RmFile(w) \/ RmDir(w)
Put(w) == PoRename(w) \/ PoMeta(w)

Next == \/ \E w \in Workers : \/ Start(w) \/ Finish(w) \/ Create(w) \/ UploadPart(w)
                              \/ Complete(w) \/ Remove(w) \/ Put(w)
        \/ Crash

Spec == Init /\ [][Next]_vars
-----------------------------------------------------------------------------
(***************************************************************************)
(*                               Properties                                *)
(***************************************************************************)
\* Every variable has its type.
TypeOK ==
  /\ staged \subseteq Uploads /\ manifest \subseteq Uploads /\ created \subseteq Uploads
  /\ part \in [Uploads -> [Parts -> Contents \cup {None}]]
  /\ tmp \in [Uploads -> [Parts -> Contents \cup {None}]]
  /\ partFd \in [Uploads -> [Parts -> SUBSET Workers]]
  /\ tmpFd \in [Uploads -> [Parts -> SUBSET Workers]]
  /\ obj = None \/ obj \in Seq(Contents)
  /\ mpu = None \/ mpu \in Seq(Contents)
  /\ objFd \subseteq Workers /\ mpuFd \subseteq Workers
  /\ meta = None \/ meta \in Seq(Contents)
  /\ lock \in Workers \cup {NoWorker}
  /\ gauge \in Int /\ alone \in BOOLEAN
  /\ req \in [Workers -> Requests]
  /\ got \in [Workers -> Seq(Contents)]
  /\ todo \in [Workers -> SUBSET Names]

(***************************************************************************)
(* UploadPart: "os.Rename is atomic on POSIX, so a torn read is            *)
(* impossible".  Under its final name a part is complete.  (The type        *)
(* invariant is a part of this property.)                                  *)
(***************************************************************************)
PartIntact == TypeOK /\ \A u \in Uploads, n \in Parts : part[u][n] # Torn

(***************************************************************************)
(* CompleteMultipartUpload: a mismatch between the listed and the stored   *)
(* parts means "the client committed to bytes we cannot reproduce - do not *)
(* silently succeed".  A Complete publishes the listed bytes only.         *)
(***************************************************************************)
CommittedBytes ==
  [][\A w \in Workers : pc[w] = "coStream" /\ pc'[w] = "coTrunc"
                        => obj' = Committed(req[w])]_vars

(***************************************************************************)
(* uploadDir: "S3 permits multiple concurrent uploads against the same key *)
(* and we must not collide them".  When nothing is running, the object is  *)
(* what one Complete or one PUT wrote.                                     *)
(***************************************************************************)
ObjectIntact ==
  AllIdle /\ obj # None =>
    \E r \in Requests : \/ r.op = "complete" /\ r.parts # <<>> /\ Ascending(r)
                           /\ obj = Committed(r)
                        \/ r.op = "put" /\ obj = <<r.body>>

(***************************************************************************)
(* handlers/locks.go: data file and sidecar "are always updated as a       *)
(* consistent pair".  When nothing is running the sidecar describes the    *)
(* object.                                                                 *)
(***************************************************************************)
SidecarMatches == alone /\ AllIdle => meta = obj

(***************************************************************************)
(* CreateMultipartUploadHandler: the gauge tracks "live multipart          *)
(* sessions", with "matching decrements on Complete/Abort".                *)
(***************************************************************************)
GaugeMatches == alone /\ AllIdle => gauge = Cardinality(manifest)

(***************************************************************************)
(* No staging directory outlives its manifest: without it an upload is     *)
(* neither listed nor can it be aborted, and its bytes stay forever.       *)
(***************************************************************************)
NoOrphans == alone /\ AllIdle => staged = manifest

(***************************************************************************)
(* After requests that came one after the other, none of which failed, the *)
(* sidecar, the gauge and the staging directories agree with what is there.*)
(***************************************************************************)
SettledUploads == SidecarMatches /\ GaugeMatches /\ NoOrphans
=============================================================================
