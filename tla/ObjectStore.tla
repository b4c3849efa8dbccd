---------------------------- MODULE ObjectStore ----------------------------
(***************************************************************************)
(* The on-disk object store of one bucket and the HTTP handlers that work  *)
(* on it concurrently: PutObject (plain and conditional), CopyObject,      *)
(* DeleteObject, GetObject, HeadObject, PutObjectAcl, CreateBucket,        *)
(* PutBucketAcl and DeleteBucket.                                          *)
(*                                                                         *)
(* An object is a data file plus a JSON sidecar "<file>.meta".  A handler  *)
(* is a goroutine that makes one file-system call after another, and every *)
(* such call is one step here, so the calls of two requests interleave in  *)
(* every order the kernel allows.  Only finalizeObjectWrite and            *)
(* removeObject take the striped lock of handlers/locks.go.                *)
(*                                                                         *)
(* Abstracted: bytes (a body is a model value and its MD5 an injective     *)
(* tag), Content-Type and x-amz-meta-* (one "user" value), tag sidecars,   *)
(* wire formats, metrics and audit lines.                                  *)
(***************************************************************************)
EXTENDS Naturals, FiniteSets

CONSTANTS
  Workers,      \* goroutines serving requests
  Keys,         \* object keys of the bucket
  Stripes,      \* indices of objectLocks (256 in the code)
  Stripe,       \* the stripe of a key's path: FNV-1a modulo the stripes
  Dirs, Root,   \* directories of the bucket; Root is the bucket directory
  Dir,          \* the directory that holds a key's files
  Bodies,       \* object contents
  Users,        \* Content-Type and user metadata, as one value
  DefaultUser,  \* application/octet-stream and nothing else
  ACLs,         \* canned ACLs
  Requests,     \* the requests clients may send
  Legacy,       \* keys that hold an object from before ETags were persisted
  Crashes,      \* TRUE: the process may be killed and restarted
  DiskFaults,   \* TRUE: a write may fail half way (disk full, I/O error)
  None, Torn, NoWorker,
  Star           \* the If-None-Match value "*"

ETagOf(b) == [md5 |-> b]
ETags == [md5 : Bodies]

(***************************************************************************)
(* The data file of an object.  "user" is a ghost: the metadata its writer *)
(* supplied with these bytes, which the sidecar must come to hold.         *)
(***************************************************************************)
Versions == [body : Bodies, user : Users]

\* A decoded .meta sidecar; Torn is a file whose JSON does not decode.
Sidecars == [etag : ETags \cup {None}, user : Users \cup {None},
             acl : ACLs \cup {None}]
NoSidecar == [etag |-> None, user |-> None, acl |-> None]
MetaFiles == Sidecars \cup {None, Torn}

Ops == {"put", "copy", "delete", "get", "head", "putAcl",
        "createBucket", "bucketAcl", "deleteBucket"}

(***************************************************************************)
(* A request.  ifNone is the If-None-Match header (Star is create-only),    *)
(* ifMatch the If-Match header, replace the metadata directive of a copy.  *)
(* Fields an operation does not use hold None (or any key): only a PUT     *)
(* evaluates preconditions.  The other handlers refuse an unknown ACL      *)
(* ("bad") before they touch anything.                                     *)
(***************************************************************************)
RequestType ==
  [op : Ops, key : Keys, src : Keys, body : Bodies \cup {None},
   user : Users \cup {None}, acl : ACLs \cup {None, "bad"}, replace : BOOLEAN,
   ifNone : ETags \cup {None, Star}, ifMatch : ETags \cup {None}]

WellFormed(r) ==
  /\ r.op = "put" => r.body \in Bodies /\ r.user \in Users
  /\ r.op = "copy" /\ r.replace => r.user \in Users
  /\ r.op \in {"putAcl", "bucketAcl"} => r.acl \in ACLs
  /\ r.acl = "bad" => r.op = "createBucket"
  /\ r.op # "put" => r.ifNone = None /\ r.ifMatch = None

ASSUME ConstantsAssumption ==
  /\ Stripe \in [Keys -> Stripes]
  /\ Root \in Dirs
  /\ Dir \in [Keys -> Dirs]
  /\ DefaultUser \in Users
  /\ Legacy \subseteq Keys
  /\ Crashes \in BOOLEAN
  /\ DiskFaults \in BOOLEAN
  /\ Requests \subseteq RequestType /\ Requests # {}
  /\ \A r \in Requests : WellFormed(r)

ASSUME SentinelAssumption ==
  /\ NoWorker \notin Workers
  /\ None \notin Bodies \cup Users \cup ACLs \cup Versions \cup ETags
  /\ None \notin Sidecars /\ Torn \notin Sidecars /\ Torn # None
  /\ Star \notin ETags /\ None # Star /\ "bad" \notin ACLs

VARIABLES
  data,      \* data file of each key, or None
  meta,      \* .meta sidecar of each key
  metaTmp,   \* .meta.tmp of each key (SetObjectACL)
  metaFd,    \* workers that have the key's current .meta open for writing
  tmpFd,     \* workers that have the key's current .meta.tmp open
  temps,     \* .upload-* files: <<key it was staged for, owner>>
  dirs,      \* directories that exist
  bacl,      \* .acl.json of the bucket, or None
  lock,      \* holder of each stripe mutex
  pc, req,   \* where a worker is, and the request it serves
  ver,       \* the version a worker writes or has opened
  side,      \* the sidecar a worker has decoded and will write back
  etag,      \* the ETag a worker has resolved; None after an error
  back,      \* where loadOrBackfillETag returns to
  todo,      \* entries os.RemoveAll has read and not yet removed
  status     \* outcome of the worker's last request

fileVars == <<data, meta, metaTmp, metaFd, tmpFd, temps, dirs, bacl>>
localVars == <<req, ver, side, etag, back, todo>>
vars == <<fileVars, lock, pc, localVars, status>>

InCritical == {"mkdir", "stage", "rename", "metaTrunc", "metaWrite",
               "delData", "delMeta", "delDirs"}
PCs == InCritical \cup
       {"idle", "done", "putStat", "putNone", "putMatch", "lock", "bfRead", "bfHash",
        "bfTrunc", "bfWrite", "getStat", "getTag", "getMeta", "getOpen", "headMeta",
        "headTag", "cpStat", "cpMeta", "cpOpen", "aclStat", "aclRead",
        "aclTrunc", "aclWrite", "aclRename", "cbStat", "cbMkdir", "cbAcl",
        "baStat", "dbStat", "dbCheck", "dbScan", "dbRemove"}
Statuses == {"none", "ok", "failed", "notFound", "conflict", "invalid",
             "preconditionFailed"}
Entries == {"data", "meta", "metaTmp", "temp"} \X Keys
SubDirs == {"dir"} \X Dirs

\* What an idle worker's request variable holds.
NoRequest == CHOOSE r \in Requests : TRUE

Key(w) == req[w].key
Goto(w, p) == pc' = [pc EXCEPT ![w] = p]

\* The handler responds and the goroutine is about to end.
Respond(w, s) == /\ Goto(w, "done")
                 /\ status' = [status EXCEPT ![w] = s]

\* The deferred unlock runs when finalizeObjectWrite or removeObject returns.
Unlock(w) == lock' = [lock EXCEPT ![Stripe[Key(w)]] = NoWorker]
-----------------------------------------------------------------------------
(***************************************************************************)
(* os.WriteFile truncates (or creates) the file and then writes it through *)
(* the descriptor it opened.  A file that was unlinked or renamed over in  *)
(* between no longer holds the path; a file that another writer filled in  *)
(* between ends up with this writer's bytes, followed by what is left of   *)
(* longer ones, which does not decode.                                     *)
(***************************************************************************)
Overwritten(old, new) == IF old = Torn THEN {new} ELSE {new, Torn}

TruncateMeta(w, k) == /\ meta' = [meta EXCEPT ![k] = Torn]
                      /\ metaFd' = [metaFd EXCEPT ![k] = @ \cup {w}]

FillMeta(w, k, s) ==
  /\ metaFd' = [metaFd EXCEPT ![k] = @ \ {w}]
  /\ IF w \in metaFd[k]
     THEN \E f \in Overwritten(meta[k], s) : meta' = [meta EXCEPT ![k] = f]
     ELSE UNCHANGED meta

\* Files of a key that a directory listing shows.
FilesOf(k) == {e \in Entries :
                 /\ e[2] = k
                 /\ \/ e[1] = "data" /\ data[k] # None
                    \/ e[1] = "meta" /\ meta[k] # None
                    \/ e[1] = "metaTmp" /\ metaTmp[k] # None
                    \/ e[1] = "temp" /\ \E t \in temps : t[1] = k}
FilesIn(d) == UNION {FilesOf(k) : k \in {x \in Keys : Dir[x] = d}}
AllFiles == UNION {FilesOf(k) : k \in Keys}
-----------------------------------------------------------------------------
\* Legacy objects have bytes and no sidecar.
Init ==
  /\ \E f \in [Keys -> Versions] :
       data = [k \in Keys |-> IF k \in Legacy THEN f[k] ELSE None]
  /\ meta = [k \in Keys |-> None]
  /\ metaTmp = [k \in Keys |-> None]
  /\ metaFd = [k \in Keys |-> {}]
  /\ tmpFd = [k \in Keys |-> {}]
  /\ temps = {}
  /\ dirs = {Root} \cup {Dir[k] : k \in Legacy}
  /\ bacl = None
  /\ lock = [s \in Stripes |-> NoWorker]
  /\ pc = [w \in Workers |-> "idle"]
  /\ req = [w \in Workers |-> NoRequest]
  /\ ver = [w \in Workers |-> None]
  /\ side = [w \in Workers |-> None]
  /\ etag = [w \in Workers |-> None]
  /\ back = [w \in Workers |-> "done"]
  /\ todo = [w \in Workers |-> {}]
  /\ status = [w \in Workers |-> "none"]
-----------------------------------------------------------------------------
(***************************************************************************)
(* A request arrives: the router picks the handler.  A PUT without         *)
(* preconditions goes straight to finalizeObjectWrite.                     *)
(***************************************************************************)
FirstStep(r) ==
  CASE r.op = "put" -> IF r.ifNone = None /\ r.ifMatch = None
                       THEN "lock" ELSE "putStat"
    [] r.op = "copy" -> "cpStat"
    [] r.op = "delete" -> "lock"
    [] r.op = "get" -> "getStat"
    [] r.op = "head" -> "headMeta"
    [] r.op = "putAcl" -> "aclStat"
    [] r.op = "createBucket" -> "cbStat"
    [] r.op = "bucketAcl" -> "baStat"
    [] r.op = "deleteBucket" -> "dbStat"

Start(w) ==
  /\ pc[w] = "idle"
  /\ \E r \in Requests :
       /\ req' = [req EXCEPT ![w] = r]
       /\ ver' = [ver EXCEPT ![w] =
                    IF r.op = "put" THEN [body |-> r.body, user |-> r.user]
                                    ELSE None]
       /\ Goto(w, FirstStep(r))
  /\ UNCHANGED <<fileVars, lock, side, etag, back, todo, status>>

\* The response has been sent; the goroutine serves the next request.
Finish(w) ==
  /\ pc[w] = "done"
  /\ Goto(w, "idle")
  /\ req' = [req EXCEPT ![w] = NoRequest]
  /\ ver' = [ver EXCEPT ![w] = None]
  /\ side' = [side EXCEPT ![w] = None]
  /\ etag' = [etag EXCEPT ![w] = None]
  /\ back' = [back EXCEPT ![w] = "done"]
  /\ todo' = [todo EXCEPT ![w] = {}]
  /\ status' = [status EXCEPT ![w] = "none"]
  /\ UNCHANGED <<fileVars, lock>>
-----------------------------------------------------------------------------
(***************************************************************************)
(* loadOrBackfillETag: unlocked.  The ETag of the sidecar, or else the MD5 *)
(* of the bytes, which is then written back into the sidecar as read.      *)
(***************************************************************************)
WithETag(s, t) == [s EXCEPT !.etag = t]

CallBackfill(w, ret) == /\ Goto(w, "bfRead")
                        /\ back' = [back EXCEPT ![w] = ret]

BfRead(w) ==
  LET f == meta[Key(w)] IN
  /\ pc[w] = "bfRead"
  /\ \/ /\ f = Torn                            \* the JSON does not decode
        /\ etag' = [etag EXCEPT ![w] = None]
        /\ Goto(w, back[w])
        /\ UNCHANGED side
     \/ /\ f \in Sidecars /\ f.etag # None
        /\ etag' = [etag EXCEPT ![w] = f.etag]
        /\ Goto(w, back[w])
        /\ UNCHANGED side
     \/ /\ f = None \/ (f \in Sidecars /\ f.etag = None)
        /\ side' = [side EXCEPT ![w] = IF f = None THEN NoSidecar ELSE f]
        /\ Goto(w, "bfHash")
        /\ UNCHANGED etag
  /\ UNCHANGED <<fileVars, lock, req, ver, back, todo, status>>

BfHash(w) ==
  LET d == data[Key(w)] IN
  /\ pc[w] = "bfHash"
  /\ \/ /\ d = None
        /\ etag' = [etag EXCEPT ![w] = None]
        /\ Goto(w, back[w])
        /\ UNCHANGED side
     \/ /\ d # None
        /\ etag' = [etag EXCEPT ![w] = ETagOf(d.body)]
        /\ side' = [side EXCEPT ![w] = WithETag(side[w], ETagOf(d.body))]
        /\ Goto(w, "bfTrunc")
  /\ UNCHANGED <<fileVars, lock, req, ver, back, todo, status>>

\* A failure to open the sidecar does not mask the ETag.
BfTrunc(w) ==
  /\ pc[w] = "bfTrunc"
  /\ \/ /\ Dir[Key(w)] \in dirs
        /\ TruncateMeta(w, Key(w))
        /\ Goto(w, "bfWrite")
     \/ /\ Dir[Key(w)] \notin dirs \/ DiskFaults
        /\ Goto(w, back[w])
        /\ UNCHANGED <<meta, metaFd>>
  /\ UNCHANGED <<data, metaTmp, tmpFd, temps, dirs, bacl, lock, localVars, status>>

BfWrite(w) ==
  /\ pc[w] = "bfWrite"
  /\ \/ FillMeta(w, Key(w), side[w])
     \/ /\ DiskFaults
        /\ metaFd' = [metaFd EXCEPT ![Key(w)] = @ \ {w}]
        /\ UNCHANGED meta
  /\ Goto(w, back[w])
  /\ UNCHANGED <<data, metaTmp, tmpFd, temps, dirs, bacl, lock, localVars, status>>
-----------------------------------------------------------------------------
(***************************************************************************)
(* evaluatePutConditional: also unlocked, before finalizeObjectWrite.      *)
(***************************************************************************)
\* Mutant: an existing object does not stop a create-only PUT.
PutStatUnchecked(w) ==
  /\ pc[w] = "putStat"
  /\ Goto(w, "lock")
  /\ UNCHANGED <<fileVars, lock, localVars, status>>

PutStat(w) ==
  LET r == req[w]
      exists == data[Key(w)] # None
  IN
  /\ pc[w] = "putStat"
  /\ \/ /\ r.ifNone = Star /\ exists
        /\ Respond(w, "preconditionFailed")
        /\ UNCHANGED back
     \/ /\ r.ifNone \in ETags /\ exists
        /\ CallBackfill(w, "putNone")
        /\ UNCHANGED status
     \/ /\ r.ifNone = None \/ ~exists
        /\ \/ /\ r.ifMatch = None
              /\ Goto(w, "lock")
              /\ UNCHANGED <<back, status>>
           \/ /\ r.ifMatch # None /\ ~exists
              /\ Respond(w, "preconditionFailed")
              /\ UNCHANGED back
           \/ /\ r.ifMatch # None /\ exists
              /\ CallBackfill(w, "putMatch")
              /\ UNCHANGED status
  /\ UNCHANGED <<fileVars, lock, req, ver, side, etag, todo>>

\* If-None-Match: <etag>; an ETag that cannot be resolved does not match.
PutNone(w) ==
  /\ pc[w] = "putNone"
  /\ \/ /\ etag[w] = req[w].ifNone
        /\ Respond(w, "preconditionFailed")
        /\ UNCHANGED back
     \/ /\ etag[w] # req[w].ifNone
        /\ IF req[w].ifMatch = None
           THEN Goto(w, "lock") /\ UNCHANGED back
           ELSE CallBackfill(w, "putMatch")
        /\ UNCHANGED status
  /\ UNCHANGED <<fileVars, lock, req, ver, side, etag, todo>>

PutMatch(w) ==
  /\ pc[w] = "putMatch"
  /\ \/ /\ etag[w] = None
        /\ Respond(w, "failed")
     \/ /\ etag[w] # None /\ etag[w] # req[w].ifMatch
        /\ Respond(w, "preconditionFailed")
     \/ /\ etag[w] # None /\ etag[w] = req[w].ifMatch
        /\ Goto(w, "lock")
        /\ UNCHANGED status
  /\ UNCHANGED <<fileVars, lock, localVars>>
-----------------------------------------------------------------------------
(***************************************************************************)
(* CopyObjectHandler up to finalizeObjectWrite.  The source is read        *)
(* without a lock: first its sidecar, then its bytes.                      *)
(***************************************************************************)
CpStat(w) ==
  LET r == req[w] IN
  /\ pc[w] = "cpStat"
  /\ \/ /\ data[r.src] = None
        /\ Respond(w, "notFound")
     \/ /\ data[r.src] # None
        /\ r.src = r.key /\ ~r.replace
        /\ Respond(w, "invalid")
     \/ /\ data[r.src] # None
        /\ r.src # r.key \/ r.replace
        /\ Goto(w, "cpMeta")
        /\ UNCHANGED status
  /\ UNCHANGED <<fileVars, lock, localVars>>

\* Mutant: a source without a sidecar is copied without the default.
CopiedUserNoDefault(r, f) == IF r.replace THEN r.user
                             ELSE IF f \in Sidecars THEN f.user ELSE None

\* buildCopyMetadata: a missing or undecodable sidecar yields the default.
WithUser(s, u) == [s EXCEPT !.user = u]

CopiedUser(r, f) == IF r.replace THEN r.user
                    ELSE IF f \in Sidecars /\ f.user # None THEN f.user
                    ELSE DefaultUser

CpMeta(w) ==
  /\ pc[w] = "cpMeta"
  /\ side' = [side EXCEPT ![w] = WithUser(NoSidecar,
                  CopiedUser(req[w], meta[req[w].src]))]
  /\ Goto(w, "cpOpen")
  /\ UNCHANGED <<fileVars, lock, req, ver, etag, back, todo, status>>

\* Mutant: a source that has gone is waited for.
CpOpenWaiting(w) ==
  /\ pc[w] = "cpOpen"
  /\ IF data[req[w].src] = None
     THEN UNCHANGED <<pc, ver>>
     ELSE /\ ver' = [ver EXCEPT ![w] = [body |-> data[req[w].src].body,
                                        user |-> side[w].user]]
          /\ Goto(w, "lock")
  /\ UNCHANGED <<fileVars, lock, req, side, etag, back, todo, status>>

\* The open descriptor keeps the bytes: files are replaced, never rewritten.
CpOpen(w) ==
  LET d == data[req[w].src] IN
  /\ pc[w] = "cpOpen"
  /\ \/ /\ d = None
        /\ Respond(w, "failed")
        /\ UNCHANGED ver
     \/ /\ d # None
        /\ ver' = [ver EXCEPT ![w] = [body |-> d.body, user |-> side[w].user]]
        /\ Goto(w, "lock")
        /\ UNCHANGED status
  /\ UNCHANGED <<fileVars, lock, req, side, etag, back, todo>>
-----------------------------------------------------------------------------
\* Mutant: the stripe is taken without waiting for its holder.
LockWithoutWaiting(w) ==
  /\ pc[w] = "lock"
  /\ lock' = [lock EXCEPT ![Stripe[Key(w)]] = w]
  /\ Goto(w, IF req[w].op = "delete" THEN "delData" ELSE "mkdir")
  /\ UNCHANGED <<fileVars, localVars, status>>

\* lockObjectPath, called by finalizeObjectWrite and by removeObject.
Lock(w) ==
  /\ pc[w] = "lock"
  /\ lock[Stripe[Key(w)]] = NoWorker
  /\ lock' = [lock EXCEPT ![Stripe[Key(w)]] = w]
  /\ Goto(w, IF req[w].op = "delete" THEN "delData" ELSE "mkdir")
  /\ UNCHANGED <<fileVars, localVars, status>>

\* Mutant: an early return without the deferred unlock.
FailKeepingLock(w) == Respond(w, "failed") /\ UNCHANGED lock

\* An error return of finalizeObjectWrite or removeObject.
Fail(w) == Unlock(w) /\ Respond(w, "failed")

(***************************************************************************)
(* finalizeObjectWrite with the stripe held.                               *)
(***************************************************************************)
Mkdir(w) ==
  /\ pc[w] = "mkdir"
  /\ \/ /\ dirs' = dirs \cup {Root, Dir[Key(w)]}
        /\ Goto(w, "stage")
        /\ UNCHANGED <<lock, status>>
     \/ /\ DiskFaults
        /\ Fail(w)
        /\ UNCHANGED dirs
  /\ UNCHANGED <<data, meta, metaTmp, metaFd, tmpFd, temps, bacl, localVars>>

\* os.CreateTemp: a concurrent delete may have removed the directory again.
Stage(w) ==
  /\ pc[w] = "stage"
  /\ \/ /\ Dir[Key(w)] \in dirs
        /\ temps' = temps \cup {<<Key(w), w>>}
        /\ Goto(w, "rename")
        /\ UNCHANGED <<lock, status>>
     \/ /\ Dir[Key(w)] \notin dirs \/ DiskFaults
        /\ Fail(w)
        /\ UNCHANGED temps
  /\ UNCHANGED <<data, meta, metaTmp, metaFd, tmpFd, dirs, bacl, localVars>>

\* The body has been copied (and synced); the temp file replaces the object.
Rename(w) ==
  /\ pc[w] = "rename"
  /\ <<Key(w), w>> \in temps
  /\ temps' = temps \ {<<Key(w), w>>}
  /\ data' = [data EXCEPT ![Key(w)] = ver[w]]
  /\ Goto(w, "metaTrunc")
  /\ UNCHANGED <<meta, metaTmp, metaFd, tmpFd, dirs, bacl, lock, localVars, status>>

\* Mutant: the deferred os.Remove of the temp file is missing.
StreamFailsKeepingTemp(w) ==
  /\ pc[w] = "rename"
  /\ Fail(w)
  /\ UNCHANGED <<fileVars, localVars>>

\* The client went away, or the rename found no temp file: it is cleaned up.
StreamFails(w) ==
  /\ pc[w] = "rename"
  /\ temps' = temps \ {<<Key(w), w>>}
  /\ Fail(w)
  /\ UNCHANGED <<data, meta, metaTmp, metaFd, tmpFd, dirs, bacl, localVars>>

\* Mutant: a sidecar that is there already is kept.
MetaTruncKeeping(w) ==
  /\ pc[w] = "metaTrunc"
  /\ \/ /\ Dir[Key(w)] \in dirs /\ meta[Key(w)] = None
        /\ TruncateMeta(w, Key(w))
        /\ Goto(w, "metaWrite")
        /\ UNCHANGED <<lock, status>>
     \/ /\ meta[Key(w)] # None
        /\ Unlock(w)
        /\ Respond(w, "ok")
        /\ UNCHANGED <<meta, metaFd>>
  /\ UNCHANGED <<data, metaTmp, tmpFd, temps, dirs, bacl, localVars>>

\* fsyncDir and the opening half of os.WriteFile(".meta").
MetaTrunc(w) ==
  /\ pc[w] = "metaTrunc"
  /\ \/ /\ Dir[Key(w)] \in dirs
        /\ TruncateMeta(w, Key(w))
        /\ Goto(w, "metaWrite")
        /\ UNCHANGED <<lock, status>>
     \/ /\ Dir[Key(w)] \notin dirs \/ DiskFaults
        /\ Fail(w)
        /\ UNCHANGED <<meta, metaFd>>
  /\ UNCHANGED <<data, metaTmp, tmpFd, temps, dirs, bacl, localVars>>

NewSidecar(w) == [etag |-> ETagOf(ver[w].body), user |-> ver[w].user,
                  acl |-> req[w].acl]

MetaWrite(w) ==
  /\ pc[w] = "metaWrite"
  /\ \/ /\ FillMeta(w, Key(w), NewSidecar(w))
        /\ Unlock(w)
        /\ Respond(w, "ok")
     \/ /\ DiskFaults
        /\ metaFd' = [metaFd EXCEPT ![Key(w)] = @ \ {w}]
        /\ Fail(w)
        /\ UNCHANGED meta
  /\ UNCHANGED <<data, metaTmp, tmpFd, temps, dirs, bacl, localVars>>
-----------------------------------------------------------------------------
(***************************************************************************)
(* removeObject with the stripe held: data file, sidecar, then the parent  *)
(* directory if that left it empty (never the bucket directory).           *)
(***************************************************************************)
\* Mutant: an object that cannot be removed is reported as removed.
DelDataIgnored(w) ==
  /\ pc[w] = "delData"
  /\ Unlock(w)
  /\ Respond(w, "ok")
  /\ UNCHANGED <<fileVars, localVars>>

DelData(w) ==
  /\ pc[w] = "delData"
  /\ \/ /\ data' = [data EXCEPT ![Key(w)] = None]
        /\ Goto(w, "delMeta")
        /\ UNCHANGED <<lock, status>>
     \/ /\ DiskFaults
        /\ Fail(w)
        /\ UNCHANGED data
  /\ UNCHANGED <<meta, metaTmp, metaFd, tmpFd, temps, dirs, bacl, localVars>>

\* Mutant: the sidecar outlives its object.
DelMetaSkipped(w) ==
  /\ pc[w] = "delMeta"
  /\ Goto(w, "delDirs")
  /\ UNCHANGED <<fileVars, lock, localVars, status>>

\* Best effort: a failure to remove the sidecar is ignored.
DelMeta(w) ==
  /\ pc[w] = "delMeta"
  /\ \/ /\ meta' = [meta EXCEPT ![Key(w)] = None]
        /\ metaFd' = [metaFd EXCEPT ![Key(w)] = {}]
     \/ /\ DiskFaults
        /\ UNCHANGED <<meta, metaFd>>
  /\ Goto(w, "delDirs")
  /\ UNCHANGED <<data, metaTmp, tmpFd, temps, dirs, bacl, lock, localVars, status>>

Collapsed(d) == IF d # Root /\ FilesIn(d) = {} THEN dirs \ {d} ELSE dirs

DelDirs(w) ==
  /\ pc[w] = "delDirs"
  /\ dirs' = Collapsed(Dir[Key(w)])
  /\ Unlock(w)
  /\ Respond(w, "ok")
  /\ UNCHANGED <<data, meta, metaTmp, metaFd, tmpFd, temps, bacl, localVars>>
-----------------------------------------------------------------------------
(***************************************************************************)
(* DownloadObjectHandler and GetObjectMetadataHandler: no lock.            *)
(***************************************************************************)
GetStat(w) ==
  /\ pc[w] = "getStat"
  /\ \/ /\ data[Key(w)] = None
        /\ Respond(w, "notFound")
        /\ UNCHANGED back
     \/ /\ data[Key(w)] # None
        /\ CallBackfill(w, "getTag")
        /\ UNCHANGED status
  /\ UNCHANGED <<fileVars, lock, req, ver, side, etag, todo>>

GetTag(w) ==
  /\ pc[w] = "getTag"
  /\ \/ /\ etag[w] = None
        /\ Respond(w, "failed")
     \/ /\ etag[w] # None
        /\ Goto(w, "getMeta")
        /\ UNCHANGED status
  /\ UNCHANGED <<fileVars, lock, localVars>>

\* The headers come from a second read of the sidecar, if it decodes.
GetMeta(w) ==
  LET f == meta[Key(w)] IN
  /\ pc[w] = "getMeta"
  /\ side' = [side EXCEPT ![w] = IF f \in Sidecars THEN f ELSE NoSidecar]
  /\ Goto(w, "getOpen")
  /\ UNCHANGED <<fileVars, lock, req, ver, etag, back, todo, status>>

GetOpen(w) ==
  LET d == data[Key(w)] IN
  /\ pc[w] = "getOpen"
  /\ ver' = [ver EXCEPT ![w] = d]
  /\ Respond(w, IF d = None THEN "failed" ELSE "ok")
  /\ UNCHANGED <<fileVars, lock, req, side, etag, back, todo>>

HeadMeta(w) ==
  LET f == meta[Key(w)] IN
  /\ pc[w] = "headMeta"
  /\ \/ /\ f = None
        /\ Respond(w, "notFound")
        /\ UNCHANGED <<side, etag, back>>
     \/ /\ f = Torn
        /\ Respond(w, "failed")
        /\ UNCHANGED <<side, etag, back>>
     \/ /\ f \in Sidecars /\ f.etag # None
        /\ side' = [side EXCEPT ![w] = f]
        /\ etag' = [etag EXCEPT ![w] = f.etag]
        /\ Respond(w, "ok")
        /\ UNCHANGED back
     \/ /\ f \in Sidecars /\ f.etag = None
        /\ CallBackfill(w, "headTag")
        /\ UNCHANGED <<side, etag, status>>
  /\ UNCHANGED <<fileVars, lock, req, ver, todo>>

HeadTag(w) ==
  /\ pc[w] = "headTag"
  /\ Respond(w, IF etag[w] = None THEN "failed" ELSE "ok")
  /\ UNCHANGED <<fileVars, lock, localVars>>
-----------------------------------------------------------------------------
(***************************************************************************)
(* PutObjectACLHandler and SetObjectACL: read the sidecar, change its acl, *)
(* write "<file>.meta.tmp", rename it over the sidecar; no lock, and one   *)
(* temporary name for all writers of a key.                                *)
(***************************************************************************)
AclStat(w) ==
  /\ pc[w] = "aclStat"
  /\ \/ /\ data[Key(w)] = None
        /\ Respond(w, "notFound")
     \/ /\ data[Key(w)] # None
        /\ Goto(w, "aclRead")
        /\ UNCHANGED status
  /\ UNCHANGED <<fileVars, lock, localVars>>

\* Every other key of the sidecar is preserved.
AclSidecar(f, a) == [(IF f = None THEN NoSidecar ELSE f) EXCEPT !.acl = a]

AclRead(w) ==
  LET f == meta[Key(w)] IN
  /\ pc[w] = "aclRead"
  /\ \/ /\ f = Torn
        /\ Respond(w, "failed")
        /\ UNCHANGED side
     \/ /\ f # Torn
        /\ side' = [side EXCEPT ![w] = AclSidecar(f, req[w].acl)]
        /\ Goto(w, "aclTrunc")
        /\ UNCHANGED status
  /\ UNCHANGED <<fileVars, lock, req, ver, etag, back, todo>>

AclTrunc(w) ==
  /\ pc[w] = "aclTrunc"
  /\ \/ /\ Dir[Key(w)] \in dirs
        /\ metaTmp' = [metaTmp EXCEPT ![Key(w)] = Torn]
        /\ tmpFd' = [tmpFd EXCEPT ![Key(w)] = @ \cup {w}]
        /\ Goto(w, "aclWrite")
        /\ UNCHANGED status
     \/ /\ Dir[Key(w)] \notin dirs \/ DiskFaults
        /\ Respond(w, "failed")
        /\ UNCHANGED <<metaTmp, tmpFd>>
  /\ UNCHANGED <<data, meta, metaFd, temps, dirs, bacl, lock, localVars>>

\* The file opened above may meanwhile have become the sidecar itself.
AclWrite(w) ==
  LET k == Key(w) IN
  /\ pc[w] = "aclWrite"
  /\ \/ /\ IF w \in tmpFd[k]
           THEN \E f \in Overwritten(metaTmp[k], side[w]) :
                   metaTmp' = [metaTmp EXCEPT ![k] = f]
           ELSE UNCHANGED metaTmp
        /\ IF w \in metaFd[k]
           THEN \E f \in Overwritten(meta[k], side[w]) :
                   meta' = [meta EXCEPT ![k] = f]
           ELSE UNCHANGED meta
        /\ Goto(w, "aclRename")
        /\ UNCHANGED status
     \/ /\ DiskFaults
        /\ Respond(w, "failed")
        /\ UNCHANGED <<meta, metaTmp>>
  /\ tmpFd' = [tmpFd EXCEPT ![k] = @ \ {w}]
  /\ metaFd' = [metaFd EXCEPT ![k] = @ \ {w}]
  /\ UNCHANGED <<data, temps, dirs, bacl, lock, localVars>>

AclRename(w) ==
  LET k == Key(w) IN
  /\ pc[w] = "aclRename"
  /\ \/ /\ metaTmp[k] # None
        /\ meta' = [meta EXCEPT ![k] = metaTmp[k]]
        /\ metaFd' = [metaFd EXCEPT ![k] = tmpFd[k]]
        /\ metaTmp' = [metaTmp EXCEPT ![k] = None]
        /\ tmpFd' = [tmpFd EXCEPT ![k] = {}]
        /\ Respond(w, "ok")
     \/ /\ metaTmp[k] = None
        /\ Respond(w, "failed")
        /\ UNCHANGED <<meta, metaFd, metaTmp, tmpFd>>
  /\ UNCHANGED <<data, temps, dirs, bacl, lock, localVars>>
-----------------------------------------------------------------------------
(***************************************************************************)
(* CreateBucketHandler: the ACL header is looked at after the directory    *)
(* has been made.                                                          *)
(***************************************************************************)
CbStat(w) ==
  /\ pc[w] = "cbStat"
  /\ IF Root \in dirs
     THEN Respond(w, "conflict")
     ELSE Goto(w, "cbMkdir") /\ UNCHANGED status
  /\ UNCHANGED <<fileVars, lock, localVars>>

CbMkdir(w) ==
  /\ pc[w] = "cbMkdir"
  /\ \/ /\ dirs' = dirs \cup {Root}
        /\ \/ /\ req[w].acl = None
              /\ Respond(w, "ok")
           \/ /\ req[w].acl = "bad"
              /\ Respond(w, "invalid")
           \/ /\ req[w].acl \in ACLs
              /\ Goto(w, "cbAcl")
              /\ UNCHANGED status
     \/ /\ DiskFaults
        /\ Respond(w, "failed")
        /\ UNCHANGED dirs
  /\ UNCHANGED <<data, meta, metaTmp, metaFd, tmpFd, temps, bacl, lock, localVars>>

\* PutBucketACL: the bucket directory must still exist.  The write of its own
\* temporary file and the rename are one step here.
PutBucketACL(w) ==
  \/ /\ Root \in dirs
     /\ bacl' = req[w].acl
     /\ Respond(w, "ok")
  \/ /\ Root \notin dirs \/ DiskFaults
     /\ Respond(w, "failed")
     /\ UNCHANGED bacl

CbAcl(w) ==
  /\ pc[w] = "cbAcl"
  /\ PutBucketACL(w)
  /\ UNCHANGED <<data, meta, metaTmp, metaFd, tmpFd, temps, dirs, lock, localVars>>

\* PutBucketACLHandler
BaStat(w) ==
  /\ pc[w] = "baStat"
  /\ IF Root \in dirs
     THEN Goto(w, "cbAcl") /\ UNCHANGED status
     ELSE Respond(w, "notFound")
  /\ UNCHANGED <<fileVars, lock, localVars>>

(***************************************************************************)
(* DeleteBucketHandler: bucketIsEmpty, then os.RemoveAll, which reads the  *)
(* directory and removes what it read, one file at a time; the directory   *)
(* itself goes only if nothing was added meanwhile.                        *)
(***************************************************************************)
DbStat(w) ==
  /\ pc[w] = "dbStat"
  /\ IF Root \in dirs
     THEN Goto(w, "dbCheck") /\ UNCHANGED status
     ELSE Respond(w, "notFound")
  /\ UNCHANGED <<fileVars, lock, localVars>>

\* isSidecar knows ".meta" but neither ".meta.tmp" nor ".upload-*".
BucketIsEmpty == \A e \in AllFiles : e[1] = "meta"

\* Mutant: whatever is in the bucket goes with it.
DbCheckRemovingAll(w) ==
  /\ pc[w] = "dbCheck"
  /\ data' = [k \in Keys |-> None]
  /\ meta' = [k \in Keys |-> None]
  /\ dirs' = {}
  /\ bacl' = None
  /\ Respond(w, "ok")
  /\ UNCHANGED <<metaTmp, metaFd, tmpFd, temps, lock, localVars>>

DbCheck(w) ==
  /\ pc[w] = "dbCheck"
  /\ \/ /\ Root \notin dirs
        /\ Respond(w, "failed")
     \/ /\ Root \in dirs /\ ~BucketIsEmpty
        /\ Respond(w, "conflict")
     \/ /\ Root \in dirs /\ BucketIsEmpty
        /\ Goto(w, "dbScan")
        /\ UNCHANGED status
  /\ UNCHANGED <<fileVars, lock, localVars>>

DbScan(w) ==
  /\ pc[w] = "dbScan"
  /\ todo' = [todo EXCEPT ![w] = AllFiles \cup ({"dir"} \X dirs)]
  /\ Goto(w, "dbRemove")
  /\ UNCHANGED <<fileVars, lock, req, ver, side, etag, back, status>>

Unlink(f, kind, e, gone) == IF e[1] = kind THEN [f EXCEPT ![e[2]] = gone] ELSE f

DbRemove(w) ==
  /\ pc[w] = "dbRemove"
  /\ \E e \in todo[w] \cap Entries :
       /\ todo' = [todo EXCEPT ![w] = @ \ {e}]
       /\ data' = Unlink(data, "data", e, None)
       /\ meta' = Unlink(meta, "meta", e, None)
       /\ metaFd' = Unlink(metaFd, "meta", e, {})
       /\ metaTmp' = Unlink(metaTmp, "metaTmp", e, None)
       /\ tmpFd' = Unlink(tmpFd, "metaTmp", e, {})
       /\ temps' = IF e[1] = "temp" THEN {t \in temps : t[1] # e[2]} ELSE temps
  /\ UNCHANGED <<dirs, bacl, lock, pc, req, ver, side, etag, back, status>>

DbFinish(w) ==
  LET emptied == {d \in dirs : <<"dir", d>> \in todo[w] /\ FilesIn(d) = {}}
      rest == dirs \ (emptied \ {Root})
  IN
  /\ pc[w] = "dbRemove"
  /\ todo[w] \cap Entries = {}
  /\ bacl' = None
  /\ IF rest \subseteq {Root} /\ FilesIn(Root) = {}
     THEN dirs' = {} /\ Respond(w, "ok")
     ELSE dirs' = rest /\ Respond(w, "failed")
  /\ UNCHANGED <<data, meta, metaTmp, metaFd, tmpFd, temps, lock, localVars>>

\* os.RemoveAll gives up on the first entry it cannot remove.
DbFails(w) ==
  /\ pc[w] = "dbRemove"
  /\ DiskFaults
  /\ Respond(w, "failed")
  /\ UNCHANGED <<fileVars, lock, localVars>>
-----------------------------------------------------------------------------
(***************************************************************************)
(* The process is killed and started again: files stay, memory is lost,    *)
(* staged uploads lose their owner.  No start-up code removes them.        *)
(***************************************************************************)
Crash ==
  /\ Crashes
  /\ pc # [w \in Workers |-> "idle"]
  /\ temps' = {<<t[1], NoWorker>> : t \in temps}
  /\ metaFd' = [k \in Keys |-> {}]
  /\ tmpFd' = [k \in Keys |-> {}]
  /\ lock' = [s \in Stripes |-> NoWorker]
  /\ pc' = [w \in Workers |-> "idle"]
  /\ req' = [w \in Workers |-> NoRequest]
  /\ ver' = [w \in Workers |-> None]
  /\ side' = [w \in Workers |-> None]
  /\ etag' = [w \in Workers |-> None]
  /\ back' = [w \in Workers |-> "done"]
  /\ todo' = [w \in Workers |-> {}]
  /\ status' = [w \in Workers |-> "none"]
  /\ UNCHANGED <<data, meta, metaTmp, dirs, bacl>>

Serve(w) == \/ BfRead(w) \/ BfHash(w) \/ BfTrunc(w) \/ BfWrite(w)
            \/ GetStat(w) \/ GetTag(w) \/ GetMeta(w) \/ GetOpen(w)
            \/ HeadMeta(w) \/ HeadTag(w)
Write(w) == \/ PutStat(w) \/ PutNone(w) \/ PutMatch(w)
            \/ CpStat(w) \/ CpMeta(w) \/ CpOpen(w)
            \/ Mkdir(w) \/ Stage(w) \/ Rename(w) \/ StreamFails(w)
            \/ MetaTrunc(w) \/ MetaWrite(w)
Remove(w) == DelData(w) \/ DelMeta(w) \/ DelDirs(w)
SetACL(w) == \/ AclStat(w) \/ AclRead(w) \/ AclTrunc(w) \/ AclWrite(w)
             \/ AclRename(w)
Bucket(w) == \/ CbStat(w) \/ CbMkdir(w) \/ CbAcl(w) \/ BaStat(w)
             \/ DbStat(w) \/ DbCheck(w) \/ DbScan(w) \/ DbRemove(w)
             \/ DbFinish(w) \/ DbFails(w)

\* Every step of a handler that does not wait for anyone.
Step(w) == Serve(w) \/ Write(w) \/ Remove(w) \/ SetACL(w) \/ Bucket(w) \/ Finish(w)

Next == \/ \E w \in Workers : Start(w) \/ Lock(w) \/ Step(w)
        \/ Crash

Spec == Init /\ [][Next]_vars

(***************************************************************************)
(* The Go scheduler runs every runnable goroutine, and a sync.Mutex hands  *)
(* over to a starving waiter after 1 ms, so a mutex that is released again *)
(* and again is eventually obtained.  Clients need not send requests.      *)
(***************************************************************************)
Fairness == \A w \in Workers : WF_vars(Step(w)) /\ SF_vars(Lock(w))
FairSpec == Spec /\ Fairness
-----------------------------------------------------------------------------
(***************************************************************************)
(*                               Properties                                *)
(***************************************************************************)
\* Every variable has its type.
TypeOK ==
  /\ data \in [Keys -> Versions \cup {None}]
  /\ meta \in [Keys -> MetaFiles]
  /\ metaTmp \in [Keys -> MetaFiles]
  /\ metaFd \in [Keys -> SUBSET Workers]
  /\ tmpFd \in [Keys -> SUBSET Workers]
  /\ temps \subseteq Keys \X (Workers \cup {NoWorker})
  /\ dirs \subseteq Dirs
  /\ bacl \in ACLs \cup {None}
  /\ lock \in [Stripes -> Workers \cup {NoWorker}]
  /\ pc \in [Workers -> PCs]
  /\ req \in [Workers -> Requests]
  /\ ver \in [Workers -> Versions \cup {None}]
  /\ side \in [Workers -> Sidecars \cup {None}]
  /\ etag \in [Workers -> ETags \cup {None}]
  /\ back \in [Workers -> {"done", "putNone", "putMatch", "getTag", "headTag"}]
  /\ todo \in [Workers -> SUBSET (Entries \cup SubDirs)]
  /\ status \in [Workers -> Statuses]

(***************************************************************************)
(* A stripe is held exactly by the request that is inside                  *)
(* finalizeObjectWrite or removeObject for one of its keys: no two such    *)
(* requests share a stripe, and no error path leaves a stripe locked.      *)
(***************************************************************************)
LockDiscipline ==
  \A s \in Stripes, w \in Workers :
    lock[s] = w <=> pc[w] \in InCritical /\ Stripe[Key(w)] = s

\* The data file and the sidecar of a key belong to the same upload.
PairOK(k) ==
  IF data[k] = None
  THEN meta[k] = None
  ELSE /\ meta[k] \in Sidecars
       /\ meta[k].etag = ETagOf(data[k].body)
       /\ meta[k].user = data[k].user

(***************************************************************************)
(* handlers/locks.go: mutations of one object are serialized "so its data  *)
(* file and .meta sidecar are always updated as a consistent pair".        *)
(* Whenever no mutation of the key is under way the two belong together.   *)
(***************************************************************************)
ConsistentPair ==
  \A k \in Keys : lock[Stripe[k]] = NoWorker => PairOK(k)

(***************************************************************************)
(* The same, asked only when no request at all is being served.            *)
(***************************************************************************)
SettledPair == (\A w \in Workers : pc[w] = "idle") => \A k \in Keys : PairOK(k)

(***************************************************************************)
(* The point of sharing the stripe between PUT and DELETE: while a PUT is  *)
(* between its rename and its sidecar, the data file is the one it renamed *)
(* (or gone, if the bucket is being deleted), and after a DELETE's first   *)
(* removal there is no data file.                                          *)
(***************************************************************************)
PublishedAlone ==
  \A w \in Workers :
    /\ pc[w] \in {"metaTrunc", "metaWrite"} => data[Key(w)] \in {ver[w], None}
    /\ pc[w] \in {"delMeta", "delDirs"} => data[Key(w)] = None

(***************************************************************************)
(* Files only exist in directories that exist: neither the collapse of     *)
(* empty directories in removeObject nor os.RemoveAll takes a directory    *)
(* from under a file, and a failed upload leaves no staged bytes behind:   *)
(* every .upload-* file belongs to an upload that is about to rename it,   *)
(* or to a process that was killed.                                        *)
(***************************************************************************)
FilesHaveHomes ==
  /\ \A k \in Keys : FilesOf(k) # {} => {Root, Dir[k]} \subseteq dirs
  /\ dirs # {} => Root \in dirs
  /\ \A t \in temps :
       t[2] # NoWorker => pc[t[2]] = "rename" /\ Key(t[2]) = t[1]

(***************************************************************************)
(* README: PUT honours "If-None-Match: * (create-only) and If-Match:       *)
(* <etag> (overwrite-only-if-unchanged) for optimistic concurrency".  When *)
(* a conditional PUT replaces the data file its precondition holds.        *)
(***************************************************************************)
PreconditionHolds ==
  [][\A w \in Workers :
       pc[w] = "rename" /\ pc'[w] = "metaTrunc" =>
         /\ req[w].ifNone = Star => data[Key(w)] = None
         /\ req[w].ifMatch # None =>
              /\ data[Key(w)] # None
              /\ ETagOf(data[Key(w)].body) = req[w].ifMatch]_vars

(***************************************************************************)
(* bucket.go: DeleteBucket refuses "to delete a non-empty bucket"; before, *)
(* RemoveAll "made data loss one misclick away".  Deleting a bucket never  *)
(* removes an object.                                                      *)
(***************************************************************************)
BucketDeleteKeepsObjects ==
  [][\A w \in Workers :
       /\ pc[w] \in {"dbStat", "dbCheck", "dbScan", "dbRemove"}
       /\ pc'[w] # pc[w] \/ todo'[w] # todo[w]
       => data' = data]_vars

(***************************************************************************)
(* Every request is answered: the stripe locks cannot deadlock or be       *)
(* leaked by an early return.                                              *)
(***************************************************************************)
EveryRequestAnswered ==
  \A w \in Workers : pc[w] # "idle" ~> pc[w] = "idle"
====
