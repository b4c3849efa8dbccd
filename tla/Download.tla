------------------------------ MODULE Download ------------------------------
(***************************************************************************)
(* GET of an object once AuthMiddleware let it in: DownloadObjectHandler   *)
(* looks at the file, reads the ETag from the sidecar, judges the          *)
(* preconditions and the Range header by what it saw, opens the file and   *)
(* leaves the slice to http.ServeContent.  It takes no lock: an overwrite  *)
(* may come between any two of these.  What a version holds is its         *)
(* identity, its size and its time; a slice is an offset and a length.     *)
(* (An object without a stored ETag is not served here: ObjectStore has    *)
(* the backfill that writes one.)                                          *)
(***************************************************************************)
EXTENDS Access

CONSTANTS
  MaxInt,    \* the largest number strconv.ParseInt takes
  AnyTag     \* "*" in If-Match and If-None-Match

Methods == {"GET", "HEAD", "PUT", "DELETE", "POST"}
Ranges == [form : {"none", "other", "suffix", "from", "span"}, first : Nat, last : Nat]
TagLists == SUBSET (Nat \cup {AnyTag}) \cup {None}
Dates == Nat \cup {None}

\* A request for the storage surface, with its credentials and its conditions.
Fetches ==
  [op : {"fetch"}, method : Methods, bucket : {Bucket, None}, object : BOOLEAN,
   subresource : BOOLEAN, cred : {"none", "header", "link"}, user : AccessKeys \cup {None},
   right : {"yes", "no", "altered"}, date : Nat, expires : Nat,
   ifMatch : TagLists, ifUnmodified : Dates, ifNoneMatch : TagLists, ifModified : Dates,
   ifRange : Nat \cup {None}, range : Ranges]

\* The size of a file is a number of the same kind.
Held == {v \in Version : v.size <= MaxInt}

ASSUME DownloadAssumption ==
  /\ MaxInt \in Nat
  /\ \A s \in Scenarios : Stored[s] \in Held \cup {None}
  /\ \A s \in Scenarios, w \in Workers : \A r \in Jobs[s][w] : r.op = "upload" => r.version \in Held
  /\ \A s \in Scenarios, w \in Workers : \A r \in Jobs[s][w] : r.op = "fetch" => r \in Fetches
  /\ None \notin Nat

VARIABLES
  info,      \* what a worker saw: the version it looked at and the ETag it read
  seen       \* history: versions in force since the request came, and Torn
             \* if the sidecar was not that of the data file

NothingSeen == [stat |-> None, etag |-> None]

DownloadInit ==
  /\ Init
  /\ AccessInit
  /\ info = [w \in Workers |-> NothingSeen]
  /\ seen = [w \in Workers |-> {}]

Downloads(r) == r.op = "fetch" /\ r.method = "GET" /\ r.object /\ ~r.subresource
-----------------------------------------------------------------------------
EtagMatches(tags, etag) == AnyTag \in tags \/ etag \in tags

\* Mutant: the sub-second part of the file's time counts.
EvaluateGetConditionalExact(r, etag, mtime) ==
  LET failed == IF r.ifMatch # None THEN ~EtagMatches(r.ifMatch, etag)
                ELSE r.ifUnmodified # None /\ mtime > r.ifUnmodified
      fresh == IF r.ifNoneMatch # None THEN EtagMatches(r.ifNoneMatch, etag)
               ELSE r.ifModified # None /\ mtime <= r.ifModified
  IN CASE failed -> "preconditionFailed"
       [] ~failed /\ fresh -> "notModified"
       [] ~failed /\ ~fresh -> "serve"

\* Only If-Modified-Since is compared in whole seconds.
EvaluateGetConditional(r, etag, mtime) ==
  LET failed == IF r.ifMatch # None THEN ~EtagMatches(r.ifMatch, etag)
                ELSE r.ifUnmodified # None /\ mtime > r.ifUnmodified
      fresh == IF r.ifNoneMatch # None THEN EtagMatches(r.ifNoneMatch, etag)
               ELSE r.ifModified # None /\ mtime - (mtime % 2) <= r.ifModified
  IN CASE failed -> "preconditionFailed"
       [] ~failed /\ fresh -> "notModified"
       [] ~failed /\ ~fresh -> "serve"

(***************************************************************************)
(* A Range header is absent, not understood ("other": another unit,        *)
(* several ranges, not a number), or one of bytes=-n, bytes=a-, bytes=a-b. *)
(***************************************************************************)
ClassifySuffixRange(n, size) ==
  CASE n > MaxInt \/ n = 0 -> "ignore"
    [] n \in 1 .. MaxInt /\ size = 0 -> "unsatisfiable"
    [] OTHER -> "satisfiable"

ClassifyOffsetRange(g, size) ==
  CASE g.first > MaxInt \/ g.first >= size -> "unsatisfiable"
    [] g.first <= MaxInt /\ g.first < size /\ g.form = "span"
         /\ (g.last > MaxInt \/ g.last < g.first) -> "ignore"
    [] OTHER -> "satisfiable"

ClassifyRange(g, size) ==
  CASE g.form \in {"none", "other"} -> "ignore"
    [] g.form = "suffix" -> ClassifySuffixRange(g.last, size)
    [] g.form \in {"from", "span"} -> ClassifyOffsetRange(g, size)

Whole(v) == [status |-> "ok", version |-> v.id, offset |-> 0, length |-> v.size]
Slice(v, from, len) ==
  [status |-> "partial", version |-> v.id, offset |-> from, length |-> len]
Beyond == [status |-> "unsatisfiable"]

\* http.ServeContent, with a Range header that ClassifyRange left in place.
ServeContent(r, etag, v) ==
  LET g == r.range
      last == IF g.form = "span" /\ g.last < v.size THEN g.last ELSE v.size - 1
      tail == IF g.last > v.size THEN v.size ELSE g.last
  IN CASE r.ifRange # None /\ r.ifRange # etag -> Whole(v)
       [] (r.ifRange = None \/ r.ifRange = etag) /\ g.form = "suffix" ->
            Slice(v, v.size - tail, tail)
       [] OTHER ->
            CASE g.first < v.size -> Slice(v, g.first, last - g.first + 1)
              [] g.first >= v.size /\ v.size = 0 -> Whole(v)
              [] g.first >= v.size /\ v.size > 0 -> Beyond
-----------------------------------------------------------------------------
quiet == <<scenario, docVars, req, fd, history, accountVars, who>>
Respond(w, a) == Reply(w, a) /\ info' = [info EXCEPT ![w] = NothingSeen]

\* Any other request goes to a handler of another module.
Elsewhere(w) ==
  /\ at[w] = "granted" /\ ~Downloads(req[w])
  /\ Respond(w, [status |-> "ok"])
  /\ UNCHANGED quiet

Look(w) ==
  /\ at[w] = "granted" /\ Downloads(req[w])
  /\ \/ /\ data = None
        /\ Respond(w, [status |-> "notFound"])
     \/ /\ data # None
        /\ info' = [info EXCEPT ![w].stat = data]
        /\ Goto(w, "etag")
        /\ UNCHANGED got
  /\ UNCHANGED quiet

\* loadOrBackfillETag.  Without a sidecar it hashes the data file.
LoadETag(w) ==
  LET c == Content("meta") IN
  /\ at[w] = "etag"
  /\ \/ /\ c = Torn \/ (c = None /\ data = None)
        /\ Respond(w, [status |-> "failed"])
     \/ /\ c \notin {Torn, None} /\ c.etag # None
        /\ info' = [info EXCEPT ![w].etag = c.etag]
        /\ Goto(w, "judge")
        /\ UNCHANGED got
  /\ UNCHANGED quiet

\* applyGetConditional, then the Range header.
Judge(w) ==
  LET verdict == EvaluateGetConditional(req[w], info[w].etag, info[w].stat.mtime)
      class == ClassifyRange(req[w].range, info[w].stat.size)
  IN
  /\ at[w] = "judge"
  /\ \/ /\ verdict # "serve"
        /\ Respond(w, [status |-> verdict])
     \/ /\ verdict = "serve" /\ class = "unsatisfiable"
        /\ Respond(w, Beyond)
     \/ /\ verdict = "serve" /\ class # "unsatisfiable"
        /\ Goto(w, IF class = "ignore" THEN "openWhole" ELSE "openSlice")
        /\ UNCHANGED <<got, info>>
  /\ UNCHANGED quiet

\* The descriptor keeps its version, so opening decides what is served.
OpenObject(w) ==
  /\ at[w] \in {"openWhole", "openSlice"}
  /\ Respond(w, CASE data = None -> [status |-> "failed"]
                  [] data # None /\ at[w] = "openWhole" -> Whole(data)
                  [] data # None /\ at[w] = "openSlice" ->
                       ServeContent(req[w], info[w].etag, data))
  /\ UNCHANGED quiet

DownloadStep(w) == Elsewhere(w) \/ Look(w) \/ LoadETag(w) \/ Judge(w) \/ OpenObject(w)

\* The process is killed: nothing of a worker survives, the links do.
KillAll ==
  /\ Kill
  /\ who' = [w \in Workers |-> None]
  /\ info' = [w \in Workers |-> NothingSeen]
  /\ UNCHANGED accountVars

\* The sidecar does not describe the data file: an overwrite is under way,
\* or was cut off.
Unmatched == LET c == Content("meta") IN
  data # None /\ (c \in {None, Torn} \/ c.etag # data.id)

Watch ==
  seen' = [w \in Workers |->
    CASE (at[w] \notin {"idle", "done"})' /\ Downloads(req'[w]) ->
           seen[w] \cup {data'} \cup (IF Unmatched' THEN {Torn} ELSE {})
      [] (at[w] = "idle")' -> {}
      [] OTHER -> seen[w]]

Next ==
  /\ \/ \E w \in Workers :
          \/ SidecarStep(w) /\ UNCHANGED <<accountVars, who, info>>
          \/ AccessStep(w) /\ UNCHANGED info
          \/ DownloadStep(w)
     \/ Administration /\ UNCHANGED info
     \/ KillAll
  /\ Observe
  /\ Watch

allVars == <<vars, accessVars, info, seen>>
Spec == DownloadInit /\ [][Next]_allVars
-----------------------------------------------------------------------------
(***************************************************************************)
(* The reference, from RFC 7232 and 7233 and the handler's comments: which *)
(* bytes a range denotes, position by position, and which answer a request *)
(* deserves if nothing but version v is around.                            *)
(***************************************************************************)
Denoted(g, size) ==
  {p \in 0 .. size - 1 :
     CASE g.form = "suffix" -> p + g.last >= size
       [] g.form = "from" -> p >= g.first
       [] g.form = "span" -> g.first <= p /\ p <= g.last}

\* "malformed ... ignored": numbers beyond int64, a zero suffix, b < a.
Understood(g) ==
  CASE g.form \in {"none", "other"} -> FALSE
    [] g.form = "suffix" -> g.last \in 1 .. MaxInt
    [] g.form = "from" -> TRUE
    [] g.form = "span" -> g.first <= g.last /\ g.last <= MaxInt

\* "first-byte-pos is at or beyond the object size", or the object is empty
OutOfReach(g, size) ==
  \/ g.form \in {"from", "span"} /\ g.first >= size
  \/ g.form = "suffix" /\ Understood(g) /\ size = 0

\* What the preconditions demand; dates have whole seconds.
Demanded(r, etag, mtime) ==
  LET second == mtime - (mtime % 2)
      ok == IF r.ifMatch # None THEN r.ifMatch \cap {etag, AnyTag} # {}
            ELSE r.ifUnmodified = None \/ second <= r.ifUnmodified
      changed == IF r.ifNoneMatch # None THEN r.ifNoneMatch \cap {etag, AnyTag} = {}
                 ELSE r.ifModified = None \/ r.ifModified < second
  IN CASE ~ok -> "preconditionFailed"
       [] ok /\ ~changed -> "notModified"
       [] ok /\ changed -> "serve"

Deserved(r, v) ==
  LET demanded == Demanded(r, v.id, v.mtime)
      g == r.range
  IN CASE demanded # "serve" -> demanded
       [] demanded = "serve" /\ OutOfReach(g, v.size) -> "unsatisfiable"
       [] demanded = "serve" /\ ~OutOfReach(g, v.size) ->
            IF Understood(g) /\ r.ifRange \in {None, v.id} THEN "partial" ELSE "ok"

\* The positions of v that an answer carries.
Carried(a, v) == {p \in 0 .. v.size - 1 : a.offset <= p /\ p < a.offset + a.length}

Justified(r, a, v) ==
  CASE a.status = "ok" -> a.version = v.id /\ Carried(a, v) = 0 .. v.size - 1
    [] a.status = "partial" ->
         /\ a.version = v.id /\ Understood(r.range)
         /\ Carried(a, v) = Denoted(r.range, v.size)
         /\ a.length = Cardinality(Carried(a, v))
    [] a.status = "unsatisfiable" -> OutOfReach(r.range, v.size)
    [] OTHER -> FALSE

(***************************************************************************)
(* object.go: "a failed precondition wins over a range request", "ignores  *)
(* a header it cannot understand", "can never drive ... an out-of-bounds   *)
(* seek".  A download that no overwrite touched gets the answer the RFCs   *)
(* give; one that was overtaken by overwrites still carries exactly the    *)
(* bytes its range denotes in one version that was in force since it came, *)
(* or an answer that such a version explains; one overtaken by a removal   *)
(* may fail.  A sidecar half overwritten, also by an upload that was       *)
(* killed, explains a failure, or a judgement by the old ETag.             *)
(* If-Unmodified-Since is left to versions written on a whole second.      *)
(***************************************************************************)
AnswerMatches ==
  \A w \in Workers :
    LET r == req[w]
        a == got[w]
        versions == seen[w] \ {None, Torn}
    IN /\ at[w] = "done" /\ Downloads(r)
       /\ a.status \notin {"unauthorized", "forbidden", "badRequest"}
       /\ r.ifUnmodified = None \/ \A v \in versions : v.mtime % 2 = 0
       => /\ \A v \in versions : seen[w] = {v} => a.status = Deserved(r, v)
          /\ \/ a.status \in {"notFound", "failed"} /\ None \in seen[w]
             \/ a.status \in {"failed", "preconditionFailed", "notModified"} /\ Torn \in seen[w]
             \/ /\ a.status \notin {"notFound", "failed"}
                /\ \E v \in versions : Justified(r, a, v)
             \/ \E e, v \in versions : a.status = Demanded(r, e.id, v.mtime)
=============================================================================
