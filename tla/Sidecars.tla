------------------------------ MODULE Sidecars ------------------------------
(***************************************************************************)
(* The small JSON documents kept beside a bucket and an object: the tag    *)
(* set (.tags.json), the CORS configuration (.cors.json), the bucket ACL   *)
(* (.acl.json) and, for its "acl" key, the object's .meta.  Each is        *)
(* replaced by writing "<name>.tmp" and renaming it, without a lock and    *)
(* with one temporary name for all writers; the upload of the object       *)
(* writes .meta in place.                                                  *)
(*                                                                         *)
(* Files are inodes: a name refers to one, and a reader or a writer keeps  *)
(* the one it opened.  The bucket exists throughout (ObjectStore deletes   *)
(* buckets).  XML, JSON and the limits on a document are left out: a       *)
(* document is accepted or, as Bad, refused before anything is touched.    *)
(***************************************************************************)
EXTENDS Naturals, FiniteSets, Sequences, SequencesExt

CONSTANTS
  Workers,     \* goroutines serving requests
  Scenarios,   \* names of what clients may send in one behaviour
  Jobs,        \* the requests of each scenario, and which worker gets them
  Stored,      \* the version of the object each scenario starts with, or None
  Rules,       \* the sequence of rules in each CORS configuration
  Nodes,       \* inode numbers
  Overlap,     \* TRUE: changes of one document or object may overlap
  Faulty,      \* scenarios in which writes may fail and the process be killed
  Star,        \* the wildcard character of a CORS pattern
  None, Torn, Bad

Docs == {"tags", "cors", "acl", "meta"}
Plain == Docs \ {"meta"}     \* replaced as a whole, by nothing else
Canned == {"private", "public-read"}

(***************************************************************************)
(* A version of the object; its ETag identifies it.  Time is in half       *)
(* seconds, because an HTTP date has whole seconds and a file does not.    *)
(***************************************************************************)
Version == [id : Nat, size : Nat, mtime : Nat]

\* The keys of .meta that matter: the ETag, and the ACL if there is one.
Meta(v, acl) == [etag |-> v.id, acl |-> acl]

\* Patterns, origins and methods are sequences of characters.
Text(s) == s \in Seq(Range(s))

\* What the handlers take apart; a value that is refused is Bad.
WellFormed(r) ==
  /\ r.op = "put" => /\ r = [op |-> "put", doc |-> r.doc, val |-> r.val]
                     /\ r.doc \in Docs /\ r.val # Torn
                     /\ r.doc \in {"acl", "meta"} => r.val \in Canned \cup {Bad}
                     /\ r.doc = "cors" => r.val \in DOMAIN Rules \cup {Bad}
  /\ r.op = "get" => r.doc \in Plain
  /\ r.op = "delete" => r.doc \in {"tags", "cors"}
  /\ r.op = "upload" => r.version \in Version
  /\ r.op = "preflight" => /\ r.doc = "cors" /\ r.options \in BOOLEAN /\ Text(r.origin)
                           /\ r.method = None \/ Text(r.method)

ASSUME SidecarsAssumption ==
  /\ Faulty \subseteq Scenarios /\ Scenarios \subseteq DOMAIN Jobs
  /\ Overlap \in BOOLEAN
  /\ \A s \in Scenarios : Stored[s] \in Version \cup {None}
  /\ \A s \in Scenarios, w \in Workers : \A r \in Jobs[s][w] : WellFormed(r)
  /\ \A c \in DOMAIN Rules :
       /\ Text(Rules[c])
       /\ \A rule \in Range(Rules[c]) :
            rule # None /\ \A p \in rule.origins \cup rule.methods : Text(p)
  /\ None # Torn /\ {None, Torn, Bad} \cap DOMAIN Rules = {}
  /\ None \notin Nodes /\ None \notin Canned /\ {None, Torn} \cap Version = {}

\* Mutators of a document, and of the object's own files.
Changes(r) == r.op \in {"put", "delete", "upload", "remove"}
Target(r) == IF r.op \in {"upload", "remove"} THEN "meta" ELSE r.doc

VARIABLES
  scenario,  \* what clients send in this behaviour, never changed
  data,      \* version in the data file, or None
  file,      \* inode of each document, or None
  temp,      \* inode of its temporary file, or None
  bytes,     \* contents of the inodes; Torn does not decode
  at, req,   \* where a worker is, and the request it serves
  fd,        \* the inode a worker has open, or None
  got,       \* the answer of a worker's last request
  acked,     \* history: values a read of a document may find if no change of
             \* it is under way: the last one acknowledged, and later ones
             \* that a kill cut off before their answer
  since      \* history: values in force at some time since the read began

docVars == <<data, file, temp, bytes>>
history == <<acked, since>>
vars == <<scenario, docVars, at, req, fd, got, history>>

NoRequest == [op |-> "none"]
Goto(w, p) == at' = [at EXCEPT ![w] = p]
Reply(w, a) == Goto(w, "done") /\ got' = [got EXCEPT ![w] = a]
Answer(w, s) == Reply(w, [status |-> s])

\* Inodes that a name or a descriptor refers to; the others are free.
Live == ({file[d] : d \in Docs} \cup {temp[d] : d \in Docs}
           \cup {fd[w] : w \in Workers}) \ {None}
FreeNode == CHOOSE n \in Nodes : n \notin Live

\* The contents of the inodes after the names and descriptors changed.
Contents(b) == bytes' = [n \in Nodes |-> IF n \in Live' THEN b[n] ELSE None]

\* What a name refers to.
Content(d) == IF file[d] = None THEN None ELSE bytes[file[d]]

Pending(d) == {w \in Workers : at[w] # "idle" /\ at[w] # "done"
                                 /\ Changes(req[w]) /\ Target(req[w]) = d}
Wanted(r) == IF r.op = "put" THEN r.val ELSE None
-----------------------------------------------------------------------------
FirstNode == CHOOSE n \in Nodes : TRUE

Init ==
  /\ scenario \in Scenarios
  /\ data = Stored[scenario]
  /\ file = [d \in Docs |-> IF d = "meta" /\ data # None THEN FirstNode ELSE None]
  /\ temp = [d \in Docs |-> None]
  /\ bytes = [n \in Nodes |-> IF n = file["meta"] THEN Meta(data, None) ELSE None]
  /\ at = [w \in Workers |-> "idle"]
  /\ req = [w \in Workers |-> NoRequest]
  /\ fd = [w \in Workers |-> None]
  /\ got = [w \in Workers |-> None]
  /\ acked = [d \in Plain |-> {None}]
  /\ since = [w \in Workers |-> {}]

\* The tagging handlers and PutObjectACL look for the object first.
FirstStep(r) ==
  CASE r.op = "upload" -> "publish"
    [] r.op = "remove" -> "removeData"
    [] r.op = "preflight" -> "open"
    [] r.op \in {"put", "get", "delete"} /\ r.doc \in {"tags", "meta"} -> "stat"
    [] r.op = "put" /\ r.doc \in {"cors", "acl"} -> "create"
    [] r.op = "get" /\ r.doc \in {"cors", "acl"} -> "open"
    [] r.op = "delete" /\ r.doc = "cors" -> "unlink"

(***************************************************************************)
(* A request arrives.  Unless Overlap, a client waits for the answer to    *)
(* the last change of a document before it sends another.                  *)
(***************************************************************************)
Arrive(w) ==
  /\ at[w] = "idle"
  /\ \E r \in Jobs[scenario][w] :
       /\ r.op \in {"put", "delete", "get", "upload", "remove", "preflight"}
       /\ Changes(r) /\ ~Overlap => Pending(Target(r)) = {}
       /\ req' = [req EXCEPT ![w] = r]
       /\ Goto(w, FirstStep(r))
       /\ since' =
            [v \in Workers |->
               CASE v = w /\ r.op \in {"get", "preflight"} ->
                      acked[r.doc] \cup {Wanted(req[p]) : p \in Pending(r.doc)}
                 [] v # w /\ Changes(r) /\ at[v] # "idle"
                      /\ req[v].op \in {"get", "preflight"} /\ req[v].doc = Target(r) ->
                      since[v] \cup {Wanted(r)}
                 [] OTHER -> since[v]]
  /\ UNCHANGED <<scenario, docVars, fd, got, acked>>

\* The answer has been sent.
Finish(w) ==
  /\ at[w] = "done"
  /\ Goto(w, "idle")
  /\ req' = [req EXCEPT ![w] = NoRequest]
  /\ got' = [got EXCEPT ![w] = None]
  /\ since' = [since EXCEPT ![w] = {}]
  /\ UNCHANGED <<scenario, docVars, fd, acked>>

\* resolveObjectForTagging, and the same test in PutObjectACLHandler.
Stat(w) ==
  /\ at[w] = "stat"
  /\ \/ /\ data = None
        /\ Answer(w, "noObject")
     \/ /\ data # None
        /\ Goto(w, CASE req[w].op = "get" -> "open"
                     [] req[w].op = "delete" -> "unlink"
                     [] req[w].op = "put" /\ req[w].doc = "tags" -> "create"
                     [] req[w].op = "put" /\ req[w].doc = "meta" -> "load")
        /\ UNCHANGED got
  /\ UNCHANGED <<scenario, docVars, req, fd, history>>

\* A document that does not parse or breaks a limit is refused.
Valid(r) == r.val # Bad

Refuse(w) ==
  /\ at[w] \in {"create", "load"} /\ ~Valid(req[w])
  /\ Answer(w, "invalid")
  /\ UNCHANGED <<scenario, docVars, req, fd, history>>

\* SetObjectACL keeps the other keys of .meta.
Load(w) ==
  LET c == Content("meta") IN
  /\ at[w] = "load" /\ Valid(req[w])
  /\ \/ /\ c = Torn
        /\ Answer(w, "failed")
        /\ UNCHANGED req
     \/ /\ c # Torn
        /\ req' = [req EXCEPT ![w].val =
                     IF c = None THEN [etag |-> None, acl |-> @] ELSE [c EXCEPT !.acl = req[w].val]]
        /\ Goto(w, "create")
        /\ UNCHANGED got
  /\ UNCHANGED <<scenario, docVars, fd, history>>
-----------------------------------------------------------------------------
\* Mutant: the document itself is opened for writing, not its temporary file.
CreateInPlace(w) ==
  LET d == req[w].doc
      n == IF file[d] = None THEN FreeNode ELSE file[d]
  IN
  /\ at[w] = "create" /\ Valid(req[w])
  /\ UNCHANGED <<scenario, data, req, got, history>>
  /\ file' = [file EXCEPT ![d] = n]
  /\ temp' = [temp EXCEPT ![d] = n]
  /\ fd' = [fd EXCEPT ![w] = n]
  /\ Contents([bytes EXCEPT ![n] = Torn])
  /\ Goto(w, "write")

(***************************************************************************)
(* SetObjectTags, PutBucketCORS, PutBucketACL, SetObjectACL: the first     *)
(* half of os.WriteFile makes the temporary file, or truncates the one     *)
(* another writer left or is still writing.                                *)
(***************************************************************************)
Create(w) ==
  LET d == req[w].doc
      n == IF temp[d] = None THEN FreeNode ELSE temp[d]
  IN
  /\ at[w] = "create" /\ Valid(req[w])
  /\ UNCHANGED <<scenario, data, file, req, history>>
  /\ \/ /\ temp' = [temp EXCEPT ![d] = n]
        /\ fd' = [fd EXCEPT ![w] = n]
        /\ Contents([bytes EXCEPT ![n] = Torn])
        /\ Goto(w, "write")
        /\ UNCHANGED got
     \/ /\ scenario \in Faulty
        /\ Answer(w, "failed")
        /\ UNCHANGED <<temp, bytes, fd>>

\* The other half: bytes another writer put there may stick out behind.
Write(w) ==
  LET n == fd[w] IN
  /\ at[w] = "write"
  /\ UNCHANGED <<scenario, data, file, temp, req, history>>
  /\ fd' = [fd EXCEPT ![w] = None]
  /\ \/ /\ \E c \in {req[w].val} \cup (IF bytes[n] = Torn THEN {} ELSE {Torn}) :
             Contents([bytes EXCEPT ![n] = c])
        /\ Goto(w, "rename")
        /\ UNCHANGED got
     \/ /\ scenario \in Faulty
        /\ Contents(bytes)
        /\ Answer(w, "failed")

Rename(w) ==
  LET d == req[w].doc IN
  /\ at[w] = "rename"
  /\ UNCHANGED <<scenario, data, req, fd, since>>
  /\ \/ /\ temp[d] # None
        /\ file' = [file EXCEPT ![d] = temp[d]]
        /\ temp' = [temp EXCEPT ![d] = None]
        /\ Contents(bytes)
        /\ Answer(w, "ok")
        /\ acked' = IF d \in Plain THEN [acked EXCEPT ![d] = {req[w].val}] ELSE acked
     \/ /\ temp[d] = None
        /\ Answer(w, "failed")
        /\ UNCHANGED <<file, temp, bytes, acked>>

\* To read or delete no CORS configuration is an error; to have no tags or
\* no ACL is a state like any other.
Absent(d) == IF d = "cors" THEN "notFound" ELSE "ok"

Unlink(w) ==
  LET d == req[w].doc IN
  /\ at[w] = "unlink"
  /\ UNCHANGED <<scenario, data, temp, req, fd, since>>
  /\ file' = [file EXCEPT ![d] = None]
  /\ Contents(bytes)
  /\ Answer(w, IF file[d] = None THEN Absent(d) ELSE "ok")
  /\ acked' = [acked EXCEPT ![d] = {None}]
-----------------------------------------------------------------------------
(***************************************************************************)
(* finalizeObjectWrite and removeObject, which hold the object's lock, so  *)
(* they do not overlap each other: the data file, then .meta in place.     *)
(* Neither touches .tags.json.                                             *)
(***************************************************************************)
Publish(w) ==
  /\ at[w] = "publish"
  /\ data' = req[w].version
  /\ Goto(w, "truncate")
  /\ UNCHANGED <<scenario, file, temp, bytes, req, fd, got, history>>

Truncate(w) ==
  LET n == IF file["meta"] = None THEN FreeNode ELSE file["meta"] IN
  /\ at[w] = "truncate"
  /\ UNCHANGED <<scenario, data, temp, req, got, history>>
  /\ file' = [file EXCEPT !["meta"] = n]
  /\ fd' = [fd EXCEPT ![w] = n]
  /\ Contents([bytes EXCEPT ![n] = Torn])
  /\ Goto(w, "fill")

Fill(w) ==
  /\ at[w] = "fill"
  /\ UNCHANGED <<scenario, data, file, temp, req, history>>
  /\ fd' = [fd EXCEPT ![w] = None]
  /\ Contents([bytes EXCEPT ![fd[w]] = Meta(req[w].version, req[w].acl)])
  /\ Answer(w, "ok")

RemoveData(w) ==
  /\ at[w] = "removeData"
  /\ data' = None
  /\ Goto(w, "removeMeta")
  /\ UNCHANGED <<scenario, file, temp, bytes, req, fd, got, history>>

RemoveMeta(w) ==
  /\ at[w] = "removeMeta"
  /\ UNCHANGED <<scenario, data, temp, req, fd, history>>
  /\ file' = [file EXCEPT !["meta"] = None]
  /\ Contents(bytes)
  /\ Answer(w, "ok")
-----------------------------------------------------------------------------
(***************************************************************************)
(* matchCORSRule.  A pattern and an origin are sequences of characters.    *)
(***************************************************************************)
\* Mutant: prefix and suffix may overlap in the origin.
MatchesShort(p, s) ==
  \/ p = s
  \/ \E i \in 1 .. Len(p) :
       /\ p[i] = Star /\ \A j \in 1 .. i - 1 : p[j] # Star
       /\ IsPrefix(SubSeq(p, 1, i - 1), s)
       /\ IsSuffix(SubSeq(p, i + 1, Len(p)), s)

\* matchList, for one entry: split on the first "*".
Matches(p, s) ==
  \/ p = s
  \/ \E i \in 1 .. Len(p) :
       /\ p[i] = Star /\ \A j \in 1 .. i - 1 : p[j] # Star
       /\ Len(s) >= Len(p) - 1
       /\ IsPrefix(SubSeq(p, 1, i - 1), s)
       /\ IsSuffix(SubSeq(p, i + 1, Len(p)), s)

\* headersAllowed: only a bare "*" is a wildcard.
HeadersAllowed(rule, headers) ==
  \A h \in headers : \E a \in rule.headers : a = h \/ a = <<Star>>

\* An absent Access-Control-Request-Method matches every rule.
RuleMatches(rule, r) ==
  /\ \E p \in rule.origins : Matches(p, r.origin)
  /\ r.method = None \/ \E p \in rule.methods : Matches(p, r.method)
  /\ HeadersAllowed(rule, r.headers)

MatchCORSRule(rules, r) ==
  LET hits == {i \in 1 .. Len(rules) : RuleMatches(rules[i], r)}
  IN IF hits = {} THEN None ELSE rules[CHOOSE i \in hits : \A j \in hits : i <= j]

(***************************************************************************)
(* BucketCORSMiddleware, given what it read, for a request with an Origin  *)
(* and a bucket in its path; any other has nothing to do with rules.       *)
(* A preflight that no rule allows is refused; any other request goes on   *)
(* without Access-Control headers, and so does everything when the         *)
(* configuration cannot be read.                                           *)
(***************************************************************************)
CORSAnswer(c, r) ==
  CASE c = Torn -> [status |-> "next", rule |-> None]
    [] c = None -> [status |-> IF r.options THEN "forbidden" ELSE "next", rule |-> None]
    [] OTHER ->
         LET rule == MatchCORSRule(Rules[c], r) IN
         [status |-> CASE r.options /\ rule = None -> "forbidden"
                        [] r.options /\ rule # None -> "noContent"
                        [] ~r.options -> "next",
          rule |-> rule]

\* os.ReadFile opens the document and reads it in another step.
Open(w) ==
  LET d == req[w].doc IN
  /\ at[w] = "open"
  /\ \/ /\ file[d] = None
        /\ Reply(w, IF req[w].op = "preflight" THEN CORSAnswer(None, req[w])
                    ELSE [status |-> Absent(d), found |-> None])
        /\ UNCHANGED fd
     \/ /\ file[d] # None
        /\ fd' = [fd EXCEPT ![w] = file[d]]
        /\ Goto(w, "read")
        /\ UNCHANGED got
  /\ UNCHANGED <<scenario, docVars, req, history>>

Read(w) ==
  LET c == bytes[fd[w]] IN
  /\ at[w] = "read"
  /\ UNCHANGED <<scenario, data, file, temp, req, history>>
  /\ fd' = [fd EXCEPT ![w] = None]
  /\ Contents(bytes)
  /\ Reply(w, CASE req[w].op = "preflight" -> CORSAnswer(c, req[w])
                [] req[w].op = "get" /\ c = Torn -> [status |-> "failed"]
                [] req[w].op = "get" /\ c # Torn -> [status |-> "ok", found |-> c])
-----------------------------------------------------------------------------
\* The process is killed and started again: files stay.
Kill ==
  /\ scenario \in Faulty
  /\ \E w \in Workers : at[w] \notin {"idle", "done"}
  /\ acked' = [d \in Plain |-> acked[d] \cup {Wanted(req[w]) : w \in Pending(d)}]
  /\ fd' = [w \in Workers |-> None]
  /\ at' = [w \in Workers |-> "idle"]
  /\ req' = [w \in Workers |-> NoRequest]
  /\ got' = [w \in Workers |-> None]
  /\ since' = [w \in Workers |-> {}]
  /\ UNCHANGED <<scenario, data, file, temp>>
  /\ Contents(bytes)

SidecarStep(w) ==
  \/ Arrive(w) \/ Finish(w) \/ Stat(w) \/ Refuse(w) \/ Load(w) \/ Create(w) \/ Write(w) \/ Rename(w)
  \/ Unlink(w) \/ Publish(w) \/ Truncate(w) \/ Fill(w) \/ RemoveData(w) \/ RemoveMeta(w)
  \/ Open(w) \/ Read(w)
SidecarNext == Kill \/ \E w \in Workers : SidecarStep(w)
-----------------------------------------------------------------------------
(***************************************************************************)
(*                               Properties                                *)
(***************************************************************************)
(***************************************************************************)
(* bucket_cors.go: "Write via temp + rename so a crashed write never       *)
(* leaves a partially truncated config file that would fail to parse on    *)
(* the next request".  Read at any step of a concurrent change, after a    *)
(* write that failed or after a kill, a document decodes, and is one that  *)
(* was in force at some time since the read began: the last one            *)
(* acknowledged, or one whose change was under way.  For the tags of an    *)
(* object this holds across its deletion and upload too: they belong to    *)
(* the key.                                                                *)
(***************************************************************************)
DocumentsRegular ==
  \A w \in Workers :
    at[w] = "done" /\ req[w].op = "get" =>
      \/ got[w].status = "noObject"
      \/ got[w].status \in {"ok", "notFound"} /\ got[w].found \in since[w]

(***************************************************************************)
(* bucket_cors.go: a browser request is judged by the bucket's rules.      *)
(* AWS's wildcard: a "*" stands for any run of characters.  The answer to  *)
(* a preflight is the one the rules of a configuration in force since it   *)
(* arrived give under that reading, and the rule is the first that fits.   *)
(***************************************************************************)
Stands(p, s) ==
  \/ p = s
  \/ \E i \in 1 .. Len(p), from \in 1 .. Len(s) + 1, to \in 0 .. Len(s) :
       /\ p[i] = Star /\ Star \notin {p[j] : j \in 1 .. i - 1}
       /\ from <= to + 1
       /\ s = SubSeq(p, 1, i - 1) \o SubSeq(s, from, to) \o SubSeq(p, i + 1, Len(p))

Allows(rule, r) ==
  /\ \E p \in rule.origins : Stands(p, r.origin)
  /\ r.method # None => \E p \in rule.methods : Stands(p, r.method)
  /\ <<Star>> \in rule.headers \/ r.headers \subseteq rule.headers

PreflightExact ==
  \A w \in Workers :
    at[w] = "done" /\ req[w].op = "preflight" =>
      LET r == req[w]
          a == got[w]
      IN \E c \in since[w] :
           IF a.rule # None
           THEN /\ c # None
                /\ \E i \in 1 .. Len(Rules[c]) :
                     /\ Rules[c][i] = a.rule /\ Allows(a.rule, r)
                     /\ \A j \in 1 .. i - 1 : ~Allows(Rules[c][j], r)
                /\ a.status = IF r.options THEN "noContent" ELSE "next"
           ELSE /\ c = None \/ \A i \in 1 .. Len(Rules[c]) : ~Allows(Rules[c][i], r)
                /\ a.status = IF r.options THEN "forbidden" ELSE "next"
=============================================================================
