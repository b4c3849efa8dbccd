------------------------------- MODULE Access -------------------------------
(***************************************************************************)
(* Who may do what on the storage surface: AuthMiddleware with its three   *)
(* ways in (a signed header, a presigned link, an anonymous read of        *)
(* something public), the user records and policies behind them, and the   *)
(* links an administrator mints.                                           *)
(*                                                                         *)
(* A request is checked in several steps, each reading one thing: the      *)
(* clock, a user record (one bolt transaction), an ACL document.  All of   *)
(* them may change in between.  Cryptography is an input: "right" says     *)
(* whether the signature was made with the user's secret over this         *)
(* request ("altered": its body is not the one that was signed).           *)
(* One unit of the clock is a fraction of an hour; see Window.             *)
(***************************************************************************)
EXTENDS Sidecars, Integers

CONSTANTS
  AccessKeys,      \* access keys
  Root,            \* ACCESS_KEY_ID of the environment
  Policies,        \* user policies: sets of rules
  Gone,            \* a deleted user
  Bucket,          \* the bucket's name
  Wildcard,        \* "*" in a rule
  Window,          \* 15 minutes, the tolerance of validateTimestamp
  DefaultExpires,  \* presignDefaultExpires
  MaxExpires,      \* presignMaxExpires
  Asked,           \* lifetimes asked for a link; None if there is none
  Moving,          \* scenarios in which time passes and users change
  MaxTime          \* bound on the clock

Allow(buckets, actions) == [effect |-> "Allow", buckets |-> buckets, actions |-> actions]
Everything == {Allow({Wildcard}, {Wildcard})}

ASSUME AccessAssumption ==
  /\ Root \in AccessKeys
  /\ Everything \in Policies
  /\ Window \in Nat /\ MaxTime \in Nat
  /\ DefaultExpires \in Nat \ {0} /\ MaxExpires \in Nat \ {0}
  /\ Moving \subseteq Scenarios
  /\ Asked \subseteq (Nat \ {0}) \cup {None}
  /\ Bucket # None
  /\ IsFiniteSet(AccessKeys) /\ None \notin Policies /\ Gone \notin Policies

VARIABLES
  now,      \* the clock
  users,    \* the policy of each user; None if there never was such a user,
            \* Gone if it was deleted: generated keys are not used again
  link,     \* the last link minted: who signed it, when, for how long
  who,      \* the policy a worker read with the user record
  granted,  \* history: what it needs and had at some time since it came
  denied,   \* history: what it needs and lacked at some time since it came
  moved     \* history: changes of an ACL document since it came, at most 2

accountVars == <<now, users, link>>
judgement == <<granted, denied, moved>>
accessVars == <<accountVars, who, judgement>>

Exists(u) == users[u] \in Policies
-----------------------------------------------------------------------------
(***************************************************************************)
(* isUserAllowed.  A rule whose effect is not Allow has no effect.         *)
(***************************************************************************)
GetActionFromMethod(method, bucket) ==
  CASE method \in {"GET", "HEAD"} /\ bucket = None -> "s3:ListBuckets"
    [] method = "GET" /\ bucket # None -> "s3:GetObject"
    [] method = "HEAD" /\ bucket # None -> "s3:ListBucket"
    [] method = "PUT" /\ bucket # None -> "s3:CreateBucket"
    [] method = "PUT" /\ bucket = None -> "s3:PutObject"
    [] method = "DELETE" /\ bucket # None -> "s3:DeleteBucket"
    [] method = "DELETE" /\ bucket = None -> "s3:DeleteObject"
    [] method = "POST" -> "s3:PutObject"
    [] OTHER -> ""

IsActionAllowed(actions, action) ==
  \/ Wildcard \in actions
  \/ action \in actions
  \/ /\ action = "s3:ListBucket"
     /\ actions \cap {"s3:GetObject", "s3:PutObject", "s3:DeleteObject"} # {}

IsUserAllowed(policy, r) ==
  LET action == GetActionFromMethod(r.method, r.bucket) IN
  /\ action # ""
  /\ \E rule \in policy :
       /\ rule.effect = "Allow"
       /\ Wildcard \in rule.buckets \/ r.bucket \in rule.buckets
       /\ IsActionAllowed(rule.actions, action)

\* validateTimestamp
InWindow(date) == now - date <= Window /\ date - now <= Window

\* Mutant: a link is dead at its last instant.
ExpiredEarly(r) == now >= r.date + r.expires

\* The first check of processPresignedAuth.
Expired(r) == now > r.date + r.expires
-----------------------------------------------------------------------------
AccessInit ==
  /\ now = 0
  /\ users = [u \in AccessKeys |-> IF u = Root THEN Everything ELSE None]
  /\ link = None
  /\ who = [w \in Workers |-> None]
  /\ granted = [w \in Workers |-> {}]
  /\ denied = [w \in Workers |-> {}]
  /\ moved = [w \in Workers |-> 0]

(***************************************************************************)
(* Administration.  It takes an administrator, who is authenticated as     *)
(* AdminSession describes; each change is one bolt transaction.            *)
(***************************************************************************)
IsAdmin(u) == Exists(u) /\ \E rule \in users[u] :
                /\ rule.effect = "Allow"
                /\ Wildcard \in rule.buckets /\ Wildcard \in rule.actions

Administered == scenario \in Moving /\ \E u \in AccessKeys : IsAdmin(u)

CreateUserWithACL(u) ==
  /\ Administered
  /\ users[u] = None
  /\ \E p \in Policies : users' = [users EXCEPT ![u] = p]
  /\ UNCHANGED <<vars, now, link, who>>

\* 404 for a user that does not exist.
UpdateUserACL(u) ==
  /\ Administered
  /\ Exists(u)
  /\ \E p \in Policies \ {users[u]} : users' = [users EXCEPT ![u] = p]
  /\ UNCHANGED <<vars, now, link, who>>

DeleteUser(u) ==
  /\ Administered
  /\ Exists(u)
  /\ users' = [users EXCEPT ![u] = Gone]
  /\ UNCHANGED <<vars, now, link, who>>

\* A restart: bootstrapSuperUser, if the user store is empty.
BootstrapSuperUser ==
  /\ scenario \in Moving
  /\ \A w \in Workers : at[w] = "idle"
  /\ \A u \in AccessKeys : ~Exists(u)
  /\ users' = [users EXCEPT ![Root] = Everything]
  /\ UNCHANGED <<vars, now, link, who>>

\* PresignObjectHandler and PresignGetURL: signed by the administrator who asks.
\* None: no ?expires, or one that is no positive number.
Lifetime(asked) == CASE asked = None -> DefaultExpires
                     [] asked # None /\ asked > MaxExpires -> MaxExpires
                     [] OTHER -> asked

PresignObject(u) ==
  /\ scenario \in Moving
  /\ IsAdmin(u)
  /\ \E asked \in Asked :
       link' = [user |-> u, date |-> now, expires |-> Lifetime(asked)]
  /\ UNCHANGED <<vars, now, users, who>>

Tick ==
  /\ scenario \in Moving
  /\ now < MaxTime
  /\ now' = now + 1
  /\ UNCHANGED <<vars, users, link, who>>
-----------------------------------------------------------------------------
(***************************************************************************)
(* A request for the storage surface.  AuthMiddleware looks at the         *)
(* Authorization header first, then at the query.                          *)
(***************************************************************************)
ArriveFetch(w) ==
  /\ at[w] = "idle"
  /\ \E r \in Jobs[scenario][w] :
       /\ r.op = "fetch"
       /\ \/ /\ r.cred = "header"
             /\ req' = [req EXCEPT ![w] = r]
             /\ Goto(w, "headerUser")
          \/ /\ r.cred = "link" /\ link # None
             /\ req' = [req EXCEPT ![w] = [r EXCEPT !.user = link.user, !.date = link.date,
                                                    !.expires = link.expires]]
             /\ Goto(w, "linkExpiry")
          \/ /\ r.cred = "none"
             /\ req' = [req EXCEPT ![w] = r]
             /\ Goto(w, "anonymous")
  /\ UNCHANGED <<scenario, docVars, fd, got, history, accountVars, who>>

Forget(w) == who' = [who EXCEPT ![w] = None]
Refused(w, s) == Answer(w, s) /\ Forget(w)
Grant(w) == Goto(w, "granted") /\ Forget(w) /\ UNCHANGED got
checking == <<scenario, docVars, req, fd, history, accountVars>>

\* processHeaderAuth up to the signature: the hash of the body is compared
\* first; the user record is read once.
HeaderUser(w) ==
  /\ at[w] = "headerUser"
  /\ \/ /\ req[w].right = "altered"
        /\ Refused(w, "badRequest")
     \/ /\ req[w].right = "no" \/ (req[w].right = "yes" /\ ~Exists(req[w].user))
        /\ Refused(w, "unauthorized")
     \/ /\ Exists(req[w].user) /\ req[w].right = "yes"
        /\ who' = [who EXCEPT ![w] = users[req[w].user]]
        /\ Goto(w, "headerTime")
        /\ UNCHANGED got
  /\ UNCHANGED checking

\* Mutant: the policy is not asked.
HeaderTimeOnly(w) ==
  /\ at[w] = "headerTime"
  /\ IF InWindow(req[w].date) THEN Grant(w) ELSE Refused(w, "unauthorized")
  /\ UNCHANGED checking

\* The rest of it: the clock, then the policy as it was read.
HeaderTime(w) ==
  /\ at[w] = "headerTime"
  /\ \/ /\ ~InWindow(req[w].date)
        /\ Refused(w, "unauthorized")
     \/ /\ InWindow(req[w].date) /\ ~IsUserAllowed(who[w], req[w])
        /\ Refused(w, "forbidden")
     \/ /\ InWindow(req[w].date) /\ IsUserAllowed(who[w], req[w])
        /\ Grant(w)
  /\ UNCHANGED checking

(***************************************************************************)
(* processPresignedAuth: expiry, user and signature, and the time window   *)
(* of signed requests, which applies to links too.  No policy is asked.    *)
(***************************************************************************)
LinkExpiry(w) ==
  /\ at[w] = "linkExpiry"
  /\ IF Expired(req[w])
     THEN Refused(w, "unauthorized")
     ELSE Goto(w, "linkUser") /\ UNCHANGED <<got, who>>
  /\ UNCHANGED checking

LinkUser(w) ==
  /\ at[w] = "linkUser"
  /\ IF Exists(req[w].user) /\ req[w].right = "yes"
     THEN Goto(w, "linkTime") /\ UNCHANGED <<got, who>>
     ELSE Refused(w, "unauthorized")
  /\ UNCHANGED checking

LinkTime(w) ==
  /\ at[w] = "linkTime"
  /\ IF InWindow(req[w].date) THEN Grant(w) ELSE Refused(w, "unauthorized")
  /\ UNCHANGED checking

(***************************************************************************)
(* allowAnonymousRead: a read of a bucket's listing or of an object, no    *)
(* subresource.  EffectiveObjectACL reads the object's sidecar and, if     *)
(* that names no ACL, the bucket's; a file that does not decode is no      *)
(* grant.  Each read is a step of its own here, because a document is      *)
(* replaced, not changed, while it is read; Sidecars reads in two steps.   *)
(***************************************************************************)
Anonymous(w) ==
  LET r == req[w]
      readable == r.method \in {"GET", "HEAD"} /\ ~r.subresource /\ r.bucket # None
  IN
  /\ at[w] = "anonymous"
  /\ IF readable
     THEN /\ Goto(w, IF r.object THEN "objectACL" ELSE "bucketACL")
          /\ UNCHANGED <<got, who>>
     ELSE Refused(w, "unauthorized")
  /\ UNCHANGED checking

ObjectACL(w) ==
  LET c == Content("meta") IN
  /\ at[w] = "objectACL"
  /\ \/ /\ c = Torn \/ (c \notin {None, Torn} /\ c.acl = "private")
        /\ Refused(w, "unauthorized")
     \/ /\ c \notin {None, Torn} /\ c.acl = "public-read"
        /\ Grant(w)
     \/ /\ c = None \/ (c \notin {None, Torn} /\ c.acl = None)
        /\ Goto(w, "bucketACL") /\ UNCHANGED <<got, who>>
  /\ UNCHANGED checking

BucketACL(w) ==
  /\ at[w] = "bucketACL"
  /\ IF Content("acl") = "public-read" THEN Grant(w) ELSE Refused(w, "unauthorized")
  /\ UNCHANGED checking

AccessStep(w) ==
  \/ ArriveFetch(w) \/ HeaderUser(w) \/ HeaderTime(w) \/ LinkExpiry(w) \/ LinkUser(w)
  \/ LinkTime(w) \/ Anonymous(w) \/ ObjectACL(w) \/ BucketACL(w)

Administration ==
  \/ \E u \in AccessKeys : \/ CreateUserWithACL(u) \/ UpdateUserACL(u) \/ DeleteUser(u)
                           \/ PresignObject(u)
  \/ BootstrapSuperUser \/ Tick
-----------------------------------------------------------------------------
(***************************************************************************)
(* What entitles a request at this instant, for the history variables.     *)
(***************************************************************************)
EffectiveACL ==
  LET c == Content("meta") IN
  CASE c = Torn -> "unknown"
    [] c # Torn /\ c # None /\ c.acl # None -> c.acl
    [] OTHER -> IF Content("acl") = None THEN "private" ELSE Content("acl")

\* What a request needs to be let in, and what of it holds now.
Needs(r) == IF r.cred = "none" THEN {"public"} ELSE {"signer", "time"}

Holds(r) ==
  {need \in Needs(r) :
     CASE need = "signer" ->
            /\ r.right = "yes" /\ Exists(r.user)
            /\ r.cred = "header" => IsUserAllowed(users[r.user], r)
       [] need = "time" ->
            /\ r.date \in now - Window .. now + Window
            /\ r.cred = "link" => now <= r.date + r.expires
       [] need = "public" ->
            /\ r.method \in {"GET", "HEAD"} /\ ~r.subresource /\ r.bucket = Bucket
            /\ (IF r.object THEN EffectiveACL ELSE Content("acl")) = "public-read"}

Checking(w) == at[w] \notin {"idle", "done", "granted"} /\ req[w].op = "fetch"

\* Requests under check watch what happens to their entitlement.
Observe ==
  /\ granted' = [w \in Workers |->
       CASE Checking(w)' -> granted[w] \cup Holds(req[w])'
         [] (at[w] = "idle")' -> {}
         [] OTHER -> granted[w]]
  /\ denied' = [w \in Workers |->
       CASE Checking(w)' -> denied[w] \cup (Needs(req[w]) \ Holds(req[w]))'
         [] (at[w] = "idle")' -> {}
         [] OTHER -> denied[w]]
  /\ moved' = [w \in Workers |->
       CASE Checking(w)' /\ moved[w] < 2 /\ Checking(w)
              /\ \E d \in {"meta", "acl"} : Content(d)' # Content(d) -> moved[w] + 1
         [] (at[w] = "idle")' -> 0
         [] OTHER -> moved[w]]
-----------------------------------------------------------------------------
(***************************************************************************)
(* auth.go: allowAnonymousRead "is the ONLY anonymous entry point".  A     *)
(* request that is let in had what it needs since it came: its signer      *)
(* existed with a good signature and a policy that allowed it, its time    *)
(* was good and its link not expired, or the thing it reads was public.    *)
(* The clock and the user record are read one after the other, so the two  *)
(* need not have been good at one instant.  An anonymous request reads two *)
(* documents; for it the property takes at most one change of them         *)
(* meanwhile, since two may together show a state that never was.          *)
(***************************************************************************)
Authorized ==
  \A w \in Workers : at[w] = "granted" /\ moved[w] <= 1 => Needs(req[w]) \subseteq granted[w]

(***************************************************************************)
(* The converse: a request that was entitled at every instant, from its    *)
(* arrival to its answer, is not turned away, whatever users, links, ACLs  *)
(* and the clock did meanwhile.  A link is good until it expires or is 15  *)
(* minutes old, whichever comes first.  An overwrite of the object leaves  *)
(* it without a readable ACL for an instant, and so entitles nobody then.  *)
(***************************************************************************)
RightfulServed ==
  \A w \in Workers :
    /\ at[w] = "done" /\ req[w].op = "fetch" /\ moved[w] <= 1
    /\ got[w].status \in {"unauthorized", "forbidden"}
    => denied[w] # {}
=============================================================================
