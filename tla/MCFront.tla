------------------------------ MODULE MCFront -------------------------------
(***************************************************************************)
(* What clients send to the storage surface, one kind of traffic in each   *)
(* behaviour, and the model values for TLC.                                *)
(***************************************************************************)
EXTENDS Download, TLC

Put(d, v) == [op |-> "put", doc |-> d, val |-> v]
Get(d) == [op |-> "get", doc |-> d]
Delete(d) == [op |-> "delete", doc |-> d]
Upload(v, acl) == [op |-> "upload", version |-> v, acl |-> acl]
RemoveObject == [op |-> "remove"]

V(id, size, mtime) == [id |-> id, size |-> size, mtime |-> mtime]
v1 == V(1, 3, 3)
v2 == V(2, 1, 6)
v3 == V(3, 0, 8)

Tags == {Put("tags", "t1"), Put("tags", "t2"), Get("tags"), Delete("tags")}
Rewrites == {Put("tags", "t1"), Delete("tags"), Upload(v1, None), RemoveObject}

(***************************************************************************)
(* Browsers: an origin shorter than its pattern, one that fits, a method   *)
(* or a header nobody allows, and requests that are no preflight.          *)
(***************************************************************************)
Rule(origins, methods, headers) ==
  [origins |-> origins, methods |-> methods, headers |-> headers]
narrow == Rule({<<"a", "b", Star, "b", "a">>}, {<<"G">>}, {<<"h">>})
broad == Rule({<<"a", Star>>}, {<<"G">>, <<Star>>}, {<<Star>>})
MCRules == [c1 |-> <<narrow, broad>>, c2 |-> <<narrow>>]

Preflight(origin, method, headers, options) ==
  [op |-> "preflight", doc |-> "cors", origin |-> origin, method |-> method,
   headers |-> headers, options |-> options]
Browsers == {Preflight(<<"a", "b", "a">>, <<"G">>, {<<"h">>}, TRUE),
             Preflight(<<"a", "b", "b", "a">>, <<"G">>, {<<"h">>}, TRUE),
             Preflight(<<"a", "b", "b", "a">>, None, {<<"i">>}, TRUE),
             Preflight(<<"b">>, <<"G">>, {}, FALSE),
             Preflight(<<"b">>, <<"G">>, {}, TRUE)}

Cors == {Put("cors", "c1"), Put("cors", "c2"), Get("cors"), Delete("cors")} \cup Browsers
Acls == {Put("acl", "private"), Put("acl", "public-read"), Get("acl")}

\* A request for the bucket's object, without credentials and conditions.
NoRange == [form |-> "none", first |-> 0, last |-> 0]
Plainly == [op |-> "fetch", method |-> "GET", bucket |-> Bucket, object |-> TRUE,
            subresource |-> FALSE, cred |-> "none", user |-> None, right |-> "yes",
            date |-> 0, expires |-> 0, ifMatch |-> None, ifUnmodified |-> None,
            ifNoneMatch |-> None, ifModified |-> None, ifRange |-> None, range |-> NoRange]

Anybody == {Plainly, [Plainly EXCEPT !.object = FALSE], [Plainly EXCEPT !.subresource = TRUE],
            [Plainly EXCEPT !.method = "DELETE"],
            [Plainly EXCEPT !.bucket = None, !.object = FALSE]}
Owners == {Put("acl", "private"), Put("acl", "public-read"), Put("acl", Bad),
           Put("meta", "private"), Put("meta", "public-read"), Upload(v1, None)}

(***************************************************************************)
(* Signed requests with every date, links, and users whose policy is       *)
(* changed while they are checked.                                         *)
(***************************************************************************)
Signed(u, d, m) == [Plainly EXCEPT !.cred = "header", !.user = u, !.date = d, !.method = m]
Linked == [Plainly EXCEPT !.cred = "link"]
Signers == {Signed(u, d, m) : u \in AccessKeys, d \in {0, 3}, m \in {"GET", "PUT"}}
             \cup {[Signed(Root, 0, "PUT") EXCEPT !.right = x] : x \in {"no", "altered"}}
             \cup {Linked, [Linked EXCEPT !.right = "no"]}
MCPolicies == {Everything, {Allow({Bucket}, {"s3:GetObject"})}}
MCAsked == {None, 1, 9}

(***************************************************************************)
(* Downloads with preconditions and ranges, while the object is            *)
(* overwritten with a shorter and with an empty version, removed, or given *)
(* another ACL.                                                            *)
(***************************************************************************)
Reading == Signed(Root, 0, "GET")
Bytes(form, first, last) == [form |-> form, first |-> first, last |-> last]
Ranged == {[Reading EXCEPT !.range = g] :
             g \in {Bytes("other", 0, 0), Bytes("suffix", 0, 2), Bytes("suffix", 0, 0),
                    Bytes("from", 1, 0), Bytes("from", MaxInt + 1, 0), Bytes("span", 0, 0),
                    Bytes("span", 1, 5), Bytes("span", 2, 1), Bytes("span", 0, MaxInt + 1)}}
Conditional == {[Reading EXCEPT !.ifMatch = {1}], [Reading EXCEPT !.ifMatch = {AnyTag}],
                [Reading EXCEPT !.ifNoneMatch = {2}, !.ifModified = 8],
                [Reading EXCEPT !.ifModified = 2], [Reading EXCEPT !.ifUnmodified = 6],
                [Reading EXCEPT !.ifMatch = {2}, !.range = Bytes("from", 5, 0)],
                [Reading EXCEPT !.ifRange = 1, !.range = Bytes("from", 0, 0)]}
Readers == Ranged \cup Conditional
Writers == {Upload(v2, None), Upload(v3, None), RemoveObject}
Sharers == {Upload(v2, None), Put("meta", "private")}

\* Requests that cannot disturb each other are left to one worker.
CONSTANTS w1, w2
Between(a, b) == w1 :> a @@ w2 :> b

MCJobs == [tags |-> Between(Tags, Rewrites),
           cors |-> Between(Cors, Browsers \cup {Get("cors")}),
           acl |-> Between(Acls, Acls \cup {Reading}), anonymous |-> Between(Owners, Anybody),
           signed |-> Between(Signers, {}), read |-> Between(Writers, Readers),
           shared |-> Between(Sharers, Readers)]
MCStored == [tags |-> None, cors |-> None, acl |-> None, anonymous |-> v1,
             signed |-> v1, read |-> v1, shared |-> v1]
=============================================================================
