--------------------------- MODULE MCObjectStore ---------------------------
(***************************************************************************)
(* Small instances of ObjectStore: two concurrent requests on one or two   *)
(* keys, and the request mixes the runs ask about.                         *)
(***************************************************************************)
EXTENDS ObjectStore, TLC

CONSTANTS w1, w2, k1, k2, b1, b2, u1, u2, root, sub, s1, s2

MCDir == [k \in Keys |-> IF k = k1 THEN root ELSE sub]
MCDirs == {root, sub}
OneStripe == [k \in Keys |-> s1]
TwoStripes == [k \in Keys |-> IF k = k1 THEN s1 ELSE s2]

Request(op, k) ==
  [op |-> op, key |-> k, src |-> k, body |-> None, user |-> None,
   acl |-> None, replace |-> FALSE, ifNone |-> None, ifMatch |-> None]
Put(k, b, u) == [Request("put", k) EXCEPT !.body = b, !.user = u]
PutIfAbsent(k, b, u) == [Put(k, b, u) EXCEPT !.ifNone = Star]
PutIfMatch(k, b, u, t) == [Put(k, b, u) EXCEPT !.ifMatch = ETagOf(t)]
PutIfNoneMatch(k, b, u, t) == [Put(k, b, u) EXCEPT !.ifNone = ETagOf(t)]
Copy(src, k) == [Request("copy", k) EXCEPT !.src = src]
Replace(src, k, u) == [Copy(src, k) EXCEPT !.replace = TRUE, !.user = u]
PutAcl(k, a) == [Request("putAcl", k) EXCEPT !.acl = a]
WithAcl(r, a) == [r EXCEPT !.acl = a]

\* Only the two mutations that take the stripe lock, and copies into it.
LockedRequests ==
  {Put(k1, b1, u1), Put(k1, b2, u2), Put(k2, b2, u2),
   Copy(k1, k2), Replace(k2, k2, u1), Request("delete", k1), Request("delete", k2)}

\* Every handler, on one key of a subdirectory.
AllRequests ==
  {PutIfMatch(k2, b1, u1, b1), PutIfAbsent(k2, b1, u1), Copy(k2, k2),
   Request("delete", k2), Request("get", k2), Request("head", k2), PutAcl(k2, "private"),
   WithAcl(Request("createBucket", k2), "private"),
   WithAcl(Request("createBucket", k2), "bad"), Request("createBucket", k2),
   WithAcl(Request("bucketAcl", k2), "private"), Request("deleteBucket", k2)}

\* One client after another.
SequentialRequests ==
  {Put(k1, b1, u1), PutIfAbsent(k1, b2, u2), PutIfMatch(k1, b2, u2, b1),
   PutIfNoneMatch(k1, b1, u2, b1),
   [PutIfMatch(k1, b1, u1, b2) EXCEPT !.ifNone = ETagOf(b1)], Copy(k1, k2), Request("delete", k1), Request("get", k1), Request("get", k2),
   PutAcl(k1, "private"), Request("deleteBucket", k1)}

AclAndPut == {Put(k1, b1, u1), Put(k1, b2, u2), PutAcl(k1, "private")}

\* Workers are alike: no constant names one and no invariant tells them apart.
Symmetry == Permutations(Workers)
=============================================================================
