-------------------------- MODULE MCObjectRequests --------------------------
(***************************************************************************)
(* Two request mixes of ObjectStore in one run.  "locked": two concurrent  *)
(* requests, only handlers that take the stripe lock.  "sequential": every *)
(* handler, one client after another.                                      *)
(***************************************************************************)
EXTENDS MCObjectStore, StoreRefinement

VARIABLE mix

MixedRequests == LockedRequests \cup SequentialRequests

MixInit == Init /\ mix \in {"locked", "sequential"}

\* A request of the mix arrives.
Arrive(w) ==
  /\ mix = "sequential" => \A v \in Workers : pc[v] = "idle"
  /\ Start(w)
  /\ req'[w] \in IF mix = "locked" THEN LockedRequests ELSE SequentialRequests

MixNext == /\ \E w \in Workers : Arrive(w) \/ Lock(w) \/ Step(w)
           /\ UNCHANGED mix

MixSpec == MixInit /\ [][MixNext]_<<vars, mix>> /\ Fairness
=============================================================================
