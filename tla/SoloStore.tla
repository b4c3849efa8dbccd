----------------------------- MODULE SoloStore -----------------------------
(***************************************************************************)
(* ObjectStore with a witness of overlap: "solo" remembers that no two     *)
(* requests have overlapped since the last moment at which none was being  *)
(* served; and what has to be kept apart for the promises that the code    *)
(* makes without a lock.                                                   *)
(***************************************************************************)
EXTENDS ObjectStore

VARIABLE solo

Busy == {w \in Workers : pc[w] # "idle"}

AllInit == Init /\ solo = TRUE
AllNext == Next /\ solo' = (Busy' = {} \/ (solo /\ \E w \in Workers : Busy' = {w}))
AllSpec == AllInit /\ [][AllNext]_<<vars, solo>>

(***************************************************************************)
(* A process killed between truncating and writing a sidecar, or a disk    *)
(* that filled up, leaves a sidecar that does not decode, or bytes without *)
(* one, and every read of the object fails (object.go:136, 251).  Nothing  *)
(* repairs it at start-up; the next upload or copy onto the key does: one  *)
(* that is acknowledged and ran alone leaves a whole pair, whatever it     *)
(* found.                                                                  *)
(***************************************************************************)
UploadRepairs ==
  \A w \in Workers :
    solo /\ pc[w] = "done" /\ req[w].op \in {"put", "copy"} /\ status[w] = "ok"
      => PairOK(Key(w))
-----------------------------------------------------------------------------
(***************************************************************************)
(* evaluatePutConditional and DeleteBucketHandler check first and act      *)
(* later, and no lock is held in between.  What has to stay apart:         *)
(* requests on one key, and the deletion of the bucket from all others,    *)
(***************************************************************************)
Separate ==
  \A v, w \in Workers :
    v # w /\ pc[v] # "idle" /\ pc[w] # "idle" =>
      Key(v) # Key(w) /\ req[v].op # "deleteBucket" /\ req[w].op # "deleteBucket"

\* or only the removal of a bucket found empty from uploads and copies.
NoLateUpload ==
  [][\A v, w \in Workers : pc[v] \in {"dbScan", "dbRemove"} => ~Rename(w)]_vars
=============================================================================
