-------------------------- MODULE StoreRefinement --------------------------
(***************************************************************************)
(* The file-system calls of ObjectStore implement AtomicStore.             *)
(*                                                                         *)
(* An upload holds its object from the rename of the data file to the end  *)
(* of the write of the sidecar, a delete from the removal of the data file *)
(* to its return; these are the moments at which a reader of the two files *)
(* can see one without the other.  At any other moment the value of an     *)
(* object is the bytes of its data file with the metadata of its sidecar.  *)
(* A copy asks for its value when it has opened its source.                *)
(***************************************************************************)
EXTENDS ObjectStore

\* An object that is absent is not one that is held.
ASSUME HolderAssumption == None \notin [holder : Workers]

Holding == {"metaTrunc", "metaWrite", "delMeta", "delDirs"}

HolderOf(k) == {w \in Workers : pc[w] \in Holding /\ Key(w) = k}

ValueOf(k) ==
  IF data[k] = None THEN None
  ELSE [body |-> data[k].body,
        user |-> IF meta[k] \in Sidecars THEN meta[k].user ELSE None]

Changes(w) == /\ pc[w] # "idle"
              /\ \/ req[w].op \in {"put", "delete"}
                 \/ req[w].op = "copy" /\ ver[w] # None

Progress(w) == CASE pc[w] \in Holding -> "holding"
                 [] pc[w] = "done" -> IF status[w] = "ok" THEN "done" ELSE "refused"
                 [] OTHER -> "asked"

AnyOf(S) == CHOOSE w \in S : TRUE

ObjectOf(k) == IF HolderOf(k) = {} THEN ValueOf(k)
               ELSE [holder |-> AnyOf(HolderOf(k))]
TaskOf(w) ==
  IF Changes(w)
  THEN [state |-> Progress(w), key |-> Key(w),
        value |-> IF req[w].op = "delete" THEN None ELSE ver[w]]
  ELSE [state |-> "idle", key |-> None, value |-> None]

objectBar == [k \in Keys |-> ObjectOf(k)]
taskBar == [w \in Workers |-> TaskOf(w)]

Store == INSTANCE AtomicStore WITH
  Clients <- Workers, Values <- Versions, object <- objectBar, task <- taskBar

(***************************************************************************)
(* The handlers that take the stripe implement the atomic store: a PUT, a  *)
(* copy or a DELETE that answers success made the object exactly what it   *)
(* asked for in that step, no two of them ever held the same object, and   *)
(* one that answers an error left every object as it was.  locks.go        *)
(* promises that data file and sidecar "are always updated as a consistent *)
(* pair".                                                                  *)
(***************************************************************************)
ImplementsStore == Store!Spec
=============================================================================
