---------------------------- MODULE AtomicStore ----------------------------
(***************************************************************************)
(* What the object store promises to the clients that change objects: an   *)
(* object is one value, bytes and metadata together.  A change goes        *)
(* through three visible moments: it is asked for, it holds the object     *)
(* alone, and it is acknowledged in the very step that makes the object    *)
(* the whole value it asked for.  A change that is refused has left every  *)
(* object as it was.                                                       *)
(***************************************************************************)
CONSTANTS Clients, Keys, Values, None

VARIABLES
  object,  \* the value of each key, None, or the change that holds it
  task     \* what each client has asked for, and how far it is

Idle == [state |-> "idle", key |-> None, value |-> None]
Tasks == {Idle} \cup
         [state : {"asked", "holding", "done", "refused"},
          key : Keys, value : Values \cup {None}]
HeldBy(c) == [holder |-> c]

Init == /\ object = [k \in Keys |-> None]
        /\ task = [c \in Clients |-> Idle]

Move(c, state) == task' = [task EXCEPT ![c].state = state]

\* A PUT or a copy of value v, or (None) a DELETE.
Ask(c) ==
  /\ task[c] = Idle
  /\ \E k \in Keys, v \in Values \cup {None} :
       task' = [task EXCEPT ![c] = [state |-> "asked", key |-> k, value |-> v]]
  /\ UNCHANGED object

\* Only one change at a time holds an object.
Hold(c) ==
  /\ task[c].state = "asked"
  /\ object[task[c].key] \notin {HeldBy(o) : o \in Clients}
  /\ object' = [object EXCEPT ![task[c].key] = HeldBy(c)]
  /\ Move(c, "holding")

Commit(c) ==
  /\ task[c].state = "holding"
  /\ object' = [object EXCEPT ![task[c].key] = task[c].value]
  /\ Move(c, "done")

Refuse(c) ==
  /\ task[c].state = "asked"
  /\ Move(c, "refused")
  /\ UNCHANGED object

Rest(c) ==
  /\ task[c].state \in {"done", "refused"}
  /\ task' = [task EXCEPT ![c] = Idle]
  /\ UNCHANGED object

Next == \E c \in Clients : Ask(c) \/ Hold(c) \/ Commit(c) \/ Refuse(c) \/ Rest(c)

Spec == Init /\ [][Next]_<<object, task>>
=============================================================================
