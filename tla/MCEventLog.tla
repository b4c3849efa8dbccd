----------------------------- MODULE MCEventLog -----------------------------
(***************************************************************************)
(* A small instance of EventLog.                                           *)
(***************************************************************************)
EXTENDS EventLog

On(c, a) == [enabled |-> TRUE, count |-> c, age |-> a]
Off == [enabled |-> FALSE, count |-> 1, age |-> 0]

Changing == {On(2, 1), On(1, 0), Off}
\* Requests, or administrators at work.
Requests(n) == [events |-> n, actions |-> 0]
Actions(n) == [events |-> 0, actions |-> n]
Either == {Requests(3), Actions(5)}
=============================================================================
