-------------------------- MODULE MCRequestSampler --------------------------
(***************************************************************************)
(* Windows of single minutes, and of bars of two minutes.                  *)
(***************************************************************************)
EXTENDS RequestSampler

Hour == [bucket |-> MinuteLen, count |-> 2]
Day == [bucket |-> 2 * MinuteLen, count |-> 1]
Week == [bucket |-> 2 * MinuteLen, count |-> 2]
Ranges == {Hour, Day, Week}
=============================================================================
