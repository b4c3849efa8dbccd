---------------------------- MODULE MCRateLimit ----------------------------
(***************************************************************************)
(* A small instance of RateLimit.                                          *)
(***************************************************************************)
EXTENDS RateLimit, TLC

Settings(on, r, b) == [enabled |-> on, rps |-> r, burst |-> b]

TwoBurst == Settings(TRUE, 1, 2)
Unclamped == Settings(TRUE, 0, 0)
SomeConfigs == {Settings(FALSE, 2, 3), Unclamped}

\* Addresses are interchangeable.
Symmetry == Permutations(IPs)
=============================================================================
