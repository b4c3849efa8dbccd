------------------------------ MODULE MCIPBan ------------------------------
(***************************************************************************)
(* A small instance of IPBan.                                              *)
(***************************************************************************)
EXTENDS IPBan, TLC

Settings(on, m, w, b) == [enabled |-> on, max |-> m, window |-> w, ban |-> b]

ThreeInTwo == Settings(TRUE, 3, 2, 2)
TwoConfigs == {Settings(TRUE, 2, 2, 2), Settings(FALSE, 1, 1, 1)}

\* Addresses are interchangeable, and so are workers.
Symmetry == Permutations(IPs) \cup Permutations(Workers)
=============================================================================
