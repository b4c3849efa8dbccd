----------------------------- MODULE MCObjectAll -----------------------------
(***************************************************************************)
(* Every handler of ObjectStore at once, with crashes and disk faults.     *)
(***************************************************************************)
EXTENDS MCObjectStore, SoloStore
=============================================================================
