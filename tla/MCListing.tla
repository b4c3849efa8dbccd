------------------------------ MODULE MCListing ------------------------------
(***************************************************************************)
(* Small trees: a folder, a folder in it, and objects beside.              *)
(***************************************************************************)
EXTENDS Listing

Tree == {<<2, 1, 2>>, <<2, 1, 3, 1, 2>>, <<3>>}
Wide == Tree \cup {<<2, 2>>}
Some == {<<>>, <<2, 1>>}
=============================================================================
