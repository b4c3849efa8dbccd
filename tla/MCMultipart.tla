---------------------------- MODULE MCMultipart ----------------------------
(***************************************************************************)
(* A small instance of Multipart: one upload of one object in two parts,   *)
(* served by two workers.                                                  *)
(***************************************************************************)
EXTENDS Multipart, TLC

CONSTANTS w1, w2, u1, b1, b2

Request(op, u) == [op |-> op, upload |-> u, number |-> 1, body |-> None, parts |-> <<>>]
Part(u, n, b) == [Request("part", u) EXCEPT !.number = n, !.body = b]
Assemble(u, ps) == [Request("complete", u) EXCEPT !.parts = ps]
P(n, b) == [number |-> n, body |-> b]

\* An upload, with the mistakes a client can make, and a plain PUT of its key.
Uploading ==
  {Request("create", u1), Part(u1, 1, b1), Part(u1, 1, b2), Part(u1, 2, b2),
   Assemble(u1, <<P(1, b1), P(2, b2)>>), Assemble(u1, <<P(2, b2)>>),
   Assemble(u1, <<>>), Assemble(u1, <<P(2, b2), P(1, b1)>>), Request("abort", u1),
   [Request("put", u1) EXCEPT !.body = b2]}

\* Workers are alike.
Symmetry == Permutations(Workers)
=============================================================================
