--------------------------- MODULE MCAdminSession ---------------------------
(***************************************************************************)
(* A small instance of AdminSession.                                       *)
(***************************************************************************)
EXTENDS AdminSession, TLC

\* Browsers at one address whose requests overlap, while users are changed.
Browsers(i) ==
  [ips |-> {i}, kinds |-> {"login", "cookie", "logout"}, secrets |-> {TRUE},
   roleChanges |-> TRUE, overlap |-> TRUE, logins |-> 2]

\* More logins than the session table holds.
ManyLogins(i) == [Browsers(i) EXCEPT !.roleChanges = FALSE, !.overlap = FALSE, !.logins = 3]

\* Scripts with right and wrong secrets, at every address.
Scripts ==
  [ips |-> IPs, kinds |-> {"header"}, secrets |-> BOOLEAN,
   roleChanges |-> FALSE, overlap |-> TRUE, logins |-> 0]

AllMixes == {Scripts} \cup UNION {{Browsers(i), ManyLogins(i)} : i \in IPs}

\* Goroutines are interchangeable, and so are addresses.
Symmetry == Permutations(Workers) \cup Permutations(IPs)
=============================================================================
