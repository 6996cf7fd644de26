----------------------------- MODULE MCIdentity -----------------------------
(* Two customers, two requests at a time.                                    *)
EXTENDS Identity, TLC

CONSTANTS c1, c2, p1, p2, n1, n2, f1, f2, f3, f4, q1, q2

MCSymmetry ==
  Permutations(Customers) \cup Permutations(Phones) \cup Permutations(People)
  \cup Permutations(Files) \cup Permutations(Requests)
=============================================================================
