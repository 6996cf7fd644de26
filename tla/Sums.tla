-------------------------------- MODULE Sums --------------------------------
(***************************************************************************)
(* The total of a column over the rows 1..n of a table.  Row ids are       *)
(* database ids, so a table is a function over 1..n.  The definition is a  *)
(* recursive function over the prefix lengths: module MathProofs derives   *)
(* from it what the proofs about the ledger need, which the folds of the   *)
(* community modules do not allow.                                         *)
(***************************************************************************)
EXTENDS Integers

Total(f, n) ==
  LET upTo[i \in 0..n] == IF i = 0 THEN 0 ELSE upTo[i-1] + f[i]
  IN  upTo[n]
=============================================================================
