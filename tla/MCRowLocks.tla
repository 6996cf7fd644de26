----------------------------- MODULE MCRowLocks -----------------------------
(* One buy and one sell order, placed and matched by the job, against a fee  *)
(* and a forced close; the sell order is also matched after its placement    *)
(* and cancelled by the customer.  The liveness run leaves out that match    *)
(* and the forced close.                                                     *)
EXTENDS RowLocks

CONSTANTS b, s

On(kinds, orders) == [kind : kinds, order : orders]

MCTxns ==
  On({"match", "place"}, {b, s}) \cup On({"instant", "cancel"}, {s})
  \cup On({"fee", "force"}, {NoOrder})

MCLiveTxns ==
  On({"match", "place"}, {b, s}) \cup On({"cancel"}, {s}) \cup On({"fee"}, {NoOrder})
=============================================================================
