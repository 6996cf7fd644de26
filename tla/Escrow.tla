------------------------------- MODULE Escrow -------------------------------
(***************************************************************************)
(* What the limit orders of one customer promise, with every operation in  *)
(* one step.  A pending buy order holds one unit of the frozen balance and *)
(* a pending sell order one share of the position; filling, cancelling and *)
(* force-closing give back exactly what the orders they settle hold.       *)
(*                                                                         *)
(* db is the committed content of the rows: the frozen balance of the      *)
(* customers row, the shares of the one position row and the status of     *)
(* each limit order.                                                       *)
(***************************************************************************)
EXTENDS Integers, FiniteSets

CONSTANTS Orders, Sells, InitialShares

\* What an instance has to give (assumed by RowLocks).
LegalConstants ==
  /\ Sells \subseteq Orders /\ IsFiniteSet(Orders)
  /\ {"customer", "position"} \cap Orders = {}
  /\ InitialShares \in Nat

VARIABLE db

Rows == {"customer", "position"} \cup Orders
Buys == Orders \ Sells

Shares(qty, avail) == [qty |-> qty, avail |-> avail]

Pending(d) == {o \in Orders : d[o] = "pending"}

\* The row r of d once frozen is added to the frozen balance, the shares are
\* shares and the orders of S have the given status.
Changed(d, frozen, shares, S, status) == [r \in Rows |->
  IF r \in S THEN status
  ELSE IF r = "customer" THEN d[r] + frozen
  ELSE IF r = "position" THEN shares ELSE d[r]]

MayPlace(d, o) == d[o] = "none" /\ (o \in Sells => d["position"].avail > 0)

\* Fault: the order is stored without a status.
PlacedBlank(d, o) == Changed(d, IF o \in Buys THEN 1 ELSE 0, d["position"], {o}, "")

Placed(d, o) ==
  IF o \in Buys
  THEN Changed(d, 1, d["position"], {o}, "pending")
  ELSE Changed(d, 0, Shares(d["position"].qty, d["position"].avail - 1), {o}, "pending")

\* A filled buy order adds a share, a filled sell order takes the one it held.
Filled(d, o) ==
  IF o \in Buys
  THEN Changed(d, -1, Shares(d["position"].qty + 1, d["position"].avail + 1), {o}, "filled")
  ELSE Changed(d, 0, Shares(d["position"].qty - 1, d["position"].avail), {o}, "filled")

\* Fault: the shares that the cancelled sell orders hold stay locked.
CancelledKeepingShares(d, S) ==
  Changed(d, - Cardinality(S \cap Buys), d["position"], S, "cancelled")

Cancelled(d, S) ==
  Changed(d, - Cardinality(S \cap Buys),
          Shares(d["position"].qty, d["position"].avail + Cardinality(S \cap Sells)),
          S, "cancelled")

Closed(d, S) == Changed(d, - Cardinality(S \cap Buys), Shares(0, 0), S, "cancelled")

Init ==
  db = [r \in Rows |-> IF r = "customer" THEN 0
                       ELSE IF r = "position" THEN Shares(InitialShares, InitialShares)
                       ELSE "none"]

Place(o)  == MayPlace(db, o) /\ db' = Placed(db, o)
Fill(o)   == o \in Pending(db) /\ db' = Filled(db, o)
Cancel(o) == o \in Pending(db) /\ db' = Cancelled(db, {o})

\* The batches settle every pending order, an administrator only the sell orders.
Release == db["position"].qty > 0 /\ db' = Cancelled(db, Pending(db))
CloseAll == db["position"].qty > 0 /\ db' = Closed(db, Pending(db))
ForceClose == db["position"].qty > 0 /\ db' = Closed(db, Pending(db) \cap Sells)

Next ==
  \/ \E o \in Orders : Place(o) \/ Fill(o) \/ Cancel(o)
  \/ Release
  \/ CloseAll
  \/ ForceClose

Spec == Init /\ [][Next]_db

\* The frozen balance is what the pending buy orders hold, and the shares that
\* are not available are those of the pending sell orders.
Exact ==
  /\ db["customer"] = Cardinality(Pending(db) \cap Buys)
  /\ db["position"].qty - db["position"].avail = Cardinality(Pending(db) \cap Sells)
  /\ db["position"].avail >= 0
=============================================================================
