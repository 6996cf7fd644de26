------------------------------ MODULE RowLocks ------------------------------
(***************************************************************************)
(* The transactions on one customer's rows, at the level of the row locks  *)
(* they take.  Every read of these handlers is a SELECT ... FOR UPDATE of  *)
(* a READ COMMITTED transaction: it waits for the row, sees its last       *)
(* committed content and keeps the lock until the transaction ends.  What  *)
(* differs is the order in which the handlers ask:                         *)
(*                                                                         *)
(*   matching         order, customer, position                            *)
(*   cancelling       order, then customer (buy) or position (sell)        *)
(*   placing          customer, then position (sell)                       *)
(*   fee, margin call customer, position, then the pending orders          *)
(*   forced close     customer, position, then the pending sell orders     *)
(*                                                                         *)
(* so that they can wait for each other in a circle; PostgreSQL then makes *)
(* one of them fail.  The specification implements Escrow, where each of   *)
(* them is one step.                                                       *)
(***************************************************************************)
EXTENDS Integers, FiniteSets

CONSTANTS
  Orders, Sells, InitialShares,
  Marketable,   \* orders whose limit the price has crossed for good
  Txns,         \* the transactions that may run, as records [kind, order]
  NoOrder       \* the order of a transaction that is not about one

VARIABLES
  db,       \* committed rows
  pc,       \* "idle", "run", or "over"
  mode,     \* what the transaction is going to find outside these rows
  want,     \* the row the transaction waits for, or "nothing"
  todo,     \* the orders its last query returned
  seen      \* the rows it has locked, with the content it works on

vars == <<db, pc, mode, want, todo, seen>>

Atomic == INSTANCE Escrow WITH Orders <- Orders, Sells <- Sells,
                               InitialShares <- InitialShares, db <- db

Rows == {"customer", "position"} \cup Orders
Buys == Orders \ Sells

TxnRecords ==
  [kind : {"match", "instant", "cancel", "place"}, order : Orders]
  \cup [kind : {"fee", "call", "force"}, order : {NoOrder}]

ASSUME RowLocksAssumption ==
  /\ Atomic!LegalConstants
  /\ Marketable \subseteq Orders /\ NoOrder \notin Orders
  /\ {"nothing"} \cap Rows = {}
  /\ Txns \subseteq TxnRecords /\ IsFiniteSet(Txns)

\* What the handlers find in the rows that are not modelled: whether the limit
\* is crossed and the security may be bought, and whether the balance covers
\* the fee or the call, does so once the orders are cancelled, or never does.
Modes(t) ==
  CASE t.kind \in {"match", "instant"} ->
         IF t.order \in Marketable THEN {"fill", "drop"} ELSE {"fill", "drop", "skip"}
    [] t.kind \in {"fee", "call"} -> {"pay", "release", "close"}
    [] OTHER -> {"do"}

TypeOK ==
  /\ DOMAIN db = Rows
  /\ db["customer"] \in Int /\ db["position"] \in [qty : Int, avail : Int]
  /\ \A o \in Orders : db[o] \in {"none", "pending", "filled", "cancelled"}
  /\ pc \in [Txns -> {"idle", "run", "over"}]
  /\ mode \in [Txns -> {"fill", "drop", "skip", "pay", "release", "close", "do"}]
  /\ want \in [Txns -> Rows \cup {"nothing"}]
  /\ todo \in [Txns -> SUBSET Orders]
  /\ \A t \in Txns : DOMAIN seen[t] \subseteq Rows

Init ==
  /\ Atomic!Init
  /\ pc = [t \in Txns |-> "idle"]
  /\ mode = [t \in Txns |-> "do"]
  /\ want = [t \in Txns |-> "nothing"]
  /\ todo = [t \in Txns |-> {}]
  /\ seen = [t \in Txns |-> <<>>]

-----------------------------------------------------------------------------
(***************************************************************************)
(* Which rows a transaction asks for next, given the rows s it has and the *)
(* orders q its query returned: all of them are candidates, and it waits   *)
(* for one at a time.  No candidate: it is ready to end.                   *)
(***************************************************************************)
\* Fault: the status of the order is not looked at once its row is locked.
AnyStatus(s, o) == TRUE

StillPending(s, o) == s[o] = "pending"

\* Fault: the position is locked before the customer.
FillRowsSwapped(s) ==
  IF "position" \notin DOMAIN s THEN {"position"} ELSE {"customer"} \ DOMAIN s

\* matchLimitOrder and executeMobileOrder.
FillRows(s) ==
  IF "customer" \notin DOMAIN s THEN {"customer"} ELSE {"position"} \ DOMAIN s

\* releaseLimitOrderFreeze.
ReleaseRows(s, o) == {IF o \in Buys THEN "customer" ELSE "position"} \ DOMAIN s

SettleRows(t, s) ==
  IF t.order \notin DOMAIN s THEN {t.order}
  ELSE IF mode[t] = "skip" \/ ~ StillPending(s, t.order) THEN {}
  ELSE IF mode[t] = "fill" THEN FillRows(s) ELSE ReleaseRows(s, t.order)

\* Fault: the placement of a sell order locks the position before the customer.
PlaceRowsSwapped(t, s) ==
  IF t.order \in Sells /\ "position" \notin DOMAIN s THEN {"position"}
  ELSE {"customer"} \ DOMAIN s

PlaceRows(t, s) ==
  IF "customer" \notin DOMAIN s THEN {"customer"}
  ELSE IF t.order \in Sells THEN {"position"} \ DOMAIN s ELSE {}

\* The query of positions with shares returns no row when there is none.
BatchRows(t, s, q) ==
  IF "customer" \notin DOMAIN s THEN {"customer"}
  ELSE IF "position" \notin DOMAIN s
       THEN IF db["position"].qty > 0 THEN {"position"} ELSE {}
  ELSE IF s["position"].qty > 0 /\ mode[t] # "pay" THEN q \ DOMAIN s ELSE {}

ForceRows(s, q) ==
  IF "customer" \notin DOMAIN s THEN {"customer"}
  ELSE IF "position" \notin DOMAIN s THEN {"position"}
  ELSE IF s["position"].qty > 0 THEN q \ DOMAIN s ELSE {}

Candidates(t, s, q) ==
  CASE t.kind \in {"match", "instant", "cancel"} -> SettleRows(t, s)
    [] t.kind = "place"          -> PlaceRows(t, s)
    [] t.kind \in {"fee", "call"} -> BatchRows(t, s, q)
    [] t.kind = "force"          -> ForceRows(s, q)

\* What the transaction waits for next.
AskFor(t, s, q) ==
  \E r \in Candidates(t, s, q) \cup {"nothing"} :
    /\ r = "nothing" <=> Candidates(t, s, q) = {}
    /\ want' = [want EXCEPT ![t] = r]

\* The query of the pending orders starts when the position has been locked.
Queried(t, r) ==
  IF r # "position" THEN todo[t]
  ELSE IF t.kind \in {"fee", "call"} THEN Atomic!Pending(db)
  ELSE IF t.kind = "force" THEN Atomic!Pending(db) \cap Sells ELSE todo[t]

-----------------------------------------------------------------------------
\* The jobs list the pending orders, or the customers with shares; a request
\* names an order that exists.
Begin(t) ==
  /\ pc[t] = "idle"
  /\ t.kind = "match" => db[t.order] = "pending"
  /\ t.kind \in {"instant", "cancel"} => db[t.order] # "none"
  /\ t.kind \in {"fee", "call"} => db["position"].qty > 0
  /\ pc' = [pc EXCEPT ![t] = "run"]
  /\ \E m \in Modes(t) : mode' = [mode EXCEPT ![t] = m]
  /\ AskFor(t, seen[t], todo[t])
  /\ UNCHANGED <<db, todo, seen>>

\* Fault: a row is read without FOR UPDATE.
FreeOrNot(r) == TRUE

Free(r) == \A u \in Txns : r \notin DOMAIN seen[u]

Locked(t, r) == [x \in DOMAIN seen[t] \cup {r} |-> IF x = r THEN db[r] ELSE seen[t][x]]

\* FIRST ... FOR UPDATE: the row is free, and read as it is now.
Lock(t) ==
  LET r == want[t]
  IN  /\ pc[t] = "run" /\ r # "nothing" /\ Free(r)
      /\ seen' = [seen EXCEPT ![t] = Locked(t, r)]
      /\ todo' = [todo EXCEPT ![t] = Queried(t, r)]
      /\ AskFor(t, Locked(t, r), Queried(t, r))
      /\ UNCHANGED <<db, pc, mode>>

\* Fault: the job that matches the orders does not come back.
OverForGood(t) == "over"

\* The job that matches the orders runs every minute, a request or a batch once.
Afterwards(t) == IF t.kind = "match" THEN "idle" ELSE "over"

\* Fault: the transaction ends without giving its rows back.
StillSeen(t) == seen[t]

NoLongerSeen(t) == <<>>

\* The transaction ends and gives its locks back.
Ended(t) ==
  /\ pc' = [pc EXCEPT ![t] = Afterwards(t)]
  /\ mode' = [mode EXCEPT ![t] = "do"]
  /\ want' = [want EXCEPT ![t] = "nothing"]
  /\ todo' = [todo EXCEPT ![t] = {}]
  /\ seen' = [seen EXCEPT ![t] = NoLongerSeen(t)]

Ready(t) == pc[t] = "run" /\ want[t] = "nothing"

\* The database as the transaction leaves it: its copies of the rows it locked.
View(t) == [r \in Rows |-> IF r \in DOMAIN seen[t] THEN seen[t][r] ELSE db[r]]

Holds(t) == t.order \in Buys => View(t)["customer"] > 0

Fills(t) ==
  /\ t.kind \in {"match", "instant"} /\ mode[t] = "fill"
  /\ StillPending(View(t), t.order) /\ Holds(t)

Drops(t) ==
  /\ t.kind = "cancel" \/ mode[t] = "drop"
  /\ StillPending(View(t), t.order) /\ Holds(t)

Places(t) == t.kind = "place" /\ Atomic!MayPlace(View(t), t.order)

Opened(t) == "position" \in DOMAIN seen[t] /\ seen[t]["position"].qty > 0

\* The pending orders among those the query returned.
Found(t) == {o \in todo[t] : View(t)[o] = "pending"}

CommitFill(t) == Ready(t) /\ Fills(t) /\ db' = Atomic!Filled(View(t), t.order) /\ Ended(t)

CommitCancel(t) ==
  Ready(t) /\ Drops(t) /\ db' = Atomic!Cancelled(View(t), {t.order}) /\ Ended(t)

CommitPlace(t) == Ready(t) /\ Places(t) /\ db' = Atomic!Placed(View(t), t.order) /\ Ended(t)

CommitRelease(t) ==
  /\ Ready(t) /\ mode[t] = "release" /\ Opened(t)
  /\ db' = Atomic!Cancelled(View(t), Found(t))
  /\ Ended(t)

CommitClose(t) ==
  /\ Ready(t) /\ Opened(t)
  /\ mode[t] = "close" \/ t.kind = "force"
  /\ db' = Atomic!Closed(View(t), Found(t))
  /\ Ended(t)

\* Nothing to do, or an error of the handler and a rollback.
EndEmpty(t) ==
  /\ Ready(t)
  /\ ~ Fills(t) /\ ~ Drops(t) /\ ~ Places(t)
  /\ Opened(t) => mode[t] \notin {"release", "close"} /\ t.kind # "force"
  /\ Ended(t)
  /\ UNCHANGED db

Commit(t) ==
  \/ CommitFill(t) \/ CommitCancel(t) \/ CommitPlace(t)
  \/ CommitRelease(t) \/ CommitClose(t)
  \/ EndEmpty(t)

-----------------------------------------------------------------------------
(***************************************************************************)
(* The deadlock detector of PostgreSQL makes one transaction of a circle   *)
(* of waits fail.  A transaction waits for the one that holds the row it   *)
(* wants and, when others have been waiting for that row before, for them  *)
(* too: the first in the queue has the lock of the tuple.                  *)
(*                                                                         *)
(* Waits for earlier waiters make no circle of their own: the last of them *)
(* waits for the holder of the row, and so does everybody behind him.  So  *)
(* there is a circle exactly when there is one of waits for holders, but   *)
(* its victim may also be one that an arrival on that circle has queued up *)
(* behind.  The order of arrival is not recorded: whoever waits for the    *)
(* same row as a transaction on the circle may have been there before it.  *)
(***************************************************************************)
WaitsFor(t) == {u \in Txns \ {t} : want[t] \in DOMAIN seen[u]}

\* Following the waits for holders from t, at most one from each, leads back to t.
OnCircle(t) ==
  LET followed[n \in 0..Cardinality(Txns)] ==
        IF n = 0 THEN WaitsFor(t)
        ELSE UNION {{u} \cup WaitsFor(u) : u \in followed[n-1]}
  IN  t \in followed[Cardinality(Txns)]

\* t is on a circle, or somebody on one waits for the same row behind t.
Victim(t) ==
  /\ want[t] # "nothing"
  /\ \E u \in Txns : want[u] = want[t] /\ OnCircle(u)

Abort(t) == Ended(t) /\ UNCHANGED db /\ Victim(t)

Next == \E t \in Txns : Begin(t) \/ Lock(t) \/ Commit(t) \/ Abort(t)

(***************************************************************************)
(* The scheduler starts the matching job again and again, and no handler   *)
(* stops in the middle of a transaction.  PostgreSQL serves the waiters of *)
(* a row in turn (strong fairness of Lock) and breaks every circle: the    *)
(* last transaction to join one finds it when its deadlock timer fires.    *)
(***************************************************************************)
BreaksCircle(t) == OnCircle(t) /\ Abort(t)

Fairness == \A t \in Txns :
  /\ t.kind = "match" => WF_vars(Begin(t))
  /\ SF_vars(Lock(t))
  /\ WF_vars(Commit(t) \/ BreaksCircle(t))

Spec == Init /\ [][Next]_vars /\ Fairness

-----------------------------------------------------------------------------
\* Every history of these transactions is one of the atomic operations: no
\* update is lost and none is based on rows that have changed meanwhile.
ImplementsEscrow == Atomic!Spec

\* The committed rows always add up: see Escrow.
Exact == Atomic!Exact

\* Every deadlock takes a batch that has the customer and goes back for the order
\* rows: placements, matches, cancellations and batches that the balance covers
\* never make each other fail.
DeadlocksTakeABatch == [][
  \A t \in Txns : Abort(t) =>
    \E u \in Txns :
      /\ u.kind \in {"fee", "call", "force"}
      /\ "customer" \in DOMAIN seen[u] /\ want[u] \in Orders
  ]_vars

\* A placement, or a fee or call that the balance covers, can be the victim of a
\* deadlock only while it is queued for the row of the customer and has locked
\* nothing: once it has that row no deadlock undoes its work.
BystandersUnharmed == [][
  \A t \in Txns : (t.kind = "place" \/ mode[t] = "pay") /\ Abort(t) =>
    want[t] = "customer" /\ DOMAIN seen[t] = {}
  ]_vars

\* Every transaction ends, whatever it has to wait for.
EveryoneEnds == \A t \in Txns : pc[t] = "run" ~> pc[t] # "run"

\* A pending order whose limit is crossed for good is filled or cancelled,
\* however often its matching is made to fail.
MarketableSettled == \A o \in Marketable : db[o] = "pending" ~> db[o] # "pending"
=============================================================================
