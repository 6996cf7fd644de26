---------------------------- MODULE LedgerProofs ----------------------------
(***************************************************************************)
(* The ledgers of an account agree, for every value of the constants: the  *)
(* frozen balance with the pending orders and withdrawals, the shares held *)
(* with those the pending sell orders lock, and all the money with what    *)
(* came in from outside.  Overlapping deposits and rows written by hand    *)
(* each break one of them; no interleaving drives the freeze below zero.   *)
(* The last part proves what a step may never do: make a fill cost more    *)
(* than was frozen, forget a called level, close an account by halves, or  *)
(* run a customer into debt without a loss.                                *)
(***************************************************************************)
EXTENDS AccountProofs

\* The frozen column of a customers row that was changed.
LEMMA BookFrozen ==
  ASSUME NEW c, NEW a, NEW b, NEW d
  PROVE  Book(c, a, b, d).frozen = c.frozen + b
BY DEF Book

\* executeMobileOrder leaves the frozen balance of its caller alone.
LEMMA ExecuteFrozen ==
  ASSUME NEW c \in CustomerRow, NEW p, NEW s, NEW direction, NEW q, NEW price, NEW lev,
         Execute(c, p, s, direction, q, price, lev)
  PROVE  customer'.frozen = c.frozen
<1>1. c.frozen + 0 = c.frozen
  BY DEF CustomerRow
<1>2. \E a, d : customer' = Book(c, a, 0, d)
  BY Zenon DEF Execute
<1> QED BY <1>1, <1>2, BookFrozen

\* Neither does a management fee, nor forgiving a debt.
LEMMA PayFeeFrozen ==
  ASSUME NEW c \in CustomerRow
  PROVE  /\ \A fee : PayFee(c, fee) => customer'.frozen = c.frozen
         /\ Forgive(c) => customer'.frozen = c.frozen
<1>1. c.frozen + 0 = c.frozen
  BY DEF CustomerRow
<1>2. ASSUME NEW fee, PayFee(c, fee)
      PROVE  customer'.frozen = c.frozen
  <2>1. \E a : customer' = Book(c, a, 0, 0)
    BY <1>2, Zenon DEF PayFee
  <2> QED BY <1>1, <2>1, BookFrozen
<1>3. ASSUME Forgive(c)
      PROVE  customer'.frozen = c.frozen
  <2>1. \E a : customer' = Book(c, a, 0, 0)
    BY <1>3, Zenon DEF Forgive
  <2> QED BY <1>1, <2>1, BookFrozen
<1> QED BY <1>2, <1>3

\* The frozen balance after a batch has cancelled the orders.
LEMMA CancelledFrozen ==
  ASSUME TypeOK, NEW px
  PROVE  /\ CustomerCancelled.frozen = Larger(0, customer.frozen - Released)
         /\ CustomerClosed(px).frozen = CustomerCancelled.frozen
<1>1. customer.frozen \in Int /\ Released \in Int
  BY PendingTotals DEF TypeOK, CustomerRow
<1>2. CustomerCancelled.frozen = Larger(0, customer.frozen - Released)
  <2>1. CustomerCancelled.frozen
          = customer.frozen + (Larger(0, customer.frozen - Released) - customer.frozen)
    BY BookFrozen DEF CustomerCancelled
  <2> QED BY <1>1, <2>1 DEF Larger
<1>3. CustomerClosed(px).frozen = CustomerCancelled.frozen
  <2>1. CustomerClosed(px).frozen = CustomerCancelled.frozen + 0
    BY BookFrozen DEF CustomerClosed
  <2>2. CustomerCancelled.frozen \in Int
    BY <1>1, <1>2 DEF Larger
  <2> QED BY <2>1, <2>2
<1> QED BY <1>2, <1>3

-----------------------------------------------------------------------------
(***************************************************************************)
(* The frozen balance after each step, with no assumption on overlaps.     *)
(***************************************************************************)
Held(o) == IF orders[o].direction = "buy" THEN orders[o].frozenAmount ELSE 0

\* What the steps on single orders do to the frozen balance.
LEMMA OrderFrozen ==
  ASSUME TypeInv, NEW o \in OrderIds
  PROVE  /\ CancelOrder(o) =>
              /\ customer'.frozen = customer.frozen - Held(o)
              /\ customer.frozen >= Held(o) \/ customer' = customer
         /\ \A price, lev : MatchOrder(o, price, lev) =>
              /\ customer'.frozen = customer.frozen - Held(o)
              /\ customer.frozen >= Held(o) \/ Held(o) = 0
<1>1. /\ customer \in CustomerRow /\ customer.frozen \in Int
      /\ orders[o].frozenAmount \in Nat /\ orders[o].direction \in Directions
  BY DEF TypeInv, TypeOK, CustomerRow, OrderRow
<1>2. Unfrozen(o).frozen = customer.frozen - orders[o].frozenAmount
  <2>1. Unfrozen(o).frozen = customer.frozen + (- orders[o].frozenAmount)
    BY BookFrozen DEF Unfrozen
  <2> QED BY <1>1, <2>1
<1>3. ASSUME CancelOrder(o)
      PROVE  /\ customer'.frozen = customer.frozen - Held(o)
             /\ customer.frozen >= Held(o) \/ customer' = customer
  <2>1. ReleaseFreeze(o)
    BY <1>3 DEF CancelOrder
  <2>2. CASE orders[o].direction = "buy"
    BY <1>2, <2>1, <2>2 DEF ReleaseFreeze, Held
  <2>3. CASE orders[o].direction # "buy"
    BY <1>1, <2>1, <2>3 DEF ReleaseFreeze, Held
  <2> QED BY <2>2, <2>3
<1>4. ASSUME NEW price, NEW lev, MatchOrder(o, price, lev)
      PROVE  /\ customer'.frozen = customer.frozen - Held(o)
             /\ customer.frozen >= Held(o) \/ Held(o) = 0
  <2>1. CASE orders[o].direction = "buy"
    <3>1. \E p : Execute(Unfrozen(o), p, orders[o].security, orders[o].direction,
                         orders[o].qty, price, lev)
      BY <1>4, <2>1, Zenon DEF MatchOrder
    <3>2. Unfrozen(o) \in CustomerRow
      BY UnfrozenType DEF TypeInv
    <3>3. customer.frozen >= orders[o].frozenAmount
      BY <1>4, <2>1 DEF MatchOrder
    <3> QED BY <1>2, <2>1, <3>1, <3>2, <3>3, ExecuteFrozen DEF Held
  <2>2. CASE orders[o].direction # "buy"
    <3>1. \E p : Execute(customer, p, orders[o].security, orders[o].direction,
                         orders[o].qty, price, lev)
      BY <1>4, <2>2, Zenon DEF MatchOrder
    <3>2. customer'.frozen = customer.frozen
      BY <1>1, <3>1, ExecuteFrozen
    <3> QED BY <1>1, <2>2, <3>2 DEF Held
  <2> QED BY <2>1, <2>2
<1> QED BY <1>3, <1>4

\* What the batches do to it: nothing, or the freezes of the orders are released.
LEMMA BatchFrozen ==
  ASSUME TypeInv, Batches
  PROVE  \/ customer'.frozen = customer.frozen /\ UNCHANGED orders
         \/ customer'.frozen = Larger(0, customer.frozen - Released) /\ orders' = OrdersCancelled
<1>1. PICK px \in [Securities -> Prices], py \in [Securities -> Prices] :
        \/ \E d \in Days :
             FeeFromBalance(d, px) \/ FeeAfterCancelling(d, px) \/ FeeForced(d, px, py)
        \/ CallFromBalance(px) \/ CallAfterCancelling(px) \/ CallForced(px, py)
  BY Zenon DEF Batches
<1>2. /\ customer \in CustomerRow /\ CustomerCancelled \in CustomerRow
      /\ CustomerClosed(py) \in CustomerRow
      /\ customer.frozen + 0 = customer.frozen
      /\ CustomerCancelled.frozen + 0 = CustomerCancelled.frozen
  BY CancelledTypes, ClosedTypes DEF TypeInv, TypeOK, CustomerRow
<1>3. /\ CustomerCancelled.frozen = Larger(0, customer.frozen - Released)
      /\ CustomerClosed(py).frozen = CustomerCancelled.frozen
  BY CancelledFrozen DEF TypeInv
<1>4. ASSUME NEW d \in Days, FeeFromBalance(d, px)
      PROVE  customer'.frozen = customer.frozen /\ UNCHANGED orders
  BY <1>2, <1>4, PayFeeFrozen DEF FeeFromBalance
<1>5. ASSUME NEW d \in Days, FeeAfterCancelling(d, px)
      PROVE  customer'.frozen = CustomerCancelled.frozen /\ orders' = OrdersCancelled
  BY <1>2, <1>5, PayFeeFrozen DEF FeeAfterCancelling
<1>6. ASSUME NEW d \in Days, FeeForced(d, px, py)
      PROVE  customer'.frozen = CustomerClosed(py).frozen /\ orders' = OrdersCancelled
  BY <1>2, <1>6, PayFeeFrozen DEF FeeForced
<1>7. ASSUME CallFromBalance(px)
      PROVE  customer'.frozen = customer.frozen /\ UNCHANGED orders
  BY <1>2, <1>7, BookFrozen DEF CallFromBalance
<1>8. ASSUME CallAfterCancelling(px)
      PROVE  customer'.frozen = CustomerCancelled.frozen /\ orders' = OrdersCancelled
  BY <1>2, <1>8, BookFrozen DEF CallAfterCancelling
<1>9. ASSUME CallForced(px, py)
      PROVE  customer'.frozen = CustomerClosed(py).frozen /\ orders' = OrdersCancelled
  BY <1>2, <1>9, PayFeeFrozen DEF CallForced
<1> QED BY <1>1, <1>3, <1>4, <1>5, <1>6, <1>7, <1>8, <1>9

-----------------------------------------------------------------------------
(***************************************************************************)
(* The frozen balance never goes below zero.  The copy of a deposit in     *)
(* flight is written back whole, so it is part of the inductive invariant. *)
(***************************************************************************)
FrozenInv == TypeInv /\ FrozenNeverNegative /\ deposit.copy.frozen >= 0

\* No step, overlapping or written by hand, makes the frozen balance negative.
LEMMA FrozenStep ==
  ASSUME FrozenInv, [Next]_vars
  PROVE  FrozenInv'
<1>1. TypeInv /\ TypeInv'
  BY StepType DEF FrozenInv
<1>2. /\ customer \in CustomerRow /\ customer.frozen \in Int /\ customer.frozen >= 0
      /\ deposit.copy.frozen >= 0 /\ customer.frozen + 0 = customer.frozen
  BY DEF FrozenInv, TypeInv, TypeOK, CustomerRow, FrozenNeverNegative
<1>3. CASE Trading
  <2>0. deposit' = deposit
    BY <1>3 DEF Trading, PlaceOrder, PlaceLimitBuy, PlaceLimitSell, CancelOrder, MatchOrder
  <2>1. ASSUME NEW s \in Securities, NEW dir \in Directions, NEW q \in Quantities,
               NEW price \in Prices, NEW lev \in Leverages, PlaceOrder(s, dir, q, price, lev)
        PROVE  customer'.frozen >= 0
    BY <1>2, <2>1, ExecuteFrozen DEF PlaceOrder
  <2>2. ASSUME NEW o \in OrderIds, NEW s \in Securities, NEW limit \in Prices,
               NEW q \in Quantities, PlaceLimitBuy(o, s, limit, q)
        PROVE  customer'.frozen >= 0
    <3>1. BuyDebit(s, q, limit) \in Nat
      BY BuyDebitType, InputTypes
    <3>2. customer'.frozen = customer.frozen + BuyDebit(s, q, limit)
      BY <2>2, BookFrozen DEF PlaceLimitBuy
    <3> QED BY <1>2, <3>1, <3>2
  <2>3. ASSUME NEW o \in OrderIds, NEW s \in Securities, NEW limit \in Prices,
               NEW q \in Quantities, PlaceLimitSell(o, s, limit, q)
        PROVE  customer'.frozen >= 0
    BY <1>2, <2>3 DEF PlaceLimitSell
  <2>4. ASSUME NEW o \in OrderIds
        PROVE  Held(o) \in Int
    BY <1>1 DEF Held, TypeInv, TypeOK, OrderRow
  <2>5. ASSUME NEW o \in OrderIds, CancelOrder(o)
        PROVE  customer'.frozen >= 0
    BY <1>1, <1>2, <2>4, <2>5, OrderFrozen
  <2>6. ASSUME NEW o \in OrderIds, NEW price \in Prices, NEW lev \in Leverages,
               MatchOrder(o, price, lev)
        PROVE  customer'.frozen >= 0
    BY <1>1, <1>2, <2>4, <2>6, OrderFrozen
  <2>7. customer'.frozen >= 0
    BY <1>3, <2>1, <2>2, <2>3, <2>5, <2>6, Zenon DEF Trading
  <2> QED BY <1>1, <1>2, <2>0, <2>7 DEF FrozenInv, FrozenNeverNegative
<1>4. CASE Batches
  <2>1. deposit' = deposit
    BY <1>4 DEF Batches, FeeFromBalance, FeeAfterCancelling, FeeForced, FeeDue,
       CallFromBalance, CallAfterCancelling, CallForced, CallDue
  <2>2. customer'.frozen >= 0
    <3>1. Released \in Int
      BY <1>1, PendingTotals DEF TypeInv
    <3> QED BY <1>1, <1>2, <1>4, <3>1, BatchFrozen DEF Larger
  <2> QED BY <1>1, <1>2, <2>1, <2>2 DEF FrozenInv, FrozenNeverNegative
<1>5. CASE Transfers
  <2>1. deposit' = deposit
    BY <1>5 DEF Transfers, RequestRecharge, ReviewRecharge, RequestWithdrawal, ReviewWithdrawal
  <2>2. ASSUME NEW r \in RechargeIds, NEW approve \in BOOLEAN, ReviewRecharge(r, approve)
        PROVE  customer'.frozen >= 0
    BY <1>2, <2>2, BookFrozen DEF ReviewRecharge
  <2>3. ASSUME NEW w \in WithdrawalIds, NEW amount \in Amounts, RequestWithdrawal(w, amount)
        PROVE  customer'.frozen >= 0
    <3>1. amount \in Nat
      BY InputTypes
    <3>2. customer'.frozen = customer.frozen + amount
      BY <2>3, BookFrozen DEF RequestWithdrawal
    <3> QED BY <1>2, <3>1, <3>2
  <2>4. ASSUME NEW w \in WithdrawalIds, NEW approve \in BOOLEAN, ReviewWithdrawal(w, approve)
        PROVE  customer'.frozen >= 0
    <3>1. withdrawals[w].amount \in Int /\ customer.frozen >= withdrawals[w].amount
      BY <1>1, <2>4 DEF ReviewWithdrawal, TypeInv, TypeOK, RequestRow
    <3>2. customer'.frozen = customer.frozen + (- withdrawals[w].amount)
      BY <2>4, BookFrozen DEF ReviewWithdrawal
    <3> QED BY <1>2, <3>1, <3>2
  <2>5. \A r \in RechargeIds, amount \in Amounts :
          RequestRecharge(r, amount) => customer'.frozen >= 0
    BY <1>2 DEF RequestRecharge
  <2>6. customer'.frozen >= 0
    BY <1>5, <2>2, <2>3, <2>4, <2>5, Zenon DEF Transfers
  <2> QED BY <1>1, <1>2, <2>1, <2>6 DEF FrozenInv, FrozenNeverNegative
<1>6. CASE Administration
  <2>1. ASSUME NEW amount \in Int, ReadDeposit(amount)
        PROVE  customer'.frozen >= 0 /\ deposit'.copy.frozen >= 0
    <3>1. deposit'.copy.frozen = customer.frozen + 0
      BY <2>1, BookFrozen DEF ReadDeposit
    <3> QED BY <1>2, <2>1, <3>1 DEF ReadDeposit
  <2>2. ASSUME WriteDeposit
        PROVE  customer'.frozen >= 0 /\ deposit'.copy.frozen >= 0
    BY <1>2, <2>2 DEF WriteDeposit, NoDeposit, NewCustomer
  <2>3. ASSUME NEW f \in ToggledFlags, SwitchFlag(f)
        PROVE  customer'.frozen >= 0 /\ deposit'.copy.frozen >= 0
    BY <1>2, <2>3 DEF SwitchFlag, CustomerRow
  <2>4. ASSUME NEW s \in Securities, NEW price \in Prices, ForceClosePosition(s, price)
        PROVE  customer'.frozen >= 0 /\ deposit'.copy.frozen >= 0
    <3>1. \E a, d : customer' = Book(customer, a, 0, d)
      BY <2>4, Zenon DEF ForceClosePosition
    <3>2. deposit' = deposit
      BY <2>4, Zenon DEF ForceClosePosition
    <3> QED BY <1>2, <3>1, <3>2, BookFrozen
  <2>5. ASSUME UNCHANGED <<customer, deposit>>
        PROVE  customer'.frozen >= 0 /\ deposit'.copy.frozen >= 0
    BY <1>2, <2>5
  <2>6. /\ \A amount \in Amounts : amount \in Int
        /\ \A amount \in Deductions : - amount \in Int
    BY InputTypes
  <2>7. customer'.frozen >= 0 /\ deposit'.copy.frozen >= 0
    BY <1>6, <2>1, <2>2, <2>3, <2>4, <2>5, <2>6 DEF Administration, SavePosition,
       DeletePosition, CreateRecharge, CreateWithdrawal
  <2> QED BY <1>1, <2>7 DEF FrozenInv, FrozenNeverNegative
<1>7. CASE UNCHANGED vars
  BY <1>1, <1>2, <1>7 DEF vars, FrozenInv, FrozenNeverNegative
<1> QED BY <1>3, <1>4, <1>5, <1>6, <1>7 DEF Next

\* The frozen balance is never negative: every path that takes a freeze out
\* compares it with the balance or stops at zero, even when a deposit restores
\* an old frozen balance and when withdrawals are created by hand.
THEOREM FrozenSafe == Spec => []FrozenNeverNegative
<1>1. Init => FrozenInv
  BY InitType DEF Init, FrozenInv, FrozenNeverNegative, NewCustomer, NoDeposit
<1>2. FrozenInv /\ [Next]_vars => FrozenInv'
  BY FrozenStep
<1>3. FrozenInv => FrozenNeverNegative
  BY DEF FrozenInv
<1> QED BY <1>1, <1>2, <1>3, PTL DEF Spec

-----------------------------------------------------------------------------
(***************************************************************************)
(* The frozen balance is exactly the freezes.  A step that changes one row *)
(* changes the total by that row; the batches leave nothing pending.       *)
(***************************************************************************)

\* Changing one order changes the released total by that order's entry.
LEMMA BuysUpdate ==
  ASSUME TypeOK, TypeOK', NEW o \in OrderIds,
         \A k \in OrderIds : k # o => orders'[k] = orders[k]
  PROVE  Released' = Released - PendingBuys[o] + PendingBuys'[o]
<1>1. /\ PendingBuys \in [1..MaxOrders -> Int]
      /\ PendingBuys' \in [1..MaxOrders -> Int]
  <2>1. /\ orders \in [OrderIds -> OrderRow]
        /\ orders' \in [OrderIds -> OrderRow]
    BY DEF TypeOK
  <2>2. \A row \in OrderRow : row.frozenAmount \in Int /\ row.frozenQty \in Int
    BY DEF OrderRow
  <2>3. \A k \in 1..MaxOrders : orders[k] \in OrderRow /\ orders'[k] \in OrderRow
    BY <2>1 DEF OrderIds
  <2> QED BY <2>2, <2>3 DEF PendingBuys, OrderIds
<1>2. \A k \in 1..MaxOrders : k # o => PendingBuys'[k] = PendingBuys[k]
  BY DEF PendingBuys, OrderIds
<1>3. MaxOrders \in Nat /\ o \in 1..MaxOrders
  BY AccountAssumption DEF OrderIds
<1> QED BY <1>1, <1>2, <1>3, TotalUpdate DEF Released

\* Changing no buy order leaves it as it is.
LEMMA BuysSame ==
  ASSUME TypeOK, TypeOK', \A k \in OrderIds : PendingBuys'[k] = PendingBuys[k]
  PROVE  Released' = Released
<1>1. /\ PendingBuys \in [1..MaxOrders -> Int]
      /\ PendingBuys' \in [1..MaxOrders -> Int]
  <2>1. /\ orders \in [OrderIds -> OrderRow]
        /\ orders' \in [OrderIds -> OrderRow]
    BY DEF TypeOK
  <2>2. \A row \in OrderRow : row.frozenAmount \in Int /\ row.frozenQty \in Int
    BY DEF OrderRow
  <2>3. \A k \in 1..MaxOrders : orders[k] \in OrderRow /\ orders'[k] \in OrderRow
    BY <2>1 DEF OrderIds
  <2> QED BY <2>2, <2>3 DEF PendingBuys, OrderIds
<1> QED BY <1>1, TotalEqual, AccountAssumption DEF Released, OrderIds

\* When every order has been cancelled nothing is left to release.
LEMMA BuysCancelled ==
  ASSUME TypeOK, TypeOK', orders' = OrdersCancelled
  PROVE  Released' = 0
<1>1. PendingBuys' \in [1..MaxOrders -> Int]
  BY DEF TypeOK, PendingBuys, OrderIds, OrderRow
<1>2. \A k \in 1..MaxOrders : PendingBuys'[k] = 0
  BY NonePending DEF PendingBuys, OrderIds
<1> QED BY <1>1, <1>2, TotalZero, AccountAssumption DEF Released

\* The same for the withdrawals.
Withdrawing == Total(PendingWithdrawals, MaxWithdrawals)

\* A step that changes one withdrawal changes what the withdrawals hold by it.
LEMMA WithdrawingUpdate ==
  ASSUME TypeOK, TypeOK', NEW w \in WithdrawalIds,
         \A k \in WithdrawalIds : k # w => withdrawals'[k] = withdrawals[k]
  PROVE  Withdrawing' = Withdrawing - PendingWithdrawals[w] + PendingWithdrawals'[w]
<1>1. /\ PendingWithdrawals \in [1..MaxWithdrawals -> Int]
      /\ PendingWithdrawals' \in [1..MaxWithdrawals -> Int]
  BY DEF TypeOK, PendingWithdrawals, WithdrawalIds, RequestRow
<1>2. \A k \in 1..MaxWithdrawals : k # w => PendingWithdrawals'[k] = PendingWithdrawals[k]
  BY DEF PendingWithdrawals, WithdrawalIds
<1>3. MaxWithdrawals \in Nat /\ w \in 1..MaxWithdrawals
  BY AccountAssumption DEF WithdrawalIds
<1> QED BY <1>1, <1>2, <1>3, TotalUpdate DEF Withdrawing

\* What the withdrawals hold depends on nothing but the withdrawals.
LEMMA WithdrawingSame ==
  ASSUME TypeOK, withdrawals' = withdrawals
  PROVE  Withdrawing' = Withdrawing
BY DEF Withdrawing, PendingWithdrawals

\* The copy of a deposit in flight has the current frozen balance, for no other
\* transaction ran since it was read.
CoveredInv == TypeInv /\ FrozenCovered
              /\ (deposit.busy => deposit.copy.frozen = customer.frozen)

\* Placing, cancelling and filling orders keep freeze and holders in agreement.
LEMMA CoveredTrading ==
  ASSUME CoveredInv, TypeInv', ~ deposit.busy, Trading
  PROVE  FrozenCovered' /\ deposit' = deposit
<1> USE DEF CoveredInv
<1>1. /\ TypeOK /\ TypeOK' /\ TypeInv /\ customer \in CustomerRow
      /\ customer.frozen = Released + Withdrawing
      /\ customer.frozen \in Int /\ Released \in Int /\ Withdrawing \in Int
  BY PendingTotals DEF TypeInv, TypeOK, CustomerRow, FrozenCovered, Released, Withdrawing
<1>2. withdrawals' = withdrawals /\ deposit' = deposit
  BY DEF Trading, PlaceOrder, PlaceLimitBuy, PlaceLimitSell, CancelOrder, MatchOrder
<1>3. Withdrawing' = Withdrawing
  BY <1>1, <1>2, WithdrawingSame
<1>4. ASSUME NEW s \in Securities, NEW dir \in Directions, NEW q \in Quantities,
             NEW price \in Prices, NEW lev \in Leverages, PlaceOrder(s, dir, q, price, lev)
      PROVE  customer'.frozen = Released' + Withdrawing'
  <2>1. customer'.frozen = customer.frozen
    BY <1>1, <1>4, ExecuteFrozen DEF PlaceOrder
  <2>2. Released' = Released
    BY <1>1, <1>4, BuysSame DEF PlaceOrder, PendingBuys
  <2> QED BY <1>1, <1>3, <2>1, <2>2
<1>5. ASSUME NEW o \in OrderIds, NEW s \in Securities, NEW limit \in Prices,
             NEW q \in Quantities, PlaceLimitBuy(o, s, limit, q)
      PROVE  customer'.frozen = Released' + Withdrawing'
  <2> DEFINE d == BuyDebit(s, q, limit)
  <2>1. d \in Nat
    BY BuyDebitType, InputTypes
  <2>2. customer' = Book(customer, - d, d, 0)
        /\ orders' = [orders EXCEPT ![o] = NewOrder(s, "buy", limit, q, d, 0)]
        /\ orders[o].status = "none"
    BY <1>5 DEF PlaceLimitBuy, NextOrder
  <2> HIDE DEF d
  <2>3. customer'.frozen = customer.frozen + d
    BY <2>2, BookFrozen
  <2>4. PendingBuys[o] = 0 /\ PendingBuys'[o] = d
    BY <1>1, <2>2 DEF PendingBuys, NewOrder, TypeOK
  <2>5. Released' = Released - PendingBuys[o] + PendingBuys'[o]
    BY <1>1, <2>2, BuysUpdate DEF TypeOK
  <2> QED BY <1>1, <1>3, <2>1, <2>3, <2>4, <2>5
<1>6. ASSUME NEW o \in OrderIds, NEW s \in Securities, NEW limit \in Prices,
             NEW q \in Quantities, PlaceLimitSell(o, s, limit, q)
      PROVE  customer'.frozen = Released' + Withdrawing'
  <2>1. customer' = customer /\ orders[o].status = "none"
        /\ orders' = [orders EXCEPT ![o] = NewOrder(s, "sell", limit, q, 0, q)]
    BY <1>6 DEF PlaceLimitSell, NextOrder
  <2>2. \A k \in OrderIds : PendingBuys'[k] = PendingBuys[k]
    BY <1>1, <2>1 DEF PendingBuys, NewOrder, TypeOK
  <2>3. Released' = Released
    BY <1>1, <2>2, BuysSame
  <2> QED BY <1>1, <1>3, <2>1, <2>3
<1>7. ASSUME NEW o \in OrderIds, orders[o].status = "pending",
             \A k \in OrderIds : k # o => orders'[k] = orders[k],
             orders'[o].status # "pending",
             customer'.frozen = customer.frozen - Held(o)
      PROVE  customer'.frozen = Released' + Withdrawing'
  <2>1. PendingBuys[o] = Held(o) /\ PendingBuys'[o] = 0
    BY <1>7 DEF PendingBuys, Held
  <2>2. Released' = Released - PendingBuys[o] + PendingBuys'[o]
    BY <1>1, <1>7, BuysUpdate
  <2>3. Held(o) \in Int
    BY <1>1 DEF Held, TypeOK, OrderRow
  <2> QED BY <1>1, <1>3, <1>7, <2>1, <2>2, <2>3
<1>8. ASSUME NEW o \in OrderIds, CancelOrder(o)
      PROVE  customer'.frozen = Released' + Withdrawing'
  <2>1. customer'.frozen = customer.frozen - Held(o)
    BY <1>1, <1>8, OrderFrozen
  <2>2. /\ orders[o].status = "pending" /\ orders'[o].status # "pending"
        /\ \A k \in OrderIds : k # o => orders'[k] = orders[k]
    BY <1>1, <1>8 DEF CancelOrder, TypeOK, OrderRow
  <2> QED BY <1>7, <2>1, <2>2
<1>9. ASSUME NEW o \in OrderIds, NEW price \in Prices, NEW lev \in Leverages,
             MatchOrder(o, price, lev)
      PROVE  customer'.frozen = Released' + Withdrawing'
  <2>1. customer'.frozen = customer.frozen - Held(o)
    BY <1>1, <1>9, OrderFrozen
  <2>2. /\ orders[o].status = "pending" /\ orders'[o].status # "pending"
        /\ \A k \in OrderIds : k # o => orders'[k] = orders[k]
    BY <1>1, <1>9 DEF MatchOrder, Executed, Settled, TypeOK
  <2> QED BY <1>7, <2>1, <2>2
<1>10. customer'.frozen = Released' + Withdrawing'
  BY <1>4, <1>5, <1>6, <1>8, <1>9, Zenon DEF Trading
<1> QED BY <1>2, <1>10 DEF FrozenCovered, Released, Withdrawing

\* So do the margin calls and the management fee.
LEMMA CoveredBatches ==
  ASSUME CoveredInv, TypeInv', ~ deposit.busy, Batches
  PROVE  FrozenCovered' /\ deposit' = deposit
<1> USE DEF CoveredInv
<1>1. /\ TypeOK /\ TypeOK' /\ TypeInv
      /\ customer.frozen = Released + Withdrawing
      /\ customer.frozen \in Int /\ Released \in Int /\ Withdrawing \in Nat
  BY PendingTotals DEF TypeInv, TypeOK, CustomerRow, FrozenCovered, Released, Withdrawing
<1>2. withdrawals' = withdrawals /\ deposit' = deposit
  BY DEF Batches, FeeFromBalance, FeeAfterCancelling, FeeForced, FeeDue,
         CallFromBalance, CallAfterCancelling, CallForced, CallDue
<1>3. Withdrawing' = Withdrawing
  BY <1>1, <1>2, WithdrawingSame
<1>4. CASE customer'.frozen = customer.frozen /\ UNCHANGED orders
  <2>1. Released' = Released
    BY <1>1, <1>4, BuysSame DEF PendingBuys
  <2> QED BY <1>1, <1>2, <1>3, <1>4, <2>1 DEF FrozenCovered, Released, Withdrawing
<1>5. CASE customer'.frozen = Larger(0, customer.frozen - Released) /\ orders' = OrdersCancelled
  <2>1. Released' = 0
    BY <1>1, <1>5, BuysCancelled
  <2>2. customer'.frozen = Released' + Withdrawing'
    BY <1>1, <1>3, <1>5, <2>1 DEF Larger
  <2> QED BY <1>2, <2>2 DEF FrozenCovered, Released, Withdrawing
<1> QED BY <1>1, <1>4, <1>5, BatchFrozen

\* So do requests for transfers and their reviews.
LEMMA CoveredTransfers ==
  ASSUME CoveredInv, TypeInv', ~ deposit.busy, Transfers
  PROVE  FrozenCovered' /\ deposit' = deposit
<1> USE DEF CoveredInv
<1>1. /\ TypeOK /\ TypeOK' /\ customer \in CustomerRow
      /\ customer.frozen = Released + Withdrawing
      /\ customer.frozen \in Int /\ Released \in Int /\ Withdrawing \in Int
      /\ customer.frozen + 0 = customer.frozen
  BY PendingTotals DEF TypeInv, TypeOK, CustomerRow, FrozenCovered, Released, Withdrawing
<1>2. orders' = orders /\ deposit' = deposit
  BY DEF Transfers, RequestRecharge, ReviewRecharge, RequestWithdrawal, ReviewWithdrawal
<1>3. Released' = Released
  BY <1>1, <1>2, BuysSame DEF PendingBuys
<1>4. ASSUME NEW r \in RechargeIds, NEW amount \in Amounts, RequestRecharge(r, amount)
      PROVE  customer'.frozen = Released' + Withdrawing'
  BY <1>1, <1>3, <1>4, WithdrawingSame DEF RequestRecharge
<1>5. ASSUME NEW r \in RechargeIds, NEW approve \in BOOLEAN, ReviewRecharge(r, approve)
      PROVE  customer'.frozen = Released' + Withdrawing'
  <2>1. customer'.frozen = customer.frozen
    BY <1>1, <1>5, BookFrozen DEF ReviewRecharge
  <2>2. Withdrawing' = Withdrawing
    BY <1>1, <1>5, WithdrawingSame DEF ReviewRecharge
  <2> QED BY <1>1, <1>3, <2>1, <2>2
<1>6. ASSUME NEW w \in WithdrawalIds, NEW amount \in Amounts, RequestWithdrawal(w, amount)
      PROVE  customer'.frozen = Released' + Withdrawing'
  <2>1. amount \in Nat
    BY InputTypes
  <2>2. customer'.frozen = customer.frozen + amount
    BY <1>6, BookFrozen DEF RequestWithdrawal
  <2>3. PendingWithdrawals[w] = 0 /\ PendingWithdrawals'[w] = amount
        /\ \A k \in WithdrawalIds : k # w => withdrawals'[k] = withdrawals[k]
    BY <1>1, <1>6 DEF RequestWithdrawal, PendingWithdrawals, TypeOK
  <2>4. Withdrawing' = Withdrawing - PendingWithdrawals[w] + PendingWithdrawals'[w]
    BY <1>1, <2>3, WithdrawingUpdate
  <2> QED BY <1>1, <1>3, <2>1, <2>2, <2>3, <2>4
<1>7. ASSUME NEW w \in WithdrawalIds, NEW approve \in BOOLEAN, ReviewWithdrawal(w, approve)
      PROVE  customer'.frozen = Released' + Withdrawing'
  <2>1. withdrawals[w].amount \in Int
    BY <1>1 DEF TypeOK, RequestRow
  <2>2. customer'.frozen = customer.frozen + (- withdrawals[w].amount)
    BY <1>7, BookFrozen DEF ReviewWithdrawal
  <2>3. PendingWithdrawals[w] = withdrawals[w].amount /\ PendingWithdrawals'[w] = 0
        /\ \A k \in WithdrawalIds : k # w => withdrawals'[k] = withdrawals[k]
    BY <1>1, <1>7 DEF ReviewWithdrawal, PendingWithdrawals, TypeOK, RequestRow
  <2>4. Withdrawing' = Withdrawing - PendingWithdrawals[w] + PendingWithdrawals'[w]
    BY <1>1, <2>3, WithdrawingUpdate
  <2> QED BY <1>1, <1>3, <2>1, <2>2, <2>3, <2>4
<1>8. customer'.frozen = Released' + Withdrawing'
  BY <1>4, <1>5, <1>6, <1>7, Zenon DEF Transfers
<1> QED BY <1>2, <1>8 DEF FrozenCovered, Released, Withdrawing

\* So do the administrators, when they neither overlap nor write rows by hand.
LEMMA CoveredAdministration ==
  ASSUME CoveredInv, TypeInv', ~ AllowOverlap, ~ AllowAdminRows, Administration
  PROVE  CoveredInv'
<1> USE DEF CoveredInv
<1>1. /\ TypeOK /\ TypeOK' /\ customer \in CustomerRow
      /\ customer.frozen = Released + Withdrawing
      /\ customer.frozen \in Int /\ customer.frozen + 0 = customer.frozen
  BY DEF TypeInv, TypeOK, CustomerRow, FrozenCovered, Released, Withdrawing
<1>2. ASSUME UNCHANGED <<orders, withdrawals>>, customer'.frozen = customer.frozen
      PROVE  FrozenCovered'
  <2>1. Released' = Released /\ Withdrawing' = Withdrawing
    BY <1>1, <1>2, BuysSame, WithdrawingSame DEF PendingBuys
  <2> QED BY <1>1, <1>2, <2>1 DEF FrozenCovered, Released, Withdrawing
<1>3. ASSUME NEW amount \in Int, ReadDeposit(amount)
      PROVE  CoveredInv'
  <2>1. deposit'.copy.frozen = customer.frozen
    BY <1>1, <1>3, BookFrozen DEF ReadDeposit
  <2> QED BY <1>2, <1>3, <2>1 DEF ReadDeposit
<1>4. ASSUME WriteDeposit
      PROVE  CoveredInv'
  <2>1. customer'.frozen = customer.frozen
    BY <1>4 DEF WriteDeposit
  <2> QED BY <1>2, <1>4, <2>1 DEF WriteDeposit, NoDeposit
<1>5. ASSUME NEW f \in ToggledFlags, SwitchFlag(f)
      PROVE  CoveredInv'
  <2>1. customer'.frozen = customer.frozen
    BY <1>1, <1>5 DEF SwitchFlag, CustomerRow
  <2> QED BY <1>2, <1>5, <2>1 DEF SwitchFlag
<1>6. ASSUME NEW s \in Securities, NEW price \in Prices, ForceClosePosition(s, price)
      PROVE  CoveredInv'
  <2>1. \E a, d : customer' = Book(customer, a, 0, d)
    BY <1>6, Zenon DEF ForceClosePosition
  <2>2. customer'.frozen = customer.frozen
    BY <1>1, <2>1, BookFrozen
  <2>3. /\ orders' = [o \in OrderIds |->
             IF /\ orders[o].status = "pending" /\ orders[o].direction = "sell"
                /\ orders[o].security = s
             THEN Settled(orders[o], "cancelled", 0, 0)
             ELSE orders[o]]
        /\ withdrawals' = withdrawals /\ deposit' = deposit
    BY <1>6, Zenon DEF ForceClosePosition
  <2>4. \A k \in OrderIds : PendingBuys'[k] = PendingBuys[k]
    BY <2>3 DEF PendingBuys, Settled
  <2>5. Released' = Released /\ Withdrawing' = Withdrawing
    BY <1>1, <2>3, <2>4, BuysSame, WithdrawingSame
  <2> QED BY <1>1, <2>2, <2>3, <2>5 DEF FrozenCovered, Released, Withdrawing
<1>7. /\ \A amount \in Amounts : amount \in Int
      /\ \A amount \in Deductions : - amount \in Int
  BY InputTypes
<1> QED BY <1>3, <1>4, <1>5, <1>6, <1>7, Zenon DEF Administration, SavePosition, DeletePosition,
       CreateRecharge, CreateWithdrawal

\* Every step keeps the frozen balance equal to what orders and withdrawals hold.
LEMMA CoveredStep ==
  ASSUME CoveredInv, ~ AllowOverlap, ~ AllowAdminRows, [Next]_vars
  PROVE  CoveredInv'
<1>1. TypeInv'
  BY StepType DEF CoveredInv
<1>2. CASE Trading
  <2>1. ~ deposit.busy
    BY <1>2 DEF Trading, PlaceOrder, PlaceLimitBuy, PlaceLimitSell, CancelOrder, MatchOrder, MayRun
  <2> QED BY <1>1, <1>2, <2>1, CoveredTrading DEF CoveredInv
<1>3. CASE Batches
  <2>1. ~ deposit.busy
    BY <1>3 DEF Batches, FeeFromBalance, FeeAfterCancelling, FeeForced, FeeDue,
       CallFromBalance, CallAfterCancelling, CallForced, CallDue, MayRun
  <2> QED BY <1>1, <1>3, <2>1, CoveredBatches DEF CoveredInv
<1>4. CASE Transfers
  <2>1. ~ deposit.busy
    BY <1>4 DEF Transfers, RequestRecharge, ReviewRecharge, RequestWithdrawal, ReviewWithdrawal,
       MayRun
  <2> QED BY <1>1, <1>4, <2>1, CoveredTransfers DEF CoveredInv
<1>5. CASE Administration
  BY <1>1, <1>5, CoveredAdministration
<1>6. CASE UNCHANGED vars
  BY <1>1, <1>6 DEF vars, CoveredInv, FrozenCovered, PendingBuys, PendingWithdrawals
<1> QED BY <1>2, <1>3, <1>4, <1>5, <1>6 DEF Next

\* With nothing pending the totals are zero.
LEMMA CoveredInit == Init => CoveredInv
<1> SUFFICES ASSUME Init PROVE CoveredInv
  OBVIOUS
<1>1. TypeInv /\ TypeOK
  BY InitType DEF TypeInv
<1>2. /\ PendingBuys \in [1..MaxOrders -> Int]
      /\ PendingWithdrawals \in [1..MaxWithdrawals -> Int]
  BY <1>1 DEF TypeOK, PendingBuys, PendingWithdrawals, OrderIds, WithdrawalIds, OrderRow, RequestRow
<1>3. /\ \A k \in 1..MaxOrders : PendingBuys[k] = 0
      /\ \A k \in 1..MaxWithdrawals : PendingWithdrawals[k] = 0
  BY DEF Init, PendingBuys, PendingWithdrawals, OrderIds, WithdrawalIds, NoOrder, NoRequest
<1>4. Total(PendingBuys, MaxOrders) = 0 /\ Total(PendingWithdrawals, MaxWithdrawals) = 0
  BY <1>2, <1>3, TotalZero, AccountAssumption
<1> QED BY <1>1, <1>4 DEF Init, CoveredInv, FrozenCovered, NewCustomer, NoDeposit

\* The frozen balance is exactly what the pending buy orders and withdrawals
\* hold, provided that no transaction runs between the read and the write of a
\* deposit and that no withdrawal is created by hand: each of the two breaks it.
THEOREM FrozenExact ==
  ASSUME ~ AllowOverlap, ~ AllowAdminRows
  PROVE  Spec => []FrozenCovered
<1>1. Init => CoveredInv
  BY CoveredInit
<1>2. CoveredInv /\ [Next]_vars => CoveredInv'
  BY CoveredStep
<1>3. CoveredInv => FrozenCovered
  BY DEF CoveredInv
<1> QED BY <1>1, <1>2, <1>3, PTL DEF Spec

-----------------------------------------------------------------------------
(***************************************************************************)
(* The shares the pending sell orders hold.                                *)
(***************************************************************************)

Locked(s) == Total(PendingSells(s), MaxOrders)

\* Changing one order changes the locked shares by that order's entry.
LEMMA SellsUpdate ==
  ASSUME TypeOK, TypeOK', NEW s \in Securities, NEW o \in OrderIds,
         \A k \in OrderIds : k # o => orders'[k] = orders[k]
  PROVE  Locked(s)' = Locked(s) - PendingSells(s)[o] + PendingSells(s)'[o]
<1>1. /\ PendingSells(s) \in [1..MaxOrders -> Int]
      /\ PendingSells(s)' \in [1..MaxOrders -> Int]
  <2>1. /\ orders \in [OrderIds -> OrderRow]
        /\ orders' \in [OrderIds -> OrderRow]
    BY DEF TypeOK
  <2>2. \A row \in OrderRow : row.frozenAmount \in Int /\ row.frozenQty \in Int
    BY DEF OrderRow
  <2>3. \A k \in 1..MaxOrders : orders[k] \in OrderRow /\ orders'[k] \in OrderRow
    BY <2>1 DEF OrderIds
  <2> QED BY <2>2, <2>3 DEF PendingSells, OrderIds
<1>2. \A k \in 1..MaxOrders : k # o => PendingSells(s)'[k] = PendingSells(s)[k]
  BY DEF PendingSells, OrderIds
<1>3. MaxOrders \in Nat /\ o \in 1..MaxOrders
  BY AccountAssumption DEF OrderIds
<1> QED BY <1>1, <1>2, <1>3, TotalUpdate DEF Locked

\* Changing no sell order of a security leaves them as they are.
LEMMA SellsSame ==
  ASSUME TypeOK, TypeOK', NEW s \in Securities,
         \A k \in OrderIds : PendingSells(s)'[k] = PendingSells(s)[k]
  PROVE  Locked(s)' = Locked(s)
<1>1. /\ PendingSells(s) \in [1..MaxOrders -> Int]
      /\ PendingSells(s)' \in [1..MaxOrders -> Int]
  <2>1. /\ orders \in [OrderIds -> OrderRow]
        /\ orders' \in [OrderIds -> OrderRow]
    BY DEF TypeOK
  <2>2. \A row \in OrderRow : row.frozenAmount \in Int /\ row.frozenQty \in Int
    BY DEF OrderRow
  <2>3. \A k \in 1..MaxOrders : orders[k] \in OrderRow /\ orders'[k] \in OrderRow
    BY <2>1 DEF OrderIds
  <2> QED BY <2>2, <2>3 DEF PendingSells, OrderIds
<1> QED BY <1>1, TotalEqual, AccountAssumption DEF Locked, OrderIds

\* When no sell order of a security is pending, none of its shares is locked.
LEMMA SellsNone ==
  ASSUME TypeOK', NEW s \in Securities, \A k \in OrderIds : PendingSells(s)'[k] = 0
  PROVE  Locked(s)' = 0
<1>1. PendingSells(s)' \in [1..MaxOrders -> Int]
  BY DEF TypeOK, PendingSells, OrderIds, OrderRow
<1> QED BY <1>1, TotalZero, AccountAssumption DEF Locked, OrderIds

-----------------------------------------------------------------------------
(***************************************************************************)
(* One position row and the shares of it that are locked.                  *)
(***************************************************************************)
Backed(p, locked) ==
  /\ p.qty = p.avail + locked
  /\ p.avail >= 0
  /\ p.margin >= 0
  /\ p.qty = 0 => p.cost = 0 /\ p.margin = 0
  /\ ~ p.row => p.qty = 0

\* Buying shares.
LEMMA BuyBacked ==
  ASSUME NEW p \in PositionRow, NEW locked \in Nat, Backed(p, locked),
         NEW q \in Nat, NEW price \in Nat, NEW lev
  PROVE  Backed(AfterBuy(p, q, price, lev), locked)
<1> DEFINE a == price * q
           r == AfterBuy(p, q, price, lev)
<1>1. a \in Nat /\ (q = 0 => a = 0)
  <2>1. a \in Nat
    BY ProductType
  <2>2. price * 0 = 0
    OBVIOUS
  <2> QED BY <2>1, <2>2
<1>2. r.row /\ r.qty = p.qty + q /\ r.avail = p.avail + q
      /\ r.cost = p.cost + a /\ r.margin = p.margin + a
  BY Zenon DEF AfterBuy
<1>3. p.qty \in Int /\ p.avail \in Int /\ p.cost \in Int /\ p.margin \in Int
  BY DEF PositionRow
<1> HIDE DEF a, r
<1>4. /\ p.qty = p.avail + locked /\ p.avail >= 0 /\ p.margin >= 0
      /\ p.qty = 0 => p.cost = 0 /\ p.margin = 0
  BY DEF Backed
<1>5. Backed(r, locked)
  <2>1. r.qty = r.avail + locked /\ r.avail >= 0 /\ r.margin >= 0
    BY <1>1, <1>2, <1>3, <1>4
  <2>2. ASSUME r.qty = 0
        PROVE  r.cost = 0 /\ r.margin = 0
    <3>1. p.qty = 0 /\ q = 0
      BY <1>2, <1>3, <1>4, <2>2
    <3>2. a = 0
      BY <1>1, <3>1
    <3>3. p.cost = 0 /\ p.margin = 0
      BY <1>4, <3>1
    <3> QED BY <1>2, <3>2, <3>3
  <2> QED BY <1>2, <2>1, <2>2 DEF Backed
<1> QED BY <1>5 DEF r

\* The whole cost and the whole margin leave with the last share.
LEMMA SellsOut ==
  ASSUME NEW p \in PositionRow, NEW locked \in Nat, Backed(p, locked)
  PROVE  CostRemoved(p, p.qty) = p.cost
<1>1. p.qty \in Int /\ p.cost \in Int
  BY DEF PositionRow
<1>2. CASE p.qty > 0
  <2>1. p.qty \in Nat \ {0}
    BY <1>1, <1>2
  <2>2. RoundDiv(p.cost * p.qty, p.qty) = p.cost
    BY <1>1, <2>1, RoundDivExact
  <2> QED BY <1>2, <2>2 DEF CostRemoved
<1>3. CASE ~ (p.qty > 0)
  <2>1. p.qty = 0
    BY <1>1, <1>3 DEF Backed, PositionRow
  <2> QED BY <2>1 DEF Backed, CostRemoved
<1> QED BY <1>2, <1>3

\* Selling shares that are not locked.
LEMMA SellBacked ==
  ASSUME NEW p \in PositionRow, NEW locked \in Nat, Backed(p, locked), NEW q \in Nat,
         NEW s \in Securities, CanSell(p, q)
  PROVE  Backed(AfterSell(p, q), locked)
<1> DEFINE r == AfterSell(p, q)
<1>1. /\ p.qty \in Int /\ p.avail \in Int /\ p.cost \in Int /\ p.margin \in Int
      /\ p.row \in BOOLEAN
  BY DEF PositionRow
<1>2. CostRemoved(p, q) \in Int /\ MarginRemoved(p, q) \in Int
  BY SalePartsType
<1>3. /\ r.row = p.row /\ r.qty = p.qty - q /\ r.avail = p.avail - q
      /\ r.cost = Larger(0, p.cost - CostRemoved(p, q))
      /\ r.margin = IF q = p.qty THEN 0 ELSE Larger(0, p.margin - MarginRemoved(p, q))
  BY DEF AfterSell
<1>4. p.row /\ p.avail >= q
  BY DEF CanSell
<1>5. r.margin >= 0
  BY <1>1, <1>2, <1>3 DEF Larger
<1>6. ASSUME r.qty = 0
      PROVE  r.cost = 0 /\ r.margin = 0
  <2>1. q = p.qty
    BY <1>1, <1>3, <1>6
  <2>2. CostRemoved(p, q) = p.cost
    BY <2>1, SellsOut
  <2> QED BY <1>1, <1>3, <2>1, <2>2 DEF Larger
<1> HIDE DEF r
<1>7. r.qty = r.avail + locked /\ r.avail >= 0
  <2>1. p.qty = p.avail + locked
    BY DEF Backed
  <2>2. r.qty = p.qty - q /\ r.avail = p.avail - q
    BY <1>3
  <2> QED BY <1>1, <1>4, <2>1, <2>2
<1>8. Backed(r, locked)
  BY <1>3, <1>4, <1>5, <1>6, <1>7 DEF Backed
<1> QED BY <1>8 DEF r

-----------------------------------------------------------------------------
(***************************************************************************)
(* Shares held and shares locked agree after every step.                   *)
(***************************************************************************)
SharesInv ==
  /\ TypeInv
  /\ \A s \in Securities : Backed(position[s], Locked(s))
  /\ \A o \in OrderIds : orders[o].status = "pending" /\ orders[o].direction = "sell"
       => orders[o].frozenQty = orders[o].qty

\* What every step may use, and has to show of the positions and of the orders.
LEMMA SharesFacts ==
  ASSUME SharesInv, TypeInv'
  PROVE  /\ TypeOK /\ TypeOK'
         /\ \A s \in Securities :
              /\ position[s] \in PositionRow /\ Locked(s) \in Nat
              /\ Backed(position[s], Locked(s))
BY PendingTotals DEF SharesInv, TypeInv, TypeOK, Locked

\* A trade on one position: the others, and every lock, are as they were.
LEMMA ExecuteBacked ==
  ASSUME SharesInv, TypeInv', NEW s \in Securities, NEW c, NEW p \in PositionRow,
         NEW direction, NEW q \in Nat, NEW price \in Nat, NEW lev,
         Execute(c, p, s, direction, q, price, lev),
         Locked(s)' \in Nat, Backed(p, Locked(s)'),
         \A t \in Securities : t # s => Locked(t)' = Locked(t)
  PROVE  \A t \in Securities : Backed(position[t], Locked(t))'
<1>1. \E r : /\ position' = [position EXCEPT ![s] = r]
             /\ Backed(r, Locked(s)')
  <2>1. CASE direction = "buy" /\ position' = [position EXCEPT ![s] = AfterBuy(p, q, price, lev)]
    <3>1. Backed(AfterBuy(p, q, price, lev), Locked(s)')
      BY BuyBacked
    <3> QED BY <2>1, <3>1
  <2>2. CASE CanSell(p, q) /\ position' = [position EXCEPT ![s] = AfterSell(p, q)]
    <3>1. Backed(AfterSell(p, q), Locked(s)')
      BY <2>2, SellBacked
    <3> QED BY <2>2, <3>1
  <2> QED BY <2>1, <2>2, Zenon DEF Execute
<1>2. PICK r : position' = [position EXCEPT ![s] = r] /\ Backed(r, Locked(s)')
  BY <1>1
<1>3. TypeOK /\ \A t \in Securities : Backed(position[t], Locked(t))
  BY DEF SharesInv, TypeInv
<1>4. ASSUME NEW t \in Securities
      PROVE  Backed(position'[t], Locked(t)')
  <2>1. CASE t = s
    BY <1>2, <1>3, <2>1 DEF TypeOK
  <2>2. CASE t # s
    <3>1. position'[t] = position[t]
      BY <1>2, <1>3, <2>2 DEF TypeOK
    <3> QED BY <1>3, <2>2, <3>1
  <2> QED BY <2>1, <2>2
<1> QED BY <1>4

\* Once an order has ended, the shares it held are no longer locked.
LEMMA OrderEnds ==
  ASSUME SharesInv, TypeInv', NEW o \in OrderIds, orders[o].status = "pending",
         orders'[o].status # "pending",
         \A k \in OrderIds : k # o => orders'[k] = orders[k]
  PROVE  /\ \A s \in Securities : Locked(s)' \in Nat
         /\ \A s \in Securities :
              orders[o].direction = "sell" /\ s = orders[o].security
              => Locked(s)' = Locked(s) - orders[o].qty
         /\ \A s \in Securities :
              ~ (orders[o].direction = "sell" /\ s = orders[o].security) => Locked(s)' = Locked(s)
         /\ \A k \in OrderIds : orders'[k].status = "pending" /\ orders'[k].direction = "sell"
              => orders'[k].frozenQty = orders'[k].qty
<1>1. /\ TypeOK /\ TypeOK' /\ \A s \in Securities : Locked(s) \in Nat
      /\ orders[o].direction = "sell" => orders[o].frozenQty = orders[o].qty
      /\ orders[o].qty \in Nat
  BY SharesFacts DEF SharesInv, TypeOK, OrderRow
<1>2. ASSUME NEW s \in Securities
      PROVE  Locked(s)' = Locked(s) - PendingSells(s)[o] + 0
  <2>1. PendingSells(s)'[o] = 0
    BY DEF PendingSells
  <2> QED BY <1>1, <2>1, SellsUpdate
<1>3. ASSUME NEW s \in Securities
      PROVE  Locked(s)' \in Nat
  <2>1. PendingSells(s)' \in [1..MaxOrders -> Nat]
    BY <1>1 DEF TypeOK, PendingSells, OrderIds, OrderRow
  <2> QED BY <2>1, TotalNatural, AccountAssumption DEF Locked
<1>4. ASSUME NEW s \in Securities, orders[o].direction = "sell", s = orders[o].security
      PROVE  Locked(s)' = Locked(s) - orders[o].qty
  <2>1. PendingSells(s)[o] = orders[o].qty
    BY <1>1, <1>4 DEF PendingSells
  <2> QED BY <1>1, <1>2, <2>1
<1>5. ASSUME NEW s \in Securities, ~ (orders[o].direction = "sell" /\ s = orders[o].security)
      PROVE  Locked(s)' = Locked(s)
  <2>1. PendingSells(s)[o] = 0
    BY <1>5 DEF PendingSells
  <2> QED BY <1>1, <1>2, <2>1
<1>6. ASSUME NEW k \in OrderIds, orders'[k].status = "pending", orders'[k].direction = "sell"
      PROVE  orders'[k].frozenQty = orders'[k].qty
  BY <1>6 DEF SharesInv
<1> QED BY <1>3, <1>4, <1>5, <1>6

\* Cancelling an order.
LEMMA SharesCancel ==
  ASSUME SharesInv, TypeInv', NEW o \in OrderIds, CancelOrder(o)
  PROVE  SharesInv'
<1>0. PICK s \in Securities : s = orders[o].security
  BY DEF CancelOrder, SharesInv, TypeInv, PlacedOnListed
<1>1. /\ TypeOK
      /\ orders[o].status = "pending" /\ orders'[o].status # "pending"
      /\ \A k \in OrderIds : k # o => orders'[k] = orders[k]
      /\ orders[o].qty \in Nat
      /\ orders[o].direction \in Directions
  BY DEF CancelOrder, SharesInv, TypeInv, TypeOK, OrderRow, PlacedOnListed
<1>2. ReleaseFreeze(o)
  BY DEF CancelOrder
<1>3. /\ \A t \in Securities : position[t] \in PositionRow /\ Locked(t) \in Nat
      /\ \A t \in Securities : Backed(position[t], Locked(t))
  BY SharesFacts
<1>4. CASE orders[o].direction = "buy"
  <2>1. position' = position
    BY <1>2, <1>4 DEF ReleaseFreeze
  <2>2. \A t \in Securities : Locked(t)' = Locked(t)
    BY <1>1, <1>4, OrderEnds
  <2>3. \A t \in Securities : Backed(position'[t], Locked(t)')
    BY <1>3, <2>1, <2>2
  <2> QED BY <1>1, <2>3, OrderEnds DEF SharesInv
<1>5. CASE orders[o].direction = "sell"
  <2>1. position' = [position EXCEPT ![s] = Unlocked(o)]
    BY <1>0, <1>2, <1>5 DEF ReleaseFreeze
  <2>2. Locked(s)' = Locked(s) - orders[o].qty
    BY <1>0, <1>1, <1>5, OrderEnds
  <2>3. orders[o].frozenQty = orders[o].qty
    BY <1>1, <1>5 DEF SharesInv
  <2>4. ASSUME NEW t \in Securities
        PROVE  Backed(position'[t], Locked(t)')
    <3>1. CASE t = s
      <4>1. position'[s] = [position[s] EXCEPT !.avail = @ + orders[o].qty]
        BY <1>0, <1>1, <2>1, <2>3 DEF TypeOK, Unlocked
      <4>2. Backed(position'[s], Locked(s)')
        BY <1>1, <1>3, <2>2, <4>1 DEF Backed, PositionRow
      <4> QED BY <3>1, <4>2
    <3>2. CASE t # s
      <4>1. position'[t] = position[t]
        BY <1>1, <2>1, <3>2 DEF TypeOK
      <4>2. Locked(t)' = Locked(t)
        BY <1>0, <1>1, <3>2, OrderEnds
      <4> QED BY <1>3, <4>1, <4>2
    <3> QED BY <3>1, <3>2
  <2> QED BY <1>1, <2>4, OrderEnds DEF SharesInv
<1> QED BY <1>1, <1>4, <1>5 DEF Directions

\* Filling an order.
LEMMA SharesMatch ==
  ASSUME SharesInv, TypeInv', NEW o \in OrderIds, NEW price \in Prices, NEW lev \in Leverages,
         MatchOrder(o, price, lev)
  PROVE  SharesInv'
<1>0. PICK s \in Securities : s = orders[o].security
  BY DEF MatchOrder, SharesInv, TypeInv, PlacedOnListed
<1> DEFINE c == IF orders[o].direction = "buy" THEN Unfrozen(o) ELSE customer
           p == IF orders[o].direction = "sell" THEN Unlocked(o) ELSE position[s]
<1>1. /\ TypeOK
      /\ orders[o].status = "pending" /\ orders'[o].status # "pending"
      /\ \A k \in OrderIds : k # o => orders'[k] = orders[k]
      /\ orders[o].qty \in Nat /\ price \in Nat
  BY InputTypes DEF MatchOrder, Executed, Settled, SharesInv, TypeInv, TypeOK, OrderRow, PlacedOnListed
<1>2. Execute(c, p, s, orders[o].direction, orders[o].qty, price, lev)
  BY <1>0, Zenon DEF MatchOrder
<1>3. p \in PositionRow /\ position[s] \in PositionRow
  BY <1>0, <1>1, UnfrozenType DEF TypeOK
<1>4. Backed(position[s], Locked(s)) /\ Locked(s) \in Nat
  BY <1>1, SharesFacts
<1>5. Locked(s)' \in Nat
  BY <1>1, OrderEnds
<1>6. Backed(p, Locked(s)')
  <2>1. CASE orders[o].direction = "sell"
    <3>1. Locked(s)' = Locked(s) - orders[o].qty /\ orders[o].frozenQty = orders[o].qty
      BY <1>0, <1>1, <2>1, OrderEnds DEF SharesInv
    <3>2. p = [position[s] EXCEPT !.avail = @ + orders[o].qty]
      BY <1>0, <2>1, <3>1 DEF Unlocked
    <3> HIDE DEF p
    <3> QED BY <1>1, <1>3, <1>4, <3>1, <3>2 DEF Backed, PositionRow
  <2>2. CASE orders[o].direction # "sell"
    <3>1. Locked(s)' = Locked(s)
      BY <1>1, <2>2, OrderEnds
    <3> QED BY <1>4, <2>2, <3>1
  <2> QED BY <2>1, <2>2
<1>7. \A t \in Securities : t # s => Locked(t)' = Locked(t)
  BY <1>0, <1>1, OrderEnds
<1>8. \A t \in Securities : Backed(position[t], Locked(t))'
  <2> HIDE DEF c, p
  <2> QED BY <1>1, <1>2, <1>3, <1>5, <1>6, <1>7, ExecuteBacked
<1> QED BY <1>1, <1>8, OrderEnds DEF SharesInv

\* Trading keeps the shares held and locked in agreement.
LEMMA SharesTrading ==
  ASSUME SharesInv, TypeInv', Trading
  PROVE  SharesInv'
<1>1. /\ TypeOK /\ TypeOK' /\ TypeInv
      /\ \A t \in Securities : position[t] \in PositionRow /\ Locked(t) \in Nat
      /\ \A t \in Securities : Backed(position[t], Locked(t))
  BY SharesFacts DEF SharesInv
<1>2. ASSUME NEW s \in Securities, NEW dir \in Directions, NEW q \in Quantities,
             NEW price \in Prices, NEW lev \in Leverages, PlaceOrder(s, dir, q, price, lev)
      PROVE  SharesInv'
  <2>1. orders' = orders
    BY <1>2 DEF PlaceOrder
  <2>2. \A t \in Securities : Locked(t)' = Locked(t)
    BY <1>1, <2>1, SellsSame DEF PendingSells
  <2>3. q \in Nat /\ price \in Nat
    BY InputTypes
  <2>4. Execute(customer, position[s], s, dir, q, price, lev)
    BY <1>2 DEF PlaceOrder
  <2>5. \A t \in Securities : Backed(position[t], Locked(t))'
    <3> DEFINE p == position[s]
    <3>1. p \in PositionRow /\ Backed(p, Locked(s)') /\ Locked(s)' \in Nat
      BY <1>1, <2>2
    <3>2. Execute(customer, p, s, dir, q, price, lev)
      BY <2>4
    <3> HIDE DEF p
    <3> QED BY <2>2, <2>3, <3>1, <3>2, ExecuteBacked
  <2> QED BY <2>1, <2>5 DEF SharesInv
<1>3. ASSUME NEW o \in OrderIds, NEW s \in Securities, NEW limit \in Prices,
             NEW q \in Quantities, PlaceLimitBuy(o, s, limit, q)
      PROVE  SharesInv'
  <2> DEFINE d == BuyDebit(s, q, limit)
  <2>1. /\ orders' = [orders EXCEPT ![o] = NewOrder(s, "buy", limit, q, d, 0)]
        /\ position' = position /\ orders[o].status = "none"
    BY <1>3 DEF PlaceLimitBuy, NextOrder
  <2> HIDE DEF d
  <2>2. \A t \in Securities : \A k \in OrderIds : PendingSells(t)'[k] = PendingSells(t)[k]
    BY <1>1, <2>1 DEF PendingSells, NewOrder, TypeOK
  <2>3. \A t \in Securities : Locked(t)' = Locked(t)
    BY <1>1, <2>2, SellsSame
  <2>4. \A k \in OrderIds : orders'[k].status = "pending" /\ orders'[k].direction = "sell"
          => orders'[k].frozenQty = orders'[k].qty
    BY <1>1, <2>1 DEF SharesInv, NewOrder, TypeOK
  <2> QED BY <1>1, <2>1, <2>3, <2>4 DEF SharesInv
<1>4. ASSUME NEW o \in OrderIds, NEW s \in Securities, NEW limit \in Prices,
             NEW q \in Quantities, PlaceLimitSell(o, s, limit, q)
      PROVE  SharesInv'
  <2>1. /\ orders' = [orders EXCEPT ![o] = NewOrder(s, "sell", limit, q, 0, q)]
        /\ position' = [position EXCEPT ![s].avail = @ - q]
        /\ orders[o].status = "none" /\ CanSell(position[s], q) /\ q \in Nat
    BY <1>4, InputTypes DEF PlaceLimitSell, NextOrder
  <2>2. ASSUME NEW t \in Securities, t # s
        PROVE  Locked(t)' = Locked(t)
    <3>1. \A k \in OrderIds : PendingSells(t)'[k] = PendingSells(t)[k]
      BY <1>1, <2>1, <2>2 DEF PendingSells, NewOrder, TypeOK
    <3> QED BY <1>1, <3>1, SellsSame
  <2>3. Locked(s)' = Locked(s) + q
    <3>1. PendingSells(s)[o] = 0 /\ PendingSells(s)'[o] = q
      BY <1>1, <2>1 DEF PendingSells, NewOrder, TypeOK
    <3>2. Locked(s)' = Locked(s) - PendingSells(s)[o] + PendingSells(s)'[o]
      BY <1>1, <2>1, SellsUpdate DEF TypeOK
    <3> QED BY <1>1, <2>1, <3>1, <3>2
  <2>4. Backed(position'[s], Locked(s)')
    <3>1. position'[s] = [position[s] EXCEPT !.avail = @ - q]
      BY <1>1, <2>1 DEF TypeOK
    <3>2. position[s].avail >= q /\ position[s].row
      BY <2>1 DEF CanSell
    <3> QED BY <1>1, <2>1, <2>3, <3>1, <3>2 DEF Backed, PositionRow
  <2>5. \A t \in Securities : Backed(position'[t], Locked(t)')
    BY <1>1, <2>1, <2>2, <2>4 DEF TypeOK
  <2>6. \A k \in OrderIds : orders'[k].status = "pending" /\ orders'[k].direction = "sell"
          => orders'[k].frozenQty = orders'[k].qty
    BY <1>1, <2>1 DEF SharesInv, NewOrder, TypeOK
  <2> QED BY <2>5, <2>6 DEF SharesInv
<1> QED BY <1>2, <1>3, <1>4, SharesCancel, SharesMatch, Zenon DEF Trading

\* A supplement is a non-negative amount.
LEMMA SupplementNatural ==
  ASSUME TypeOK, NEW px \in [Securities -> Prices], NEW s \in Securities
  PROVE  Supplements(px)[s] \in Nat
<1> DEFINE from == MarginCallFrom(MarginCallStart, position[s].level)
           a == CallAmount(s, px)
           d == Drop(s, px)
<1>1. Supplements(px)[s] = IF Called(s, px) THEN a * (d - from + 1) ELSE 0
  BY Zenon DEF Supplements
<1>2. CASE ~ Called(s, px)
  BY <1>1, <1>2
<1>3. CASE Called(s, px)
  <2>1. Supplements(px)[s] = a * (d - from + 1)
    BY <1>1, <1>3
  <2>2. d \in Nat
    BY CallTypes
  <2>3. a \in Nat
    <3>1. position[s].qty * px[s] \in Int /\ PositionLeverage(position[s].leverage) \in Int
      <4>1. position[s].qty \in Int /\ px[s] \in Int
        BY PositionTypes, PriceType
      <4> QED BY <4>1, ProductType, PositionTypes
    <3>2. MarketValue(position[s].qty, px[s], position[s].leverage) * MarginCallRate \in Int
      BY <3>1, ProductType, AccountAssumption DEF MarketValue
    <3>3. a \in Int
      BY <3>2, RoundDivType, TradeMathAssumption DEF CallAmount
    <3>4. a > 0
      BY <1>3 DEF Called
    <3> QED BY <3>3, <3>4
  <2>4. from \in Int
    BY AccountAssumption, PositionTypes DEF MarginCallFrom, Larger
  <2>5. from <= d
    BY <1>3, Zenon DEF Called, MarginCallPending
  <2> HIDE DEF a, d, from
  <2>6. d - from + 1 \in Nat
    BY <2>2, <2>4, <2>5
  <2> QED BY <2>1, <2>3, <2>6, ProductType
<1> QED BY <1>2, <1>3

\* A charged position is backed as it was before.
LEMMA ChargedBacked ==
  ASSUME TypeOK, NEW px \in [Securities -> Prices], NEW base \in [Securities -> PositionRow],
         NEW s \in Securities, NEW locked, Backed(base[s], locked), base[s].qty = position[s].qty
  PROVE  Backed(Supplemented(base, px)[s], locked)
<1>1. CASE ~ Called(s, px)
  BY <1>1 DEF Supplemented
<1>2. CASE Called(s, px)
  <2> DEFINE m == Supplements(px)[s]
             level == Drop(s, px)
  <2>1. m \in Nat
    BY SupplementNatural
  <2>2. Supplemented(base, px)[s] = Charged(base[s], m, level)
    BY <1>2 DEF Supplemented
  <2>3. base[s].qty > 0
    BY <1>2 DEF Called, Open
  <2> HIDE DEF m, level
  <2>4. Backed(Charged(base[s], m, level), locked)
    BY <2>1, <2>3 DEF Backed, Charged, PositionRow
  <2> QED BY <2>2, <2>4
<1> QED BY <1>1, <1>2

\* The shares of the cancelled orders are given back, those of a closed
\* position are gone.
LEMMA CancelledBacked ==
  ASSUME SharesInv, TypeInv', NEW s \in Securities
  PROVE  /\ PositionsCancelled[s].qty = position[s].qty
         /\ PositionsCancelled[s].margin = position[s].margin
         /\ Backed(PositionsCancelled[s], 0)
         /\ Backed(PositionsClosed[s], 0)
         /\ PositionsClosed[s].qty = 0
<1>1. /\ position[s] \in PositionRow /\ Locked(s) \in Nat
      /\ Backed(position[s], Locked(s))
  BY SharesFacts
<1>2. PositionsCancelled[s]
        = IF position[s].row THEN [position[s] EXCEPT !.avail = @ + Locked(s)] ELSE position[s]
  BY DEF PositionsCancelled, Locked
<1>3. /\ PositionsCancelled[s].qty = position[s].qty
      /\ PositionsCancelled[s].margin = position[s].margin
      /\ Backed(PositionsCancelled[s], 0)
  <2>1. CASE position[s].row
    BY <1>1, <1>2, <2>1 DEF Backed, PositionRow
  <2>2. CASE ~ position[s].row
    BY <1>1, <1>2, <2>2 DEF Backed, PositionRow
  <2> QED BY <2>1, <2>2
<1>4. Backed(PositionsClosed[s], 0) /\ PositionsClosed[s].qty = 0
  <2>1. CASE Open(s)
    <3>1. PositionsClosed[s] = Closed(position[s])
      BY <2>1, Zenon DEF PositionsClosed
    <3> QED BY <3>1 DEF Closed, Backed
  <2>2. CASE ~ Open(s)
    <3>1. PositionsClosed[s] = PositionsCancelled[s]
      BY <2>2, Zenon DEF PositionsClosed
    <3>2. position[s].qty = 0
      BY <1>1, <2>2 DEF Open, Backed, PositionRow
    <3> QED BY <1>3, <3>1, <3>2
  <2> QED BY <2>1, <2>2
<1> QED BY <1>3, <1>4

\* What the batches do to orders and positions.
LEMMA BatchPositions ==
  ASSUME Batches
  PROVE  \E px \in [Securities -> Prices] :
           \/ orders' = orders /\ position' \in {position, Supplemented(position, px)}
           \/ /\ orders' = OrdersCancelled
              /\ position' \in {PositionsCancelled, PositionsClosed,
                                Supplemented(PositionsCancelled, px)}
<1>1. PICK px \in [Securities -> Prices], py \in [Securities -> Prices] :
        \/ \E d \in Days :
             FeeFromBalance(d, px) \/ FeeAfterCancelling(d, px) \/ FeeForced(d, px, py)
        \/ CallFromBalance(px) \/ CallAfterCancelling(px) \/ CallForced(px, py)
  BY Zenon DEF Batches
<1> WITNESS px \in [Securities -> Prices]
<1> QED BY <1>1 DEF FeeFromBalance, FeeAfterCancelling, FeeForced, CallFromBalance,
     CallAfterCancelling, CallForced

\* The margin calls and the fee keep the shares held and locked in agreement.
LEMMA SharesBatches ==
  ASSUME SharesInv, TypeInv', Batches
  PROVE  SharesInv'
<1>1. /\ TypeOK /\ TypeOK' /\ TypeInv
      /\ position \in [Securities -> PositionRow]
      /\ \A t \in Securities : Backed(position[t], Locked(t))
      /\ PositionsCancelled \in [Securities -> PositionRow]
  BY SharesFacts, CancelledTypes DEF SharesInv, TypeInv, TypeOK
<1>2. PICK px \in [Securities -> Prices] :
           \/ orders' = orders /\ position' \in {position, Supplemented(position, px)}
           \/ /\ orders' = OrdersCancelled
              /\ position' \in {PositionsCancelled, PositionsClosed,
                                Supplemented(PositionsCancelled, px)}
  BY BatchPositions
<1>3. CASE orders' = orders /\ position' \in {position, Supplemented(position, px)}
  <2>1. \A t \in Securities : Locked(t)' = Locked(t)
    BY <1>1, <1>3, SellsSame DEF PendingSells
  <2>2. \A t \in Securities : Backed(Supplemented(position, px)[t], Locked(t))
    BY <1>1, ChargedBacked
  <2>3. \A t \in Securities : Backed(position'[t], Locked(t)')
    BY <1>1, <1>3, <2>1, <2>2
  <2> QED BY <1>3, <2>3 DEF SharesInv
<1>4. CASE /\ orders' = OrdersCancelled
           /\ position' \in {PositionsCancelled, PositionsClosed,
                             Supplemented(PositionsCancelled, px)}
  <2>1. \A k \in OrderIds : orders'[k].status # "pending"
    BY <1>1, <1>4, NonePending
  <2>2. ASSUME NEW t \in Securities
        PROVE  Locked(t)' = 0
    <3>1. \A k \in OrderIds : PendingSells(t)'[k] = 0
      BY <2>1 DEF PendingSells
    <3> QED BY <1>1, <3>1, SellsNone
  <2>3. ASSUME NEW t \in Securities
        PROVE  Backed(position'[t], 0)
    <3>1. /\ Backed(PositionsCancelled[t], 0) /\ Backed(PositionsClosed[t], 0)
          /\ PositionsCancelled[t].qty = position[t].qty
      BY CancelledBacked
    <3>2. Backed(Supplemented(PositionsCancelled, px)[t], 0)
      BY <1>1, <3>1, ChargedBacked
    <3> QED BY <1>4, <3>1, <3>2
  <2> QED BY <2>1, <2>2, <2>3 DEF SharesInv
<1> QED BY <1>2, <1>3, <1>4

\* Closing a position by hand takes its sell orders with it.
LEMMA SharesForceClose ==
  ASSUME SharesInv, TypeInv', NEW s \in Securities, NEW price \in Prices,
         ForceClosePosition(s, price)
  PROVE  SharesInv'
<1>1. /\ TypeOK /\ TypeOK'
      /\ position \in [Securities -> PositionRow]
      /\ \A t \in Securities : Backed(position[t], Locked(t))
  BY SharesFacts DEF SharesInv, TypeInv, TypeOK
<1>2. /\ orders' = [o \in OrderIds |->
           IF /\ orders[o].status = "pending" /\ orders[o].direction = "sell"
              /\ orders[o].security = s
           THEN Settled(orders[o], "cancelled", 0, 0)
           ELSE orders[o]]
      /\ position' = [position EXCEPT ![s] = Closed(position[s])]
  BY Zenon DEF ForceClosePosition
<1>3. Locked(s)' = 0
  <2>1. \A k \in OrderIds : PendingSells(s)'[k] = 0
    BY <1>2 DEF PendingSells, Settled
  <2> QED BY <1>1, <2>1, SellsNone
<1>4. ASSUME NEW t \in Securities, t # s
      PROVE  Locked(t)' = Locked(t)
  <2>1. \A k \in OrderIds : PendingSells(t)'[k] = PendingSells(t)[k]
    BY <1>2, <1>4 DEF PendingSells, Settled
  <2> QED BY <1>1, <2>1, SellsSame
<1>5. Backed(Closed(position[s]), 0)
  BY DEF Closed, Backed
<1>6. \A t \in Securities : Backed(position'[t], Locked(t)')
  BY <1>1, <1>2, <1>3, <1>4, <1>5
<1>7. \A k \in OrderIds : orders'[k].status = "pending" /\ orders'[k].direction = "sell"
        => orders'[k].frozenQty = orders'[k].qty
  BY <1>2 DEF SharesInv, Settled
<1> QED BY <1>6, <1>7 DEF SharesInv

\* Steps that change neither an order nor a position.
LEMMA SharesUnchanged ==
  ASSUME SharesInv, TypeInv', UNCHANGED <<orders, position>>
  PROVE  SharesInv'
<1>1. TypeOK /\ TypeOK' /\ \A t \in Securities : Backed(position[t], Locked(t))
  BY DEF SharesInv, TypeInv
<1>2. \A t \in Securities : Locked(t)' = Locked(t)
  BY <1>1, SellsSame DEF PendingSells
<1> QED BY <1>1, <1>2 DEF SharesInv

\* Every step keeps the shares held and locked in agreement, unless an
\* administrator writes a position by hand.
LEMMA SharesStep ==
  ASSUME SharesInv, ~ AllowAdminRows, [Next]_vars
  PROVE  SharesInv'
<1>1. TypeInv'
  BY StepType DEF SharesInv
<1>2. CASE Trading
  BY <1>1, <1>2, SharesTrading
<1>3. CASE Batches
  BY <1>1, <1>3, SharesBatches
<1>4. CASE Transfers
  <2>1. UNCHANGED <<orders, position>>
    BY <1>4 DEF Transfers, RequestRecharge, ReviewRecharge, RequestWithdrawal, ReviewWithdrawal
  <2> QED BY <1>1, <2>1, SharesUnchanged
<1>5. CASE Administration
  <2>1. \/ UNCHANGED <<orders, position>>
        \/ \E s \in Securities, price \in Prices : ForceClosePosition(s, price)
    BY <1>5 DEF Administration, ReadDeposit, WriteDeposit, SwitchFlag, SavePosition,
         DeletePosition, CreateRecharge, CreateWithdrawal
  <2> QED BY <1>1, <2>1, SharesUnchanged, SharesForceClose
<1>6. CASE UNCHANGED vars
  BY <1>1, <1>6, SharesUnchanged DEF vars
<1> QED BY <1>2, <1>3, <1>4, <1>5, <1>6 DEF Next

\* Nothing is held and nothing is locked in the beginning.
LEMMA SharesInit == Init => SharesInv
<1> SUFFICES ASSUME Init PROVE SharesInv
  OBVIOUS
<1>1. TypeInv /\ TypeOK
  BY InitType DEF TypeInv
<1>2. ASSUME NEW s \in Securities
      PROVE  Locked(s) = 0
  <2>1. PendingSells(s) \in [1..MaxOrders -> Int]
    BY <1>1 DEF TypeOK, PendingSells, OrderIds, OrderRow
  <2>2. \A k \in 1..MaxOrders : PendingSells(s)[k] = 0
    BY DEF Init, PendingSells, OrderIds, NoOrder
  <2> QED BY <2>1, <2>2, TotalZero, AccountAssumption DEF Locked
<1>3. \A s \in Securities : Backed(position[s], Locked(s))
  BY <1>2 DEF Init, NoPosition, Backed
<1> QED BY <1>1, <1>3 DEF Init, SharesInv, NoOrder

\* The shares of a position that are not available are exactly those its
\* pending sell orders hold, through orders, fills, margin calls, fees, forced
\* sales and overlapping deposits, as long as no administrator writes a
\* position by hand; a position without shares holds no money.
THEOREM SharesExact ==
  ASSUME ~ AllowAdminRows
  PROVE  Spec => []SharesCovered
<1>1. Init => SharesInv
  BY SharesInit
<1>2. SharesInv /\ [Next]_vars => SharesInv'
  BY SharesStep
<1>3. SharesInv => SharesCovered
  BY DEF SharesInv, SharesCovered, Backed, Locked
<1> QED BY <1>1, <1>2, <1>3, PTL DEF Spec

-----------------------------------------------------------------------------
(***************************************************************************)
(* The money of an account: what a customers row holds, less its realized  *)
(* results, and what the positions hold.                                   *)
(***************************************************************************)
Cash(c) == c.balance + c.frozen - c.pnl

Invested == Total(Margins, NumSecurities)

\* What a change of the customers row does to its money.
LEMMA BookCash ==
  ASSUME NEW c \in CustomerRow, NEW a \in Int, NEW b \in Int, NEW d \in Int
  PROVE  /\ Cash(Book(c, a, b, d)) = Cash(c) + a + b - d
         /\ Cash(c) \in Int
         /\ Book(c, a, b, d) \in CustomerRow
<1>1. /\ Book(c, a, b, d).balance = c.balance + a
      /\ Book(c, a, b, d).frozen = c.frozen + b
      /\ Book(c, a, b, d).pnl = c.pnl + d
  BY DEF Book
<1>2. c.balance \in Int /\ c.frozen \in Int /\ c.pnl \in Int
  BY DEF CustomerRow
<1>3. Book(c, a, b, d) \in CustomerRow
  BY BookType
<1> QED BY <1>1, <1>2, <1>3 DEF Cash

\* Changing one position changes the invested money by that position's margin.
LEMMA InvestedUpdate ==
  ASSUME TypeOK, TypeOK', NEW s \in Securities,
         \A t \in Securities : t # s => position'[t] = position[t]
  PROVE  Invested' = Invested - position[s].margin + position'[s].margin
<1>1. /\ Margins \in [1..NumSecurities -> Int]
      /\ Margins' \in [1..NumSecurities -> Int]
  BY DEF TypeOK, Margins, Securities, PositionRow
<1>2. \A t \in 1..NumSecurities : t # s => Margins'[t] = Margins[t]
  BY DEF Margins, Securities
<1>3. Margins[s] = position[s].margin /\ Margins'[s] = position'[s].margin
  BY DEF Margins
<1>4. NumSecurities \in Nat /\ s \in 1..NumSecurities
  BY AccountAssumption DEF Securities
<1> QED BY <1>1, <1>2, <1>3, <1>4, TotalUpdate DEF Invested

\* It changes with nothing but the margins.
LEMMA InvestedSame ==
  ASSUME TypeOK, TypeOK', \A s \in Securities : position'[s].margin = position[s].margin
  PROVE  Invested' = Invested
<1>1. /\ Margins \in [1..NumSecurities -> Int]
      /\ Margins' \in [1..NumSecurities -> Int]
  BY DEF TypeOK, Margins, Securities, PositionRow
<1>2. \A t \in 1..NumSecurities : Margins'[t] = Margins[t]
  BY DEF Margins, Securities
<1> QED BY <1>1, <1>2, TotalEqual, AccountAssumption DEF Invested

\* It is an integer, and zero when no position holds money.
LEMMA InvestedType ==
  /\ TypeOK => Invested \in Int
  /\ TypeOK' => Invested' \in Int
  /\ TypeOK' /\ (\A s \in Securities : position'[s].margin = 0) => Invested' = 0
<1>1. ASSUME TypeOK
      PROVE  Invested \in Int
  BY <1>1, ColumnTypes, TotalType, AccountAssumption DEF Invested
<1>2. ASSUME TypeOK'
      PROVE  Margins' \in [1..NumSecurities -> Int]
  BY <1>2 DEF TypeOK, Margins, Securities, PositionRow
<1>3. ASSUME TypeOK'
      PROVE  Invested' \in Int
  BY <1>2, <1>3, TotalType, AccountAssumption DEF Invested
<1>4. ASSUME TypeOK', \A s \in Securities : position'[s].margin = 0
      PROVE  Invested' = 0
  <2>1. \A s \in 1..NumSecurities : Margins'[s] = 0
    BY <1>4 DEF Margins, Securities
  <2> QED BY <1>2, <1>4, <2>1, TotalZero, AccountAssumption DEF Invested
<1> QED BY <1>1, <1>3, <1>4

\* Closing every position pays out what was invested and the results.
LEMMA SettlementsTotal ==
  ASSUME SharesInv, NEW px \in [Securities -> Prices]
  PROVE  Total(Settlements(px), NumSecurities)
           = Invested + Total(Results(px), NumSecurities)
<1>1. TypeOK /\ \A s \in Securities : Backed(position[s], Locked(s)) /\ Locked(s) \in Nat
  BY PendingTotals DEF SharesInv, TypeInv, Locked
<1>2. /\ Margins \in [1..NumSecurities -> Int]
      /\ Results(px) \in [1..NumSecurities -> Int]
      /\ Settlements(px) \in [1..NumSecurities -> Int]
  BY <1>1, ColumnTypes, ResultTypes
<1>3. ASSUME NEW s \in Securities
      PROVE  Settlements(px)[s] = Margins[s] + Results(px)[s]
  <2>1. Settlements(px)[s] = IF Open(s) THEN position[s].margin + Results(px)[s] ELSE 0
    BY Zenon DEF Settlements
  <2>2. Margins[s] = position[s].margin
    BY DEF Margins
  <2>3. CASE Open(s)
    BY <2>1, <2>2, <2>3
  <2>4. CASE ~ Open(s)
    <3>1. Results(px)[s] = 0
      BY <2>4, Zenon DEF Results
    <3>2. position[s].margin = 0
      <4>1. position[s].qty \in Int /\ position[s].avail \in Int /\ Locked(s) \in Nat
        BY <1>1, PositionTypes
      <4>2. position[s].qty = position[s].avail + Locked(s) /\ position[s].avail >= 0
        BY <1>1 DEF Backed
      <4>3. position[s].qty = 0
        BY <2>4, <4>1, <4>2 DEF Open
      <4> QED BY <1>1, <4>3 DEF Backed
    <3> QED BY <2>1, <2>2, <2>4, <3>1, <3>2
  <2> QED BY <2>3, <2>4
<1>4. \A s \in 1..NumSecurities : Settlements(px)[s] = Margins[s] + Results(px)[s]
  BY <1>3 DEF Securities
<1> DEFINE f == Settlements(px)
           g == Results(px)
<1> HIDE DEF f, g
<1>5. Total(f, NumSecurities) = Total(Margins, NumSecurities) + Total(g, NumSecurities)
  BY <1>2, <1>4, TotalAdd, AccountAssumption DEF f, g
<1> QED BY <1>5 DEF f, g, Invested

\* A margin call invests what it takes from the balance.
LEMMA SupplementsInvested ==
  ASSUME TypeOK, TypeOK', NEW px \in [Securities -> Prices],
         NEW base \in [Securities -> PositionRow],
         \A s \in Securities : base[s].margin = position[s].margin,
         position' = Supplemented(base, px)
  PROVE  Invested' = Invested + TotalRequired(px)
<1>1. /\ Margins \in [1..NumSecurities -> Int]
      /\ Margins' \in [1..NumSecurities -> Int]
      /\ Supplements(px) \in [1..NumSecurities -> Int]
  BY ColumnTypes, CallTypes DEF TypeOK, Margins, Securities, PositionRow
<1> DEFINE f == Supplements(px)
<1>2. ASSUME NEW s \in Securities
      PROVE  Margins'[s] = Margins[s] + f[s]
  <2>1. Margins'[s] = position'[s].margin /\ Margins[s] = position[s].margin
    BY DEF Margins
  <2>2. CASE Called(s, px)
    <3>1. position'[s] = Charged(base[s], f[s], Drop(s, px))
      BY <2>2 DEF Supplemented
    <3>2. \A m, level : Charged(base[s], m, level).margin = base[s].margin + m
      BY DEF Charged
    <3>3. position'[s].margin = base[s].margin + f[s]
      BY <3>1, <3>2
    <3> QED BY <2>1, <3>3
  <2>3. CASE ~ Called(s, px)
    <3>1. position'[s] = base[s]
      BY <2>3 DEF Supplemented
    <3>2. f[s] = 0
      BY <2>3, Zenon DEF Supplements
    <3>3. Margins[s] \in Int
      BY <1>1 DEF Securities
    <3> QED BY <2>1, <3>1, <3>2, <3>3
  <2> QED BY <2>2, <2>3
<1>3. \A s \in 1..NumSecurities : Margins'[s] = Margins[s] + f[s]
  BY <1>2 DEF Securities
<1>4. f \in [1..NumSecurities -> Int] /\ TotalRequired(px) = Total(f, NumSecurities)
  BY <1>1 DEF TotalRequired
<1> HIDE DEF f
<1>5. Total(Margins', NumSecurities) = Total(Margins, NumSecurities) + Total(f, NumSecurities)
  BY <1>1, <1>3, <1>4, TotalAdd, AccountAssumption
<1> QED BY <1>4, <1>5 DEF Invested

-----------------------------------------------------------------------------
(***************************************************************************)
(* Money is conserved by every step.  The argument needs the other ledgers:*)
(* the frozen balance covers what a batch releases, and a position without *)
(* shares holds no money that closing every open position would leave.     *)
(***************************************************************************)
MoneyInv ==
  /\ CoveredInv
  /\ SharesInv
  /\ MoneyConserved
  /\ deposit.busy => /\ deposit.copy.balance = customer.balance + deposit.amount
                     /\ deposit.copy.pnl = customer.pnl

\* What every step may use: money is conserved in terms of Cash and Invested.
LEMMA MoneyFacts ==
  ASSUME MoneyInv
  PROVE  /\ TypeInv /\ TypeOK /\ SharesInv
         /\ customer \in CustomerRow /\ Invested \in Int /\ net \in Int
         /\ Cash(customer) \in Int
         /\ Cash(customer) + Invested = net
<1>1. /\ TypeInv /\ TypeOK /\ SharesInv
      /\ customer \in CustomerRow /\ Invested \in Int /\ net \in Int
  BY InvestedType DEF MoneyInv, CoveredInv, TypeInv, TypeOK
<1>2. customer.balance \in Int /\ customer.frozen \in Int /\ customer.pnl \in Int
  BY <1>1 DEF CustomerRow
<1>3. customer.balance + customer.frozen + Invested = net + customer.pnl
  BY DEF MoneyInv, MoneyConserved, Invested
<1> QED BY <1>1, <1>2, <1>3 DEF Cash

\* And what a step has to show.
LEMMA MoneyShown ==
  ASSUME TypeOK', Cash(customer') + Invested' = net'
  PROVE  MoneyConserved'
<1>1. customer' \in CustomerRow /\ Invested' \in Int /\ net' \in Int
  BY InvestedType DEF TypeOK
<1>2. customer'.balance \in Int /\ customer'.frozen \in Int /\ customer'.pnl \in Int
  BY <1>1 DEF CustomerRow
<1>3. customer'.balance + customer'.frozen + Invested' = net' + customer'.pnl
  BY <1>1, <1>2 DEF Cash
<1> QED BY <1>3 DEF MoneyConserved, Invested

\* A sale takes the margin it pays out of the position.
LEMMA MarginMoves ==
  ASSUME NEW p \in PositionRow, NEW locked \in Nat, Backed(p, locked), NEW q \in Nat,
         NEW s \in Securities, CanSell(p, q)
  PROVE  AfterSell(p, q).margin = p.margin - MarginRemoved(p, q)
<1>1. p.qty \in Int /\ p.avail \in Int /\ p.margin \in Nat
  BY DEF PositionRow, Backed
<1>2. q <= p.qty
  BY <1>1 DEF Backed, CanSell
<1>3. AfterSell(p, q).margin
        = IF q = p.qty THEN 0 ELSE Larger(0, p.margin - MarginRemoved(p, q))
  BY DEF AfterSell
<1>4. CASE q = p.qty
  <2>1. MarginRemoved(p, q) = p.margin
    BY <1>1, <1>4 DEF MarginRemoved
  <2> QED BY <1>1, <1>3, <1>4, <2>1
<1>5. CASE q < p.qty
  <2>1. p.qty \in Nat \ {0} /\ q \in 0..p.qty
    BY <1>1, <1>5
  <2>2. RoundDiv(p.margin * q, p.qty) \in Nat /\ RoundDiv(p.margin * q, p.qty) <= p.margin
    BY <1>1, <2>1, RoundDivShare
  <2>3. MarginRemoved(p, q) = RoundDiv(p.margin * q, p.qty)
    BY <1>5 DEF MarginRemoved
  <2> DEFINE m == RoundDiv(p.margin * q, p.qty)
  <2> HIDE DEF m
  <2>4. Larger(0, p.margin - m) = p.margin - m
    BY <1>1, <2>2 DEF m, Larger
  <2> QED BY <1>1, <1>3, <1>5, <2>3, <2>4 DEF m
<1> QED BY <1>1, <1>2, <1>4, <1>5

\* A trade moves money between the customers row, the position and the fees.
LEMMA ExecuteMoney ==
  ASSUME TypeOK, TypeOK', NEW s \in Securities, NEW c \in CustomerRow, NEW p \in PositionRow,
         NEW locked \in Nat, Backed(p, locked), p.margin = position[s].margin,
         NEW direction, NEW q \in Nat, NEW price \in Nat, NEW lev,
         Execute(c, p, s, direction, q, price, lev),
         Cash(c) + Invested = net
  PROVE  Cash(customer') + Invested' = net'
<1>1. Invested \in Int /\ Invested' \in Int /\ p.margin \in Int /\ net \in Int
      /\ Cash(c) \in Int
  BY InvestedType DEF TypeOK, PositionRow, CustomerRow, Cash
<1>2. ASSUME NEW r, position' = [position EXCEPT ![s] = r]
      PROVE  Invested' = Invested - p.margin + r.margin
  <2>1. position'[s] = r /\ \A t \in Securities : t # s => position'[t] = position[t]
    BY <1>2 DEF TypeOK
  <2> QED BY <2>1, InvestedUpdate
<1>3. CASE direction = "buy"
  <2> DEFINE a == price * q
             fee == TradeFee(Market[s], a, "buy")
             d == BuyDebit(s, q, price)
             r == AfterBuy(p, q, price, lev)
  <2>1. a \in Nat /\ fee \in Nat /\ d \in Nat
    BY BuyDebitType
  <2>2. d = a + fee
    BY DEF BuyDebit
  <2>3. r.margin = p.margin + a
    BY Zenon DEF AfterBuy
  <2>4. /\ customer' = Book(c, - d, 0, 0)
        /\ position' = [position EXCEPT ![s] = r]
        /\ net' = net - fee
    BY <1>3 DEF Execute
  <2> HIDE DEF a, fee, d, r
  <2>5. - d \in Int
    BY <2>1
  <2>6. Cash(customer') = Cash(c) - d
    <3>1. Cash(customer') = Cash(c) + (- d) + 0 - 0
      BY <2>4, <2>5, BookCash
    <3> QED BY <1>1, <2>1, <3>1
  <2>7. Invested' = Invested - p.margin + r.margin
    BY <1>2, <2>4
  <2> QED BY <1>1, <2>1, <2>2, <2>3, <2>4, <2>6, <2>7
<1>4. CASE direction = "sell"
  <2> DEFINE m == MarginRemoved(p, q)
             x == SellRealized(p, s, q, price)
             r == AfterSell(p, q)
  <2>1. m \in Int /\ x \in Int
    BY SalePartsType
  <2>2. /\ customer' = Book(c, m + x, 0, x)
        /\ position' = [position EXCEPT ![s] = r]
        /\ net' = net
        /\ CanSell(p, q)
    BY <1>4 DEF Execute
  <2>3. r.margin = p.margin - m
    BY <2>2, MarginMoves
  <2> HIDE DEF m, x, r
  <2>4. Cash(customer') = Cash(c) + m
    <3>1. m + x \in Int
      BY <2>1
    <3>2. Cash(customer') = Cash(c) + (m + x) + 0 - x
      BY <2>1, <2>2, <3>1, BookCash
    <3> QED BY <1>1, <2>1, <3>2
  <2>5. Invested' = Invested - p.margin + r.margin
    BY <1>2, <2>2
  <2> QED BY <1>1, <2>1, <2>2, <2>3, <2>4, <2>5
<1> QED BY <1>3, <1>4 DEF Execute

\* Orders, fills and cancellations.
LEMMA MoneyTrading ==
  ASSUME MoneyInv, TypeInv', Trading
  PROVE  MoneyConserved'
<1>1. /\ TypeInv /\ TypeOK /\ TypeOK' /\ SharesInv
      /\ customer \in CustomerRow /\ Invested \in Int /\ net \in Int
      /\ Cash(customer) \in Int
      /\ Cash(customer) + Invested = net
      /\ \A s \in Securities : /\ position[s] \in PositionRow /\ Locked(s) \in Nat
                               /\ Backed(position[s], Locked(s))
  BY MoneyFacts, SharesFacts DEF TypeInv
<1>2. ASSUME NEW s \in Securities, NEW dir \in Directions, NEW q \in Quantities,
             NEW price \in Prices, NEW lev \in Leverages, PlaceOrder(s, dir, q, price, lev)
      PROVE  Cash(customer') + Invested' = net'
  <2>1. q \in Nat /\ price \in Nat
    BY InputTypes
  <2> DEFINE p == position[s]
  <2>2. p \in PositionRow /\ Backed(p, Locked(s)) /\ Locked(s) \in Nat
        /\ p.margin = position[s].margin
    BY <1>1
  <2>3. Execute(customer, p, s, dir, q, price, lev)
    BY <1>2 DEF PlaceOrder
  <2> HIDE DEF p
  <2> QED BY <1>1, <2>1, <2>2, <2>3, ExecuteMoney
<1>3. ASSUME NEW o \in OrderIds, NEW s \in Securities, NEW limit \in Prices,
             NEW q \in Quantities, PlaceLimitBuy(o, s, limit, q)
      PROVE  Cash(customer') + Invested' = net'
  <2> DEFINE d == BuyDebit(s, q, limit)
  <2>1. d \in Int /\ - d \in Int
    <3>1. d \in Nat
      BY BuyDebitType, InputTypes
    <3> QED BY <3>1
  <2>2. customer' = Book(customer, - d, d, 0) /\ position' = position /\ net' = net
    BY <1>3 DEF PlaceLimitBuy
  <2> HIDE DEF d
  <2>3. Cash(customer') = Cash(customer) + (- d) + d - 0
    BY <1>1, <2>1, <2>2, BookCash
  <2>4. Invested' = Invested
    BY <1>1, <2>2, InvestedSame
  <2> QED BY <1>1, <2>1, <2>2, <2>3, <2>4
<1>4. ASSUME NEW o \in OrderIds, NEW s \in Securities, NEW limit \in Prices,
             NEW q \in Quantities, PlaceLimitSell(o, s, limit, q)
      PROVE  Cash(customer') + Invested' = net'
  <2>1. /\ customer' = customer /\ net' = net
        /\ position' = [position EXCEPT ![s].avail = @ - q]
    BY <1>4 DEF PlaceLimitSell
  <2>2. \A t \in Securities : position'[t].margin = position[t].margin
    BY <1>1, <2>1 DEF PositionRow, TypeOK
  <2>3. Invested' = Invested
    BY <1>1, <2>2, InvestedSame
  <2> QED BY <1>1, <2>1, <2>3
<1>5. ASSUME NEW o \in OrderIds
      PROVE  Unfrozen(o) \in CustomerRow /\ Cash(Unfrozen(o)) = Cash(customer)
  <2> DEFINE f == orders[o].frozenAmount
  <2>1. f \in Int /\ - f \in Int
    BY <1>1 DEF TypeOK, OrderRow
  <2>2. Unfrozen(o) = Book(customer, f, - f, 0)
    BY DEF Unfrozen
  <2> HIDE DEF f
  <2>3. Cash(Unfrozen(o)) = Cash(customer) + f + (- f) - 0 /\ Unfrozen(o) \in CustomerRow
    BY <1>1, <2>1, <2>2, BookCash
  <2> QED BY <1>1, <2>1, <2>3
<1>6. ASSUME NEW o \in OrderIds, CancelOrder(o)
      PROVE  Cash(customer') + Invested' = net'
  <2>1. net' = net /\ ReleaseFreeze(o)
    BY <1>6 DEF CancelOrder
  <2>2. Cash(customer') = Cash(customer)
    BY <1>5, <2>1 DEF ReleaseFreeze
  <2>3. ASSUME NEW t \in Securities
        PROVE  position'[t].margin = position[t].margin
    <3>1. CASE position' = position
      BY <3>1
    <3>2. CASE position' = [position EXCEPT ![orders[o].security] = Unlocked(o)]
      <4>1. Unlocked(o).margin = position[orders[o].security].margin
        BY DEF Unlocked
      <4> QED BY <1>1, <3>2, <4>1 DEF TypeOK
    <3> QED BY <2>1, <3>1, <3>2 DEF ReleaseFreeze
  <2>4. Invested' = Invested
    BY <1>1, <2>3, InvestedSame
  <2> QED BY <1>1, <2>1, <2>2, <2>4
<1>7. ASSUME NEW o \in OrderIds, NEW price \in Prices, NEW lev \in Leverages,
             MatchOrder(o, price, lev)
      PROVE  Cash(customer') + Invested' = net'
  <2>0. PICK s \in Securities : s = orders[o].security
    BY <1>1, <1>7 DEF MatchOrder, TypeInv, PlacedOnListed
  <2> DEFINE c == IF orders[o].direction = "buy" THEN Unfrozen(o) ELSE customer
             p == IF orders[o].direction = "sell" THEN Unlocked(o) ELSE position[s]
             direction == orders[o].direction
             q == orders[o].qty
  <2>1. c \in CustomerRow /\ Cash(c) + Invested = net
    BY <1>1, <1>5
  <2>2. p \in PositionRow /\ p.margin = position[s].margin
    BY <1>1, <2>0, UnfrozenType DEF Unlocked
  <2>3. Execute(c, p, s, direction, q, price, lev)
    BY <1>7, <2>0, Zenon DEF MatchOrder
  <2>4. q \in Nat /\ price \in Nat
    BY <1>1, InputTypes DEF TypeOK, OrderRow
  <2>5. \E locked \in Nat : Backed(p, locked)
    <3>1. CASE orders[o].direction = "sell"
      <4>1. PendingSells(s)[o] = q /\ orders[o].frozenQty = q
        BY <1>1, <1>7, <2>0, <3>1 DEF SharesInv, PendingSells, MatchOrder
      <4>2. q <= Locked(s)
        <5>1. PendingSells(s) \in [1..MaxOrders -> Nat] /\ o \in 1..MaxOrders /\ MaxOrders \in Nat
          BY <1>1, ColumnTypes, AccountAssumption DEF OrderIds
        <5>2. PendingSells(s)[o] <= Total(PendingSells(s), MaxOrders)
          <6> HIDE DEF PendingSells
          <6> QED BY <5>1, TotalCovers
        <5> QED BY <4>1, <5>2 DEF Locked
      <4>3. p = [position[s] EXCEPT !.avail = @ + q]
        BY <2>0, <3>1, <4>1 DEF Unlocked
      <4> HIDE DEF p, q
      <4>4. Locked(s) - q \in Nat
        BY <1>1, <2>4, <4>2
      <4>5. Backed(p, Locked(s) - q)
        BY <1>1, <2>4, <4>2, <4>3 DEF Backed, PositionRow
      <4> QED BY <4>4, <4>5
    <3>2. CASE orders[o].direction # "sell"
      BY <1>1, <3>2
    <3> QED BY <3>1, <3>2
  <2> HIDE DEF c, p, direction, q
  <2> QED BY <1>1, <2>1, <2>2, <2>3, <2>4, <2>5, ExecuteMoney
<1>8. Cash(customer') + Invested' = net'
  BY <1>2, <1>3, <1>4, <1>6, <1>7, Zenon DEF Trading
<1> QED BY <1>1, <1>8, MoneyShown

\* Cancelling the orders moves the released freezes into the balance, closing
\* the positions what was invested.
LEMMA BatchCash ==
  ASSUME MoneyInv, NEW px \in [Securities -> Prices]
  PROVE  /\ CustomerCancelled \in CustomerRow /\ CustomerClosed(px) \in CustomerRow
         /\ Cash(CustomerCancelled) = Cash(customer)
         /\ Cash(CustomerClosed(px)) = Cash(customer) + Invested
<1>1. /\ TypeOK /\ SharesInv /\ customer \in CustomerRow /\ Invested \in Int
      /\ Cash(customer) \in Int
  BY MoneyFacts
<1>2. CustomerCancelled \in CustomerRow /\ CustomerClosed(px) \in CustomerRow
  BY <1>1, CancelledTypes, ClosedTypes
<1>3. Cash(CustomerCancelled) = Cash(customer)
  <2>1. /\ Released \in Nat /\ Withdrawing \in Nat /\ customer.frozen \in Int
        /\ customer.frozen = Released + Withdrawing
    BY <1>1, PendingTotals DEF MoneyInv, CoveredInv, FrozenCovered, Released, Withdrawing,
       CustomerRow
  <2> DEFINE b == Larger(0, customer.frozen - Released) - customer.frozen
  <2>2. b = - Released /\ b \in Int /\ Released \in Int
    BY <2>1 DEF Larger
  <2>3. CustomerCancelled = Book(customer, Released, b, 0)
    BY DEF CustomerCancelled
  <2> HIDE DEF b
  <2>4. Cash(CustomerCancelled) = Cash(customer) + Released + b - 0
    BY <1>1, <2>2, <2>3, BookCash
  <2> QED BY <1>1, <2>2, <2>4
<1>4. Cash(CustomerClosed(px)) = Cash(customer) + Invested
  <2> DEFINE a == Total(Settlements(px), NumSecurities)
             d == Total(Results(px), NumSecurities)
  <2>1. a \in Int /\ d \in Int
    BY <1>1, ResultTypes, TotalType, AccountAssumption
  <2>2. a = Invested + d
    BY <1>1, SettlementsTotal
  <2>3. CustomerClosed(px) = Book(CustomerCancelled, a, 0, d)
    BY Zenon DEF CustomerClosed
  <2> HIDE DEF a, d
  <2>4. Cash(CustomerClosed(px)) = Cash(CustomerCancelled) + a + 0 - d
    BY <1>2, <2>1, <2>3, BookCash
  <2> QED BY <1>1, <1>3, <2>1, <2>2, <2>4
<1> QED BY <1>2, <1>3, <1>4

\* A fee, and a forgiven debt, leave or enter from outside.
LEMMA OutsideCash ==
  ASSUME NEW c \in CustomerRow, net \in Int
  PROVE  /\ \A fee \in Int : PayFee(c, fee) => Cash(customer') - net' = Cash(c) - net
         /\ Forgive(c) => Cash(customer') - net' = Cash(c) - net
<1>1. c.balance \in Int /\ Cash(c) \in Int
  BY DEF CustomerRow, Cash
<1>2. ASSUME NEW left \in Int, customer' = Book(c, left - c.balance, 0, 0),
             net' = net + left - c.balance
      PROVE  Cash(customer') - net' = Cash(c) - net
  <2>1. Cash(customer') = Cash(c) + (left - c.balance) + 0 - 0
    BY <1>1, <1>2, BookCash
  <2> QED BY <1>1, <1>2, <2>1
<1>3. ASSUME NEW fee \in Int, PayFee(c, fee)
      PROVE  Cash(customer') - net' = Cash(c) - net
  <2> DEFINE left == Larger(0, c.balance - Smaller(Larger(c.balance, 0), fee))
  <2>1. left \in Int
    BY <1>1 DEF Larger, Smaller
  <2>2. customer' = Book(c, left - c.balance, 0, 0) /\ net' = net + left - c.balance
    BY <1>3, Zenon DEF PayFee
  <2> HIDE DEF left
  <2> QED BY <1>2, <2>1, <2>2
<1>4. ASSUME Forgive(c)
      PROVE  Cash(customer') - net' = Cash(c) - net
  <2> DEFINE left == Larger(0, c.balance)
  <2>1. left \in Int
    BY <1>1 DEF Larger
  <2>2. customer' = Book(c, left - c.balance, 0, 0) /\ net' = net + (left - c.balance)
    BY <1>4, Zenon DEF Forgive
  <2> HIDE DEF left
  <2> QED BY <1>1, <1>2, <2>1, <2>2
<1> QED BY <1>3, <1>4

\* Margin calls and management fees.
LEMMA MoneyBatches ==
  ASSUME MoneyInv, TypeInv', Batches
  PROVE  MoneyConserved'
<1>1. /\ TypeInv /\ TypeOK /\ TypeOK' /\ SharesInv
      /\ customer \in CustomerRow /\ Invested \in Int /\ net \in Int
      /\ Cash(customer) \in Int
      /\ Cash(customer) + Invested = net
      /\ Cash(customer') \in Int /\ Invested' \in Int /\ net' \in Int
  BY MoneyFacts, InvestedType DEF TypeInv, TypeOK, CustomerRow, Cash
<1>2. PICK px \in [Securities -> Prices], py \in [Securities -> Prices] :
        \/ \E d \in Days :
             FeeFromBalance(d, px) \/ FeeAfterCancelling(d, px) \/ FeeForced(d, px, py)
        \/ CallFromBalance(px) \/ CallAfterCancelling(px) \/ CallForced(px, py)
  BY Zenon DEF Batches
<1>3. /\ CustomerCancelled \in CustomerRow /\ CustomerClosed(py) \in CustomerRow
      /\ Cash(CustomerCancelled) = Cash(customer)
      /\ Cash(CustomerClosed(py)) = Cash(customer) + Invested
      /\ ManagementFee(px) \in Int
      /\ TotalRequired(px) \in Int /\ - TotalRequired(px) \in Int
  BY <1>1, BatchCash, ManagementFeeType, CallTypes
<1>4. ASSUME position' = PositionsCancelled
      PROVE  Invested' = Invested
  <2>1. \A s \in Securities : position'[s].margin = position[s].margin
    BY <1>1, <1>4, CancelledBacked
  <2> QED BY <1>1, <2>1, InvestedSame
<1>5. ASSUME position' = PositionsClosed, Cash(customer') - net' = Cash(CustomerClosed(py)) - net
      PROVE  Cash(customer') + Invested' = net'
  <2> DEFINE k == Cash(CustomerClosed(py))
  <2>1. Cash(customer') - net' = k - net /\ k = net
    BY <1>1, <1>3, <1>5
  <2>2. ASSUME NEW s \in Securities
        PROVE  position'[s].margin = 0
    <3>1. Backed(PositionsClosed[s], 0) /\ PositionsClosed[s].qty = 0
      BY <1>1, CancelledBacked
    <3> QED BY <1>5, <3>1 DEF Backed
  <2>3. Invested' = 0
    BY <1>1, <2>2, InvestedType
  <2> HIDE DEF k
  <2>4. Cash(customer') \in Int /\ net' \in Int /\ net \in Int
    BY <1>1
  <2>5. Cash(customer') - net' = net - net
    BY <2>1
  <2>6. Cash(customer') = net'
    BY <2>4, <2>5
  <2>7. \A x \in Int : x + 0 = x
    OBVIOUS
  <2> QED BY <2>3, <2>4, <2>6, <2>7, Zenon
<1>6. ASSUME NEW d \in Days, FeeFromBalance(d, px)
      PROVE  Cash(customer') + Invested' = net'
  <2>1. Cash(customer') - net' = Cash(customer) - net
    BY <1>1, <1>3, <1>6, OutsideCash DEF FeeFromBalance
  <2>2. Invested' = Invested
    BY <1>1, <1>6, InvestedSame DEF FeeFromBalance
  <2> QED BY <1>1, <2>1, <2>2
<1>7. ASSUME NEW d \in Days, FeeAfterCancelling(d, px)
      PROVE  Cash(customer') + Invested' = net'
  <2>1. Cash(customer') - net' = Cash(CustomerCancelled) - net
    BY <1>1, <1>3, <1>7, OutsideCash DEF FeeAfterCancelling
  <2>2. Invested' = Invested
    BY <1>4, <1>7 DEF FeeAfterCancelling
  <2> QED BY <1>1, <1>3, <2>1, <2>2
<1>8. ASSUME NEW d \in Days, FeeForced(d, px, py)
      PROVE  Cash(customer') + Invested' = net'
  <2>1. Cash(customer') - net' = Cash(CustomerClosed(py)) - net
    BY <1>1, <1>3, <1>8, OutsideCash DEF FeeForced
  <2> QED BY <1>5, <1>8, <2>1 DEF FeeForced
<1>9. ASSUME NEW c \in CustomerRow, customer' = Book(c, - TotalRequired(px), 0, 0),
             Cash(c) = Cash(customer), net' = net,
             NEW base \in [Securities -> PositionRow], position' = Supplemented(base, px),
             \A s \in Securities : base[s].margin = position[s].margin
      PROVE  Cash(customer') + Invested' = net'
  <2> DEFINE required == TotalRequired(px)
  <2>1. /\ required \in Int /\ - required \in Int
        /\ customer' = Book(c, - required, 0, 0)
    BY <1>3, <1>9
  <2>2. Invested' = Invested + required
    BY <1>1, <1>9, SupplementsInvested
  <2> HIDE DEF required
  <2>3. Cash(customer') = Cash(c) + (- required) + 0 - 0
    BY <1>9, <2>1, BookCash
  <2> QED BY <1>1, <1>9, <2>1, <2>2, <2>3
<1>10. ASSUME CallFromBalance(px)
       PROVE  Cash(customer') + Invested' = net'
  <2>1. position \in [Securities -> PositionRow]
    BY <1>1 DEF TypeOK
  <2> QED BY <1>1, <1>9, <1>10, <2>1 DEF CallFromBalance
<1>11. ASSUME CallAfterCancelling(px)
       PROVE  Cash(customer') + Invested' = net'
  <2>1. PositionsCancelled \in [Securities -> PositionRow]
    BY <1>1, CancelledTypes
  <2>2. \A s \in Securities : PositionsCancelled[s].margin = position[s].margin
    BY <1>1, CancelledBacked
  <2> QED BY <1>3, <1>9, <1>11, <2>1, <2>2 DEF CallAfterCancelling
<1>12. ASSUME CallForced(px, py)
       PROVE  Cash(customer') + Invested' = net'
  <2>1. Cash(customer') - net' = Cash(CustomerClosed(py)) - net
    BY <1>1, <1>3, <1>12, OutsideCash DEF CallForced
  <2> QED BY <1>5, <1>12, <2>1 DEF CallForced
<1>13. Cash(customer') + Invested' = net'
  BY <1>2, <1>6, <1>7, <1>8, <1>10, <1>11, <1>12
<1> QED BY <1>1, <1>13, MoneyShown

\* Requests for transfers and their reviews.
LEMMA MoneyTransfers ==
  ASSUME MoneyInv, TypeInv', Transfers
  PROVE  MoneyConserved'
<1>1. /\ TypeOK /\ TypeOK' /\ customer \in CustomerRow /\ Invested \in Int /\ net \in Int
      /\ Cash(customer) \in Int
      /\ Cash(customer) + Invested = net
  BY MoneyFacts DEF TypeInv
<1>2. position' = position
  BY DEF Transfers, RequestRecharge, ReviewRecharge, RequestWithdrawal, ReviewWithdrawal
<1>3. Invested' = Invested
  BY <1>1, <1>2, InvestedSame
<1>4. ASSUME NEW a \in Int, NEW b \in Int, customer' = Book(customer, a, b, 0),
             net' = net + a + b
      PROVE  Cash(customer') + Invested' = net'
  <2>1. Cash(customer') = Cash(customer) + a + b - 0
    BY <1>1, <1>4, BookCash
  <2> QED BY <1>1, <1>3, <1>4, <2>1
<1>5. ASSUME UNCHANGED <<customer, net>>
      PROVE  Cash(customer') + Invested' = net'
  BY <1>1, <1>3, <1>5
<1>6. ASSUME NEW r \in RechargeIds, NEW approve \in BOOLEAN, ReviewRecharge(r, approve)
      PROVE  Cash(customer') + Invested' = net'
  <2> DEFINE a == recharges[r].amount
  <2>1. a \in Int
    BY <1>1 DEF TypeOK, RequestRow
  <2>2. CASE approve
    <3>1. customer' = Book(customer, a, 0, 0) /\ net' = net + a
      BY <1>6, <2>2 DEF ReviewRecharge
    <3> HIDE DEF a
    <3>2. net' = net + a + 0
      BY <1>1, <2>1, <3>1
    <3> QED BY <1>4, <2>1, <3>1, <3>2
  <2>3. CASE ~ approve
    BY <1>5, <1>6, <2>3 DEF ReviewRecharge
  <2> QED BY <2>2, <2>3
<1>7. ASSUME NEW w \in WithdrawalIds, NEW amount \in Amounts, RequestWithdrawal(w, amount)
      PROVE  Cash(customer') + Invested' = net'
  <2>1. amount \in Int /\ - amount \in Int
    BY InputTypes
  <2>2. customer' = Book(customer, - amount, amount, 0) /\ net' = net
    BY <1>7 DEF RequestWithdrawal
  <2>3. net' = net + (- amount) + amount
    BY <1>1, <2>1, <2>2
  <2> QED BY <1>4, <2>1, <2>2, <2>3
<1>8. ASSUME NEW w \in WithdrawalIds, NEW approve \in BOOLEAN, ReviewWithdrawal(w, approve)
      PROVE  Cash(customer') + Invested' = net'
  <2> DEFINE a == withdrawals[w].amount
  <2>1. a \in Int /\ - a \in Int
    BY <1>1 DEF TypeOK, RequestRow
  <2>2. CASE approve
    <3>1. customer' = Book(customer, 0, - a, 0) /\ net' = net - a
      BY <1>8, <2>2 DEF ReviewWithdrawal
    <3> HIDE DEF a
    <3>2. net' = net + 0 + (- a)
      BY <1>1, <2>1, <3>1
    <3> QED BY <1>4, <2>1, <3>1, <3>2
  <2>3. CASE ~ approve
    <3>1. customer' = Book(customer, a, - a, 0) /\ net' = net
      BY <1>8, <2>3 DEF ReviewWithdrawal
    <3> HIDE DEF a
    <3>2. net' = net + a + (- a)
      BY <1>1, <2>1, <3>1
    <3> QED BY <1>4, <2>1, <3>1, <3>2
  <2> QED BY <2>2, <2>3
<1>9. Cash(customer') + Invested' = net'
  <2>1. \A r \in RechargeIds, amount \in Amounts :
          RequestRecharge(r, amount) => Cash(customer') + Invested' = net'
    BY <1>5 DEF RequestRecharge
  <2> QED BY <1>6, <1>7, <1>8, <2>1, Zenon DEF Transfers
<1> QED BY <1>1, <1>9, MoneyShown

\* Administrators: the copy that a deposit writes back is the row it read, with
\* the amount added, because nothing ran in between.
LEMMA MoneyAdministration ==
  ASSUME MoneyInv, CoveredInv', SharesInv', ~ AllowOverlap, ~ AllowAdminRows, Administration
  PROVE  MoneyInv'
<1>1. /\ TypeOK /\ TypeOK' /\ customer \in CustomerRow /\ Invested \in Int /\ net \in Int
      /\ Cash(customer) \in Int
      /\ Cash(customer) + Invested = net
      /\ \A s \in Securities : position[s].margin \in Int
  BY MoneyFacts, PositionTypes DEF CoveredInv, TypeInv
<1>2. ASSUME position' = position
      PROVE  Invested' = Invested
  BY <1>1, <1>2, InvestedSame
<1>3. ASSUME NEW amount \in Int, ReadDeposit(amount)
      PROVE  MoneyInv'
  <2>1. /\ deposit'.copy = Book(customer, amount, 0, 0) /\ deposit'.amount = amount
        /\ UNCHANGED <<customer, position, net>>
    BY <1>3 DEF ReadDeposit
  <2>2. /\ deposit'.copy.balance = customer'.balance + deposit'.amount
        /\ deposit'.copy.pnl = customer'.pnl
    BY <1>1, <2>1 DEF Book, CustomerRow
  <2>3. MoneyConserved'
    BY <1>1, <1>2, <2>1, MoneyShown
  <2> QED BY <2>2, <2>3 DEF MoneyInv
<1>4. ASSUME WriteDeposit
      PROVE  MoneyInv'
  <2>1. /\ deposit.busy /\ customer' = deposit.copy /\ net' = net + deposit.amount
        /\ position' = position /\ ~ deposit'.busy
    BY <1>4 DEF WriteDeposit, NoDeposit
  <2>2. /\ customer'.balance = customer.balance + deposit.amount
        /\ customer'.pnl = customer.pnl /\ customer'.frozen = customer.frozen
    BY <2>1 DEF MoneyInv, CoveredInv
  <2>3. /\ customer.balance \in Int /\ customer.frozen \in Int /\ customer.pnl \in Int
        /\ deposit.amount \in Int
    BY <1>1 DEF CustomerRow, TypeOK
  <2>4. Cash(customer') + Invested' = net'
    BY <1>1, <1>2, <2>1, <2>2, <2>3 DEF Cash
  <2>5. MoneyConserved'
    BY <1>1, <2>4, MoneyShown
  <2> QED BY <2>1, <2>5 DEF MoneyInv
<1>5. ASSUME NEW f \in ToggledFlags, SwitchFlag(f)
      PROVE  MoneyInv'
  <2>1. /\ customer'.balance = customer.balance /\ customer'.pnl = customer.pnl
        /\ customer'.frozen = customer.frozen
        /\ UNCHANGED <<position, net, deposit>> /\ ~ deposit.busy
    BY <1>1, <1>5 DEF SwitchFlag, CustomerRow, MayRun
  <2>2. Cash(customer') + Invested' = net'
    BY <1>1, <1>2, <2>1 DEF Cash
  <2>3. MoneyConserved'
    BY <1>1, <2>2, MoneyShown
  <2> QED BY <2>1, <2>3 DEF MoneyInv
<1>6. ASSUME NEW s \in Securities, NEW price \in Prices, ForceClosePosition(s, price)
      PROVE  MoneyInv'
  <2> DEFINE m == position[s].margin
             x == Realized(position[s].qty, position[s].cost, position[s].leverage, price)
  <2>1. m \in Int /\ x \in Int
    <3>1. /\ position[s].qty \in Int /\ position[s].cost \in Int /\ price \in Int
          /\ PositionLeverage(position[s].leverage) \in Int /\ m \in Int
      BY <1>1, PositionTypes, InputTypes
    <3>2. price * position[s].qty - position[s].cost \in Int
      BY <3>1, ProductType
    <3> QED BY <3>1, <3>2, ProductType DEF Realized
  <2>2. /\ customer' = Book(customer, m + x, 0, x)
        /\ position' = [position EXCEPT ![s] = Closed(position[s])]
        /\ net' = net /\ deposit' = deposit /\ ~ deposit.busy
    BY <1>6, Zenon DEF ForceClosePosition, MayRun
  <2> HIDE DEF m, x
  <2>3. Cash(customer') = Cash(customer) + (m + x) + 0 - x
    <3>1. m + x \in Int
      BY <2>1
    <3> QED BY <1>1, <2>1, <2>2, <3>1, BookCash
  <2>4. Invested' = Invested - m + 0
    <3>1. position'[s].margin = 0 /\ \A t \in Securities : t # s => position'[t] = position[t]
      BY <1>1, <2>2 DEF TypeOK, Closed
    <3> QED BY <1>1, <3>1, InvestedUpdate DEF m
  <2>5. Cash(customer') + Invested' = net'
    BY <1>1, <2>1, <2>2, <2>3, <2>4
  <2>6. MoneyConserved'
    BY <1>1, <2>5, MoneyShown
  <2> QED BY <2>2, <2>6 DEF MoneyInv
<1>7. /\ \A amount \in Amounts : amount \in Int
      /\ \A amount \in Deductions : - amount \in Int
  BY InputTypes
<1> QED BY <1>3, <1>4, <1>5, <1>6, <1>7, Zenon DEF Administration, SavePosition, DeletePosition,
       CreateRecharge, CreateWithdrawal

\* No step makes or loses money.
LEMMA MoneyStep ==
  ASSUME MoneyInv, ~ AllowOverlap, ~ AllowAdminRows, [Next]_vars
  PROVE  MoneyInv'
<1>1. CoveredInv' /\ SharesInv' /\ TypeInv'
  BY CoveredStep, SharesStep, StepType DEF MoneyInv, CoveredInv
<1>2. CASE Trading
  <2>1. ~ deposit'.busy
    BY <1>2 DEF Trading, PlaceOrder, PlaceLimitBuy, PlaceLimitSell, CancelOrder, MatchOrder, MayRun
  <2> QED BY <1>1, <1>2, <2>1, MoneyTrading DEF MoneyInv
<1>3. CASE Batches
  <2>1. ~ deposit'.busy
    BY <1>3 DEF Batches, FeeFromBalance, FeeAfterCancelling, FeeForced, FeeDue,
       CallFromBalance, CallAfterCancelling, CallForced, CallDue, MayRun
  <2> QED BY <1>1, <1>3, <2>1, MoneyBatches DEF MoneyInv
<1>4. CASE Transfers
  <2>1. ~ deposit'.busy
    BY <1>4 DEF Transfers, RequestRecharge, ReviewRecharge, RequestWithdrawal, ReviewWithdrawal,
       MayRun
  <2> QED BY <1>1, <1>4, <2>1, MoneyTransfers DEF MoneyInv
<1>5. CASE Administration
  BY <1>1, <1>5, MoneyAdministration
<1>6. CASE UNCHANGED vars
  <2>1. UNCHANGED <<customer, position, net, deposit>>
    BY <1>6 DEF vars
  <2> QED BY <1>1, <2>1 DEF MoneyInv, MoneyConserved, Margins
<1> QED BY <1>2, <1>3, <1>4, <1>5, <1>6 DEF Next

\* Money is neither made nor lost: balance, freeze and margins together are what
\* came in from outside plus the realized results, provided that no transaction
\* runs between the read and the write of a deposit and no row is written by hand.
THEOREM MoneyStays ==
  ASSUME ~ AllowOverlap, ~ AllowAdminRows
  PROVE  Spec => []MoneyConserved
<1>1. Init => MoneyInv
  <2> SUFFICES ASSUME Init PROVE MoneyInv
    OBVIOUS
  <2>1. CoveredInv /\ SharesInv /\ TypeOK
    BY CoveredInit, SharesInit DEF CoveredInv, TypeInv
  <2>2. Invested = 0
    <3>1. Margins \in [1..NumSecurities -> Int]
      BY <2>1, ColumnTypes
    <3>2. \A s \in 1..NumSecurities : Margins[s] = 0
      BY DEF Init, Margins, Securities, NoPosition
    <3> QED BY <3>1, <3>2, TotalZero, AccountAssumption DEF Invested
  <2> QED BY <2>1, <2>2 DEF Init, MoneyInv, MoneyConserved, NewCustomer, NoDeposit, Invested
<1>2. MoneyInv /\ [Next]_vars => MoneyInv'
  BY MoneyStep
<1>3. MoneyInv => MoneyConserved
  BY DEF MoneyInv
<1> QED BY <1>1, <1>2, <1>3, PTL DEF Spec

-----------------------------------------------------------------------------
(***************************************************************************)
(* What a step may never do: the action properties.                        *)
(***************************************************************************)

\* At a higher price shares cost more, the fees included.
LEMMA BuyDebitMonotone ==
  ASSUME NEW s \in Securities, NEW q \in Nat, NEW x \in Nat, NEW y \in Nat, x <= y
  PROVE  BuyDebit(s, q, x) <= BuyDebit(s, q, y)
<1> DEFINE a == x * q
           b == y * q
<1>1. a \in Nat /\ b \in Nat /\ a <= b
  <2>1. (y - x) * q \in Nat
    <3>1. y - x \in Nat
      OBVIOUS
    <3> QED BY <3>1, ProductType
  <2>2. (y - x) * q = b - a
    OBVIOUS
  <2>3. a \in Nat /\ b \in Nat
    BY ProductType
  <2> HIDE DEF a, b
  <2> QED BY <2>1, <2>2, <2>3
<1>2. Market[s] \in Markets /\ "buy" \in Directions
  BY AccountAssumption DEF Directions
<1>3. /\ BuyDebit(s, q, x) = a + TradeFee(Market[s], a, "buy")
      /\ BuyDebit(s, q, y) = b + TradeFee(Market[s], b, "buy")
  BY Zenon DEF BuyDebit
<1> HIDE DEF a, b
<1>4. /\ TradeFee(Market[s], a, "buy") <= TradeFee(Market[s], b, "buy")
      /\ TradeFee(Market[s], a, "buy") \in Nat /\ TradeFee(Market[s], b, "buy") \in Nat
  BY <1>1, <1>2, TradeFeeMonotone, TradeFeeType
<1> QED BY <1>1, <1>3, <1>4

\* A pending order asks for shares, and a buy order holds what it would cost at
\* its limit: what a fill may take was frozen when the order was placed.
AsPlaced(order) ==
  /\ order.qty > 0
  /\ order.direction = "buy"
       => order.frozenAmount = BuyDebit(order.security, order.qty, order.limit)

AskedInv ==
  /\ TypeInv
  /\ \A o \in OrderIds : orders[o].status = "pending" => AsPlaced(orders[o])

\* An order is left alone, or it is settled, or it is a new one.
LEMMA OrderMoves ==
  ASSUME TypeInv, [Next]_vars, NEW o \in OrderIds, orders'[o] # orders[o]
  PROVE  \/ orders'[o].status # "pending"
         \/ AsPlaced(orders'[o])
<1>1. TypeOK
  BY DEF TypeInv
<1>2. CASE Trading
  <2>1. ASSUME NEW k \in OrderIds, NEW s \in Securities, NEW limit \in Prices,
               NEW q \in Quantities, PlaceLimitBuy(k, s, limit, q)
        PROVE  AsPlaced(orders'[o])
    <3>1. orders'[o] = NewOrder(s, "buy", limit, q, BuyDebit(s, q, limit), 0)
      BY <1>1, <2>1 DEF PlaceLimitBuy, TypeOK
    <3>2. q > 0
      BY AccountAssumption
    <3> QED BY <3>1, <3>2 DEF NewOrder, AsPlaced
  <2>2. ASSUME NEW k \in OrderIds, NEW s \in Securities, NEW limit \in Prices,
               NEW q \in Quantities, PlaceLimitSell(k, s, limit, q)
        PROVE  AsPlaced(orders'[o])
    <3>1. orders'[o] = NewOrder(s, "sell", limit, q, 0, q)
      BY <1>1, <2>2 DEF PlaceLimitSell, TypeOK
    <3>2. q > 0
      BY AccountAssumption
    <3> QED BY <3>1, <3>2 DEF NewOrder, AsPlaced
  <2>3. ASSUME NEW k \in OrderIds, CancelOrder(k)
        PROVE  orders'[o].status # "pending"
    BY <1>1, <2>3 DEF CancelOrder, TypeOK, OrderRow
  <2>4. ASSUME NEW k \in OrderIds, NEW price \in Prices, NEW lev \in Leverages,
               MatchOrder(k, price, lev)
        PROVE  orders'[o].status # "pending"
    BY <1>1, <2>4 DEF MatchOrder, Executed, Settled, TypeOK
  <2>5. ASSUME NEW s \in Securities, NEW dir \in Directions, NEW q \in Quantities,
               NEW price \in Prices, NEW lev \in Leverages, PlaceOrder(s, dir, q, price, lev)
        PROVE  FALSE
    BY <2>5 DEF PlaceOrder
  <2> QED BY <1>2, <2>1, <2>2, <2>3, <2>4, <2>5, Zenon DEF Trading
<1>3. CASE Batches
  <2>1. orders' = OrdersCancelled
    BY <1>3, BatchOrders
  <2> QED BY <2>1 DEF OrdersCancelled, Settled
<1>4. CASE Transfers
  BY <1>4 DEF Transfers, RequestRecharge, ReviewRecharge, RequestWithdrawal, ReviewWithdrawal
<1>5. CASE Administration
  <2>1. PICK s \in Securities, price \in Prices : ForceClosePosition(s, price)
    BY <1>5 DEF Administration, ReadDeposit, WriteDeposit, SwitchFlag, SavePosition,
       DeletePosition, CreateRecharge, CreateWithdrawal
  <2> QED BY <2>1, ForceCloseOrders
<1>6. CASE UNCHANGED vars
  BY <1>6 DEF vars
<1> QED BY <1>2, <1>3, <1>4, <1>5, <1>6 DEF Next

LEMMA AskedStep ==
  ASSUME AskedInv, [Next]_vars
  PROVE  AskedInv'
<1>1. TypeInv'
  BY StepType DEF AskedInv
<1>2. ASSUME NEW o \in OrderIds, orders'[o].status = "pending"
      PROVE  AsPlaced(orders'[o])
  BY <1>2, OrderMoves DEF AskedInv
<1>3. (\A o \in OrderIds : orders[o].status = "pending" => AsPlaced(orders[o]))'
  BY <1>2 DEF AsPlaced, BuyDebit
<1> QED BY <1>1, <1>3 DEF AskedInv

LEMMA AskedAlways == Spec => []AskedInv
<1>1. Init => AskedInv
  BY InitType DEF Init, AskedInv, NoOrder
<1> QED BY <1>1, AskedStep, PTL DEF Spec

\* Only the matching of an order fills it.
LEMMA FilledByMatch ==
  ASSUME TypeInv, [Next]_vars, NEW o \in OrderIds,
         orders[o].status = "pending", orders'[o].status = "filled"
  PROVE  \E price \in Prices, lev \in Leverages : MatchOrder(o, price, lev)
<1>1. TypeOK
  BY DEF TypeInv
<1>2. CASE Trading
  <2>1. ASSUME NEW k \in OrderIds, NEW s \in Securities, NEW limit \in Prices,
               NEW q \in Quantities,
               PlaceLimitBuy(k, s, limit, q) \/ PlaceLimitSell(k, s, limit, q)
        PROVE  FALSE
    BY <1>1, <2>1 DEF PlaceLimitBuy, PlaceLimitSell, NewOrder, TypeOK
  <2>2. ASSUME NEW k \in OrderIds, CancelOrder(k)
        PROVE  FALSE
    BY <1>1, <2>2 DEF CancelOrder, TypeOK, OrderRow
  <2>3. ASSUME NEW k \in OrderIds, NEW price \in Prices, NEW lev \in Leverages,
               MatchOrder(k, price, lev)
        PROVE  k = o
    BY <1>1, <2>3 DEF MatchOrder, TypeOK
  <2>4. ASSUME NEW s \in Securities, NEW dir \in Directions, NEW q \in Quantities,
               NEW price \in Prices, NEW lev \in Leverages, PlaceOrder(s, dir, q, price, lev)
        PROVE  FALSE
    BY <2>4 DEF PlaceOrder
  <2> QED BY <1>2, <2>1, <2>2, <2>3, <2>4, Zenon DEF Trading
<1>3. CASE Batches
  <2>1. orders' = OrdersCancelled \/ orders' = orders
    BY <1>3, BatchOrders
  <2> QED BY <2>1 DEF OrdersCancelled, Settled
<1>4. CASE Transfers
  BY <1>4 DEF Transfers, RequestRecharge, ReviewRecharge, RequestWithdrawal, ReviewWithdrawal
<1>5. CASE Administration
  <2>1. ASSUME NEW s \in Securities, NEW price \in Prices, ForceClosePosition(s, price)
        PROVE  FALSE
    BY <2>1, ForceCloseOrders
  <2> QED BY <1>5, <2>1 DEF Administration, ReadDeposit, WriteDeposit, SwitchFlag, SavePosition,
       DeletePosition, CreateRecharge, CreateWithdrawal
<1>6. CASE UNCHANGED vars
  BY <1>6 DEF vars
<1> QED BY <1>2, <1>3, <1>4, <1>5, <1>6 DEF Next

\* Whatever the fees and the price within its limit: the freeze of a buy order
\* pays its fill.
LEMMA FillPaid ==
  ASSUME AskedInv, NEW o \in OrderIds, NEW price \in Prices, NEW lev \in Leverages,
         MatchOrder(o, price, lev), orders[o].direction = "buy"
  PROVE  customer'.balance >= customer.balance
<1>1. /\ TypeOK /\ customer.balance \in Int
      /\ orders[o].qty \in Nat /\ orders[o].limit \in Nat /\ orders[o].frozenAmount \in Nat
  BY DEF AskedInv, TypeInv, TypeOK, OrderRow, CustomerRow
<1>2. PICK s \in Securities : s = orders[o].security
  BY DEF AskedInv, TypeInv, PlacedOnListed, MatchOrder
<1>3. price \in Nat /\ price <= orders[o].limit
  BY InputTypes DEF MatchOrder, Crossed
<1> DEFINE debit == BuyDebit(s, orders[o].qty, price)
<1>4. debit \in Nat /\ debit <= orders[o].frozenAmount
  <2>1. orders[o].frozenAmount = BuyDebit(s, orders[o].qty, orders[o].limit)
    BY <1>2 DEF AskedInv, AsPlaced, MatchOrder
  <2>2. BuyDebit(s, orders[o].qty, price) <= BuyDebit(s, orders[o].qty, orders[o].limit)
    BY <1>1, <1>3, BuyDebitMonotone
  <2> QED BY <1>1, <1>3, <2>1, <2>2, BuyDebitType
<1>5. customer' = Book(Unfrozen(o), -debit, 0, 0)
  BY <1>2, Zenon DEF MatchOrder, Execute
<1> HIDE DEF debit
<1>6. customer'.balance = (customer.balance + orders[o].frozenAmount) + (-debit)
  BY <1>5, Zenon DEF Book, Unfrozen
<1> QED BY <1>1, <1>4, <1>6

\* For all fees, prices and securities, with overlapping deposits and
\* hand-written rows: filling a limit buy takes no more than it froze.
THEOREM FillsPaid == Spec => FillWithinFreeze
<1>1. AskedInv /\ [Next]_vars => [FillsPaidByFreeze]_vars
  BY FilledByMatch, FillPaid DEF FillsPaidByFreeze, AskedInv
<1> QED BY <1>1, AskedAlways, PTL DEF Spec, FillWithinFreeze

-----------------------------------------------------------------------------
\* The fee: that a position has no negative quantity is what makes a closed
\* account flat.
LEMMA FeeKept ==
  ASSUME SharesInv, [Next]_vars
  PROVE  FeeKeepsOrCloses
<1>1. TypeInv' /\ TypeOK'
  BY StepType DEF SharesInv, TypeInv
<1>2. ASSUME NEW s \in Securities
      PROVE  PositionsCancelled[s].qty = position[s].qty /\ PositionsClosed[s].qty = 0
  BY <1>1, CancelledBacked
<1>3. ASSUME feeDays' # feeDays
      PROVE  \/ position' = position
             \/ position' = PositionsCancelled
             \/ position' = PositionsClosed /\ orders' = OrdersCancelled
  <2>1. CASE Batches
    BY <1>3, <2>1 DEF Batches, FeeFromBalance, FeeAfterCancelling, FeeForced, CallFromBalance,
       CallAfterCancelling, CallForced, CallDue
  <2>2. CASE Trading
    BY <1>3, <2>2 DEF Trading, PlaceOrder, PlaceLimitBuy, PlaceLimitSell, CancelOrder, MatchOrder
  <2>3. CASE Transfers
    BY <1>3, <2>3 DEF Transfers, RequestRecharge, ReviewRecharge, RequestWithdrawal,
       ReviewWithdrawal
  <2>4. CASE Administration
    BY <1>3, <2>4 DEF Administration, ForceClosePosition, ReadDeposit, WriteDeposit, SwitchFlag,
       SavePosition, DeletePosition, CreateRecharge, CreateWithdrawal
  <2>5. CASE UNCHANGED vars
    BY <1>3, <2>5 DEF vars
  <2> QED BY <2>1, <2>2, <2>3, <2>4, <2>5 DEF Next
<1>4. \A o \in OrderIds : OrdersCancelled[o].status # "pending"
  BY DEF OrdersCancelled, Settled
<1> QED BY <1>2, <1>3, <1>4 DEF FeeKeepsOrCloses

\* A charged level is beyond the one before.
LEMMA LevelRises ==
  ASSUME TypeOK, NEW s \in Securities, NEW px \in [Securities -> Prices], Called(s, px)
  PROVE  Drop(s, px) > position[s].level
<1>1. Drop(s, px) \in Nat /\ position[s].level \in Nat
  BY CallTypes, PositionTypes
<1>2. MarginCallFrom(MarginCallStart, position[s].level) <= Drop(s, px)
  BY Zenon DEF Called, MarginCallPending
<1>3. MarginCallStart \in Nat
  BY AccountAssumption
<1> QED BY <1>1, <1>2, <1>3 DEF MarginCallFrom, Larger

\* The level and the quantity of the rows the batches write.
LEMMA BatchLevels ==
  ASSUME SharesInv, TypeInv', Batches, NEW s \in Securities
  PROVE  position'[s].level >= position[s].level
<1>1. TypeOK /\ position[s].level \in Nat /\ position[s] \in PositionRow
  BY PositionTypes DEF SharesInv, TypeInv, TypeOK, PositionRow
<1>2. PICK px \in [Securities -> Prices] :
           \/ orders' = orders /\ position' \in {position, Supplemented(position, px)}
           \/ /\ orders' = OrdersCancelled
              /\ position' \in {PositionsCancelled, PositionsClosed,
                                Supplemented(PositionsCancelled, px)}
  BY BatchPositions
<1>3. PositionsCancelled[s].level = position[s].level
  BY <1>1 DEF PositionsCancelled, PositionRow
<1>4. PositionsClosed[s].level = position[s].level
  BY <1>3 DEF PositionsClosed, Closed
<1>5. ASSUME NEW base, base[s].level = position[s].level
      PROVE  Supplemented(base, px)[s].level >= position[s].level
  <2>1. CASE Called(s, px)
    <3>1. Supplemented(base, px)[s].level = Drop(s, px)
      BY <2>1, Zenon DEF Supplemented, Charged
    <3>2. Drop(s, px) > position[s].level /\ Drop(s, px) \in Nat
      BY <1>1, <2>1, LevelRises, CallTypes
    <3> QED BY <1>1, <3>1, <3>2
  <2>2. CASE ~ Called(s, px)
    BY <1>1, <1>5, <2>2 DEF Supplemented
  <2> QED BY <2>1, <2>2
<1> QED BY <1>1, <1>2, <1>3, <1>4, <1>5

\* A trade forgets the level of its position when it adds shares or takes the last.
LEMMA TradeLevels ==
  ASSUME TypeOK, NEW s \in Securities, NEW p \in PositionRow, NEW c, NEW direction, NEW q \in Nat,
         q > 0, NEW price, NEW lev, Execute(c, p, s, direction, q, price, lev),
         p.level = position[s].level, p.qty = position[s].qty
  PROVE  KeepsLevels
<1>1. PICK r : /\ position' = [position EXCEPT ![s] = r]
               /\ r.level = position[s].level \/ r.qty > position[s].qty \/ r.qty = 0
  <2>1. p.qty \in Int
    BY DEF PositionRow
  <2>2. AfterBuy(p, q, price, lev).qty > position[s].qty
    BY <2>1 DEF AfterBuy
  <2>3. AfterSell(p, q).level = position[s].level \/ AfterSell(p, q).qty = 0
    BY <2>1 DEF AfterSell
  <2> QED BY <2>2, <2>3, Zenon DEF Execute
<1>2. \A t \in Securities : position[t].level \in Nat
  BY PositionTypes
<1>3. position'[s] = r /\ \A t \in Securities : t # s => position'[t] = position[t]
  BY <1>1 DEF TypeOK
<1> QED BY <1>1, <1>2, <1>3 DEF KeepsLevels

LEMMA LevelsKept ==
  ASSUME AskedInv, SharesInv, ~ AllowAdminRows, [Next]_vars
  PROVE  KeepsLevels
<1>1. /\ TypeInv /\ TypeOK /\ TypeInv'
      /\ \A s \in Securities : position[s] \in PositionRow /\ position[s].level \in Nat
  BY StepType, PositionTypes DEF SharesInv, TypeInv, TypeOK, PositionRow
<1>2. ASSUME \A s \in Securities : position'[s].level = position[s].level
      PROVE  KeepsLevels
  BY <1>1, <1>2 DEF KeepsLevels
<1>3. CASE Trading
  <2>1. ASSUME NEW s \in Securities, NEW dir \in Directions, NEW q \in Quantities,
               NEW price \in Prices, NEW lev \in Leverages, PlaceOrder(s, dir, q, price, lev)
        PROVE  KeepsLevels
    <3>1. q \in Nat /\ q > 0
      BY AccountAssumption
    <3>2. Execute(customer, position[s], s, dir, q, price, lev)
      BY <2>1, Zenon DEF PlaceOrder
    <3> QED BY <1>1, <3>1, <3>2, TradeLevels
  <2>2. ASSUME NEW o \in OrderIds, NEW price \in Prices, NEW lev \in Leverages,
               MatchOrder(o, price, lev)
        PROVE  KeepsLevels
    <3>1. orders[o].status = "pending"
      BY <2>2, Zenon DEF MatchOrder
    <3>2. PICK s \in Securities : s = orders[o].security
      BY <1>1, <3>1 DEF TypeInv, PlacedOnListed
    <3>3. orders[o].qty \in Nat /\ orders[o].frozenQty \in Nat /\ orders[o].qty > 0
      BY <1>1, <3>1 DEF AskedInv, AsPlaced, TypeOK, OrderRow
    <3>4. PICK p : p \in {Unlocked(o), position[s]}
                   /\ \E c : Execute(c, p, s, orders[o].direction, orders[o].qty, price, lev)
      BY <2>2, <3>2, Zenon DEF MatchOrder
    <3>5. p \in PositionRow /\ p.level = position[s].level /\ p.qty = position[s].qty
      BY <1>1, <3>2, <3>3, <3>4 DEF Unlocked, PositionRow
    <3> QED BY <1>1, <3>3, <3>4, <3>5, TradeLevels
  <2>3. ASSUME NEW o \in OrderIds, NEW s \in Securities, NEW limit \in Prices,
               NEW q \in Quantities, PlaceLimitBuy(o, s, limit, q)
        PROVE  KeepsLevels
    BY <1>2, <2>3 DEF PlaceLimitBuy
  <2>4. ASSUME NEW o \in OrderIds, NEW s \in Securities, NEW limit \in Prices,
               NEW q \in Quantities, PlaceLimitSell(o, s, limit, q)
        PROVE  KeepsLevels
    BY <1>1, <1>2, <2>4 DEF PlaceLimitSell, TypeOK, PositionRow
  <2>5. ASSUME NEW o \in OrderIds, CancelOrder(o)
        PROVE  KeepsLevels
    BY <1>1, <1>2, <2>5 DEF CancelOrder, ReleaseFreeze, Unlocked, TypeOK, PositionRow
  <2> QED BY <1>3, <2>1, <2>2, <2>3, <2>4, <2>5, Zenon DEF Trading
<1>4. CASE Batches
  <2>1. \A s \in Securities : position'[s].level >= position[s].level
    BY <1>1, <1>4, BatchLevels
  <2>2. \A s \in Securities : position'[s].level \in Nat
    BY <1>1, PositionTypes DEF TypeInv, TypeOK, PositionRow
  <2> QED BY <1>1, <2>1, <2>2 DEF KeepsLevels
<1>5. CASE Transfers
  BY <1>2, <1>5 DEF Transfers, RequestRecharge, ReviewRecharge, RequestWithdrawal,
     ReviewWithdrawal
<1>6. CASE Administration
  <2>1. ASSUME NEW s \in Securities, NEW price \in Prices, ForceClosePosition(s, price)
        PROVE  KeepsLevels
    <3>1. position' = [position EXCEPT ![s] = Closed(position[s])]
      BY <2>1, Zenon DEF ForceClosePosition
    <3> QED BY <1>1, <1>2, <3>1 DEF Closed, TypeOK
  <2>2. (\E s \in Securities, price \in Prices : ForceClosePosition(s, price))
        \/ UNCHANGED position
    BY <1>6 DEF Administration, ReadDeposit, WriteDeposit, SwitchFlag, SavePosition,
       DeletePosition, CreateRecharge, CreateWithdrawal
  <2> QED BY <1>2, <2>1, <2>2
<1>7. CASE UNCHANGED vars
  BY <1>2, <1>7 DEF vars
<1> QED BY <1>3, <1>4, <1>5, <1>6, <1>7 DEF Next

\* The row that a deposit is going to write owes nothing: it was checked.
DebtInv == SharesInv /\ deposit.copy.balance >= 0

\* A trade: buying is checked against the balance, selling pays back a margin.
LEMMA TradeDebt ==
  ASSUME NEW s \in Securities, NEW p \in PositionRow, p.margin >= 0, p.qty >= 0,
         NEW c \in CustomerRow, c.balance >= customer.balance, c.pnl = customer.pnl,
         customer.balance \in Int,
         NEW direction, NEW q \in Nat, NEW price \in Nat, NEW lev,
         Execute(c, p, s, direction, q, price, lev)
  PROVE  OwesOnlyByLoss
<1>1. c.balance \in Int /\ c.pnl \in Int /\ p.qty \in Int /\ p.margin \in Int /\ p.avail \in Int
  BY DEF CustomerRow, PositionRow
<1>2. CASE CanBuy(c, s, q, price) /\ customer' = Book(c, - BuyDebit(s, q, price), 0, 0)
  <2> DEFINE debit == BuyDebit(s, q, price)
  <2>1. debit \in Nat
    BY BuyDebitType
  <2>2. c.balance >= debit /\ customer'.balance = c.balance + (-debit)
    BY <1>2, Zenon DEF CanBuy, Book
  <2> HIDE DEF debit
  <2> QED BY <1>1, <2>1, <2>2 DEF OwesOnlyByLoss
<1>3. CASE /\ CanSell(p, q)
           /\ customer' = Book(c, MarginRemoved(p, q) + SellRealized(p, s, q, price), 0,
                               SellRealized(p, s, q, price))
  <2> DEFINE back == MarginRemoved(p, q)
             result == SellRealized(p, s, q, price)
  <2>1. back \in Int /\ result \in Int
    BY SalePartsType
  <2>2. back >= 0
    <3>1. CASE q < p.qty
      <4>1. p.margin * q \in Nat /\ p.qty \in Nat \ {0}
        <5>1. p.margin \in Nat /\ p.qty \in Nat \ {0}
          BY <1>1, <3>1
        <5> QED BY <5>1, ProductType
      <4> DEFINE n == p.margin * q
      <4>2. n \in Int /\ n >= 0
        BY <4>1
      <4>3. back = RoundDiv(n, p.qty)
        BY <3>1, Zenon DEF MarginRemoved
      <4> HIDE DEF n, back
      <4> QED BY <4>1, <4>2, <4>3, RoundDivType
    <3>2. CASE ~ (q < p.qty)
      BY <3>2 DEF MarginRemoved
    <3> QED BY <3>1, <3>2
  <2>3. /\ customer'.balance = c.balance + (back + result)
        /\ customer'.pnl = c.pnl + result
    BY <1>3, Zenon DEF Book
  <2> HIDE DEF back, result
  <2> QED BY <1>1, <2>1, <2>2, <2>3 DEF OwesOnlyByLoss
<1> QED BY <1>2, <1>3, Zenon DEF Execute

\* A balance that a step leaves at zero or more, or does not lower.
LEMMA NoDebt ==
  ASSUME customer'.balance >= 0 \/ customer'.balance >= customer.balance,
         customer'.balance \in Int
  PROVE  OwesOnlyByLoss
BY DEF OwesOnlyByLoss

LEMMA BatchDebt ==
  ASSUME TypeOK, TypeOK', Batches
  PROVE  customer'.balance >= 0
<1>1. PICK px \in [Securities -> Prices], py \in [Securities -> Prices] :
        \/ \E d \in Days :
             FeeFromBalance(d, px) \/ FeeAfterCancelling(d, px) \/ FeeForced(d, px, py)
        \/ CallFromBalance(px) \/ CallAfterCancelling(px) \/ CallForced(px, py)
  BY Zenon DEF Batches
<1>2. TotalRequired(px) \in Int
  BY CallTypes
<1>3. /\ customer \in CustomerRow /\ CustomerCancelled \in CustomerRow
      /\ CustomerClosed(py) \in CustomerRow
  BY CancelledTypes, ClosedTypes DEF TypeOK
<1>4. ASSUME NEW c \in CustomerRow, NEW fee \in Int, PayFee(c, fee)
      PROVE  customer'.balance >= 0
  <2> DEFINE charged == Smaller(Larger(c.balance, 0), fee)
             left == Larger(0, c.balance - charged)
  <2>1. c.balance \in Int
    BY DEF CustomerRow
  <2>2. left \in Int /\ left >= 0
    BY <2>1 DEF Larger, Smaller
  <2>3. customer'.balance = c.balance + (left - c.balance)
    BY <1>4, Zenon DEF PayFee, Book
  <2> HIDE DEF left
  <2> QED BY <2>1, <2>2, <2>3
<1>5. ASSUME NEW c \in CustomerRow, c.balance >= TotalRequired(px),
             customer' = Book(c, - TotalRequired(px), 0, 0)
      PROVE  customer'.balance >= 0
  <2> DEFINE r == TotalRequired(px)
  <2>1. customer'.balance = c.balance + (-r) /\ c.balance \in Int /\ c.balance >= r /\ r \in Int
    BY <1>2, <1>5 DEF Book, CustomerRow
  <2> HIDE DEF r
  <2> QED BY <2>1
<1>6. ASSUME NEW c \in CustomerRow, Forgive(c)
      PROVE  customer'.balance >= 0
  <2> DEFINE forgiven == Larger(0, c.balance) - c.balance
  <2>1. customer'.balance = c.balance + forgiven
    BY <1>6, Zenon DEF Forgive, Book
  <2> QED BY <2>1 DEF Larger, CustomerRow
<1>7. ManagementFee(px) \in Int
  BY ManagementFeeType
<1> QED BY <1>1, <1>3, <1>4, <1>5, <1>6, <1>7, Zenon DEF FeeFromBalance, FeeAfterCancelling,
      FeeForced, CallFromBalance, CallAfterCancelling, CallForced

LEMMA OwesLess ==
  ASSUME DebtInv, ~ AllowAdminRows, [Next]_vars
  PROVE  OwesOnlyByLoss
<1>1. /\ TypeInv /\ TypeOK /\ TypeOK' /\ customer \in CustomerRow /\ customer.balance \in Int
      /\ customer' \in CustomerRow /\ customer'.balance \in Int
  BY StepType DEF DebtInv, SharesInv, TypeInv, TypeOK, CustomerRow
<1>2. \A s \in Securities :
        /\ position[s] \in PositionRow /\ position[s].qty >= 0 /\ position[s].margin >= 0
        /\ position[s].margin \in Int
  BY <1>1, SharesFacts, StepType, PositionTypes DEF DebtInv, SharesInv, Backed
<1>3. ASSUME UNCHANGED customer
      PROVE  OwesOnlyByLoss
  BY <1>1, <1>3, NoDebt
<1>4. CASE Trading
  <2>1. ASSUME NEW s \in Securities, NEW dir \in Directions, NEW q \in Quantities,
               NEW price \in Prices, NEW lev \in Leverages, PlaceOrder(s, dir, q, price, lev)
        PROVE  OwesOnlyByLoss
    <3>1. q \in Nat /\ price \in Nat
      BY InputTypes
    <3>2. Execute(customer, position[s], s, dir, q, price, lev)
      BY <2>1, Zenon DEF PlaceOrder
    <3> QED BY <1>1, <1>2, <3>1, <3>2, TradeDebt
  <2>2. ASSUME NEW o \in OrderIds, NEW price \in Prices, NEW lev \in Leverages,
               MatchOrder(o, price, lev)
        PROVE  OwesOnlyByLoss
    <3>1. orders[o].status = "pending"
      BY <2>2, Zenon DEF MatchOrder
    <3>2. PICK s \in Securities : s = orders[o].security
      BY <1>1, <3>1 DEF TypeInv, PlacedOnListed
    <3>3. /\ orders[o].qty \in Nat /\ orders[o].frozenQty \in Nat
          /\ orders[o].frozenAmount \in Nat /\ price \in Nat
      BY <1>1, InputTypes DEF TypeOK, OrderRow
    <3>4. PICK p \in {Unlocked(o), position[s]}, c \in {Unfrozen(o), customer} :
                 Execute(c, p, s, orders[o].direction, orders[o].qty, price, lev)
      BY <2>2, <3>2, Zenon DEF MatchOrder
    <3>5. p \in PositionRow /\ p.margin >= 0 /\ p.qty >= 0
      BY <1>2, <3>2, <3>3, <3>4 DEF Unlocked, PositionRow
    <3>6. c \in CustomerRow /\ c.balance >= customer.balance /\ c.pnl = customer.pnl
      <4>1. /\ Unfrozen(o).balance = customer.balance + orders[o].frozenAmount
            /\ Unfrozen(o).pnl = customer.pnl + 0
            /\ Unfrozen(o) \in CustomerRow
        <5>1. -orders[o].frozenAmount \in Int
          BY <3>3
        <5>2. Unfrozen(o) \in CustomerRow
          BY <1>1, <3>3, <5>1, BookType DEF Unfrozen
        <5> QED BY <5>2, Zenon DEF Unfrozen, Book
      <4>2. customer.pnl \in Int
        BY <1>1 DEF CustomerRow
      <4> QED BY <1>1, <3>3, <3>4, <4>1, <4>2
    <3> QED BY <1>1, <3>3, <3>4, <3>5, <3>6, TradeDebt
  <2>3. ASSUME NEW o \in OrderIds, NEW s \in Securities, NEW limit \in Prices,
               NEW q \in Quantities, PlaceLimitBuy(o, s, limit, q)
        PROVE  OwesOnlyByLoss
    <3> DEFINE debit == BuyDebit(s, q, limit)
    <3>1. debit \in Nat
      BY InputTypes, BuyDebitType
    <3>2. customer.balance >= debit /\ customer'.balance = customer.balance + (-debit)
      BY <2>3, Zenon DEF PlaceLimitBuy, Book
    <3> HIDE DEF debit
    <3> QED BY <1>1, <3>1, <3>2, NoDebt
  <2>4. ASSUME NEW o \in OrderIds, NEW s \in Securities, NEW limit \in Prices,
               NEW q \in Quantities, PlaceLimitSell(o, s, limit, q)
        PROVE  OwesOnlyByLoss
    BY <1>3, <2>4 DEF PlaceLimitSell
  <2>5. ASSUME NEW o \in OrderIds, CancelOrder(o)
        PROVE  OwesOnlyByLoss
    <3>1. orders[o].frozenAmount \in Nat
      BY <1>1 DEF TypeOK, OrderRow
    <3>2. customer' = customer \/ customer' = Unfrozen(o)
      BY <2>5 DEF CancelOrder, ReleaseFreeze
    <3>3. Unfrozen(o).balance = customer.balance + orders[o].frozenAmount
      BY Zenon DEF Unfrozen, Book
    <3> QED BY <1>1, <1>3, <3>1, <3>2, <3>3, NoDebt
  <2> QED BY <1>4, <2>1, <2>2, <2>3, <2>4, <2>5, Zenon DEF Trading
<1>5. CASE Batches
  BY <1>1, <1>5, BatchDebt, NoDebt
<1>6. CASE Transfers
  <2>1. ASSUME NEW r \in RechargeIds, NEW approve \in BOOLEAN, ReviewRecharge(r, approve)
        PROVE  OwesOnlyByLoss
    <3>1. recharges[r].amount \in Nat
      BY <1>1 DEF TypeOK, RequestRow
    <3>2. customer' = customer \/ customer' = Book(customer, recharges[r].amount, 0, 0)
      BY <2>1 DEF ReviewRecharge
    <3>3. Book(customer, recharges[r].amount, 0, 0).balance = customer.balance + recharges[r].amount
      BY Zenon DEF Book
    <3> QED BY <1>1, <1>3, <3>1, <3>2, <3>3, NoDebt
  <2>2. ASSUME NEW w \in WithdrawalIds, NEW approve \in BOOLEAN, ReviewWithdrawal(w, approve)
        PROVE  OwesOnlyByLoss
    <3>1. withdrawals[w].amount \in Nat
      BY <1>1 DEF TypeOK, RequestRow
    <3>2. PICK x \in {0, withdrawals[w].amount} :
                 customer' = Book(customer, x, - withdrawals[w].amount, 0)
      BY <2>2 DEF ReviewWithdrawal
    <3>3. customer'.balance = customer.balance + x
      BY <3>2, Zenon DEF Book
    <3> QED BY <1>1, <3>1, <3>2, <3>3, NoDebt
  <2>3. ASSUME NEW w \in WithdrawalIds, NEW amount \in Amounts, RequestWithdrawal(w, amount)
        PROVE  OwesOnlyByLoss
    <3>1. amount \in Nat
      BY InputTypes
    <3>2. customer.balance >= amount /\ customer'.balance = customer.balance + (-amount)
      BY <2>3, Zenon DEF RequestWithdrawal, Book
    <3> QED BY <1>1, <3>1, <3>2, NoDebt
  <2>4. ASSUME NEW r \in RechargeIds, NEW amount \in Amounts, RequestRecharge(r, amount)
        PROVE  OwesOnlyByLoss
    BY <1>3, <2>4 DEF RequestRecharge
  <2> QED BY <1>6, <2>1, <2>2, <2>3, <2>4, Zenon DEF Transfers
<1>7. CASE Administration
  <2>1. ASSUME NEW s \in Securities, NEW price \in Prices, ForceClosePosition(s, price)
        PROVE  OwesOnlyByLoss
    <3> DEFINE result == Realized(position[s].qty, position[s].cost, position[s].leverage, price)
    <3>1. result \in Int
      <4>1. price \in Nat
        BY InputTypes
      <4>2. price * position[s].qty \in Int
        BY <1>1, <4>1, PositionTypes, ProductType
      <4>3. price * position[s].qty - position[s].cost \in Int
        BY <1>1, <4>2, PositionTypes
      <4> QED BY <1>1, <4>3, PositionTypes, ProductType DEF Realized
    <3>2. /\ customer'.balance = customer.balance + (position[s].margin + result)
          /\ customer'.pnl = customer.pnl + result
      BY <2>1, Zenon DEF ForceClosePosition, Book
    <3>3. customer.pnl \in Int
      BY <1>1 DEF CustomerRow
    <3> HIDE DEF result
    <3> QED BY <1>1, <1>2, <3>1, <3>2, <3>3 DEF OwesOnlyByLoss
  <2>2. CASE WriteDeposit
    <3>1. customer'.balance = deposit.copy.balance
      BY <2>2 DEF WriteDeposit
    <3> QED BY <1>1, <3>1, NoDebt DEF DebtInv
  <2>3. ASSUME NEW f, SwitchFlag(f)
        PROVE  OwesOnlyByLoss
    <3>1. customer'.balance = customer.balance
      BY <1>1, <2>3 DEF SwitchFlag, CustomerRow
    <3> QED BY <1>1, <3>1, NoDebt
  <2>4. \/ \E s \in Securities, price \in Prices : ForceClosePosition(s, price)
        \/ WriteDeposit \/ (\E f : SwitchFlag(f))
        \/ UNCHANGED customer
    BY <1>7 DEF Administration, ReadDeposit, SavePosition, DeletePosition, CreateRecharge,
       CreateWithdrawal
  <2> QED BY <1>3, <2>1, <2>2, <2>3, <2>4
<1>8. CASE UNCHANGED vars
  BY <1>3, <1>8 DEF vars
<1> QED BY <1>4, <1>5, <1>6, <1>7, <1>8 DEF Next

LEMMA DebtStep ==
  ASSUME DebtInv, ~ AllowAdminRows, [Next]_vars
  PROVE  DebtInv'
<1>1. SharesInv'
  BY SharesStep DEF DebtInv
<1>2. deposit'.copy.balance >= 0
  <2>1. ASSUME NEW amount \in Int, ReadDeposit(amount)
        PROVE  deposit'.copy.balance >= 0
    <3>1. /\ deposit'.copy.balance = customer.balance + amount
          /\ customer.balance + amount \in 0..MaxBalance
      BY <2>1, Zenon DEF ReadDeposit, Book
    <3> QED BY <3>1, AccountAssumption
  <2>2. CASE WriteDeposit
    BY <2>2 DEF WriteDeposit, NoDeposit, NewCustomer
  <2>3. (\E amount \in Int : ReadDeposit(amount)) \/ WriteDeposit \/ UNCHANGED deposit
    <3>1. CASE Administration
      <4>1. \A amount \in Amounts : amount \in Int
        BY InputTypes
      <4>2. \A amount \in Deductions : -amount \in Int
        BY InputTypes
      <4> QED BY <3>1, <4>1, <4>2 DEF Administration, ForceClosePosition, SwitchFlag,
           SavePosition, DeletePosition, CreateRecharge, CreateWithdrawal
    <3>2. CASE Trading
      BY <3>2 DEF Trading, PlaceOrder, PlaceLimitBuy, PlaceLimitSell, CancelOrder, MatchOrder
    <3>3. CASE Batches
      BY <3>3 DEF Batches, FeeFromBalance, FeeAfterCancelling, FeeForced, FeeDue, CallFromBalance,
         CallAfterCancelling, CallForced, CallDue
    <3>4. CASE Transfers
      BY <3>4 DEF Transfers, RequestRecharge, ReviewRecharge, RequestWithdrawal, ReviewWithdrawal
    <3>5. CASE UNCHANGED vars
      BY <3>5 DEF vars
    <3> QED BY <3>1, <3>2, <3>3, <3>4, <3>5 DEF Next
  <2> QED BY <2>1, <2>2, <2>3 DEF DebtInv
<1> QED BY <1>1, <1>2 DEF DebtInv

\* A management fee leaves the positions alone or leaves nothing open and nothing
\* pending, for all prices, fees and securities.
THEOREM FeeWhole ==
  ASSUME ~ AllowAdminRows
  PROVE  Spec => FeeAllOrNothing
<1>1. Init => SharesInv
  BY SharesInit
<1>2. SharesInv /\ [Next]_vars => SharesInv'
  BY SharesStep
<1>3. SharesInv /\ [Next]_vars => [FeeKeepsOrCloses]_vars
  BY FeeKept
<1> QED BY <1>1, <1>2, <1>3, PTL DEF Spec, FeeAllOrNothing

\* The level up to which a position was called is forgotten only with a
\* purchase or with the last share.
THEOREM LevelsStay ==
  ASSUME ~ AllowAdminRows
  PROVE  Spec => LevelsRemembered
<1>1. Init => SharesInv
  BY SharesInit
<1>2. SharesInv /\ [Next]_vars => SharesInv'
  BY SharesStep
<1>3. AskedInv /\ SharesInv /\ [Next]_vars => [KeepsLevels]_vars
  BY LevelsKept
<1> QED BY <1>1, <1>2, <1>3, AskedAlways, PTL DEF Spec, LevelsRemembered

\* Only a realized loss makes a customer owe, whatever deposits overtake.
THEOREM DebtIsLoss ==
  ASSUME ~ AllowAdminRows
  PROVE  Spec => DebtOnlyByLoss
<1>1. Init => DebtInv
  BY SharesInit DEF Init, DebtInv, NoDeposit, NewCustomer
<1>2. DebtInv /\ [Next]_vars => DebtInv'
  BY DebtStep
<1>3. DebtInv /\ [Next]_vars => [OwesOnlyByLoss]_vars
  BY OwesLess
<1> QED BY <1>1, <1>2, <1>3, PTL DEF Spec, DebtOnlyByLoss
=============================================================================
