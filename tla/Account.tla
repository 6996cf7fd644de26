------------------------------ MODULE Account -------------------------------
(***************************************************************************)
(* The rows one customer owns - the customers row, one trade_positions row *)
(* per security, the limit_orders, finance_recharges, finance_withdrawals  *)
(* and daily_management_fees rows - and every operation of the mobile API, *)
(* the admin API and the cron jobs that changes them.  No operation        *)
(* touches the rows of two customers in one transaction.                   *)
(*                                                                         *)
(* A database transaction that locks the rows it reads (SELECT ... FOR     *)
(* UPDATE) is one action.  Deposit reads the customers row without a lock  *)
(* and writes all of it back, so it is two actions, ReadDeposit and        *)
(* WriteDeposit, with the stale copy kept in deposit in between.           *)
(***************************************************************************)
EXTENDS TradeMath, Sums

CONSTANTS
  NumSecurities,      \* securities are 1..NumSecurities
  Market, Board,      \* of each security
  Prices,             \* last prices the market sync can have stored (all > 0)
  Quantities,         \* quantities an order may ask for
  Leverages,          \* values of effectiveLeverage as the setting changes
  Amounts,            \* amounts of transfers and of manual deposits
  Deductions,         \* amounts a manual deposit may take away
  FeeRate,            \* effectiveManagementFeeRate, of RateScale
  MarginCallStart, MarginCallRate,
  ToggledFlags,       \* account flags an administrator switches in the model
  MaxOrders, MaxWithdrawals, MaxRecharges, MaxRecords, MaxDays,   \* bounds
  MaxBalance,         \* bound on the balance a manual deposit may reach
  AllowOverlap,       \* may another transaction run between a deposit's read and write?
  AllowAdminRows      \* may administrators write positions and withdrawals by hand?

Securities    == 1..NumSecurities
OrderIds      == 1..MaxOrders
WithdrawalIds == 1..MaxWithdrawals
RechargeIds   == 1..MaxRecharges
Days          == 1..MaxDays
FlagNames     == {"status", "fund", "verified"}

ASSUME AccountAssumption ==
  /\ NumSecurities \in Nat /\ MaxOrders \in Nat /\ MaxWithdrawals \in Nat
  /\ MaxRecharges \in Nat /\ MaxRecords \in Nat /\ MaxDays \in Nat
  /\ Market \in [Securities -> Markets] /\ Board \in [Securities -> {"main", "star"}]
  /\ Prices \subseteq Nat \ {0} /\ Quantities \subseteq Nat \ {0}
  /\ Leverages \subseteq Nat \ {0} /\ Amounts \subseteq Nat \ {0}
  /\ Deductions \subseteq Nat \ {0}
  /\ FeeRate \in Nat /\ MarginCallStart \in Nat \ {0} /\ MarginCallRate \in Nat
  /\ ToggledFlags \subseteq FlagNames /\ MaxBalance \in Nat
  /\ AllowOverlap \in BOOLEAN /\ AllowAdminRows \in BOOLEAN

VARIABLES
  customer,     \* the customers row: balance, frozen, pnl (TotalProfit - TotalLoss), flags
  position,     \* per security: the trade_positions row, row = FALSE when there is none
  orders,       \* the limit_orders rows
  withdrawals,  \* the finance_withdrawals rows
  recharges,    \* the finance_recharges rows
  records,      \* number of trade_records rows
  feeDays,      \* days with a daily_management_fees row
  deposit,      \* the manual deposit in flight and the row it is going to write
  net           \* history: money that came in from outside less what left for good

vars == <<customer, position, orders, withdrawals, recharges, records, feeDays, deposit, net>>

CustomerRow == [balance : Int, frozen : Int, pnl : Int, flags : SUBSET FlagNames]

PositionRow == [row : BOOLEAN, qty : Int, avail : Int, cost : Int, margin : Int,
                leverage : Nat, level : Nat, enabled : BOOLEAN]

OrderRow == [status : {"none", "pending", "filled", "cancelled"},
             security : Nat, direction : Directions, limit : Nat, qty : Nat,
             frozenAmount : Nat, frozenQty : Nat, record : Nat, executed : Nat,
             trades : Nat]   \* history: how many trade records executing the order made

RequestRow == [status : {"none", "pending", "done", "rejected"}, amount : Nat]

NoPosition == [row |-> FALSE, qty |-> 0, avail |-> 0, cost |-> 0, margin |-> 0,
               leverage |-> 0, level |-> 0, enabled |-> FALSE]

NoOrder == [status |-> "none", security |-> 0, direction |-> "buy", limit |-> 0, qty |-> 0,
            frozenAmount |-> 0, frozenQty |-> 0, record |-> 0, executed |-> 0, trades |-> 0]

NoRequest == [status |-> "none", amount |-> 0]

NewCustomer == [balance |-> 0, frozen |-> 0, pnl |-> 0, flags |-> FlagNames]

NoDeposit == [busy |-> FALSE, amount |-> 0, copy |-> NewCustomer]

TypeOK ==
  /\ customer \in CustomerRow
  /\ position \in [Securities -> PositionRow]
  /\ orders \in [OrderIds -> OrderRow]
  /\ withdrawals \in [WithdrawalIds -> RequestRow]
  /\ recharges \in [RechargeIds -> RequestRow]
  /\ records \in Nat
  /\ feeDays \subseteq Days
  /\ deposit \in [busy : BOOLEAN, amount : Int, copy : CustomerRow]
  /\ net \in Int

Init ==
  /\ customer = NewCustomer
  /\ position = [s \in Securities |-> NoPosition]
  /\ orders = [o \in OrderIds |-> NoOrder]
  /\ withdrawals = [w \in WithdrawalIds |-> NoRequest]
  /\ recharges = [r \in RechargeIds |-> NoRequest]
  /\ records = 0
  /\ feeDays = {}
  /\ deposit = NoDeposit
  /\ net = 0

-----------------------------------------------------------------------------
(***************************************************************************)
(* Columns that the invariants and the batch jobs add up.                  *)
(***************************************************************************)
PendingBuys == [o \in OrderIds |->
  IF orders[o].status = "pending" /\ orders[o].direction = "buy"
  THEN orders[o].frozenAmount ELSE 0]

PendingSells(s) == [o \in OrderIds |->
  IF orders[o].status = "pending" /\ orders[o].direction = "sell" /\ orders[o].security = s
  THEN orders[o].frozenQty ELSE 0]

PendingWithdrawals == [w \in WithdrawalIds |->
  IF withdrawals[w].status = "pending" THEN withdrawals[w].amount ELSE 0]

Margins == [s \in Securities |-> position[s].margin]

\* The customers row with its balance, frozen balance and result changed.
Book(c, onBalance, onFrozen, onPnl) ==
  [balance |-> c.balance + onBalance, frozen |-> c.frozen + onFrozen,
   pnl |-> c.pnl + onPnl, flags |-> c.flags]

\* No deposit is between its read and its write, or it may be overtaken there.
MayRun == AllowOverlap \/ ~ deposit.busy

\* The customer checks of PlaceOrder and PlaceLimitOrder.
MayTrade == customer.flags = FlagNames

-----------------------------------------------------------------------------
(***************************************************************************)
(* executeMobileOrder, used by PlaceOrder and by the matching of limit     *)
(* orders: c and p are the customer and position rows as the caller left   *)
(* them in the transaction.                                                *)
(***************************************************************************)
BuyDebit(s, q, price) == price * q + TradeFee(Market[s], price * q, "buy")

\* Fault: the balance is compared with the amount, without the fees.
CanBuyWithoutFees(c, s, q, price) == c.balance >= price * q

CanBuy(c, s, q, price) == c.balance >= BuyDebit(s, q, price)

\* position.Status, BuyAt and Leverage are set only for a row that did not exist.
AfterBuy(p, q, price, lev) ==
  [row |-> TRUE, qty |-> p.qty + q, avail |-> p.avail + q,
   cost |-> p.cost + price * q, margin |-> p.margin + price * q,
   leverage |-> IF p.row /\ p.leverage > 0 THEN p.leverage ELSE lev,
   level |-> 0, enabled |-> p.row => p.enabled]

CanSell(p, q) ==
  /\ p.row /\ p.avail >= q
  /\ q = p.qty \/ q % LotSize = 0

\* CostPrice * quantity, CostPrice being TotalCost / PositionQty; rounded to a
\* cent here, where the code keeps the fraction until the result is rounded.
CostRemoved(p, q) == IF p.qty > 0 THEN RoundDiv(p.cost * q, p.qty) ELSE 0

MarginRemoved(p, q) == IF q < p.qty THEN RoundDiv(p.margin * q, p.qty) ELSE p.margin

SellRealized(p, s, q, price) ==
  (price * q - CostRemoved(p, q)) * PositionLeverage(p.leverage)
  - TradeFee(Market[s], price * q, "sell")

\* Fault: every sale resets the call level, not only the one that sells out.
AfterSellForgettingLevel(p, q) ==
  [row |-> p.row, qty |-> p.qty - q, avail |-> p.avail - q,
   cost |-> Larger(0, p.cost - CostRemoved(p, q)),
   margin |-> IF q = p.qty THEN 0 ELSE Larger(0, p.margin - MarginRemoved(p, q)),
   leverage |-> p.leverage, level |-> 0, enabled |-> q # p.qty /\ p.enabled]

AfterSell(p, q) ==
  [row |-> p.row, qty |-> p.qty - q, avail |-> p.avail - q,
   cost |-> Larger(0, p.cost - CostRemoved(p, q)),
   margin |-> IF q = p.qty THEN 0 ELSE Larger(0, p.margin - MarginRemoved(p, q)),
   leverage |-> p.leverage,
   level |-> IF q = p.qty THEN 0 ELSE p.level,
   enabled |-> q # p.qty /\ p.enabled]

\* The whole of executeMobileOrder.  Bounds: a free trade_records id, and no
\* trade on a row whose quantity is negative (which only a row written by hand
\* under a pending sell order can lead to).
Execute(c, p, s, direction, q, price, lev) ==
  /\ records < MaxRecords /\ p.qty >= 0
  /\ records' = records + 1
  /\ \/ /\ direction = "buy"
        /\ CanBuy(c, s, q, price)
        /\ customer' = Book(c, - BuyDebit(s, q, price), 0, 0)
        /\ position' = [position EXCEPT ![s] = AfterBuy(p, q, price, lev)]
        /\ net' = net - TradeFee(Market[s], price * q, "buy")
     \/ /\ direction = "sell"
        /\ CanSell(p, q)
        /\ customer' = Book(c, MarginRemoved(p, q) + SellRealized(p, s, q, price), 0,
                            SellRealized(p, s, q, price))
        /\ position' = [position EXCEPT ![s] = AfterSell(p, q)]
        /\ net' = net

\* PlaceOrder: a market order.
PlaceOrder(s, direction, q, price, lev) ==
  /\ MayRun /\ MayTrade
  /\ direction = "buy" => ValidBuyQuantity(Board[s], q)
  /\ Execute(customer, position[s], s, direction, q, price, lev)
  /\ UNCHANGED <<orders, withdrawals, recharges, feeDays, deposit>>

-----------------------------------------------------------------------------
(***************************************************************************)
(* Limit orders.                                                           *)
(***************************************************************************)
NextOrder(o) == orders[o].status = "none" /\ \A k \in 1..(o-1) : orders[k].status # "none"

\* Fault: the status is written with another spelling.
SettledMisspelled(order, status, record, price) ==
  [order EXCEPT !.status = "canceled", !.record = record, !.executed = price]

\* An order row that has been filled, or cancelled, with its freeze columns reset.
Settled(order, status, record, price) ==
  [status |-> status, security |-> order.security, direction |-> order.direction,
   limit |-> order.limit, qty |-> order.qty, frozenAmount |-> 0, frozenQty |-> 0,
   record |-> record, executed |-> price, trades |-> order.trades]

NewOrder(s, direction, limit, q, amount, frozenQty) ==
  [status |-> "pending", security |-> s, direction |-> direction, limit |-> limit, qty |-> q,
   frozenAmount |-> amount, frozenQty |-> frozenQty, record |-> 0, executed |-> 0, trades |-> 0]

PlaceLimitBuy(o, s, limit, q) ==
  /\ MayRun /\ MayTrade /\ NextOrder(o)
  /\ ValidBuyQuantity(Board[s], q)
  /\ customer.balance >= BuyDebit(s, q, limit)
  /\ customer' = Book(customer, - BuyDebit(s, q, limit), BuyDebit(s, q, limit), 0)
  /\ orders' = [orders EXCEPT ![o] = NewOrder(s, "buy", limit, q, BuyDebit(s, q, limit), 0)]
  /\ UNCHANGED <<position, withdrawals, recharges, records, feeDays, deposit, net>>

PlaceLimitSell(o, s, limit, q) ==
  /\ MayRun /\ MayTrade /\ NextOrder(o)
  /\ CanSell(position[s], q)
  /\ position' = [position EXCEPT ![s].avail = @ - q]
  /\ orders' = [orders EXCEPT ![o] = NewOrder(s, "sell", limit, q, 0, q)]
  /\ UNCHANGED <<customer, withdrawals, recharges, records, feeDays, deposit, net>>

\* Fault: the freeze of order o is taken back but not paid back.
UnfrozenUnpaid(o) == Book(customer, 0, - orders[o].frozenAmount, 0)

\* The customer and position rows once the freeze of order o is given back.
Unfrozen(o) == Book(customer, orders[o].frozenAmount, - orders[o].frozenAmount, 0)

Unlocked(o) ==
  [position[orders[o].security] EXCEPT !.avail = @ + orders[o].frozenQty]

\* Fault: the frozen balance is not compared with the freeze of the order.
ReleaseFreezeUnchecked(o) ==
  /\ orders[o].direction = "buy"
  /\ customer' = Unfrozen(o)
  /\ UNCHANGED position

\* releaseLimitOrderFreeze.
ReleaseFreeze(o) ==
  \/ /\ orders[o].direction = "buy"
     /\ customer.frozen >= orders[o].frozenAmount
     /\ customer' = Unfrozen(o)
     /\ UNCHANGED position
  \/ /\ orders[o].direction = "sell"
     /\ position[orders[o].security].row
     /\ position' = [position EXCEPT ![orders[o].security] = Unlocked(o)]
     /\ UNCHANGED customer

\* Fault: the status of the order is not checked.
CancelOrderUnchecked(o) ==
  /\ MayRun
  /\ orders[o].status # "none"
  /\ ReleaseFreeze(o)
  /\ orders' = [orders EXCEPT ![o].status = "cancelled"]
  /\ UNCHANGED <<withdrawals, recharges, records, feeDays, deposit, net>>

\* CancelLimitOrder; also the branch of matchLimitOrder that cancels a crossed
\* buy order whose security may no longer be bought.  The frozen columns keep
\* their values.
CancelOrder(o) ==
  /\ MayRun
  /\ orders[o].status = "pending"
  /\ ReleaseFreeze(o)
  /\ orders' = [orders EXCEPT ![o].status = "cancelled"]
  /\ UNCHANGED <<withdrawals, recharges, records, feeDays, deposit, net>>

Crossed(o, price) ==
  IF orders[o].direction = "buy" THEN price <= orders[o].limit ELSE price >= orders[o].limit

\* An order row once executeMobileOrder made the trade record for it.
Executed(order, record, price) ==
  [Settled(order, "filled", record, price) EXCEPT !.trades = @ + 1]

\* Fault: the status of the order is not read again under the lock of its row.
MatchOrderUnchecked(o, price, lev) ==
  LET s == orders[o].security
  IN  /\ MayRun
      /\ orders[o].status \in {"pending", "filled"}
      /\ Crossed(o, price)
      /\ orders[o].direction = "buy"
      /\ customer.frozen >= orders[o].frozenAmount
      /\ Execute(Unfrozen(o), position[s], s, "buy", orders[o].qty, price, lev)
      /\ orders' = [orders EXCEPT ![o] = Executed(@, records + 1, price)]
      /\ UNCHANGED <<withdrawals, recharges, feeDays, deposit>>

\* matchLimitOrder for an order that fills.  It checks no account flag; if
\* executeMobileOrder rejects, the transaction is rolled back and nothing changes.
MatchOrder(o, price, lev) ==
  LET s == orders[o].security
  IN  /\ MayRun
      /\ orders[o].status = "pending"
      /\ Crossed(o, price)
      /\ orders[o].direction = "buy" => customer.frozen >= orders[o].frozenAmount
      /\ orders[o].direction = "sell" => position[s].row
      /\ Execute(IF orders[o].direction = "buy" THEN Unfrozen(o) ELSE customer,
                 IF orders[o].direction = "sell" THEN Unlocked(o) ELSE position[s],
                 s, orders[o].direction, orders[o].qty, price, lev)
      /\ orders' = [orders EXCEPT ![o] = Executed(@, records + 1, price)]
      /\ UNCHANGED <<withdrawals, recharges, feeDays, deposit>>

-----------------------------------------------------------------------------
(***************************************************************************)
(* What the two batch jobs share: cancelCustomerPendingOrders and          *)
(* forceCloseAllPositions.                                                 *)
(***************************************************************************)
\* Fault: the batch cancels the buy orders only.
BuyOrdersCancelled == [o \in OrderIds |->
  IF orders[o].status = "pending" /\ orders[o].direction = "buy"
  THEN Settled(orders[o], "cancelled", 0, 0) ELSE orders[o]]

OrdersCancelled == [o \in OrderIds |->
  IF orders[o].status = "pending"
  THEN Settled(orders[o], "cancelled", 0, 0) ELSE orders[o]]

Released == Total(PendingBuys, MaxOrders)

\* Fault: the freezes are paid back and stay frozen.
CustomerPaidTwice == Book(customer, Released, 0, 0)

CustomerCancelled ==
  Book(customer, Released, Larger(0, customer.frozen - Released) - customer.frozen, 0)

\* Fault: the shares of cancelled sell orders stay locked.
PositionsStillLocked == position

PositionsCancelled == [s \in Securities |->
  IF position[s].row
  THEN [position[s] EXCEPT !.avail = @ + Total(PendingSells(s), MaxOrders)]
  ELSE position[s]]

Open(s) == position[s].qty > 0

\* The realized result of every open position at the prices px, and what each
\* of them pays back.
Results(px) == [s \in Securities |->
  IF Open(s)
  THEN Realized(position[s].qty, position[s].cost, position[s].leverage, px[s]) ELSE 0]

Settlements(px) == [s \in Securities |->
  IF Open(s) THEN position[s].margin + Results(px)[s] ELSE 0]

OpenCount == Total([s \in Securities |-> IF Open(s) THEN 1 ELSE 0], NumSecurities)

\* Fault: the margin is paid out and stays in the row.
ClosedKeepingMargin(p) ==
  [row |-> p.row, qty |-> 0, avail |-> 0, cost |-> 0, margin |-> p.margin,
   leverage |-> p.leverage, level |-> p.level, enabled |-> FALSE]

\* The row of a force-closed position; its call level and leverage stay.
Closed(p) ==
  [row |-> p.row, qty |-> 0, avail |-> 0, cost |-> 0, margin |-> 0,
   leverage |-> p.leverage, level |-> p.level, enabled |-> FALSE]

PositionsClosed == [s \in Securities |->
  IF Open(s) THEN Closed(position[s]) ELSE PositionsCancelled[s]]

\* The customer row after cancelling the orders and closing every position.
CustomerClosed(px) ==
  Book(CustomerCancelled, Total(Settlements(px), NumSecurities), 0,
       Total(Results(px), NumSecurities))

-----------------------------------------------------------------------------
(***************************************************************************)
(* processCustomerManagementFee.  px are the prices the fee is computed    *)
(* from and py those the positions are closed at: they are read by two     *)
(* queries of a READ COMMITTED transaction.                                *)
(***************************************************************************)
ManagementFee(px) ==
  DailyManagementFee(
    Total([s \in Securities |->
             IF Open(s) THEN MarketValue(position[s].qty, px[s], position[s].leverage) ELSE 0],
          NumSecurities),
    FeeRate)

\* The customer pays what it can of the fee; a negative balance becomes zero.
PayFee(c, fee) ==
  LET charged == Smaller(Larger(c.balance, 0), fee)
      left    == Larger(0, c.balance - charged)
  IN  /\ customer' = Book(c, left - c.balance, 0, 0)
      /\ net' = net + left - c.balance

FeeDue(d, px) ==
  /\ MayRun
  /\ d \notin feeDays
  /\ \E s \in Securities : Open(s)
  /\ ManagementFee(px) > 0
  /\ feeDays' = feeDays \cup {d}
  /\ UNCHANGED <<withdrawals, recharges, deposit>>

FeeFromBalance(d, px) ==
  /\ FeeDue(d, px)
  /\ customer.balance >= ManagementFee(px)
  /\ PayFee(customer, ManagementFee(px))
  /\ UNCHANGED <<position, orders, records>>

FeeAfterCancelling(d, px) ==
  /\ FeeDue(d, px)
  /\ customer.balance < ManagementFee(px)
  /\ CustomerCancelled.balance >= ManagementFee(px)
  /\ PayFee(CustomerCancelled, ManagementFee(px))
  /\ orders' = OrdersCancelled
  /\ position' = PositionsCancelled
  /\ UNCHANGED records

FeeForced(d, px, py) ==
  /\ FeeDue(d, px)
  /\ customer.balance < ManagementFee(px)
  /\ CustomerCancelled.balance < ManagementFee(px)
  /\ PayFee(CustomerClosed(py), ManagementFee(px))
  /\ orders' = OrdersCancelled
  /\ position' = PositionsClosed
  /\ records + OpenCount <= MaxRecords
  /\ records' = records + OpenCount

-----------------------------------------------------------------------------
(***************************************************************************)
(* processCustomerMarginCalls.                                             *)
(***************************************************************************)
Drop(s, px) == PriceDrop(position[s].cost, position[s].qty, px[s])

\* What one level of position s costs.
CallAmount(s, px) ==
  RoundDiv(MarketValue(position[s].qty, px[s], position[s].leverage) * MarginCallRate, RateScale)

Called(s, px) ==
  /\ Open(s)
  /\ MarginCallPending(Drop(s, px), MarginCallStart, position[s].level)
  /\ CallAmount(s, px) > 0

Supplements(px) == [s \in Securities |->
  IF Called(s, px)
  THEN CallAmount(s, px)
       * (Drop(s, px) - MarginCallFrom(MarginCallStart, position[s].level) + 1)
  ELSE 0]

TotalRequired(px) == Total(Supplements(px), NumSecurities)

\* A position row charged with a supplement, and the rows after the call, where
\* base are the rows before.
Charged(p, supplement, level) ==
  [row |-> p.row, qty |-> p.qty, avail |-> p.avail, cost |-> p.cost,
   margin |-> p.margin + supplement, leverage |-> p.leverage,
   level |-> level, enabled |-> p.enabled]

Supplemented(base, px) == [s \in Securities |->
  IF Called(s, px) THEN Charged(base[s], Supplements(px)[s], Drop(s, px)) ELSE base[s]]

CallDue(px) ==
  /\ MayRun
  /\ \E s \in Securities : Called(s, px)
  /\ UNCHANGED <<withdrawals, recharges, feeDays, deposit>>

CallFromBalance(px) ==
  /\ CallDue(px)
  /\ customer.balance >= TotalRequired(px)
  /\ customer' = Book(customer, - TotalRequired(px), 0, 0)
  /\ position' = Supplemented(position, px)
  /\ UNCHANGED <<orders, records, net>>

CallAfterCancelling(px) ==
  /\ CallDue(px)
  /\ customer.balance < TotalRequired(px)
  /\ CustomerCancelled.balance >= TotalRequired(px)
  /\ customer' = Book(CustomerCancelled, - TotalRequired(px), 0, 0)
  /\ position' = Supplemented(PositionsCancelled, px)
  /\ orders' = OrdersCancelled
  /\ UNCHANGED <<records, net>>

\* A balance that closing the positions left negative is set to zero.
Forgive(c) ==
  LET forgiven == Larger(0, c.balance) - c.balance
  IN  /\ customer' = Book(c, forgiven, 0, 0)
      /\ net' = net + forgiven

CallForced(px, py) ==
  /\ CallDue(px)
  /\ customer.balance < TotalRequired(px)
  /\ CustomerCancelled.balance < TotalRequired(px)
  /\ Forgive(CustomerClosed(py))
  /\ position' = PositionsClosed
  /\ orders' = OrdersCancelled
  /\ records + OpenCount <= MaxRecords
  /\ records' = records + OpenCount

-----------------------------------------------------------------------------
(***************************************************************************)
(* ForceClosePosition by an administrator: it refuses a row whose status   *)
(* is not enabled, cancels the pending sell orders of the security and     *)
(* leaves the buy orders and the balance, which may go negative, alone.    *)
(***************************************************************************)
ForceClosePosition(s, price) ==
  LET p == position[s]
      realized == Realized(p.qty, p.cost, p.leverage, price)
  IN  /\ MayRun
      /\ p.row /\ p.qty > 0 /\ p.enabled
      /\ records < MaxRecords
      /\ records' = records + 1
      /\ customer' = Book(customer, p.margin + realized, 0, realized)
      /\ position' = [position EXCEPT ![s] = Closed(p)]
      /\ orders' = [o \in OrderIds |->
           IF /\ orders[o].status = "pending" /\ orders[o].direction = "sell"
              /\ orders[o].security = s
           THEN Settled(orders[o], "cancelled", 0, 0)
           ELSE orders[o]]
      /\ UNCHANGED <<withdrawals, recharges, feeDays, deposit, net>>

-----------------------------------------------------------------------------
(***************************************************************************)
(* Transfers between the bank and the account, and their review.           *)
(***************************************************************************)
MayTransfer == {"fund", "verified"} \subseteq customer.flags

RequestRecharge(r, amount) ==
  /\ MayRun /\ MayTransfer
  /\ recharges[r].status = "none"
  /\ recharges' = [recharges EXCEPT ![r] = [status |-> "pending", amount |-> amount]]
  /\ UNCHANGED <<customer, position, orders, withdrawals, records, feeDays, deposit, net>>

\* SaveRecharge on an existing row.
ReviewRecharge(r, approve) ==
  /\ MayRun
  /\ recharges[r].status = "pending"
  /\ recharges' = [recharges EXCEPT ![r].status = IF approve THEN "done" ELSE "rejected"]
  /\ IF approve
     THEN /\ customer' = Book(customer, recharges[r].amount, 0, 0)
          /\ net' = net + recharges[r].amount
     ELSE UNCHANGED <<customer, net>>
  /\ UNCHANGED <<position, orders, withdrawals, records, feeDays, deposit>>

RequestWithdrawal(w, amount) ==
  /\ MayRun /\ MayTransfer
  /\ withdrawals[w].status = "none"
  /\ customer.balance >= amount
  /\ customer' = Book(customer, - amount, amount, 0)
  /\ withdrawals' = [withdrawals EXCEPT ![w] = [status |-> "pending", amount |-> amount]]
  /\ UNCHANGED <<position, orders, recharges, records, feeDays, deposit, net>>

\* SaveWithdrawal on an existing row.
ReviewWithdrawal(w, approve) ==
  /\ MayRun
  /\ withdrawals[w].status = "pending"
  /\ customer.frozen >= withdrawals[w].amount
  /\ withdrawals' = [withdrawals EXCEPT ![w].status = IF approve THEN "done" ELSE "rejected"]
  /\ IF approve
     THEN /\ customer' = Book(customer, 0, - withdrawals[w].amount, 0)
          /\ net' = net - withdrawals[w].amount
     ELSE /\ customer' = Book(customer, withdrawals[w].amount, - withdrawals[w].amount, 0)
          /\ UNCHANGED net
  /\ UNCHANGED <<position, orders, recharges, records, feeDays, deposit>>

-----------------------------------------------------------------------------
(***************************************************************************)
(* Administrators.  Deposit adds amount (or, when negative, takes it) in a *)
(* copy of the row that it read without a lock and then saves whole.       *)
(***************************************************************************)
ReadDeposit(amount) ==
  /\ ~ deposit.busy
  /\ "fund" \in customer.flags
  /\ customer.balance + amount \in 0..MaxBalance
  /\ deposit' = [busy |-> TRUE, amount |-> amount,
                 copy |-> Book(customer, amount, 0, 0)]
  /\ UNCHANGED <<customer, position, orders, withdrawals, recharges, records, feeDays, net>>

WriteDeposit ==
  /\ deposit.busy
  /\ customer' = deposit.copy
  /\ net' = net + deposit.amount
  /\ deposit' = NoDeposit
  /\ UNCHANGED <<position, orders, withdrawals, recharges, records, feeDays>>

\* updateFlag and ReviewVerification write one column of the row.
SwitchFlag(f) ==
  /\ MayRun
  /\ customer' = [customer EXCEPT !.flags = IF f \in @ THEN @ \ {f} ELSE @ \cup {f}]
  /\ UNCHANGED <<position, orders, withdrawals, recharges, records, feeDays, deposit, net>>

\* SavePosition writes the whole row from the form, without a lock.  The form is
\* taken to be consistent in itself (avail <= q), not with the orders, and to
\* carry the id of the row when the security has one: the code refuses no form
\* without an id, which would give the security a second row.
SavePosition(s, q, avail, price, lev, enabled) ==
  /\ AllowAdminRows /\ MayRun
  /\ avail <= q
  /\ \E level \in {0, position[s].level} :
       position' = [position EXCEPT ![s] =
         [row |-> TRUE, qty |-> q, avail |-> avail, cost |-> q * price, margin |-> q * price,
          leverage |-> lev, level |-> level, enabled |-> enabled]]
  /\ UNCHANGED <<customer, orders, withdrawals, recharges, records, feeDays, deposit, net>>

\* DeletePosition is a soft delete: every query filters deleted rows out.
DeletePosition(s) ==
  /\ AllowAdminRows /\ MayRun
  /\ position[s].row
  /\ position' = [position EXCEPT ![s] = NoPosition]
  /\ UNCHANGED <<customer, orders, withdrawals, recharges, records, feeDays, deposit, net>>

\* SaveRecharge and SaveWithdrawal with no id: a row with the status of the form,
\* for which no money moves and nothing is frozen.
CreateRecharge(r, amount, status) ==
  /\ AllowAdminRows /\ MayRun
  /\ recharges[r].status = "none"
  /\ recharges' = [recharges EXCEPT ![r] = [status |-> status, amount |-> amount]]
  /\ UNCHANGED <<customer, position, orders, withdrawals, records, feeDays, deposit, net>>

CreateWithdrawal(w, amount, status) ==
  /\ AllowAdminRows /\ MayRun
  /\ withdrawals[w].status = "none"
  /\ withdrawals' = [withdrawals EXCEPT ![w] = [status |-> status, amount |-> amount]]
  /\ UNCHANGED <<customer, position, orders, recharges, records, feeDays, deposit, net>>

-----------------------------------------------------------------------------
Trading ==
  \/ \E s \in Securities, dir \in Directions, q \in Quantities, price \in Prices,
       lev \in Leverages : PlaceOrder(s, dir, q, price, lev)
  \/ \E o \in OrderIds, s \in Securities, limit \in Prices, q \in Quantities :
       PlaceLimitBuy(o, s, limit, q) \/ PlaceLimitSell(o, s, limit, q)
  \/ \E o \in OrderIds : CancelOrder(o)
  \/ \E o \in OrderIds, price \in Prices, lev \in Leverages : MatchOrder(o, price, lev)

Batches ==
  \E px, py \in [Securities -> Prices] :
    \/ \E d \in Days :
         FeeFromBalance(d, px) \/ FeeAfterCancelling(d, px) \/ FeeForced(d, px, py)
    \/ CallFromBalance(px)
    \/ CallAfterCancelling(px)
    \/ CallForced(px, py)

Transfers ==
  \/ \E r \in RechargeIds, amount \in Amounts : RequestRecharge(r, amount)
  \/ \E r \in RechargeIds, approve \in BOOLEAN : ReviewRecharge(r, approve)
  \/ \E w \in WithdrawalIds, amount \in Amounts : RequestWithdrawal(w, amount)
  \/ \E w \in WithdrawalIds, approve \in BOOLEAN : ReviewWithdrawal(w, approve)

Administration ==
  \/ \E s \in Securities, price \in Prices : ForceClosePosition(s, price)
  \/ \E amount \in Amounts : ReadDeposit(amount)
  \/ \E amount \in Deductions : ReadDeposit(-amount)
  \/ WriteDeposit
  \/ \E f \in ToggledFlags : SwitchFlag(f)
  \/ \E s \in Securities, q, avail \in Quantities \cup {0}, price \in Prices,
       lev \in Leverages, enabled \in BOOLEAN : SavePosition(s, q, avail, price, lev, enabled)
  \/ \E s \in Securities : DeletePosition(s)
  \/ \E amount \in Amounts, status \in {"pending", "done", "rejected"} :
       \/ \E r \in RechargeIds : CreateRecharge(r, amount, status)
       \/ \E w \in WithdrawalIds : CreateWithdrawal(w, amount, status)

Next == Trading \/ Batches \/ Transfers \/ Administration

Spec == Init /\ [][Next]_vars

-----------------------------------------------------------------------------
(***************************************************************************)
(* Invariants.                                                             *)
(***************************************************************************)

\* The frozen balance is exactly what the pending buy orders and the pending
\* withdrawals hold: whatever path settles one of them (fill, cancel, batch
\* cancellation, review) takes out what placing it put in.
FrozenCovered ==
  customer.frozen = Total(PendingBuys, MaxOrders) + Total(PendingWithdrawals, MaxWithdrawals)

\* Whatever is written by hand or saved from a stale copy, no settlement takes
\* more out of the frozen balance than is there.
FrozenNeverNegative == customer.frozen >= 0

\* The shares of a position that are not available are exactly those its
\* pending sell orders hold, and a closed-out position holds no money.
SharesCovered == \A s \in Securities :
  /\ position[s].qty = position[s].avail + Total(PendingSells(s), MaxOrders)
  /\ position[s].avail >= 0
  /\ position[s].qty = 0 => position[s].cost = 0 /\ position[s].margin = 0

\* Money is neither made nor lost by moving it between balance, freeze and
\* margin: together they are what came in from outside plus the realized
\* results (TotalProfit - TotalLoss).
MoneyConserved ==
  customer.balance + customer.frozen + Total(Margins, NumSecurities) = net + customer.pnl

\* An order is executed once if it is filled and never otherwise - not twice by
\* two matching jobs, not before or after it was cancelled - and the trade record
\* its row names is its own.
FillsRecordedOnce == \A o \in OrderIds :
  /\ orders[o].trades = IF orders[o].status = "filled" THEN 1 ELSE 0
  /\ orders[o].status = "filled" =>
       /\ orders[o].record \in 1..records
       /\ \A k \in OrderIds \ {o} : orders[k].record # orders[o].record

\* ForceClosePosition answers that a row is closed when its status is disabled
\* (position.go:134), so an open position must never have that status.
ClosedMeansFlat == \A s \in Securities :
  position[s].row /\ ~ position[s].enabled => position[s].qty = 0

(***************************************************************************)
(* Action properties.                                                      *)
(***************************************************************************)

\* A filled or cancelled order, and a reviewed transfer, never change again:
\* each handler that settles one looks at its status under the row's lock.
KeepsSettled ==
  /\ \A o \in OrderIds : orders[o].status \in {"filled", "cancelled"} =>
       /\ orders'[o].status = orders[o].status
       /\ orders'[o].record = orders[o].record
  /\ \A w \in WithdrawalIds :
       withdrawals[w].status \in {"done", "rejected"} => withdrawals'[w] = withdrawals[w]
  /\ \A r \in RechargeIds :
       recharges[r].status \in {"done", "rejected"} => recharges'[r] = recharges[r]

SettledForGood == [][KeepsSettled]_vars

\* Filling a limit buy never takes more than was frozen for it: the balance
\* does not fall, whatever better price it is executed at.
FillsPaidByFreeze == \A o \in OrderIds :
  orders[o].status = "pending" /\ orders'[o].status = "filled" /\ orders[o].direction = "buy"
  => customer'.balance >= customer.balance

FillWithinFreeze == [][FillsPaidByFreeze]_vars

\* Only a realized loss takes the balance below zero: no purchase, freeze,
\* transfer, fee or margin call does, and none deepens a negative balance.
OwesOnlyByLoss == customer'.balance < 0 =>
  customer'.balance >= customer.balance \/ customer'.pnl < customer.pnl

DebtOnlyByLoss == [][OwesOnlyByLoss]_vars

\* A management fee leaves the positions alone or leaves nothing open and
\* nothing pending.
FeeKeepsOrCloses == feeDays' # feeDays =>
  \/ \A s \in Securities : position'[s].qty = position[s].qty
  \/ /\ \A s \in Securities : position'[s].qty = 0
     /\ \A o \in OrderIds : orders'[o].status # "pending"

FeeAllOrNothing == [][FeeKeepsOrCloses]_vars

\* The level up to which a position has been called is forgotten only when
\* shares are bought or the position is sold out.
KeepsLevels == \A s \in Securities : position'[s].level < position[s].level =>
  position'[s].qty > position[s].qty \/ position'[s].qty = 0

LevelsRemembered == [][KeepsLevels]_vars
=============================================================================
