--------------------------- MODULE AccountProofs ----------------------------
(***************************************************************************)
(* What holds of an account for every value of the constants: any number   *)
(* of securities, orders, transfers and days, any prices, rates and        *)
(* bounds.                                                                 *)
(***************************************************************************)
EXTENDS Account, MathProofs

-----------------------------------------------------------------------------
(***************************************************************************)
(* What the parts of a step are, for every value of the constants, with    *)
(* overlapping deposits and hand-written rows allowed or not.              *)
(***************************************************************************)

\* What a purchase costs, and its fee, are natural amounts.
LEMMA BuyDebitType ==
  ASSUME NEW s \in Securities, NEW q \in Nat, NEW price \in Nat
  PROVE  /\ price * q \in Nat
         /\ TradeFee(Market[s], price * q, "buy") \in Nat
         /\ TradeFee(Market[s], price * q, "sell") \in Nat
         /\ BuyDebit(s, q, price) \in Nat
<1>1. price * q \in Nat
  BY ProductType
<1>2. Market[s] \in Markets
  BY AccountAssumption
<1>3. \A m \in Nat : /\ TradeFee(Market[s], m, "buy") \in Nat
                     /\ TradeFee(Market[s], m, "sell") \in Nat
  BY <1>2, TradeFeeType DEF Directions
<1> QED BY <1>1, <1>3 DEF BuyDebit

\* The customers row with integers added to its columns.
LEMMA BookType ==
  ASSUME NEW c \in CustomerRow, NEW a \in Int, NEW b \in Int, NEW d \in Int
  PROVE  Book(c, a, b, d) \in CustomerRow
BY DEF Book, CustomerRow

\* The position row after a purchase.
LEMMA AfterBuyType ==
  ASSUME NEW p \in PositionRow, NEW q \in Nat, NEW price \in Nat, NEW lev \in Nat
  PROVE  AfterBuy(p, q, price, lev) \in PositionRow
<1> DEFINE a == price * q
<1>1. a \in Nat
  BY ProductType
<1>2. AfterBuy(p, q, price, lev) =
        [row |-> TRUE, qty |-> p.qty + q, avail |-> p.avail + q,
         cost |-> p.cost + a, margin |-> p.margin + a,
         leverage |-> IF p.row /\ p.leverage > 0 THEN p.leverage ELSE lev,
         level |-> 0, enabled |-> p.row => p.enabled]
  BY Zenon DEF AfterBuy
<1> HIDE DEF a
<1> QED BY <1>1, <1>2 DEF PositionRow

\* The parts a sale takes out of a position, and its result, are integers.
LEMMA SalePartsType ==
  ASSUME NEW p \in PositionRow, NEW s \in Securities, NEW q \in Nat, NEW price \in Nat
  PROVE  /\ CostRemoved(p, q) \in Int
         /\ MarginRemoved(p, q) \in Int
         /\ SellRealized(p, s, q, price) \in Int
<1>1. p.cost \in Int /\ p.margin \in Int /\ p.qty \in Int /\ p.leverage \in Nat
  BY DEF PositionRow
<1>2. p.cost * q \in Int /\ p.margin * q \in Int
  BY <1>1, ProductType
<1>3. q < p.qty \/ p.qty > 0 => p.qty \in Nat \ {0}
  BY <1>1
<1>4. CostRemoved(p, q) \in Int
  <2>1. CASE p.qty > 0
    BY <2>1, <1>2, <1>3, RoundDivType DEF CostRemoved
  <2>2. CASE ~ (p.qty > 0)
    BY <2>2, <1>1 DEF CostRemoved
  <2> QED BY <2>1, <2>2
<1>5. MarginRemoved(p, q) \in Int
  <2>1. CASE q < p.qty
    BY <2>1, <1>2, <1>3, RoundDivType DEF MarginRemoved
  <2>2. CASE ~ (q < p.qty)
    BY <2>2, <1>1 DEF MarginRemoved
  <2> QED BY <2>1, <2>2
<1>6. /\ price * q \in Int
      /\ TradeFee(Market[s], price * q, "sell") \in Int
  <2>1. /\ price * q \in Nat
        /\ TradeFee(Market[s], price * q, "sell") \in Nat
    BY BuyDebitType
  <2>2. \A n : n \in Nat => n \in Int
    OBVIOUS
  <2> QED BY <2>1, <2>2, Zenon
<1>7. PositionLeverage(p.leverage) \in Int
  BY <1>1 DEF PositionLeverage
<1>8. price * q - CostRemoved(p, q) \in Int
  BY <1>4, <1>6
<1>9. (price * q - CostRemoved(p, q)) * PositionLeverage(p.leverage) \in Int
  BY <1>7, <1>8, ProductType
<1>10. SellRealized(p, s, q, price) \in Int
  BY <1>6, <1>9 DEF SellRealized
<1> QED BY <1>4, <1>5, <1>10

\* The position row after a sale.
LEMMA AfterSellType ==
  ASSUME NEW p \in PositionRow, NEW s \in Securities, NEW q \in Nat
  PROVE  AfterSell(p, q) \in PositionRow
<1>1. CostRemoved(p, q) \in Int /\ MarginRemoved(p, q) \in Int
  BY SalePartsType
<1> QED BY <1>1 DEF AfterSell, Larger, PositionRow

\* executeMobileOrder keeps the rows it writes well-typed.
LEMMA ExecuteType ==
  ASSUME TypeOK, NEW c \in CustomerRow, NEW p \in PositionRow, NEW s \in Securities,
         NEW direction \in Directions, NEW q \in Nat, NEW price \in Nat, NEW lev \in Nat,
         Execute(c, p, s, direction, q, price, lev)
  PROVE  /\ customer' \in CustomerRow
         /\ position' \in [Securities -> PositionRow]
         /\ records' \in Nat
         /\ net' \in Int
<1>1. records' \in Nat
  BY DEF Execute, TypeOK
<1>2. CASE direction = "buy"
  <2>1. /\ customer' = Book(c, - BuyDebit(s, q, price), 0, 0)
        /\ position' = [position EXCEPT ![s] = AfterBuy(p, q, price, lev)]
        /\ net' = net - TradeFee(Market[s], price * q, "buy")
    BY <1>2 DEF Execute
  <2>2. customer' \in CustomerRow
    <3>1. - BuyDebit(s, q, price) \in Int
      BY BuyDebitType
    <3> QED BY <2>1, <3>1, BookType
  <2>3. position' \in [Securities -> PositionRow]
    BY <2>1, AfterBuyType DEF TypeOK
  <2>4. net' \in Int
    BY <2>1, BuyDebitType DEF TypeOK
  <2> QED BY <1>1, <2>2, <2>3, <2>4
<1>3. CASE direction = "sell"
  <2>1. /\ customer' = Book(c, MarginRemoved(p, q) + SellRealized(p, s, q, price), 0,
                            SellRealized(p, s, q, price))
        /\ position' = [position EXCEPT ![s] = AfterSell(p, q)]
        /\ net' = net
    BY <1>3 DEF Execute
  <2>2. customer' \in CustomerRow
    <3>1. /\ MarginRemoved(p, q) + SellRealized(p, s, q, price) \in Int
          /\ SellRealized(p, s, q, price) \in Int
      BY SalePartsType
    <3> QED BY <2>1, <3>1, BookType
  <2>3. position' \in [Securities -> PositionRow]
    BY <2>1, AfterSellType DEF TypeOK
  <2> QED BY <1>1, <2>1, <2>2, <2>3 DEF TypeOK
<1> QED BY <1>2, <1>3 DEF Directions

\* Order rows as they are placed and settled.
LEMMA OrderRowType ==
  /\ \A s \in Securities, direction \in Directions, limit, q, amount, frozenQty \in Nat :
       NewOrder(s, direction, limit, q, amount, frozenQty) \in OrderRow
  /\ \A order \in OrderRow, status \in {"filled", "cancelled"}, record, price \in Nat :
       Settled(order, status, record, price) \in OrderRow
  /\ \A order \in OrderRow, record, price \in Nat : Executed(order, record, price) \in OrderRow
<1>1. \A s \in Securities, direction \in Directions, limit, q, amount, frozenQty \in Nat :
        NewOrder(s, direction, limit, q, amount, frozenQty) \in OrderRow
  BY AccountAssumption DEF NewOrder, OrderRow, Securities, Directions
<1>2. \A order \in OrderRow, status \in {"filled", "cancelled"}, record, price \in Nat :
        Settled(order, status, record, price) \in OrderRow
  BY DEF Settled, OrderRow
<1>3. ASSUME NEW order \in OrderRow, NEW record \in Nat, NEW price \in Nat
      PROVE  Executed(order, record, price) \in OrderRow
  <2>1. Settled(order, "filled", record, price) \in OrderRow
    BY <1>2
  <2> QED BY <2>1 DEF Executed, OrderRow
<1> QED BY <1>1, <1>2, <1>3

\* The rows with the freeze of an order given back.
LEMMA UnfrozenType ==
  ASSUME TypeOK, NEW o \in OrderIds
  PROVE  /\ Unfrozen(o) \in CustomerRow
         /\ orders[o].security \in Securities => Unlocked(o) \in PositionRow
<1>1. orders[o].frozenAmount \in Int /\ - orders[o].frozenAmount \in Int
      /\ orders[o].frozenQty \in Int
  BY DEF TypeOK, OrderRow
<1>2. Unfrozen(o) \in CustomerRow
  BY <1>1, BookType DEF Unfrozen, TypeOK
<1>3. ASSUME orders[o].security \in Securities
      PROVE  Unlocked(o) \in PositionRow
  BY <1>1, <1>3 DEF Unlocked, TypeOK, PositionRow
<1> QED BY <1>2, <1>3

\* The columns that are added up are integers, and those of requests natural.
LEMMA ColumnTypes ==
  ASSUME TypeOK
  PROVE  /\ PendingBuys \in [1..MaxOrders -> Nat]
         /\ PendingWithdrawals \in [1..MaxWithdrawals -> Nat]
         /\ \A s \in Securities : PendingSells(s) \in [1..MaxOrders -> Nat]
         /\ Margins \in [1..NumSecurities -> Int]
<1>1. PendingBuys \in [1..MaxOrders -> Nat]
  BY DEF TypeOK, PendingBuys, OrderIds, OrderRow
<1>2. PendingWithdrawals \in [1..MaxWithdrawals -> Nat]
  BY DEF TypeOK, PendingWithdrawals, WithdrawalIds, RequestRow
<1>3. ASSUME NEW s \in Securities
      PROVE  PendingSells(s) \in [1..MaxOrders -> Nat]
  BY DEF TypeOK, PendingSells, OrderIds, OrderRow
<1>4. Margins \in [1..NumSecurities -> Int]
  BY DEF TypeOK, Margins, Securities, PositionRow
<1> QED BY <1>1, <1>2, <1>3, <1>4

\* Their totals are natural numbers.
LEMMA PendingTotals ==
  ASSUME TypeOK
  PROVE  /\ Released \in Nat
         /\ Total(PendingWithdrawals, MaxWithdrawals) \in Nat
         /\ \A s \in Securities : Total(PendingSells(s), MaxOrders) \in Nat
<1>1. MaxOrders \in Nat /\ MaxWithdrawals \in Nat
  BY AccountAssumption
<1>2. Released \in Nat
  BY <1>1, ColumnTypes, TotalNatural DEF Released
<1>3. Total(PendingWithdrawals, MaxWithdrawals) \in Nat
  BY <1>1, ColumnTypes, TotalNatural
<1>4. ASSUME NEW s \in Securities
      PROVE  Total(PendingSells(s), MaxOrders) \in Nat
  <2>1. PendingSells(s) \in [1..MaxOrders -> Nat]
    BY ColumnTypes
  <2> HIDE DEF PendingSells
  <2> QED BY <1>1, <2>1, TotalNatural
<1> QED BY <1>2, <1>3, <1>4

\* cancelCustomerPendingOrders keeps the rows well-typed.
LEMMA CancelledTypes ==
  ASSUME TypeOK
  PROVE  /\ CustomerCancelled \in CustomerRow
         /\ PositionsCancelled \in [Securities -> PositionRow]
         /\ OrdersCancelled \in [OrderIds -> OrderRow]
<1>1. CustomerCancelled \in CustomerRow
  <2>1. Released \in Int /\ customer \in CustomerRow
    BY PendingTotals DEF TypeOK
  <2>2. Larger(0, customer.frozen - Released) - customer.frozen \in Int
    BY <2>1 DEF Larger, CustomerRow
  <2> QED BY <2>1, <2>2, BookType DEF CustomerCancelled
<1>2. PositionsCancelled \in [Securities -> PositionRow]
  <2>1. ASSUME NEW s \in Securities
        PROVE  [position[s] EXCEPT !.avail = @ + Total(PendingSells(s), MaxOrders)]
                 \in PositionRow
    <3> DEFINE back == Total(PendingSells(s), MaxOrders)
    <3>1. back \in Int /\ position[s] \in PositionRow
      BY PendingTotals DEF TypeOK
    <3> HIDE DEF back
    <3>2. [position[s] EXCEPT !.avail = @ + back] \in PositionRow
      BY <3>1 DEF PositionRow
    <3> QED BY <3>2 DEF back
  <2>2. \A s \in Securities : position[s] \in PositionRow
    BY DEF TypeOK
  <2>3. ASSUME NEW s \in Securities
        PROVE  (IF position[s].row
                THEN [position[s] EXCEPT !.avail = @ + Total(PendingSells(s), MaxOrders)]
                ELSE position[s]) \in PositionRow
    BY <2>1, <2>2, Zenon
  <2> QED BY <2>3, Zenon DEF PositionsCancelled
<1>3. OrdersCancelled \in [OrderIds -> OrderRow]
  <2>1. ASSUME NEW o \in OrderIds
        PROVE  Settled(orders[o], "cancelled", 0, 0) \in OrderRow /\ orders[o] \in OrderRow
    BY OrderRowType DEF TypeOK
  <2> QED BY <2>1, Zenon DEF OrdersCancelled
<1> QED BY <1>1, <1>2, <1>3

\* The columns of a position row, and a price, are integers.
LEMMA PositionTypes ==
  ASSUME TypeOK, NEW s \in Securities
  PROVE  /\ position[s] \in PositionRow
         /\ position[s].qty \in Int /\ position[s].cost \in Int /\ position[s].margin \in Int
         /\ position[s].avail \in Int /\ position[s].leverage \in Nat
         /\ position[s].level \in Nat
         /\ PositionLeverage(position[s].leverage) \in Int
BY DEF TypeOK, PositionRow, PositionLeverage

\* A quoted price is a natural number.
LEMMA PriceType ==
  ASSUME NEW px \in [Securities -> Prices], NEW s \in Securities
  PROVE  px[s] \in Nat
<1>1. px[s] \in Prices
  OBVIOUS
<1> QED BY <1>1, AccountAssumption

\* The result of closing a position at a price, and what it pays back.
LEMMA ResultTypes ==
  ASSUME TypeOK, NEW px \in [Securities -> Prices]
  PROVE  /\ Results(px) \in [1..NumSecurities -> Int]
         /\ Settlements(px) \in [1..NumSecurities -> Int]
<1>1. ASSUME NEW s \in Securities
      PROVE  Realized(position[s].qty, position[s].cost, position[s].leverage, px[s]) \in Int
  <2>1. /\ position[s].qty \in Int /\ position[s].cost \in Int /\ position[s].leverage \in Nat
        /\ px[s] \in Int
    BY PositionTypes, PriceType
  <2>2. px[s] * position[s].qty - position[s].cost \in Int
    BY <2>1, ProductType
  <2>3. PositionLeverage(position[s].leverage) \in Int
    BY <2>1 DEF PositionLeverage
  <2> QED BY <2>2, <2>3, ProductType DEF Realized
<1>2. Results(px) \in [Securities -> Int]
  <2>1. ASSUME NEW s \in Securities
        PROVE  (IF Open(s)
                THEN Realized(position[s].qty, position[s].cost, position[s].leverage, px[s])
                ELSE 0) \in Int
    BY <1>1
  <2> QED BY <2>1, Zenon DEF Results
<1>3. Settlements(px) \in [Securities -> Int]
  <2>1. ASSUME NEW s \in Securities
        PROVE  (IF Open(s) THEN position[s].margin + Results(px)[s] ELSE 0) \in Int
    <3>1. Results(px)[s] \in Int
      BY <1>2
    <3>2. position[s].margin \in Int
      BY DEF TypeOK, PositionRow
    <3> QED BY <3>1, <3>2
  <2> QED BY <2>1, Zenon DEF Settlements
<1> QED BY <1>2, <1>3 DEF Securities

\* forceCloseAllPositions keeps the rows well-typed.
LEMMA ClosedTypes ==
  ASSUME TypeOK, NEW px \in [Securities -> Prices]
  PROVE  /\ CustomerClosed(px) \in CustomerRow
         /\ PositionsClosed \in [Securities -> PositionRow]
         /\ OpenCount \in Nat
<1>1. CustomerClosed(px) \in CustomerRow
  <2>1. /\ Total(Settlements(px), NumSecurities) \in Int
        /\ Total(Results(px), NumSecurities) \in Int
    BY ResultTypes, TotalType, AccountAssumption
  <2> QED BY <2>1, CancelledTypes, BookType DEF CustomerClosed
<1>2. PositionsClosed \in [Securities -> PositionRow]
  <2>1. ASSUME NEW p \in PositionRow
        PROVE  Closed(p) \in PositionRow
    BY DEF Closed, PositionRow
  <2>2. \A s \in Securities : position[s] \in PositionRow /\ PositionsCancelled[s] \in PositionRow
    BY CancelledTypes DEF TypeOK
  <2> QED BY <2>1, <2>2, Zenon DEF PositionsClosed
<1>3. OpenCount \in Nat
  <2> DEFINE f == [s \in Securities |-> IF Open(s) THEN 1 ELSE 0]
  <2>1. f \in [1..NumSecurities -> Nat]
    BY DEF Securities
  <2>2. Total(f, NumSecurities) \in Nat
    <3> HIDE DEF f
    <3> QED BY <2>1, TotalNatural, AccountAssumption
  <2> QED BY <2>2 DEF OpenCount
<1> QED BY <1>1, <1>2, <1>3

\* The management fee is an integer.
LEMMA ManagementFeeType ==
  ASSUME TypeOK, NEW px \in [Securities -> Prices]
  PROVE  ManagementFee(px) \in Int
<1> DEFINE f == [s \in Securities |->
               IF Open(s) THEN MarketValue(position[s].qty, px[s], position[s].leverage) ELSE 0]
<1>1. f \in [1..NumSecurities -> Int]
  <2>1. ASSUME NEW s \in Securities
        PROVE  (IF Open(s) THEN MarketValue(position[s].qty, px[s], position[s].leverage) ELSE 0)
                 \in Int
    <3>1. position[s].qty \in Int /\ px[s] \in Int
      BY PositionTypes, PriceType
    <3>2. position[s].qty * px[s] \in Int /\ PositionLeverage(position[s].leverage) \in Int
      BY <3>1, ProductType, PositionTypes
    <3> QED BY <3>1, <3>2, ProductType DEF MarketValue
  <2> QED BY <2>1 DEF Securities
<1>2. Total(f, NumSecurities) \in Int
  <2> HIDE DEF f
  <2> QED BY <1>1, TotalType, AccountAssumption
<1>3. Total(f, NumSecurities) * FeeRate \in Int /\ RateScale \in Nat \ {0}
  <2> HIDE DEF f
  <2>1. FeeRate \in Int
    BY AccountAssumption
  <2> QED BY <1>2, <2>1, ProductType, TradeMathAssumption
<1>4. ManagementFee(px) = RoundDiv(Total(f, NumSecurities) * FeeRate, RateScale)
  BY Zenon DEF ManagementFee, DailyManagementFee
<1> HIDE DEF f
<1> QED BY <1>3, <1>4, RoundDivType

\* A margin call's level is natural and its supplements are integers.
LEMMA CallTypes ==
  ASSUME TypeOK, NEW px \in [Securities -> Prices]
  PROVE  /\ \A s \in Securities : Drop(s, px) \in Nat
         /\ Supplements(px) \in [1..NumSecurities -> Int]
         /\ TotalRequired(px) \in Int
<1>1. ASSUME NEW s \in Securities
      PROVE  Drop(s, px) \in Nat
  <2> DEFINE c == position[s].cost
             v == px[s] * position[s].qty
  <2>1. c \in Int /\ v \in Int /\ Percent \in Nat
    <3>1. c \in Int /\ position[s].qty \in Int /\ px[s] \in Int
      BY PositionTypes, PriceType
    <3> QED BY <3>1, ProductType, TradeMathAssumption
  <2>2. Drop(s, px) = IF c <= 0 \/ v >= c THEN 0 ELSE ((c - v) * Percent) \div c
    BY Zenon DEF Drop, PriceDrop
  <2> HIDE DEF c, v
  <2>3. ASSUME c > 0, v < c
        PROVE  ((c - v) * Percent) \div c \in Nat
    <3>1. c - v \in Nat /\ c \in Nat \ {0}
      BY <2>1, <2>3
    <3>2. (c - v) * Percent \in Nat
      BY <3>1, <2>1, ProductType
    <3> DEFINE m == (c - v) * Percent
    <3> HIDE DEF m
    <3>3. m \div c \in Nat
      BY <3>1, <3>2 DEF m
    <3> QED BY <3>3 DEF m
  <2> QED BY <2>1, <2>2, <2>3
<1>2. ASSUME NEW s \in Securities
      PROVE  CallAmount(s, px) \in Int
  <2>1. position[s].qty * px[s] \in Int /\ PositionLeverage(position[s].leverage) \in Int
    <3>1. position[s].qty \in Int /\ px[s] \in Int
      BY PositionTypes, PriceType
    <3> QED BY <3>1, ProductType, PositionTypes
  <2>2. MarketValue(position[s].qty, px[s], position[s].leverage) \in Int
    BY <2>1, ProductType DEF MarketValue
  <2>3. MarginCallRate \in Int /\ RateScale \in Nat \ {0}
    BY AccountAssumption, TradeMathAssumption
  <2>4. MarketValue(position[s].qty, px[s], position[s].leverage) * MarginCallRate \in Int
    BY <2>2, <2>3, ProductType
  <2> QED BY <2>3, <2>4, RoundDivType DEF CallAmount
<1>3. Supplements(px) \in [Securities -> Int]
  <2>1. ASSUME NEW s \in Securities
        PROVE  CallAmount(s, px)
                 * (Drop(s, px) - MarginCallFrom(MarginCallStart, position[s].level) + 1) \in Int
    <3>1. MarginCallFrom(MarginCallStart, position[s].level) \in Int
      BY AccountAssumption DEF TypeOK, PositionRow, MarginCallFrom, Larger
    <3>2. Drop(s, px) - MarginCallFrom(MarginCallStart, position[s].level) + 1 \in Int
      BY <3>1, <1>1
    <3> QED BY <3>2, <1>2, ProductType
  <2> DEFINE f(s) == IF Called(s, px)
                     THEN CallAmount(s, px)
                          * (Drop(s, px) - MarginCallFrom(MarginCallStart, position[s].level) + 1)
                     ELSE 0
  <2>2. \A s \in Securities : f(s) \in Int
    BY <2>1
  <2>3. Supplements(px) = [s \in Securities |-> f(s)]
    BY Zenon DEF Supplements
  <2> HIDE DEF f
  <2> QED BY <2>2, <2>3
<1>4. Supplements(px) \in [1..NumSecurities -> Int]
  BY <1>3 DEF Securities
<1>5. TotalRequired(px) \in Int
  BY <1>4, TotalType, AccountAssumption DEF TotalRequired
<1> QED BY <1>1, <1>4, <1>5

\* The positions rows after a margin call.
LEMMA SupplementedType ==
  ASSUME TypeOK, NEW px \in [Securities -> Prices], NEW base \in [Securities -> PositionRow]
  PROVE  Supplemented(base, px) \in [Securities -> PositionRow]
<1>1. ASSUME NEW s \in Securities
      PROVE  Charged(base[s], Supplements(px)[s], Drop(s, px)) \in PositionRow
  <2>1. Supplements(px)[s] \in Int /\ Drop(s, px) \in Nat
    BY CallTypes DEF Securities
  <2> QED BY <2>1 DEF Charged, PositionRow
<1> QED BY <1>1, Zenon DEF Supplemented

-----------------------------------------------------------------------------
\* A pending order was placed on a listed security, so its settlement finds the
\* position row it has to change.  Type correctness is not inductive without it.
PlacedOnListed == \A o \in OrderIds :
  orders[o].status = "pending" => orders[o].security \in Securities

TypeInv == TypeOK /\ PlacedOnListed

-----------------------------------------------------------------------------
(***************************************************************************)
(* Type correctness.                                                       *)
(***************************************************************************)

\* The empty tables are well-typed.
LEMMA InitType == Init => TypeInv
<1> SUFFICES ASSUME Init PROVE TypeInv
  OBVIOUS
<1>1. NewCustomer \in CustomerRow
  BY DEF NewCustomer, CustomerRow
<1>2. NoPosition \in PositionRow /\ NoRequest \in RequestRow
  BY DEF NoPosition, PositionRow, NoRequest, RequestRow
<1>3. NoOrder \in OrderRow /\ NoOrder.status # "pending"
  BY DEF NoOrder, OrderRow, Directions
<1>4. NoDeposit \in [busy : BOOLEAN, amount : Int, copy : CustomerRow]
  BY <1>1 DEF NoDeposit
<1> QED BY <1>1, <1>2, <1>3, <1>4 DEF Init, TypeInv, TypeOK, PlacedOnListed

\* The values an order or a price is made of are natural numbers.
LEMMA InputTypes ==
  /\ Prices \subseteq Nat /\ Quantities \subseteq Nat /\ Leverages \subseteq Nat
  /\ Amounts \subseteq Nat /\ Deductions \subseteq Nat
BY AccountAssumption

\* Market orders.
LEMMA PlaceOrderType ==
  ASSUME TypeInv, NEW s \in Securities, NEW dir \in Directions, NEW q \in Quantities,
         NEW price \in Prices, NEW lev \in Leverages, PlaceOrder(s, dir, q, price, lev)
  PROVE  TypeInv'
<1>1. q \in Nat /\ price \in Nat /\ lev \in Nat
  BY InputTypes
<1>2. customer \in CustomerRow /\ position[s] \in PositionRow
  BY DEF TypeInv, TypeOK
<1>3. Execute(customer, position[s], s, dir, q, price, lev)
  BY DEF PlaceOrder
<1>4. /\ customer' \in CustomerRow
      /\ position' \in [Securities -> PositionRow]
      /\ records' \in Nat
      /\ net' \in Int
  BY <1>1, <1>2, <1>3, ExecuteType DEF TypeInv
<1> QED BY <1>4 DEF PlaceOrder, TypeInv, TypeOK, PlacedOnListed

\* Placing limit orders.
LEMMA PlaceLimitType ==
  ASSUME TypeInv, NEW o \in OrderIds, NEW s \in Securities, NEW limit \in Prices,
         NEW q \in Quantities, PlaceLimitBuy(o, s, limit, q) \/ PlaceLimitSell(o, s, limit, q)
  PROVE  TypeInv'
<1>1. q \in Nat /\ limit \in Nat
  BY InputTypes
<1>2. CASE PlaceLimitBuy(o, s, limit, q)
  <2> DEFINE d == BuyDebit(s, q, limit)
  <2>1. d \in Nat /\ - d \in Int /\ d \in Int
    BY <1>1, BuyDebitType
  <2>2. customer' = Book(customer, - d, d, 0)
        /\ orders' = [orders EXCEPT ![o] = NewOrder(s, "buy", limit, q, d, 0)]
    BY <1>2 DEF PlaceLimitBuy
  <2> HIDE DEF d
  <2>3. customer' \in CustomerRow
    BY <2>1, <2>2, BookType DEF TypeInv, TypeOK
  <2>4. NewOrder(s, "buy", limit, q, d, 0) \in OrderRow
    BY <1>1, <2>1, OrderRowType DEF Directions
  <2>5. NewOrder(s, "buy", limit, q, d, 0).security = s
    BY DEF NewOrder
  <2> QED BY <1>2, <2>2, <2>3, <2>4, <2>5 DEF PlaceLimitBuy, TypeInv, TypeOK, PlacedOnListed
<1>3. CASE PlaceLimitSell(o, s, limit, q)
  <2>1. NewOrder(s, "sell", limit, q, 0, q) \in OrderRow
    BY <1>1, OrderRowType DEF Directions
  <2>2. NewOrder(s, "sell", limit, q, 0, q).security = s
    BY DEF NewOrder
  <2>3. position' \in [Securities -> PositionRow]
    BY <1>1, <1>3 DEF PlaceLimitSell, TypeInv, TypeOK, PositionRow
  <2> QED BY <1>3, <2>1, <2>2, <2>3 DEF PlaceLimitSell, TypeInv, TypeOK, PlacedOnListed
<1> QED BY <1>2, <1>3

\* Cancelling an order.
LEMMA CancelOrderType ==
  ASSUME TypeInv, NEW o \in OrderIds, CancelOrder(o)
  PROVE  TypeInv'
<1>1. orders[o].security \in Securities
  BY DEF CancelOrder, TypeInv, PlacedOnListed
<1>2. customer' \in CustomerRow /\ position' \in [Securities -> PositionRow]
  BY <1>1, UnfrozenType DEF CancelOrder, ReleaseFreeze, TypeInv, TypeOK
<1>3. orders' \in [OrderIds -> OrderRow] /\ PlacedOnListed'
  BY DEF CancelOrder, TypeInv, TypeOK, OrderRow, PlacedOnListed
<1> QED BY <1>2, <1>3 DEF CancelOrder, TypeInv, TypeOK

\* Filling an order.
LEMMA MatchOrderType ==
  ASSUME TypeInv, NEW o \in OrderIds, NEW price \in Prices, NEW lev \in Leverages,
         MatchOrder(o, price, lev)
  PROVE  TypeInv'
<1> DEFINE s == orders[o].security
           c == IF orders[o].direction = "buy" THEN Unfrozen(o) ELSE customer
           p == IF orders[o].direction = "sell" THEN Unlocked(o) ELSE position[s]
<1>1. s \in Securities
  BY DEF MatchOrder, TypeInv, PlacedOnListed
<1>2. /\ price \in Nat /\ lev \in Nat /\ orders[o].qty \in Nat /\ orders[o].direction \in Directions
      /\ orders[o] \in OrderRow
  BY InputTypes DEF TypeInv, TypeOK, OrderRow
<1>3. c \in CustomerRow /\ p \in PositionRow
  BY <1>1, UnfrozenType DEF TypeInv, TypeOK
<1>4. Execute(c, p, s, orders[o].direction, orders[o].qty, price, lev)
  BY DEF MatchOrder
<1> HIDE DEF c, p
<1>5. /\ customer' \in CustomerRow
      /\ position' \in [Securities -> PositionRow]
      /\ records' \in Nat
      /\ net' \in Int
  BY <1>1, <1>2, <1>3, <1>4, ExecuteType DEF TypeInv
<1>6. /\ Executed(orders[o], records + 1, price) \in OrderRow
      /\ Executed(orders[o], records + 1, price).status = "filled"
  <2>1. records + 1 \in Nat
    BY DEF TypeInv, TypeOK
  <2>2. Executed(orders[o], records + 1, price) \in OrderRow
    BY <1>2, <2>1, OrderRowType
  <2> QED BY <2>2 DEF Executed, Settled
<1>7. orders' = [orders EXCEPT ![o] = Executed(orders[o], records + 1, price)]
  BY DEF MatchOrder
<1>8. orders' \in [OrderIds -> OrderRow] /\ PlacedOnListed'
  BY <1>6, <1>7 DEF TypeInv, TypeOK, PlacedOnListed
<1> QED BY <1>5, <1>8 DEF MatchOrder, TypeInv, TypeOK

\* After cancelling every pending order none is pending.
LEMMA NonePending ==
  ASSUME TypeOK, NEW o \in OrderIds
  PROVE  OrdersCancelled[o].status # "pending"
BY DEF OrdersCancelled, Settled

\* Charging a management fee.
LEMMA PayFeeType ==
  ASSUME NEW c \in CustomerRow, NEW fee \in Int, net \in Int, PayFee(c, fee)
  PROVE  customer' \in CustomerRow /\ net' \in Int
<1>1. c.balance \in Int
  BY DEF CustomerRow
<1> DEFINE left == Larger(0, c.balance - Smaller(Larger(c.balance, 0), fee))
<1>2. left - c.balance \in Int
  BY <1>1 DEF Larger, Smaller
<1>3. customer' = Book(c, left - c.balance, 0, 0) /\ net' = net + left - c.balance
  BY Zenon DEF PayFee
<1>4. left \in Int
  BY <1>1 DEF Larger, Smaller
<1> HIDE DEF left
<1> QED BY <1>1, <1>2, <1>3, <1>4, BookType

\* The three outcomes of the management fee keep the account well typed.
LEMMA FeeType ==
  ASSUME TypeInv, NEW d \in Days, NEW px \in [Securities -> Prices],
         NEW py \in [Securities -> Prices],
         FeeFromBalance(d, px) \/ FeeAfterCancelling(d, px) \/ FeeForced(d, px, py)
  PROVE  TypeInv'
<1>1. ManagementFee(px) \in Int /\ net \in Int /\ customer \in CustomerRow
  BY ManagementFeeType DEF TypeInv, TypeOK
<1>2. CASE FeeFromBalance(d, px)
  <2>1. customer' \in CustomerRow /\ net' \in Int
    BY <1>1, <1>2, PayFeeType DEF FeeFromBalance
  <2> QED BY <1>2, <2>1 DEF FeeFromBalance, FeeDue, TypeInv, TypeOK, PlacedOnListed
<1>3. CASE FeeAfterCancelling(d, px)
  <2>1. customer' \in CustomerRow /\ net' \in Int
    BY <1>1, <1>3, PayFeeType, CancelledTypes DEF FeeAfterCancelling, TypeInv
  <2>2. /\ orders' \in [OrderIds -> OrderRow] /\ PlacedOnListed'
        /\ position' \in [Securities -> PositionRow]
    BY <1>3, CancelledTypes, NonePending DEF FeeAfterCancelling, PlacedOnListed, TypeInv
  <2> QED BY <1>3, <2>1, <2>2 DEF FeeAfterCancelling, FeeDue, TypeInv, TypeOK
<1>4. CASE FeeForced(d, px, py)
  <2>1. customer' \in CustomerRow /\ net' \in Int
    BY <1>1, <1>4, PayFeeType, ClosedTypes DEF FeeForced, TypeInv
  <2>2. /\ orders' \in [OrderIds -> OrderRow] /\ PlacedOnListed'
        /\ position' \in [Securities -> PositionRow]
        /\ OpenCount \in Nat
    BY <1>4, CancelledTypes, NonePending, ClosedTypes DEF FeeForced, PlacedOnListed, TypeInv
  <2> QED BY <1>4, <2>1, <2>2 DEF FeeForced, FeeDue, TypeInv, TypeOK
<1> QED BY <1>2, <1>3, <1>4

\* Margin calls.
LEMMA CallType ==
  ASSUME TypeInv, NEW px \in [Securities -> Prices], NEW py \in [Securities -> Prices],
         CallFromBalance(px) \/ CallAfterCancelling(px) \/ CallForced(px, py)
  PROVE  TypeInv'
<1>1. - TotalRequired(px) \in Int /\ customer \in CustomerRow
  BY CallTypes DEF TypeInv, TypeOK
<1>2. CASE CallFromBalance(px)
  <2>1. customer' \in CustomerRow
    BY <1>1, <1>2, BookType DEF CallFromBalance
  <2>2. position' \in [Securities -> PositionRow]
    BY <1>2, SupplementedType DEF CallFromBalance, TypeInv, TypeOK
  <2> QED BY <1>2, <2>1, <2>2 DEF CallFromBalance, CallDue, TypeInv, TypeOK, PlacedOnListed
<1>3. CASE CallAfterCancelling(px)
  <2>1. customer' \in CustomerRow
    BY <1>1, <1>3, BookType, CancelledTypes DEF CallAfterCancelling, TypeInv
  <2>2. position' \in [Securities -> PositionRow]
    BY <1>3, SupplementedType, CancelledTypes DEF CallAfterCancelling, TypeInv
  <2>3. orders' \in [OrderIds -> OrderRow] /\ PlacedOnListed'
    BY <1>3, CancelledTypes, NonePending DEF CallAfterCancelling, PlacedOnListed, TypeInv
  <2> QED BY <1>3, <2>1, <2>2, <2>3 DEF CallAfterCancelling, CallDue, TypeInv, TypeOK
<1>4. CASE CallForced(px, py)
  <2>1. customer' \in CustomerRow /\ net' \in Int
    <3> DEFINE c == CustomerClosed(py)
               forgiven == Larger(0, c.balance) - c.balance
    <3>1. c \in CustomerRow /\ net \in Int
      BY ClosedTypes DEF TypeInv, TypeOK
    <3>2. customer' = Book(c, forgiven, 0, 0) /\ net' = net + forgiven
      BY <1>4, Zenon DEF CallForced, Forgive
    <3> HIDE DEF c
    <3>3. forgiven \in Int
      BY <3>1 DEF CustomerRow, Larger
    <3> HIDE DEF forgiven
    <3> QED BY <3>1, <3>2, <3>3, BookType
  <2>2. /\ orders' \in [OrderIds -> OrderRow] /\ PlacedOnListed'
        /\ position' \in [Securities -> PositionRow]
        /\ OpenCount \in Nat
    BY <1>4, CancelledTypes, NonePending, ClosedTypes DEF CallForced, PlacedOnListed, TypeInv
  <2> QED BY <1>4, <2>1, <2>2 DEF CallForced, CallDue, TypeInv, TypeOK
<1> QED BY <1>2, <1>3, <1>4

\* A position closed by an administrator.
LEMMA ForceCloseType ==
  ASSUME TypeInv, NEW s \in Securities, NEW price \in Prices, ForceClosePosition(s, price)
  PROVE  TypeInv'
<1> DEFINE p == position[s]
           realized == Realized(p.qty, p.cost, p.leverage, price)
<1>1. p \in PositionRow /\ price \in Int
  BY PositionTypes, InputTypes DEF TypeInv
<1>2. realized \in Int
  <2>1. price * p.qty - p.cost \in Int /\ PositionLeverage(p.leverage) \in Int
    <3>1. p.qty \in Int /\ p.cost \in Int /\ PositionLeverage(p.leverage) \in Int
      BY PositionTypes DEF TypeInv
    <3> QED BY <1>1, <3>1, ProductType
  <2> QED BY <2>1, ProductType DEF Realized
<1>3. customer' = Book(customer, p.margin + realized, 0, realized)
  BY Zenon DEF ForceClosePosition
<1>4. position' = [position EXCEPT ![s] = Closed(p)]
  BY Zenon DEF ForceClosePosition
<1> HIDE DEF realized
<1>5. customer' \in CustomerRow
  <2>1. p.margin + realized \in Int
    BY <1>1, <1>2 DEF PositionRow
  <2> QED BY <1>2, <1>3, <2>1, BookType DEF TypeInv, TypeOK
<1>6. position' \in [Securities -> PositionRow]
  <2>1. Closed(p) \in PositionRow
    BY <1>1 DEF Closed, PositionRow
  <2> HIDE DEF p
  <2> QED BY <1>4, <2>1 DEF TypeInv, TypeOK
<1>7. orders' \in [OrderIds -> OrderRow] /\ PlacedOnListed'
  <2>1. ASSUME NEW o \in OrderIds
        PROVE  /\ orders[o] \in OrderRow
               /\ Settled(orders[o], "cancelled", 0, 0) \in OrderRow
               /\ Settled(orders[o], "cancelled", 0, 0).status # "pending"
    <3>1. orders[o] \in OrderRow
      BY DEF TypeInv, TypeOK
    <3> QED BY <3>1, OrderRowType DEF Settled
  <2>2. orders' = [o \in OrderIds |->
           IF /\ orders[o].status = "pending" /\ orders[o].direction = "sell"
              /\ orders[o].security = s
           THEN Settled(orders[o], "cancelled", 0, 0)
           ELSE orders[o]]
    BY Zenon DEF ForceClosePosition
  <2> QED BY <2>1, <2>2 DEF TypeInv, PlacedOnListed
<1>8. records' \in Nat
  BY DEF ForceClosePosition, TypeInv, TypeOK
<1> QED BY <1>5, <1>6, <1>7, <1>8 DEF ForceClosePosition, TypeInv, TypeOK

\* Transfers.
LEMMA TransferType ==
  ASSUME TypeInv, Transfers
  PROVE  TypeInv'
<1>1. ASSUME NEW r \in RechargeIds, NEW amount \in Amounts, RequestRecharge(r, amount)
      PROVE  TypeInv'
  BY <1>1, InputTypes DEF RequestRecharge, TypeInv, TypeOK, RequestRow, PlacedOnListed
<1>2. ASSUME NEW r \in RechargeIds, NEW approve \in BOOLEAN, ReviewRecharge(r, approve)
      PROVE  TypeInv'
  <2>1. recharges[r].amount \in Int
    BY DEF TypeInv, TypeOK, RequestRow
  <2>2. customer' \in CustomerRow /\ net' \in Int
    <3>1. Book(customer, recharges[r].amount, 0, 0) \in CustomerRow
      BY <2>1, BookType DEF TypeInv, TypeOK
    <3> QED BY <1>2, <2>1, <3>1 DEF ReviewRecharge, TypeInv, TypeOK
  <2>3. recharges' \in [RechargeIds -> RequestRow]
    BY <1>2 DEF ReviewRecharge, TypeInv, TypeOK, RequestRow
  <2> QED BY <1>2, <2>2, <2>3 DEF ReviewRecharge, TypeInv, TypeOK, PlacedOnListed
<1>3. ASSUME NEW w \in WithdrawalIds, NEW amount \in Amounts, RequestWithdrawal(w, amount)
      PROVE  TypeInv'
  <2>1. amount \in Nat /\ amount \in Int /\ - amount \in Int
    BY InputTypes
  <2>2. customer' \in CustomerRow
    BY <1>3, <2>1, BookType DEF RequestWithdrawal, TypeInv, TypeOK
  <2>3. withdrawals' \in [WithdrawalIds -> RequestRow]
    BY <1>3, <2>1 DEF RequestWithdrawal, TypeInv, TypeOK, RequestRow
  <2> QED BY <1>3, <2>2, <2>3 DEF RequestWithdrawal, TypeInv, TypeOK, PlacedOnListed
<1>4. ASSUME NEW w \in WithdrawalIds, NEW approve \in BOOLEAN, ReviewWithdrawal(w, approve)
      PROVE  TypeInv'
  <2>1. withdrawals[w].amount \in Int /\ - withdrawals[w].amount \in Int
    BY DEF TypeInv, TypeOK, RequestRow
  <2>2. customer' \in CustomerRow /\ net' \in Int
    <3>1. /\ Book(customer, 0, - withdrawals[w].amount, 0) \in CustomerRow
          /\ Book(customer, withdrawals[w].amount, - withdrawals[w].amount, 0) \in CustomerRow
      BY <2>1, BookType DEF TypeInv, TypeOK
    <3> QED BY <1>4, <2>1, <3>1 DEF ReviewWithdrawal, TypeInv, TypeOK
  <2>3. withdrawals' \in [WithdrawalIds -> RequestRow]
    BY <1>4 DEF ReviewWithdrawal, TypeInv, TypeOK, RequestRow
  <2> QED BY <1>4, <2>2, <2>3 DEF ReviewWithdrawal, TypeInv, TypeOK, PlacedOnListed
<1> QED BY <1>1, <1>2, <1>3, <1>4 DEF Transfers

\* What administrators do.
LEMMA AdministrationType ==
  ASSUME TypeInv, Administration
  PROVE  TypeInv'
<1>1. ASSUME NEW amount \in Int, ReadDeposit(amount)
      PROVE  TypeInv'
  <2>1. Book(customer, amount, 0, 0) \in CustomerRow
    BY BookType DEF TypeInv, TypeOK
  <2> QED BY <1>1, <2>1 DEF ReadDeposit, TypeInv, TypeOK, PlacedOnListed
<1>2. ASSUME WriteDeposit
      PROVE  TypeInv'
  <2>1. NoDeposit \in [busy : BOOLEAN, amount : Int, copy : CustomerRow]
    BY DEF NoDeposit, NewCustomer, CustomerRow
  <2> QED BY <1>2, <2>1 DEF WriteDeposit, TypeInv, TypeOK, PlacedOnListed
<1>3. ASSUME NEW f \in ToggledFlags, SwitchFlag(f)
      PROVE  TypeInv'
  <2>1. f \in FlagNames
    BY AccountAssumption
  <2> QED BY <1>3, <2>1 DEF SwitchFlag, TypeInv, TypeOK, CustomerRow, PlacedOnListed
<1>4. ASSUME NEW s \in Securities, NEW q \in Quantities \cup {0}, NEW avail \in Quantities \cup {0},
             NEW price \in Prices, NEW lev \in Leverages, NEW enabled \in BOOLEAN,
             SavePosition(s, q, avail, price, lev, enabled)
      PROVE  TypeInv'
  <2>1. q \in Nat /\ avail \in Nat /\ lev \in Nat /\ price \in Nat /\ position[s].level \in Nat
    BY InputTypes, PositionTypes DEF TypeInv
  <2>2. q * price \in Int
    BY <2>1, ProductType
  <2> DEFINE cost == q * price
  <2>3. PICK level \in {0, position[s].level} :
          position' = [position EXCEPT ![s] =
            [row |-> TRUE, qty |-> q, avail |-> avail, cost |-> cost, margin |-> cost,
             leverage |-> lev, level |-> level, enabled |-> enabled]]
    BY <1>4 DEF SavePosition
  <2> HIDE DEF cost
  <2>4. position' \in [Securities -> PositionRow]
    BY <2>1, <2>2, <2>3 DEF TypeInv, TypeOK, PositionRow, cost
  <2> QED BY <1>4, <2>4 DEF SavePosition, TypeInv, TypeOK, PlacedOnListed
<1>5. ASSUME NEW s \in Securities, DeletePosition(s)
      PROVE  TypeInv'
  <2>1. NoPosition \in PositionRow
    BY DEF NoPosition, PositionRow
  <2> QED BY <1>5, <2>1 DEF DeletePosition, TypeInv, TypeOK, PlacedOnListed
<1>6. ASSUME NEW amount \in Amounts, NEW status \in {"pending", "done", "rejected"},
             NEW r \in RechargeIds, CreateRecharge(r, amount, status)
      PROVE  TypeInv'
  BY <1>6, InputTypes DEF CreateRecharge, TypeInv, TypeOK, RequestRow, PlacedOnListed
<1>7. ASSUME NEW amount \in Amounts, NEW status \in {"pending", "done", "rejected"},
             NEW w \in WithdrawalIds, CreateWithdrawal(w, amount, status)
      PROVE  TypeInv'
  BY <1>7, InputTypes DEF CreateWithdrawal, TypeInv, TypeOK, RequestRow, PlacedOnListed
<1>8. \A amount \in Amounts : amount \in Int
  BY InputTypes
<1>9. \A amount \in Deductions : - amount \in Int
  BY InputTypes
<1> QED BY <1>1, <1>2, <1>3, <1>4, <1>5, <1>6, <1>7, <1>8, <1>9, ForceCloseType
       DEF Administration

\* Every step keeps the rows well-typed.
LEMMA StepType ==
  ASSUME TypeInv, [Next]_vars
  PROVE  TypeInv'
<1>1. CASE Trading
  BY <1>1, PlaceOrderType, PlaceLimitType, CancelOrderType, MatchOrderType DEF Trading
<1>2. CASE Batches
  BY <1>2, FeeType, CallType DEF Batches
<1>3. CASE UNCHANGED vars
  BY <1>3 DEF vars, TypeInv, TypeOK, PlacedOnListed
<1> QED BY <1>1, <1>2, <1>3, TransferType, AdministrationType DEF Next

\* The inductive invariant holds in every reachable state.
LEMMA AccountInv == Spec => []TypeInv
<1>1. Init => TypeInv
  BY InitType
<1>2. TypeInv /\ [Next]_vars => TypeInv'
  BY StepType
<1> QED BY <1>1, <1>2, PTL DEF Spec

\* The rows of an account are well-typed in every reachable state, whatever
\* deposits overlap and whatever administrators write by hand.
THEOREM AccountTypeCorrect == Spec => []TypeOK
<1>1. TypeInv => TypeOK
  BY DEF TypeInv
<1> QED BY <1>1, AccountInv, PTL

-----------------------------------------------------------------------------
(***************************************************************************)
(* The orders and transfers of an account: each fill has a trade record of *)
(* its own, and what has been settled is never settled again.              *)
(***************************************************************************)
\* An order that is not filled names no trade record, and records are numbered
\* from 1 in the order they are created; without the first part a cancelled
\* order could share the record of a filled one.
RecordedInv ==
  /\ TypeInv
  /\ FillsRecordedOnce
  /\ \A o \in OrderIds : orders[o].status # "filled" => orders[o].record = 0

\* The steps that leave the filled orders alone and take no record away.
LEMMA RecordedKept ==
  ASSUME RecordedInv, TypeInv', records' >= records,
         \A o \in OrderIds :
           \/ orders'[o] = orders[o]
           \/ /\ orders'[o].status # "filled"
              /\ orders'[o].record = 0 /\ orders'[o].trades = 0,
         \A o \in OrderIds : orders[o].status = "filled" => orders'[o] = orders[o]
  PROVE  RecordedInv'
<1>1. records \in Nat /\ records' \in Nat
  BY DEF RecordedInv, TypeInv, TypeOK
<1>2. ASSUME NEW o \in OrderIds, orders'[o].status = "filled"
      PROVE  orders'[o] = orders[o] /\ orders'[o].record \in 1..records'
  BY <1>1, <1>2 DEF RecordedInv, FillsRecordedOnce
<1>3. ASSUME NEW o \in OrderIds, orders'[o].status = "filled", NEW k \in OrderIds \ {o}
      PROVE  orders'[k].record # orders'[o].record
  <2>1. orders[k].record # orders[o].record /\ orders[o].record # 0
    BY <1>1, <1>2, <1>3 DEF RecordedInv, FillsRecordedOnce
  <2> QED BY <1>2, <1>3, <2>1
<1>4. \A o \in OrderIds : orders'[o].status # "filled" => orders'[o].record = 0
  BY DEF RecordedInv
<1>5. \A o \in OrderIds : orders'[o].trades = IF orders'[o].status = "filled" THEN 1 ELSE 0
  <2>1. ASSUME NEW o \in OrderIds
        PROVE  orders'[o].trades = IF orders'[o].status = "filled" THEN 1 ELSE 0
    <3>1. CASE orders'[o] = orders[o]
      BY <3>1 DEF RecordedInv, FillsRecordedOnce
    <3>2. CASE orders'[o].status # "filled" /\ orders'[o].trades = 0
      BY <3>2
    <3> QED BY <3>1, <3>2
  <2> QED BY <2>1
<1> QED BY <1>2, <1>3, <1>4, <1>5 DEF RecordedInv, FillsRecordedOnce

\* The steps of the batches: orders are left alone or cancelled.
LEMMA BatchOrders ==
  ASSUME TypeInv, Batches
  PROVE  /\ orders' = orders \/ orders' = OrdersCancelled
         /\ records' >= records
         /\ UNCHANGED <<withdrawals, recharges>>
<1>1. PICK px \in [Securities -> Prices], py \in [Securities -> Prices] :
        \/ \E d \in Days :
             FeeFromBalance(d, px) \/ FeeAfterCancelling(d, px) \/ FeeForced(d, px, py)
        \/ CallFromBalance(px) \/ CallAfterCancelling(px) \/ CallForced(px, py)
  BY Zenon DEF Batches
<1>2. records \in Nat /\ OpenCount \in Nat
  BY ClosedTypes DEF TypeInv, TypeOK
<1>3. records' = records \/ records' = records + OpenCount
  BY <1>1 DEF FeeFromBalance, FeeAfterCancelling, FeeForced, CallFromBalance,
     CallAfterCancelling, CallForced
<1> QED BY <1>1, <1>2, <1>3 DEF FeeFromBalance, FeeAfterCancelling, FeeForced, FeeDue,
     CallFromBalance, CallAfterCancelling, CallForced, CallDue

\* The orders after an administrator closed a position.
LEMMA ForceCloseOrders ==
  ASSUME TypeInv, NEW s \in Securities, NEW price \in Prices, ForceClosePosition(s, price)
  PROVE  /\ \A o \in OrderIds : \/ orders'[o] = orders[o]
                                \/ /\ orders[o].status = "pending"
                                   /\ orders'[o].status = "cancelled"
                                   /\ orders'[o].record = 0
                                   /\ orders'[o].trades = orders[o].trades
         /\ records' >= records
         /\ UNCHANGED <<withdrawals, recharges>>
<1>1. orders' = [o \in OrderIds |->
           IF /\ orders[o].status = "pending" /\ orders[o].direction = "sell"
              /\ orders[o].security = s
           THEN Settled(orders[o], "cancelled", 0, 0)
           ELSE orders[o]]
  BY Zenon DEF ForceClosePosition
<1>2. records' = records + 1 /\ UNCHANGED <<withdrawals, recharges>>
  BY Zenon DEF ForceClosePosition
<1> QED BY <1>1, <1>2 DEF Settled, TypeInv, TypeOK

\* Every step keeps the records of filled orders distinct and in the table.
LEMMA RecordedStep ==
  ASSUME RecordedInv, [Next]_vars
  PROVE  RecordedInv'
<1>1. /\ TypeInv /\ TypeInv' /\ TypeOK /\ records \in Nat /\ records' \in Nat
      /\ \A o \in OrderIds : orders[o].status # "filled" =>
           orders[o].record = 0 /\ orders[o].trades = 0
  BY StepType DEF RecordedInv, FillsRecordedOnce, TypeInv, TypeOK
<1>2. ASSUME UNCHANGED orders, records' >= records
      PROVE  RecordedInv'
  BY <1>1, <1>2, RecordedKept
<1>3. CASE Trading
  <2>1. ASSUME NEW s \in Securities, NEW dir \in Directions, NEW q \in Quantities,
               NEW price \in Prices, NEW lev \in Leverages, PlaceOrder(s, dir, q, price, lev)
        PROVE  RecordedInv'
    BY <1>1, <1>2, <2>1 DEF PlaceOrder, Execute
  <2>2. ASSUME NEW o \in OrderIds, NEW s \in Securities, NEW limit \in Prices,
               NEW q \in Quantities, PlaceLimitBuy(o, s, limit, q)
        PROVE  RecordedInv'
    <3>1. \A k \in OrderIds : k # o => orders'[k] = orders[k]
      BY <1>1, <2>2 DEF PlaceLimitBuy, TypeOK
    <3>2. /\ orders[o].status = "none" /\ orders'[o].status = "pending" /\ orders'[o].record = 0
          /\ orders'[o].trades = 0 /\ records' = records
      BY <1>1, <2>2 DEF PlaceLimitBuy, NextOrder, NewOrder, TypeOK
    <3> QED BY <1>1, <3>1, <3>2, RecordedKept
  <2>3. ASSUME NEW o \in OrderIds, NEW s \in Securities, NEW limit \in Prices,
               NEW q \in Quantities, PlaceLimitSell(o, s, limit, q)
        PROVE  RecordedInv'
    <3>1. \A k \in OrderIds : k # o => orders'[k] = orders[k]
      BY <1>1, <2>3 DEF PlaceLimitSell, TypeOK
    <3>2. /\ orders[o].status = "none" /\ orders'[o].status = "pending" /\ orders'[o].record = 0
          /\ orders'[o].trades = 0 /\ records' = records
      BY <1>1, <2>3 DEF PlaceLimitSell, NextOrder, NewOrder, TypeOK
    <3> QED BY <1>1, <3>1, <3>2, RecordedKept
  <2>4. ASSUME NEW o \in OrderIds, CancelOrder(o)
        PROVE  RecordedInv'
    <3>1. \A k \in OrderIds : k # o => orders'[k] = orders[k]
      BY <1>1, <2>4 DEF CancelOrder, TypeOK
    <3>2. /\ orders[o].status = "pending" /\ orders'[o].status = "cancelled"
          /\ orders'[o].record = orders[o].record /\ orders'[o].trades = orders[o].trades
          /\ records' = records
      BY <1>1, <2>4 DEF CancelOrder, TypeOK, OrderRow
    <3> QED BY <1>1, <3>1, <3>2, RecordedKept
  <2>5. ASSUME NEW o \in OrderIds, NEW price \in Prices, NEW lev \in Leverages,
               MatchOrder(o, price, lev)
        PROVE  RecordedInv'
    <3>1. /\ \A k \in OrderIds : k # o => orders'[k] = orders[k]
          /\ orders'[o].status = "filled" /\ orders'[o].record = records + 1
          /\ orders[o].status = "pending" /\ orders'[o].trades = orders[o].trades + 1
      BY <1>1, <2>5 DEF MatchOrder, Executed, Settled, TypeOK
    <3>2. records' = records + 1
      BY <2>5 DEF MatchOrder, Execute
    <3>3. \A k \in OrderIds : orders[k].record \in 0..records
      BY <1>1 DEF RecordedInv, FillsRecordedOnce
    <3>4. orders'[o].trades = 1
      BY <1>1, <3>1
    <3> QED BY <1>1, <3>1, <3>2, <3>3, <3>4 DEF RecordedInv, FillsRecordedOnce
  <2> QED BY <1>3, <2>1, <2>2, <2>3, <2>4, <2>5, Zenon DEF Trading
<1>4. CASE Batches
  <2>1. \A o \in OrderIds : orders[o].status # "pending" => OrdersCancelled[o] = orders[o]
    BY DEF OrdersCancelled
  <2>2. \A o \in OrderIds : orders[o].status = "pending" =>
          /\ OrdersCancelled[o].status = "cancelled" /\ OrdersCancelled[o].record = 0
          /\ OrdersCancelled[o].trades = 0
    BY <1>1 DEF OrdersCancelled, Settled
  <2>3. records' >= records /\ (orders' = orders \/ orders' = OrdersCancelled)
    BY <1>1, <1>4, BatchOrders
  <2> QED BY <1>1, <1>2, <2>1, <2>2, <2>3, RecordedKept
<1>5. CASE Transfers
  BY <1>1, <1>2, <1>5 DEF Transfers, RequestRecharge, ReviewRecharge, RequestWithdrawal,
     ReviewWithdrawal
<1>6. CASE Administration
  <2>1. ASSUME NEW s \in Securities, NEW price \in Prices, ForceClosePosition(s, price)
        PROVE  RecordedInv'
    BY <1>1, <2>1, ForceCloseOrders, RecordedKept
  <2>2. (\E s \in Securities, price \in Prices : ForceClosePosition(s, price))
        \/ UNCHANGED <<orders, records>>
    BY <1>6 DEF Administration, ReadDeposit, WriteDeposit, SwitchFlag, SavePosition,
       DeletePosition, CreateRecharge, CreateWithdrawal
  <2> QED BY <1>1, <1>2, <2>1, <2>2
<1>7. CASE UNCHANGED vars
  BY <1>1, <1>2, <1>7 DEF vars
<1> QED BY <1>3, <1>4, <1>5, <1>6, <1>7 DEF Next

\* An order is executed once if filled and never otherwise, and no two fills share
\* a trade record, whatever
\* deposits overlap and whatever administrators write by hand.
THEOREM FillsRecorded == Spec => []FillsRecordedOnce
<1>1. Init => RecordedInv
  BY InitType DEF Init, RecordedInv, FillsRecordedOnce, NoOrder
<1>2. RecordedInv /\ [Next]_vars => RecordedInv'
  BY RecordedStep
<1>3. RecordedInv => FillsRecordedOnce
  BY DEF RecordedInv
<1> QED BY <1>1, <1>2, <1>3, PTL DEF Spec

-----------------------------------------------------------------------------
\* Every step keeps what has been settled.
LEMMA SettledKept ==
  ASSUME TypeInv, [Next]_vars
  PROVE  KeepsSettled
<1>1. TypeOK
  BY DEF TypeInv
<1>2. CASE Trading
  <2>1. UNCHANGED <<withdrawals, recharges>>
    BY <1>2 DEF Trading, PlaceOrder, PlaceLimitBuy, PlaceLimitSell, CancelOrder, MatchOrder
  <2>2. ASSUME NEW k \in OrderIds, orders[k].status \in {"filled", "cancelled"}
        PROVE  orders'[k] = orders[k]
    BY <1>1, <1>2, <2>2 DEF Trading, PlaceOrder, PlaceLimitBuy, PlaceLimitSell, NextOrder,
       CancelOrder, MatchOrder, TypeOK
  <2> QED BY <2>1, <2>2 DEF KeepsSettled
<1>3. CASE Batches
  <2>1. \A o \in OrderIds : orders[o].status # "pending" => OrdersCancelled[o] = orders[o]
    BY DEF OrdersCancelled
  <2> QED BY <1>3, <2>1, BatchOrders DEF KeepsSettled
<1>4. CASE Transfers
  BY <1>1, <1>4 DEF Transfers, RequestRecharge, ReviewRecharge, RequestWithdrawal,
     ReviewWithdrawal, KeepsSettled, TypeOK
<1>5. CASE Administration
  <2>1. ASSUME NEW s \in Securities, NEW price \in Prices, ForceClosePosition(s, price)
        PROVE  KeepsSettled
    BY <2>1, ForceCloseOrders DEF KeepsSettled
  <2>2. ASSUME NEW amount, NEW status, NEW r \in RechargeIds, CreateRecharge(r, amount, status)
        PROVE  KeepsSettled
    BY <1>1, <2>2 DEF CreateRecharge, KeepsSettled, TypeOK
  <2>3. ASSUME NEW amount, NEW status, NEW w \in WithdrawalIds, CreateWithdrawal(w, amount, status)
        PROVE  KeepsSettled
    BY <1>1, <2>3 DEF CreateWithdrawal, KeepsSettled, TypeOK
  <2>4. ASSUME UNCHANGED <<orders, withdrawals, recharges>>
        PROVE  KeepsSettled
    BY <2>4 DEF KeepsSettled
  <2> QED BY <1>5, <2>1, <2>2, <2>3, <2>4 DEF Administration, ReadDeposit, WriteDeposit,
       SwitchFlag, SavePosition, DeletePosition
<1>6. CASE UNCHANGED vars
  BY <1>6 DEF vars, KeepsSettled
<1> QED BY <1>2, <1>3, <1>4, <1>5, <1>6 DEF Next

\* A filled or cancelled order and a reviewed transfer are never settled again.
THEOREM SettledOnce == Spec => SettledForGood
<1>1. TypeInv /\ [Next]_vars => [KeepsSettled]_vars
  BY SettledKept
<1> QED BY <1>1, AccountInv, PTL DEF Spec, SettledForGood
=============================================================================
