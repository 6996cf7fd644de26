----------------------------- MODULE TradeMath ------------------------------
(***************************************************************************)
(* The arithmetic of the mobile trading handlers                           *)
(* (api/app/v1/open/mobile/trade.go, limit_order.go, margin_call.go,       *)
(* management_fee.go and platform/trade/position.go).                      *)
(*                                                                         *)
(* Money is an integer number of cents and prices are integers, so that    *)
(* price * quantity needs no rounding; a rate is an integer number of      *)
(* 1/RateScale and its product is rounded by RoundDiv, which is what       *)
(* roundMoney does (math.Round: half away from zero).                      *)
(***************************************************************************)
EXTENDS Integers

CONSTANTS
  RateScale,          \* denominator of every rate
  Percent,            \* 100 in the code: price drops are counted in per cent
  LotSize,            \* 100 shares in the code
  MinStarShares,      \* Limits.MinStarShares
  BuyCommission, SellCommission, MinCommission, StampDuty, TransferFee,
  HKCommission, HKMinCommission, HKStampDuty, HKLevies

ASSUME TradeMathAssumption ==
  /\ RateScale \in Nat \ {0} /\ Percent \in Nat \ {0} /\ LotSize \in Nat \ {0}
  /\ MinStarShares \in Nat
  /\ BuyCommission \in Nat /\ SellCommission \in Nat /\ MinCommission \in Nat
  /\ StampDuty \in Nat /\ TransferFee \in Nat
  /\ HKCommission \in Nat /\ HKMinCommission \in Nat
  /\ HKStampDuty \in Nat /\ HKLevies \in Nat

Markets    == {"SH", "SZ", "HK"}
Directions == {"buy", "sell"}

Larger(a, b)  == IF a >= b THEN a ELSE b
Smaller(a, b) == IF a <= b THEN a ELSE b

\* roundMoney of the quotient n / d, for d > 0: half away from zero.
RoundDiv(n, d) ==
  IF n >= 0 THEN (2 * n + d) \div (2 * d) ELSE - ((d - 2 * n) \div (2 * d))

CommissionAmount(amount, rate, minimum) ==
  IF rate <= 0 THEN 0
  ELSE Larger(RoundDiv(amount * rate, RateScale), Larger(0, minimum))

\* isShanghaiSecurity / isHongKongSecurity are read off the security's market.
TransferRate(market, direction) ==
  IF market = "HK" THEN HKLevies
  ELSE IF market = "SH" \/ direction = "sell" THEN TransferFee ELSE 0

StampRate(market, direction) ==
  IF direction = "buy" THEN 0 ELSE IF market = "HK" THEN HKStampDuty ELSE StampDuty

Commission(market, amount, direction) ==
  IF market = "HK" THEN CommissionAmount(amount, HKCommission, HKMinCommission)
  ELSE CommissionAmount(amount, IF direction = "sell" THEN SellCommission ELSE BuyCommission,
                        MinCommission)

\* The totalFee of calculateTradeFees; its management fee is always zero there.
TradeFee(market, amount, direction) ==
  Commission(market, amount, direction)
  + RoundDiv(amount * TransferRate(market, direction), RateScale)
  + RoundDiv(amount * StampRate(market, direction), RateScale)

PositionLeverage(leverage) == IF leverage >= 1 THEN leverage ELSE 1

\* calculatePositionValues, the market value.
MarketValue(quantity, price, leverage) == quantity * price * PositionLeverage(leverage)

\* The lot rule of validateSecurityTradeAt (buys only).
ValidBuyQuantity(board, quantity) ==
  IF board = "star" THEN quantity >= MinStarShares ELSE quantity % LotSize = 0

\* dailyManagementFee.
DailyManagementFee(value, rate) == RoundDiv(value * rate, RateScale)

\* positionPriceDropRate, floored to whole levels.  CostPrice is TotalCost /
\* PositionQty, so the drop is taken on the cost of the whole position.
PriceDrop(cost, quantity, price) ==
  IF cost <= 0 \/ price * quantity >= cost THEN 0
  ELSE ((cost - price * quantity) * Percent) \div cost

\* pendingMarginCallRange: the levels from..to that are still to be charged.
MarginCallFrom(startLoss, lastLevel) == Larger(lastLevel, startLoss - 1) + 1
MarginCallPending(drop, startLoss, lastLevel) == MarginCallFrom(startLoss, lastLevel) <= drop

\* realized and settlement of a position closed at a price
\* (forceCloseAllPositions, calculateForceCloseSettlement).
Realized(quantity, cost, leverage, price) == (price * quantity - cost) * PositionLeverage(leverage)
=============================================================================
