----------------------------- MODULE MathProofs -----------------------------
(***************************************************************************)
(* The arithmetic that the theorems about accounts rest on: types and signs*)
(* of the trading arithmetic for every setting of the rates, and what a    *)
(* Total over the rows of a table is and how one change of a row moves it. *)
(***************************************************************************)
EXTENDS TradeMath, Sums, Iteration, TLAPS

\* Products of integers are integers, and of naturals naturals.
LEMMA ProductType ==
  /\ \A a, b \in Int : a * b \in Int
  /\ \A a, b \in Nat : a * b \in Nat
  OBVIOUS

\* A quotient rounded half away from zero is an integer, and a natural one
\* when its numerator is.
LEMMA RoundDivType ==
  ASSUME NEW n \in Int, NEW d \in Nat \ {0}
  PROVE  RoundDiv(n, d) \in Int /\ (n >= 0 => RoundDiv(n, d) \in Nat)
<1> DEFINE e == 2 * d
<1>1. e \in Nat \ {0}
  OBVIOUS
<1>2. \A m \in Nat : m \div e \in Nat
  <2> HIDE DEF e
  <2> QED BY <1>1
<1>3. CASE n >= 0
  <2>1. 2 * n + d \in Nat
    BY <1>3
  <2>2. (2 * n + d) \div (2 * d) \in Nat
    BY <1>2, <2>1
  <2> QED BY <1>3, <2>2 DEF RoundDiv
<1>4. CASE n < 0
  <2>1. d - 2 * n \in Nat
    BY <1>4
  <2>2. (d - 2 * n) \div (2 * d) \in Nat
    BY <1>2, <2>1
  <2> QED BY <1>4, <2>2 DEF RoundDiv
<1> QED BY <1>3, <1>4

\* The quotient of a sum of multiples: division by e of e * k plus less than e.
LEMMA DivExact ==
  ASSUME NEW e \in Nat \ {0}, NEW k \in Int, NEW r \in 0..(e-1)
  PROVE  (e * k + r) \div e = k
<1> DEFINE n == e * k + r
           m == n \div e
<1>1. e * k \in Int
  BY ProductType
<1>2. n \in Int
  BY <1>1
<1>3. m \in Int /\ e * m <= n /\ n < e * m + e
  <2> HIDE DEF n
  <2> QED BY <1>2
<1> HIDE DEF m
<1>4. CASE m < k
  <2>1. k - m - 1 \in Nat
    BY <1>3, <1>4
  <2>2. e * (k - m - 1) \in Nat
    BY <2>1, ProductType
  <2>3. e * (k - m - 1) = e * k - e * m - e
    BY <1>3
  <2>4. e * m \in Int
    BY <1>3, ProductType
  <2> DEFINE a == e * k
             b == e * m
             c == e * (k - m - 1)
  <2>5. a \in Int /\ b \in Int /\ c \in Nat /\ c = a - b - e /\ a + r < b + e
    BY <1>1, <1>3, <2>2, <2>3, <2>4
  <2> HIDE DEF a, b, c
  <2> QED BY <2>5
<1>5. CASE m > k
  <2>1. m - k - 1 \in Nat
    BY <1>3, <1>5
  <2>2. e * (m - k - 1) \in Nat
    BY <2>1, ProductType
  <2>3. e * (m - k - 1) = e * m - e * k - e
    BY <1>3
  <2>4. e * m \in Int
    BY <1>3, ProductType
  <2> DEFINE a == e * k
             b == e * m
             c == e * (m - k - 1)
  <2>5. a \in Int /\ b \in Int /\ c \in Nat /\ c = b - a - e /\ b <= a + r
    BY <1>1, <1>3, <2>2, <2>3, <2>4
  <2> HIDE DEF a, b, c
  <2> QED BY <2>5
<1> QED BY <1>3, <1>4, <1>5 DEF m

\* Rounding an exact quotient changes nothing.
LEMMA RoundDivExact ==
  ASSUME NEW a \in Int, NEW d \in Nat \ {0}
  PROVE  RoundDiv(a * d, d) = a
<1> DEFINE e == 2 * d
<1>1. e \in Nat \ {0} /\ d \in 0..(e-1)
  OBVIOUS
<1>2. \A k \in Int : (e * k + d) \div e = k
  <2> HIDE DEF e
  <2> QED BY <1>1, DivExact
<1>3. a * d \in Int
  BY ProductType
<1>4. CASE a * d >= 0
  <2>1. 2 * (a * d) + d = e * a + d
    OBVIOUS
  <2>2. (2 * (a * d) + d) \div (2 * d) = a
    BY <1>2, <2>1
  <2> QED BY <1>4, <2>2 DEF RoundDiv
<1>5. CASE ~ (a * d >= 0)
  <2>1. d - 2 * (a * d) = e * (-a) + d
    OBVIOUS
  <2>2. -a \in Int /\ - (-a) = a
    OBVIOUS
  <2>3. (d - 2 * (a * d)) \div (2 * d) = -a
    BY <1>2, <2>1, <2>2
  <2> QED BY <1>5, <2>2, <2>3 DEF RoundDiv
<1> QED BY <1>4, <1>5

\* A rounded share of an amount is not more than the amount.
LEMMA RoundDivShare ==
  ASSUME NEW a \in Nat, NEW d \in Nat \ {0}, NEW q \in 0..d
  PROVE  RoundDiv(a * q, d) \in Nat /\ RoundDiv(a * q, d) <= a
<1> DEFINE e == 2 * d
           n == a * q
           m == (2 * n + d) \div e
<1>1. e \in Nat \ {0} /\ d < e
  OBVIOUS
<1>2. n \in Nat
  BY ProductType
<1>3. n <= a * d
  <2>1. a * (d - q) \in Nat
    BY ProductType
  <2>2. a * (d - q) = a * d - a * q
    OBVIOUS
  <2>3. a * d \in Nat /\ a * q \in Nat
    BY ProductType
  <2> QED BY <2>1, <2>2, <2>3
<1>4. RoundDiv(n, d) = m
  <2>1. n >= 0
    BY <1>2
  <2> QED BY <2>1, Zenon DEF RoundDiv
<1>5. m \in Int /\ e * m <= 2 * n + d /\ RoundDiv(n, d) \in Nat
  <2>1. 2 * n + d \in Int
    BY <1>2
  <2> DEFINE k == 2 * n + d
  <2>2. k \in Int /\ m = k \div e
    BY <2>1
  <2>3. RoundDiv(n, d) \in Nat
    <3> HIDE DEF n
    <3> QED BY <1>2, RoundDivType
  <2> HIDE DEF k, e
  <2>4. k \div e \in Int /\ e * (k \div e) <= k
    BY <1>1, <2>2
  <2> QED BY <2>2, <2>3, <2>4 DEF k
<1>6. CASE m > a
  <2> HIDE DEF m
  <2>1. m - a - 1 \in Nat
    BY <1>5, <1>6
  <2>2. d * (m - a - 1) \in Nat
    BY <2>1, ProductType
  <2>3. d * (m - a - 1) = d * m - a * d - d
    BY <1>5
  <2>4. e * m = 2 * (d * m)
    BY <1>5
  <2>5. d * m \in Int /\ a * d \in Int
    BY <1>5, ProductType
  <2> DEFINE x == d * m
             y == a * d
             z == d * (m - a - 1)
             w == e * m
  <2>6. x \in Int /\ y \in Int /\ z \in Nat /\ z = x - y - d /\ w = 2 * x
        /\ w <= 2 * n + d /\ n <= y /\ n \in Nat
    BY <1>2, <1>3, <1>5, <2>2, <2>3, <2>4, <2>5
  <2> HIDE DEF x, y, z, w, n, e
  <2> QED BY <2>6
<1> QED BY <1>4, <1>5, <1>6

\* A rate applied to an amount of money gives a natural amount.
LEMMA RatedType ==
  ASSUME NEW amount \in Nat, NEW rate \in Nat
  PROVE  RoundDiv(amount * rate, RateScale) \in Nat
<1>1. amount * rate \in Nat
  BY ProductType
<1>2. RateScale \in Nat \ {0}
  BY TradeMathAssumption
<1> DEFINE m == amount * rate
<1>3. m \in Int /\ m >= 0
  BY <1>1
<1> HIDE DEF m
<1>4. RoundDiv(m, RateScale) \in Nat
  BY <1>2, <1>3, RoundDivType
<1> QED BY <1>4 DEF m

\* The commission is a natural amount whatever the market.
LEMMA CommissionType ==
  ASSUME NEW market \in Markets, NEW amount \in Nat, NEW direction \in Directions
  PROVE  Commission(market, amount, direction) \in Nat
<1>1. ASSUME NEW rate \in Nat, NEW minimum \in Nat
      PROVE  CommissionAmount(amount, rate, minimum) \in Nat
  BY RatedType DEF CommissionAmount, Larger
<1> QED BY <1>1, TradeMathAssumption DEF Commission

\* The total fee of a trade is a natural amount, so buying never pays the buyer.
LEMMA TradeFeeType ==
  ASSUME NEW market \in Markets, NEW amount \in Nat, NEW direction \in Directions
  PROVE  TradeFee(market, amount, direction) \in Nat
<1>1. Commission(market, amount, direction) \in Nat
  BY CommissionType
<1>2. TransferRate(market, direction) \in Nat /\ StampRate(market, direction) \in Nat
  BY TradeMathAssumption DEF TransferRate, StampRate
<1>3. /\ RoundDiv(amount * TransferRate(market, direction), RateScale) \in Nat
      /\ RoundDiv(amount * StampRate(market, direction), RateScale) \in Nat
  BY <1>2, RatedType
<1> QED BY <1>1, <1>3 DEF TradeFee

\* Division by a positive number keeps the order.
LEMMA DivMonotone ==
  ASSUME NEW e \in Nat \ {0}, NEW a \in Int, NEW b \in Int, a <= b
  PROVE  a \div e <= b \div e
<1> DEFINE m == a \div e
           n == b \div e
<1>1. m \in Int /\ n \in Int /\ e * m <= a /\ b < e * n + e
  OBVIOUS
<1> HIDE DEF m, n
<1>2. CASE m > n
  <2>1. m - n - 1 \in Nat
    BY <1>1, <1>2
  <2>2. e * (m - n - 1) \in Nat
    BY <2>1, ProductType
  <2>3. e * (m - n - 1) = e * m - e * n - e
    BY <1>1
  <2>4. e * m \in Int /\ e * n \in Int
    BY <1>1, ProductType
  <2> DEFINE x == e * m
             y == e * n
             z == e * (m - n - 1)
  <2>5. x \in Int /\ y \in Int /\ z \in Nat /\ z = x - y - e /\ x <= a /\ b < y + e
    BY <1>1, <2>2, <2>3, <2>4
  <2> HIDE DEF x, y, z
  <2> QED BY <2>5
<1>3. m <= n
  BY <1>1, <1>2
<1> QED BY <1>3 DEF m, n

\* So does rounding a quotient, and applying a rate.
LEMMA RatedMonotone ==
  ASSUME NEW a \in Nat, NEW b \in Nat, a <= b, NEW rate \in Nat
  PROVE  RoundDiv(a * rate, RateScale) <= RoundDiv(b * rate, RateScale)
<1> DEFINE m == a * rate
           n == b * rate
           d == RateScale
<1>1. m \in Nat /\ n \in Nat /\ m <= n
  <2>1. (b - a) * rate \in Nat
    <3>1. b - a \in Nat
      OBVIOUS
    <3> QED BY <3>1, ProductType
  <2>2. (b - a) * rate = n - m
    OBVIOUS
  <2>3. m \in Nat /\ n \in Nat
    BY ProductType
  <2> HIDE DEF m, n
  <2> QED BY <2>1, <2>2, <2>3
<1>2. d \in Nat \ {0}
  BY TradeMathAssumption
<1> HIDE DEF m, n, d
<1>3. 2 * d \in Nat \ {0} /\ 2 * m + d \in Int /\ 2 * n + d \in Int /\ 2 * m + d <= 2 * n + d
  BY <1>1, <1>2
<1>4. (2 * m + d) \div (2 * d) <= (2 * n + d) \div (2 * d)
  BY <1>3, DivMonotone
<1>5. RoundDiv(m, d) <= RoundDiv(n, d)
  BY <1>1, <1>4 DEF RoundDiv
<1> QED BY <1>5 DEF m, n, d

\* A larger trade is not charged less.
LEMMA TradeFeeMonotone ==
  ASSUME NEW market \in Markets, NEW direction \in Directions,
         NEW a \in Nat, NEW b \in Nat, a <= b
  PROVE  TradeFee(market, a, direction) <= TradeFee(market, b, direction)
<1>1. ASSUME NEW rate \in Nat, NEW minimum \in Nat
      PROVE  CommissionAmount(a, rate, minimum) <= CommissionAmount(b, rate, minimum)
  <2>1. RoundDiv(a * rate, RateScale) <= RoundDiv(b * rate, RateScale)
    BY RatedMonotone
  <2>2. RoundDiv(a * rate, RateScale) \in Nat /\ RoundDiv(b * rate, RateScale) \in Nat
    BY RatedType
  <2> QED BY <2>1, <2>2 DEF CommissionAmount, Larger
<1>2. Commission(market, a, direction) <= Commission(market, b, direction)
  BY <1>1, TradeMathAssumption DEF Commission
<1>3. TransferRate(market, direction) \in Nat /\ StampRate(market, direction) \in Nat
  BY TradeMathAssumption DEF TransferRate, StampRate
<1>4. \A rate \in Nat : /\ RoundDiv(a * rate, RateScale) <= RoundDiv(b * rate, RateScale)
                        /\ RoundDiv(a * rate, RateScale) \in Nat
                        /\ RoundDiv(b * rate, RateScale) \in Nat
  BY RatedMonotone, RatedType
<1>5. Commission(market, a, direction) \in Nat /\ Commission(market, b, direction) \in Nat
  BY CommissionType
<1> DEFINE t(x) == RoundDiv(x * TransferRate(market, direction), RateScale)
           u(x) == RoundDiv(x * StampRate(market, direction), RateScale)
           c(x) == Commission(market, x, direction)
<1>6. /\ t(a) <= t(b) /\ t(a) \in Nat /\ t(b) \in Nat
      /\ u(a) <= u(b) /\ u(a) \in Nat /\ u(b) \in Nat
  BY <1>3, <1>4
<1>7. /\ TradeFee(market, a, direction) = c(a) + t(a) + u(a)
      /\ TradeFee(market, b, direction) = c(b) + t(b) + u(b)
  BY Zenon DEF TradeFee
<1>8. c(a) <= c(b) /\ c(a) \in Nat /\ c(b) \in Nat
  BY <1>2, <1>5
<1> HIDE DEF t, u, c
<1> QED BY <1>6, <1>7, <1>8

-----------------------------------------------------------------------------
(***************************************************************************)
(* What Total returns, without induction over an operator: existence and   *)
(* uniqueness of the partial sums are proved from a least counterexample   *)
(* (every non-empty set of naturals has a least element), and the other    *)
(* lemmas exhibit the partial sums of one column from those of another.    *)
(***************************************************************************)

\* s is the function of partial sums of the column f over rows 1..n.
PartialSums(f, n, s) ==
  s = [i \in 0..n |-> IF i = 0 THEN 0 ELSE s[i-1] + f[i]]

\* Partial sums exist for every column of integers.
LEMMA PartialSumsExist ==
  ASSUME NEW n \in Nat, NEW f \in [1..n -> Int]
  PROVE  \E s \in [0..n -> Int] : PartialSums(f, n, s)
<1> DEFINE Good(i) == \E s \in [0..i -> Int] : PartialSums(f, i, s)
           Bad == {i \in 0..n : ~ Good(i)}
<1>1. SUFFICES ASSUME Bad # {} PROVE FALSE
  OBVIOUS
<1>2. PICK m \in Bad : \A k \in Bad : m <= k
  <2>1. Bad \in SUBSET Nat
    OBVIOUS
  <2> HIDE DEF Bad
  <2> QED BY <1>1, <2>1, LeastElement
<1>3. m # 0
  <2>1. SUFFICES Good(0)
    BY <1>2
  <2>2. /\ [i \in 0..0 |-> 0] \in [0..0 -> Int]
        /\ PartialSums(f, 0, [i \in 0..0 |-> 0])
    BY DEF PartialSums
  <2> QED BY <2>2
<1>4. m \in Nat /\ m - 1 \in 0..n /\ m \in 1..n /\ m - 1 \in Nat
  BY <1>2, <1>3
<1>5. PICK s \in [0..(m-1) -> Int] : PartialSums(f, m-1, s)
  BY <1>2, <1>4
<1> DEFINE t == [i \in 0..m |-> IF i = m THEN s[m-1] + f[m] ELSE s[i]]
<1>6. t \in [0..m -> Int]
  BY <1>4, <1>5
<1>7. PartialSums(f, m, t)
  <2>1. ASSUME NEW i \in 0..m
        PROVE  t[i] = IF i = 0 THEN 0 ELSE t[i-1] + f[i]
    <3>1. CASE i = m
      BY <3>1, <1>4
    <3>2. CASE i # m
      <4>1. i \in 0..(m-1) /\ (i # 0 => i - 1 \in 0..(m-1))
        BY <3>2, <1>4
      <4>2. s[i] = IF i = 0 THEN 0 ELSE s[i-1] + f[i]
        BY <4>1, <1>5 DEF PartialSums
      <4> QED BY <4>1, <4>2, <3>2, <1>4
    <3> QED BY <3>1, <3>2
  <2> QED BY <2>1 DEF PartialSums
<1> QED BY <1>6, <1>7, <1>2

\* Partial sums are unique, in their last value at least.
LEMMA PartialSumsUnique ==
  ASSUME NEW n \in Nat, NEW f \in [1..n -> Int],
         NEW s \in [0..n -> Int], PartialSums(f, n, s),
         NEW t, PartialSums(f, n, t)
  PROVE  s[n] = t[n]
<1> DEFINE Bad == {i \in 0..n : s[i] # t[i]}
<1>1. SUFFICES ASSUME Bad # {} PROVE FALSE
  OBVIOUS
<1>2. PICK m \in Bad : \A k \in Bad : m <= k
  <2>1. Bad \in SUBSET Nat
    OBVIOUS
  <2> HIDE DEF Bad
  <2> QED BY <1>1, <2>1, LeastElement
<1>3. m # 0
  BY <1>2 DEF PartialSums
<1>4. m - 1 \in 0..n /\ m - 1 \notin Bad /\ m \in 1..n
  BY <1>2, <1>3
<1>5. s[m] = s[m-1] + f[m] /\ t[m] = t[m-1] + f[m]
  BY <1>4 DEF PartialSums
<1> QED BY <1>2, <1>4, <1>5

\* Total is the last partial sum.
LEMMA TotalIs ==
  ASSUME NEW n \in Nat, NEW f \in [1..n -> Int],
         NEW s \in [0..n -> Int], PartialSums(f, n, s)
  PROVE  Total(f, n) = s[n]
<1> DEFINE c == CHOOSE t : t = [i \in 0..n |-> IF i = 0 THEN 0 ELSE t[i-1] + f[i]]
<1>1. c = [i \in 0..n |-> IF i = 0 THEN 0 ELSE c[i-1] + f[i]]
  BY DEF PartialSums
<1>2. PartialSums(f, n, c)
  BY <1>1 DEF PartialSums
<1>3. s[n] = c[n]
  <2> HIDE DEF c
  <2> QED BY <1>2, PartialSumsUnique
<1>4. Total(f, n) = c[n]
  BY DEF Total
<1> QED BY <1>3, <1>4

\* The total of integers is an integer.
LEMMA TotalType ==
  ASSUME NEW n \in Nat, NEW f \in [1..n -> Int]
  PROVE  Total(f, n) \in Int
<1>1. PICK s \in [0..n -> Int] : PartialSums(f, n, s)
  BY PartialSumsExist
<1>2. Total(f, n) = s[n]
  BY <1>1, TotalIs
<1> QED BY <1>2

\* Changing one row changes the total by the difference of that row.
LEMMA TotalUpdate ==
  ASSUME NEW n \in Nat, NEW f \in [1..n -> Int], NEW g \in [1..n -> Int],
         NEW k \in 1..n, \A i \in 1..n : i # k => g[i] = f[i]
  PROVE  Total(g, n) = Total(f, n) - f[k] + g[k]
<1>1. PICK s \in [0..n -> Int] : PartialSums(f, n, s)
  BY PartialSumsExist
<1> DEFINE t == [i \in 0..n |-> IF i < k THEN s[i] ELSE s[i] - f[k] + g[k]]
<1>2. t \in [0..n -> Int]
  BY <1>1
<1>3. PartialSums(g, n, t)
  <2>1. ASSUME NEW i \in 0..n
        PROVE  t[i] = IF i = 0 THEN 0 ELSE t[i-1] + g[i]
    <3>1. s[i] = IF i = 0 THEN 0 ELSE s[i-1] + f[i]
      BY <1>1 DEF PartialSums
    <3>2. CASE i = 0
      BY <3>1, <3>2
    <3>3. CASE i # 0
      <4>1. i \in 1..n /\ i - 1 \in 0..n
        BY <3>3
      <4>2. s[i] = s[i-1] + f[i] /\ s[i-1] \in Int /\ s[i] \in Int
        BY <3>1, <3>3, <4>1, <1>1
      <4>3. f[i] \in Int /\ g[i] \in Int /\ f[k] \in Int /\ g[k] \in Int
        BY <4>1
      <4>4. CASE i < k
        BY <4>1, <4>2, <4>3, <4>4, <3>3
      <4>5. CASE i = k
        BY <4>1, <4>2, <4>3, <4>5, <3>3
      <4>6. CASE i > k
        BY <4>1, <4>2, <4>3, <4>6, <3>3
      <4> QED BY <4>4, <4>5, <4>6
    <3> QED BY <3>2, <3>3
  <2> QED BY <2>1 DEF PartialSums
<1>4. Total(g, n) = t[n]
  BY <1>2, <1>3, TotalIs
<1>5. Total(f, n) = s[n]
  BY <1>1, TotalIs
<1>6. ~ (n < k) /\ n \in 0..n
  OBVIOUS
<1> QED BY <1>4, <1>5, <1>6

\* Columns that agree on 1..n have the same total.
LEMMA TotalEqual ==
  ASSUME NEW n \in Nat, NEW f \in [1..n -> Int], NEW g \in [1..n -> Int],
         \A i \in 1..n : g[i] = f[i]
  PROVE  Total(g, n) = Total(f, n)
<1>1. f = g
  OBVIOUS
<1> QED BY <1>1

\* A column of zeros has total zero.
LEMMA TotalZero ==
  ASSUME NEW n \in Nat, NEW f \in [1..n -> Int], \A i \in 1..n : f[i] = 0
  PROVE  Total(f, n) = 0
<1> DEFINE t == [i \in 0..n |-> 0]
<1>1. t \in [0..n -> Int] /\ t[n] = 0
  OBVIOUS
<1>2. PartialSums(f, n, t)
  <2>1. ASSUME NEW i \in 0..n
        PROVE  t[i] = IF i = 0 THEN 0 ELSE t[i-1] + f[i]
    <3>1. CASE i # 0
      <4>1. i \in 1..n /\ i - 1 \in 0..n
        BY <3>1
      <4> QED BY <4>1, <3>1
    <3> QED BY <3>1
  <2> QED BY <2>1 DEF PartialSums
<1>3. Total(f, n) = t[n]
  BY <1>1, <1>2, TotalIs
<1> QED BY <1>1, <1>3

\* A column of naturals has a non-negative total.
LEMMA TotalNatural ==
  ASSUME NEW n \in Nat, NEW f \in [1..n -> Nat]
  PROVE  Total(f, n) \in Nat
<1>1. f \in [1..n -> Int]
  OBVIOUS
<1>2. PICK s \in [0..n -> Int] : PartialSums(f, n, s)
  BY <1>1, PartialSumsExist
<1> DEFINE Bad == {i \in 0..n : s[i] < 0}
<1>3. Bad = {}
  <2>1. SUFFICES ASSUME Bad # {} PROVE FALSE
    OBVIOUS
  <2>2. PICK m \in Bad : \A k \in Bad : m <= k
    <3>1. Bad \in SUBSET Nat
      OBVIOUS
    <3> HIDE DEF Bad
    <3> QED BY <2>1, <3>1, LeastElement
  <2>3. m # 0
    BY <2>2, <1>2 DEF PartialSums
  <2>4. m - 1 \in 0..n /\ m - 1 \notin Bad /\ m \in 1..n
    BY <2>2, <2>3
  <2>5. s[m] = s[m-1] + f[m] /\ s[m-1] >= 0
    BY <2>4, <1>2 DEF PartialSums
  <2> QED BY <2>2, <2>4, <2>5
<1>4. Total(f, n) = s[n]
  BY <1>1, <1>2, TotalIs
<1>5. n \in 0..n /\ n \notin Bad
  BY <1>3
<1> QED BY <1>2, <1>4, <1>5

\* One row of a column of naturals is at most the total.
LEMMA TotalCovers ==
  ASSUME NEW n \in Nat, NEW f \in [1..n -> Nat], NEW k \in 1..n
  PROVE  f[k] <= Total(f, n)
<1> DEFINE g == [f EXCEPT ![k] = 0]
<1>1. g \in [1..n -> Nat] /\ f \in [1..n -> Int] /\ g \in [1..n -> Int]
  OBVIOUS
<1>2. g[k] = 0 /\ \A i \in 1..n : i # k => g[i] = f[i]
  OBVIOUS
<1>3. Total(g, n) \in Nat
  BY <1>1, TotalNatural
<1>4. Total(g, n) = Total(f, n) - f[k] + g[k]
  <2> HIDE DEF g
  <2> QED BY <1>1, <1>2, TotalUpdate
<1>5. Total(f, n) \in Int
  BY <1>1, TotalType
<1> QED BY <1>2, <1>3, <1>4, <1>5
\* The total of the sums of two columns is the sum of their totals.
LEMMA TotalAdd ==
  ASSUME NEW n \in Nat, NEW f \in [1..n -> Int], NEW g \in [1..n -> Int],
         NEW h \in [1..n -> Int], \A i \in 1..n : h[i] = f[i] + g[i]
  PROVE  Total(h, n) = Total(f, n) + Total(g, n)
<1>1. PICK s \in [0..n -> Int] : PartialSums(f, n, s)
  BY PartialSumsExist
<1>2. PICK t \in [0..n -> Int] : PartialSums(g, n, t)
  BY PartialSumsExist
<1> DEFINE u == [i \in 0..n |-> s[i] + t[i]]
<1>3. u \in [0..n -> Int]
  BY <1>1, <1>2
<1>4. PartialSums(h, n, u)
  <2>1. ASSUME NEW i \in 0..n
        PROVE  u[i] = IF i = 0 THEN 0 ELSE u[i-1] + h[i]
    <3>1. /\ s[i] = IF i = 0 THEN 0 ELSE s[i-1] + f[i]
          /\ t[i] = IF i = 0 THEN 0 ELSE t[i-1] + g[i]
      BY <1>1, <1>2 DEF PartialSums
    <3>2. CASE i = 0
      BY <3>1, <3>2
    <3>3. CASE i # 0
      <4>1. i \in 1..n /\ i - 1 \in 0..n
        BY <3>3
      <4> QED BY <3>1, <3>3, <4>1
    <3> QED BY <3>2, <3>3
  <2> QED BY <2>1 DEF PartialSums
<1>5. Total(f, n) = s[n] /\ Total(g, n) = t[n]
  BY <1>1, <1>2, TotalIs
<1>6. Total(h, n) = u[n]
  BY <1>3, <1>4, TotalIs
<1> QED BY <1>5, <1>6
=============================================================================
