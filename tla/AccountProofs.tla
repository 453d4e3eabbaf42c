----------------------------- MODULE AccountProofs -----------------------------
(***************************************************************************)
(* What the operators beneath the instructions do to a market and to a     *)
(* user.  The oracle, the funding rate, the fees and the settlement of     *)
(* funding keep types and counters and do not move a market's net          *)
(* position, reserves, k and peg, and a funding rate is set in a later     *)
(* period than the one before.  A trade finds its slot; adjustments of the *)
(* curve move no position; a liquidation only closes, and in tame markets  *)
(* it closes no more than there is.                                        *)
(***************************************************************************)
EXTENDS TradeProofs

SameCurve(m, n) ==
    /\ n.base_asset_amount = m.base_asset_amount /\ SameSides(m, n)
    /\ SameReserves(m, n)
    /\ n.sqrt_k = m.sqrt_k
    /\ n.peg_multiplier = m.peg_multiplier
    /\ n.minimum_trade_size = m.minimum_trade_size
    /\ n.initialized = m.initialized

\* A step of a market from m to n that is not a trade, and one that collects
\* no fee.
Still(m, n) ==
    Good(n) /\ SameCurve(m, n) /\ SamePace(m, n) /\ Distributed(n) = Distributed(m)
Kept(m, n) == Still(m, n) /\ SameFee(m, n)

\* The long side is not short, and the short side not long.
Signed(m) == m.base_asset_amount_long >= 0 /\ m.base_asset_amount_short <= 0

\* The funding rate was not set, or it was in a later period than before and
\* pays out no more than it takes in.
Paced(m, n) ==
    \/ SamePace(m, n)
    \/ /\ n.funding_period = m.funding_period
       /\ m.funding_period > 0 =>
            n.last_funding_rate_ts \div m.funding_period
                > m.last_funding_rate_ts \div m.funding_period
       /\ Signed(n) => FundingReceived(m, n) <= 1

\* Such a step that may set the funding rate.
Funded(m, n) == Good(n) /\ SameCurve(m, n) /\ Paced(m, n)

\* Steps that keep the curve compose.
LEMMA KeptTwice ==
    ASSUME NEW m, NEW n, NEW r, Kept(m, n), Kept(n, r)
    PROVE  Kept(m, r)
BY DEF Kept, Still, SameCurve, SameSides, SamePace, SameFee, SameReserves

\* What a funding rate pays depends on the rates before it and on the pool.
LEMMA SameReceived ==
    ASSUME NEW m, NEW n, NEW r, SamePace(m, n), Distributed(n) = Distributed(m)
    PROVE  FundingReceived(m, r) = FundingReceived(n, r)
BY DEF FundingReceived, SamePace

\* The funding rate may be set after them.
LEMMA StillFunded ==
    ASSUME NEW m, NEW n, NEW r, Still(m, n), Funded(n, r)
    PROVE  Funded(m, r)
<1>1. FundingReceived(m, r) = FundingReceived(n, r)
  BY SameReceived DEF Still
<1> QED
  BY <1>1 DEF Still, Funded, SameCurve, SameSides, SamePace, SameReserves, Paced

\* A market is kept by doing nothing to it.
LEMMA KeptSame == ASSUME NEW m, Good(m) PROVE Kept(m, m)
BY DEF Kept, Still, SameCurve, SameSides, SamePace, SameFee, SameReserves

(***************************************************************************)
(* The oracle                                                              *)
(***************************************************************************)
\* Whatever the source of the oracle, a reading of it has the type of one.
LEMMA OraclePrice ==
    ASSUME NEW m, NEW o \in OracleType
    PROVE  get_oracle_price(m, o) \in OracleType
BY DEF get_oracle_price, OracleType

\* The normalised oracle price is an integer.
LEMMA OracleProcessed ==
    ASSUME NEW m \in MarketType, NEW o \in OracleType, mark_price_ok(m)
    PROVE  oracle_processed(m, o) \in Int
<1>1. mark_price(m) \in Nat
  BY PriceType DEF mark_price, mark_price_ok, MarketType
<1>2. o.price \in Int /\ o.conf \in Nat
  BY DEF OracleType
<1>3. mark_price(m) \div 10000 \in Nat
  BY <1>1, DivNat
<1> QED
  BY <1>1, <1>2, <1>3 DEF oracle_processed, Smaller, Larger

\* A capped update of the oracle price is an integer.
LEMMA CappedPrice ==
    ASSUME NEW m \in MarketType, NEW price \in Int
    PROVE  capped_oracle_update_price(m, price) \in Int
<1>1. m.last_oracle_price_twap \in Int
  BY DEF MarketType
<1>2. Quot(price, 3) \in Int
  BY QuotType
<1> QED
  BY <1>1, <1>2 DEF capped_oracle_update_price

\* The new oracle twap is an integer.
LEMMA NewOracleTwap ==
    ASSUME NEW m \in MarketType, NEW price \in Nat, NEW ts \in Nat
    PROVE  calculate_new_oracle_price_twap(m, ts, price) \in Int
<1> DEFINE old == m.last_oracle_price_twap_ts
           last == IF m.last_oracle_price > 0 THEN m.last_oracle_price ELSE price
           x == interpolated_oracle_price(m, price)
           w1 == since_last(ts, old)
           w2 == from_start(m.funding_period, ts, old)
<1>1. /\ old \in Nat /\ m.funding_period \in Nat /\ m.last_oracle_price \in Int
      /\ m.last_oracle_price_twap \in Int
  BY DEF MarketType
<1>2. w1 \in Nat \ {0} /\ w2 \in Nat \ {0}
  BY <1>1 DEF since_last, from_start, Larger
<1>3. x \in Int
  <2>1. last \in Nat
    BY <1>1
  <2>2. x = Smaller(last + (last \div 1000), Larger(last - (last \div 1000), price))
    BY DEF interpolated_oracle_price
  <2> HIDE DEF last, x
  <2>3. last \div 1000 \in Nat
    BY <2>1, DivNat
  <2> QED
    BY <2>1, <2>2, <2>3 DEF Smaller, Larger
<1>4. calculate_new_oracle_price_twap(m, ts, price)
        = calculate_twap(x, m.last_oracle_price_twap, w1, w2)
  BY DEF calculate_new_oracle_price_twap
<1> HIDE DEF x, w1, w2
<1> DEFINE y == m.last_oracle_price_twap
<1>5. y \in Int
  BY <1>1
<1> HIDE DEF y
<1>6. calculate_twap(x, y, w1, w2) \in Int
  BY <1>2, <1>3, <1>5, TwapInt
<1> QED
  BY <1>4, <1>6 DEF y

\* update_oracle_price_twap moves nothing but the oracle's price and twap.
LEMMA OracleTwap ==
    ASSUME NEW m, Good(m), NEW price \in Int, NEW ts \in Nat
    PROVE  Kept(m, update_oracle_price_twap(m, ts, price))
<1> DEFINE capped == capped_oracle_update_price(m, price)
           twap   == calculate_new_oracle_price_twap(m, ts, capped)
           n      == [m EXCEPT !.last_oracle_price = capped,
                               !.last_oracle_price_twap = twap,
                               !.last_oracle_price_twap_ts = ts]
<1>1. m \in MarketType
  BY DEF Good
<1>2. CASE capped > 0 /\ price > 0
  <2>1. update_oracle_price_twap(m, ts, price) = n
    BY <1>2 DEF update_oracle_price_twap
  <2>2. capped \in Nat /\ capped \in Int
    BY <1>1, <1>2, CappedPrice
  <2>3. twap \in Int
    BY <1>1, <2>2, NewOracleTwap
  <2> HIDE DEF capped, twap
  <2>4. n \in MarketType
    BY <1>1, <2>2, <2>3 DEF MarketType
  <2>5. /\ IsNet(n) /\ SameCurve(m, n) /\ SamePace(m, n) /\ SameFee(m, n)
        /\ Distributed(n) = Distributed(m)
    BY <1>1 DEF Good, IsNet, SameCurve, SameSides, SamePace, SameFee, SameReserves, Distributed,
                MarketType
  <2> QED
    BY <2>1, <2>4, <2>5 DEF Kept, Still, Good
<1>3. CASE ~(capped > 0 /\ price > 0)
  <2>1. update_oracle_price_twap(m, ts, price) = m
    BY <1>3 DEF update_oracle_price_twap
  <2> QED
    BY <2>1, KeptSame
<1> QED
  BY <1>2, <1>3

(***************************************************************************)
(* The funding rate                                                        *)
(***************************************************************************)
\* A funding payment is an integer, in either precision.
LEMMA FundingPayment ==
    ASSUME NEW r \in Int, NEW b \in Int
    PROVE  /\ funding_payment(r, b) \in Int
           /\ calculate_funding_payment_in_quote_precision(r, b) \in Int
<1> DEFINE x == unsigned_abs(r) * unsigned_abs(b)
           y == x \div MARK_PRICE_PRECISION
           z == y \div FUNDING_PAYMENT_PRECISION
<1>1. unsigned_abs(r) \in Nat /\ unsigned_abs(b) \in Nat
  BY DEF unsigned_abs
<1>2. x \in Nat
  BY <1>1, TimesNat
<1>3. y \in Nat
  BY <1>2, DivNat, PrecisionAssumption
<1>4. z \in Nat
  BY <1>3, DivNat, PrecisionAssumption
<1>5. funding_payment(r, b) \in {z, -z}
  BY DEF funding_payment
<1> HIDE DEF z
<1>6. funding_payment(r, b) \in Int
  BY <1>4, <1>5
<1>7. AMM_TO_QUOTE_PRECISION_RATIO \in Int \ {0}
  BY PrecisionFacts
<1> QED
  BY <1>6, <1>7, QuotType DEF calculate_funding_payment_in_quote_precision

\* The market's share of its fees is a natural number, at most all of them.
LEMMA LowerBound ==
    ASSUME NEW m \in MarketType
    PROVE  total_fee_lower_bound(m) \in Nat /\ total_fee_lower_bound(m) <= m.total_fee
<1>1. m.total_fee \in Nat
  BY DEF MarketType
<1> QED
  BY <1>1 DEF total_fee_lower_bound, SHARE_OF_FEES_ALLOCATED_TO_CLEARING_HOUSE_NUMERATOR,
              SHARE_OF_FEES_ALLOCATED_TO_CLEARING_HOUSE_DENOMINATOR

\* What funding takes from the fee pool, and the rates it sets, are integers.
LEMMA FundingPnl ==
    ASSUME NEW m \in MarketType, NEW r \in Int
    PROVE  /\ uncapped_funding_pnl(m, r) \in Int
           /\ funding_rate_pnl_limit(m) \in Int
           /\ capped_funding_pnl(m, r) \in Int
<1>1. m.base_asset_amount \in Int /\ m.total_fee_minus_distributions \in Nat
  BY DEF MarketType
<1>2. uncapped_funding_pnl(m, r) \in Int
  <2> DEFINE b == m.base_asset_amount
             paid == calculate_funding_payment_in_quote_precision(r, b)
  <2>1. b \in Int /\ uncapped_funding_pnl(m, r) = -paid
    BY <1>1 DEF uncapped_funding_pnl
  <2> HIDE DEF b
  <2>2. paid \in Int
    BY <2>1, FundingPayment
  <2> HIDE DEF paid
  <2> QED
    BY <2>1, <2>2
<1>3. funding_rate_pnl_limit(m) \in Int
  <2> DEFINE low == total_fee_lower_bound(m)
             excess == m.total_fee_minus_distributions - low
             limit == (excess * 2) \div 3
  <2>1. CASE m.total_fee_minus_distributions > low
    <3>1. excess * 2 \in Nat
      BY <1>1, <2>1, LowerBound
    <3>2. limit \in Nat
      BY <3>1, DivNat
    <3>3. funding_rate_pnl_limit(m) = -limit
      BY <2>1 DEF funding_rate_pnl_limit
    <3> HIDE DEF limit
    <3> QED
      BY <3>2, <3>3
  <2>2. CASE ~(m.total_fee_minus_distributions > low)
    BY <2>2 DEF funding_rate_pnl_limit
  <2> QED
    BY <2>1, <2>2
<1> QED
  BY <1>2, <1>3 DEF capped_funding_pnl, Larger

\* The capped rate is an integer.
LEMMA CappedRate ==
    ASSUME NEW m \in MarketType, NEW r \in Int
    PROVE  calculate_capped_funding_rate(m, r) \in Int
<1> DEFINE payer    == IF r > 0 THEN m.base_asset_amount_long ELSE m.base_asset_amount_short
           receiver == IF r < 0 THEN m.base_asset_amount_long ELSE m.base_asset_amount_short
           users == calculate_funding_payment_in_quote_precision(r, payer)
           limit == funding_rate_pnl_limit(m) - unsigned_abs(users)
           biased == IF limit < 0 THEN limit + 1 ELSE limit
           capped == calculate_funding_rate_from_pnl_limit(limit, receiver)
<1>1. payer \in Int /\ receiver \in Int
  BY DEF MarketType
<1>2. calculate_capped_funding_rate(m, r) \in {capped, r}
  BY DEF calculate_capped_funding_rate
<1> HIDE DEF payer, receiver
<1>3. users \in Int
  BY <1>1, FundingPayment
<1> HIDE DEF users
<1>4. limit \in Int
  BY <1>3, FundingPnl DEF unsigned_abs
<1>5. capped = IF receiver = 0 THEN 0
               ELSE Quot(biased * QUOTE_TO_BASE_AMT_FUNDING_PRECISION, receiver)
  BY DEF calculate_funding_rate_from_pnl_limit
<1> HIDE DEF limit, capped
<1>6. biased \in Int
  BY <1>4
<1> HIDE DEF biased
<1>7. biased * QUOTE_TO_BASE_AMT_FUNDING_PRECISION \in Int
  BY <1>6, PrecisionFacts
<1>8. capped \in Int
  BY <1>1, <1>5, <1>7, QuotType
<1> QED
  BY <1>2, <1>8

\* The rate of a period of at most a day is an integer.
LEMMA PeriodRate ==
    ASSUME NEW m \in MarketType, 24 * ONE_HOUR >= m.funding_period
    PROVE  period_funding_rate(m) \in Int
<1> DEFINE period == Larger(ONE_HOUR, m.funding_period)
           adjustment == (24 * ONE_HOUR) \div period
           max == Quot(m.last_oracle_price_twap, 33)
           spread == m.last_mark_price_twap - m.last_oracle_price_twap
           clamped == Larger(-max, Smaller(spread, max))
<1>1. /\ m.funding_period \in Nat /\ m.last_oracle_price_twap \in Int
      /\ m.last_mark_price_twap \in Nat
  BY DEF MarketType
<1>2. ONE_HOUR \in Nat \ {0} /\ FUNDING_PAYMENT_PRECISION \in Nat
  BY PrecisionAssumption
<1>3. period \in Nat \ {0} /\ period <= 24 * ONE_HOUR
  BY <1>1, <1>2 DEF Larger
<1>4. period_funding_rate(m) = Quot(clamped * FUNDING_PAYMENT_PRECISION, adjustment)
  BY DEF period_funding_rate
<1> HIDE DEF period
<1>5. adjustment \in Nat \ {0}
  BY <1>2, <1>3
<1>6. max \in Int
  BY <1>1, QuotType
<1>7. spread \in Int
  BY <1>1
<1> HIDE DEF adjustment, max, spread
<1>8. clamped \in Int
  BY <1>6, <1>7 DEF Larger, Smaller
<1> HIDE DEF clamped
<1>9. clamped * FUNDING_PAYMENT_PRECISION \in Int
  BY <1>2, <1>8
<1> QED
  BY <1>4, <1>5, <1>9, QuotType

(***************************************************************************)
(* What a funding rate pays                                                *)
(***************************************************************************)
\* The payment for a unit of position at a rate of one is a unit of quote
\* divided by this.
PaymentUnit == MARK_PRICE_PRECISION * FUNDING_PAYMENT_PRECISION * AMM_TO_QUOTE_PRECISION_RATIO

\* q is the number of whole units k in x.
Whole(q, x, k) == q \in Nat /\ q * k <= x /\ x < (q + 1) * k

Pay(r, b) == calculate_funding_payment_in_quote_precision(r, b)

\* The quotients by two numbers, one after the other, are the quotient by their product.
LEMMA WholeTwice ==
    ASSUME NEW x \in Nat, NEW a \in Nat \ {0}, NEW b \in Nat \ {0}, NEW y, Whole(y, x, a),
           NEW q, Whole(q, y, b)
    PROVE  Whole(q, x, a * b)
<1>1. y \in Nat /\ q \in Nat
  BY DEF Whole
<1>2. q * b <= y /\ y + 1 <= (q + 1) * b
  BY <1>1 DEF Whole
<1>3. q * b \in Nat /\ (q + 1) * b \in Nat
  BY <1>1
<1>4. (q * b) * a <= y * a
  BY <1>1, <1>2, <1>3
<1>5. (y + 1) * a <= ((q + 1) * b) * a
  BY <1>1, <1>2, <1>3
<1>6. (q * b) * a = q * (a * b) /\ ((q + 1) * b) * a = (q + 1) * (a * b)
  BY <1>1
<1>7. y * a <= x /\ x < (y + 1) * a
  BY DEF Whole
<1>8. q * (a * b) <= x
  BY <1>1, <1>4, <1>6, <1>7
<1>9. x < (q + 1) * (a * b)
  BY <1>1, <1>5, <1>6, <1>7
<1> QED
  BY <1>1, <1>8, <1>9 DEF Whole

LEMMA WholeDiv ==
    ASSUME NEW x \in Nat, NEW k \in Nat \ {0}
    PROVE  Whole(x \div k, x, k)
BY DivBounds, DivNat DEF Whole

\* Whole units add up, but for the one that the two remainders make.
LEMMA WholeSum ==
    ASSUME NEW x \in Nat, NEW y \in Nat, NEW k \in Nat \ {0}, NEW p, NEW q, NEW s,
           Whole(p, x, k), Whole(q, y, k), Whole(s, x + y, k)
    PROVE  p + q <= s /\ s <= p + q + 1
<1>1. p \in Nat /\ q \in Nat /\ s \in Nat
  BY DEF Whole
<1>2. /\ p * k <= x /\ x < (p + 1) * k /\ q * k <= y /\ y < (q + 1) * k
      /\ s * k <= x + y /\ x + y < (s + 1) * k
  BY DEF Whole
<1>3. /\ (p + 1) * k = p * k + k /\ (q + 1) * k = q * k + k /\ (s + 1) * k = s * k + k
      /\ (p + q) * k = p * k + q * k /\ (p + q + 2) * k = p * k + q * k + k + k
      /\ p * k \in Nat /\ q * k \in Nat /\ s * k \in Nat
  BY <1>1
<1>4. (p + q) * k < (s + 1) * k /\ s * k < (p + q + 2) * k
  BY <1>2, <1>3
<1>5. ASSUME NEW a \in Nat, NEW b \in Nat, a * k < b * k PROVE a < b
  BY <1>5
<1>6. p + q \in Nat /\ s + 1 \in Nat /\ p + q + 2 \in Nat
  BY <1>1
<1>7. p + q < s + 1 /\ s < p + q + 2
  BY <1>1, <1>4, <1>5, <1>6
<1> QED
  BY <1>1, <1>7

LEMMA UnitType ==
    /\ PaymentUnit \in Nat \ {0}
    /\ QUOTE_TO_BASE_AMT_FUNDING_PRECISION = PaymentUnit
<1> DEFINE a == AMM_TO_QUOTE_PRECISION_RATIO
           mf == MARK_PRICE_PRECISION * FUNDING_PAYMENT_PRECISION
           q == QUOTE_PRECISION
<1>1. a \in Nat \ {0} /\ q \in Nat \ {0} /\ AMM_RESERVE_PRECISION \in Nat
  BY PrecisionFacts, PrecisionAssumption
<1>2. mf \in Nat \ {0}
  BY PrecisionAssumption
<1>3. AMM_RESERVE_PRECISION = a * q
  BY PrecisionAssumption DEF AMM_TO_QUOTE_PRECISION_RATIO
<1>4. PaymentUnit = mf * a
  BY DEF PaymentUnit
<1>5. QUOTE_TO_BASE_AMT_FUNDING_PRECISION = (AMM_RESERVE_PRECISION * mf) \div q
  <2>1. AMM_RESERVE_PRECISION * MARK_PRICE_PRECISION * FUNDING_PAYMENT_PRECISION
          = AMM_RESERVE_PRECISION * mf
    BY PrecisionAssumption
  <2> QED
    BY <2>1 DEF QUOTE_TO_BASE_AMT_FUNDING_PRECISION
<1> HIDE DEF a, mf, q
<1>6. AMM_RESERVE_PRECISION * mf = (mf * a) * q
  BY <1>1, <1>2, <1>3
<1>7. mf * a \in Nat \ {0}
  BY <1>1, <1>2
<1>8. ASSUME NEW x \in Nat PROVE (x * q) \div q = x
  BY <1>1
<1> QED
  BY <1>4, <1>5, <1>6, <1>7, <1>8

LEMMA MinusZero == ASSUME NEW w \in Int, w <= 0, w >= 0 PROVE -w = w
OBVIOUS

\* A payment is the whole units of the product of rate and position; whoever is
\* on the side of the rate pays it.
LEMMA PaymentValue ==
    ASSUME NEW r \in Int, NEW b \in Int
    PROVE  \E q : /\ Whole(q, unsigned_abs(r) * unsigned_abs(b), PaymentUnit)
                  /\ Pay(r, b) = IF (r > 0) = (b > 0) THEN -q ELSE q
<1> DEFINE x == unsigned_abs(r) * unsigned_abs(b)
           y == x \div MARK_PRICE_PRECISION
           z == y \div FUNDING_PAYMENT_PRECISION
           q == z \div AMM_TO_QUOTE_PRECISION_RATIO
           a == AMM_TO_QUOTE_PRECISION_RATIO
           mp == MARK_PRICE_PRECISION
           fp == FUNDING_PAYMENT_PRECISION
<1>1. unsigned_abs(r) \in Nat /\ unsigned_abs(b) \in Nat
  BY DEF unsigned_abs
<1>2. x \in Nat
  BY <1>1, TimesNat
<1>3. mp \in Nat \ {0} /\ fp \in Nat \ {0} /\ a \in Nat \ {0}
  BY PrecisionAssumption, PrecisionFacts
<1>4. funding_payment(r, b) = IF (r > 0) = (b > 0) THEN -z ELSE z
  BY DEF funding_payment
<1>5. y \in Nat /\ Whole(y, x, mp)
  <2> HIDE DEF x
  <2> QED
    BY <1>2, <1>3, DivNat, WholeDiv
<1> HIDE DEF x, y
<1>6. z \in Nat /\ Whole(z, y, fp)
  BY <1>3, <1>5, DivNat, WholeDiv
<1> HIDE DEF z
<1>7. q \in Nat /\ Whole(q, z, a)
  BY <1>3, <1>6, DivNat, WholeDiv
<1>8. Quot(z, a) = q /\ Quot(-z, a) = -q
  <2>1. unsigned_abs(z) = z /\ unsigned_abs(-z) = z /\ unsigned_abs(a) = a
    BY <1>3, <1>6 DEF unsigned_abs
  <2>2. CASE z <= 0
    <3> HIDE DEF q, a
    <3>1. q * a <= 0
      BY <1>3, <1>6, <1>7, <2>2 DEF Whole
    <3>2. q <= 0 /\ q >= 0 /\ q \in Int
      BY <1>3, <1>7, <3>1
    <3>3. -q = q
      BY <3>2, MinusZero
    <3>4. z \div a = q
      BY DEF q, a
    <3>5. Quot(z, a) \in {q, -q} /\ Quot(-z, a) \in {q, -q}
      BY <2>1, <3>4 DEF Quot, a
    <3> QED
      BY <3>3, <3>5
  <2>3. CASE z > 0
    <3>1. -z < 0 /\ ~(z < 0) /\ ~(a < 0)
      BY <1>3, <1>6, <2>3
    <3> HIDE DEF a
    <3> QED
      BY <2>1, <3>1 DEF Quot, a
  <2> QED
    BY <1>6, <2>2, <2>3
<1> HIDE DEF q
<1>9. Pay(r, b) = IF (r > 0) = (b > 0) THEN -q ELSE q
  BY <1>4, <1>8 DEF Pay, calculate_funding_payment_in_quote_precision
<1>10. Whole(q, x, PaymentUnit)
  <2> HIDE DEF a, mp, fp
  <2>1. Whole(z, x, mp * fp)
    BY <1>2, <1>3, <1>5, <1>6, WholeTwice DEF x
  <2>2. mp * fp \in Nat \ {0}
    BY <1>3
  <2>3. Whole(q, x, (mp * fp) * a)
    BY <1>2, <1>3, <1>7, <2>1, <2>2, WholeTwice DEF x
  <2> QED
    BY <2>3 DEF PaymentUnit, a, mp, fp
<1> QED
  BY <1>9, <1>10 DEF x

\* The two sides of a market.
LEMMA PaymentSides ==
    ASSUME NEW r \in Int, NEW b \in Int
    PROVE  \E q : /\ Whole(q, unsigned_abs(r) * unsigned_abs(b), PaymentUnit)
                  /\ b >= 0 => Pay(r, b) = IF r > 0 THEN -q ELSE q
                  /\ b <= 0 => Pay(r, b) = IF r > 0 THEN q ELSE -q
<1>1. PICK q : /\ Whole(q, unsigned_abs(r) * unsigned_abs(b), PaymentUnit)
               /\ Pay(r, b) = IF (r > 0) = (b > 0) THEN -q ELSE q
  BY PaymentValue
<1>2. q \in Nat
  BY <1>1 DEF Whole
<1>3. b = 0 => q = 0
  <2>1. SUFFICES ASSUME b = 0 PROVE q = 0
    OBVIOUS
  <2>2. unsigned_abs(r) * unsigned_abs(b) = 0
    BY <2>1 DEF unsigned_abs
  <2>3. q * PaymentUnit <= 0
    BY <1>1, <2>2 DEF Whole
  <2> QED
    BY <1>2, <2>3, UnitType
<1>4. b >= 0 => Pay(r, b) = IF r > 0 THEN -q ELSE q
  <2>1. CASE b > 0
    BY <1>1, <2>1
  <2>2. CASE b = 0
    BY <1>1, <1>3, <2>2
  <2> QED
    BY <2>1, <2>2
<1>5. b <= 0 => Pay(r, b) = IF r > 0 THEN q ELSE -q
  <2>1. CASE b < 0
    BY <1>1, <2>1
  <2>2. CASE b = 0
    BY <1>1, <1>3, <2>2
  <2> QED
    BY <2>1, <2>2
<1> QED
  BY <1>1, <1>4, <1>5

\* What both sides receive at the same rate, less what their net position
\* receives, is at most a unit.
LEMMA SidesAndNet ==
    ASSUME NEW r \in Int, NEW long \in Nat, NEW short \in Int, short <= 0
    PROVE  Pay(r, long) + Pay(r, short) - Pay(r, long + short) <= 1
<1> DEFINE a == unsigned_abs(r)
           S == -short
           net == long + short
<1>1. a \in Nat /\ S \in Nat /\ net \in Int
  BY DEF unsigned_abs
<1>2. PICK l : Whole(l, a * unsigned_abs(long), PaymentUnit)
               /\ Pay(r, long) = IF r > 0 THEN -l ELSE l
  BY PaymentSides
<1>3. PICK s : Whole(s, a * unsigned_abs(short), PaymentUnit)
               /\ Pay(r, short) = IF r > 0 THEN s ELSE -s
  BY PaymentSides
<1>4. PICK n : /\ Whole(n, a * unsigned_abs(net), PaymentUnit)
               /\ net >= 0 => Pay(r, net) = IF r > 0 THEN -n ELSE n
               /\ net <= 0 => Pay(r, net) = IF r > 0 THEN n ELSE -n
  BY <1>1, PaymentSides
<1>5. l \in Nat /\ s \in Nat /\ n \in Nat
  BY <1>2, <1>3, <1>4 DEF Whole
<1>6. unsigned_abs(long) = long /\ unsigned_abs(short) = S
  BY DEF unsigned_abs
<1> HIDE DEF a
<1>7. CASE net >= 0
  <2>1. unsigned_abs(net) = net /\ net \in Nat
    BY <1>1, <1>7 DEF unsigned_abs
  <2>2. a * S \in Nat /\ a * net \in Nat /\ a * S + a * net = a * long
    <3>1. S + net = long
      OBVIOUS
    <3> HIDE DEF S, net
    <3> QED
      BY <1>1, <2>1, <3>1
  <2> HIDE DEF S, net
  <2>3. s + n <= l /\ l <= s + n + 1
    BY <1>2, <1>3, <1>4, <1>6, <2>1, <2>2, UnitType, WholeSum
  <2>4. Pay(r, net) = IF r > 0 THEN -n ELSE n
    BY <1>4, <1>7
  <2>5. Pay(r, long) + Pay(r, short) - Pay(r, net) <= 1
    BY <1>2, <1>3, <1>5, <2>3, <2>4
  <2> QED
    BY <2>5 DEF net
<1>8. CASE net < 0
  <2>1. unsigned_abs(net) = -net /\ -net \in Nat
    BY <1>1, <1>8 DEF unsigned_abs
  <2>2. a * long \in Nat /\ a * (-net) \in Nat /\ a * long + a * (-net) = a * S
    <3>1. long + (-net) = S
      OBVIOUS
    <3> HIDE DEF S, net
    <3> QED
      BY <1>1, <2>1, <3>1
  <2> HIDE DEF S, net
  <2>3. l + n <= s /\ s <= l + n + 1
    BY <1>2, <1>3, <1>4, <1>6, <2>1, <2>2, UnitType, WholeSum
  <2>4. Pay(r, net) = IF r > 0 THEN n ELSE -n
    BY <1>1, <1>4, <1>8
  <2>5. Pay(r, long) + Pay(r, short) - Pay(r, net) <= 1
    BY <1>2, <1>3, <1>5, <2>3, <2>4
  <2> QED
    BY <2>5 DEF net
<1> QED
  BY <1>1, <1>7, <1>8

\* The capped rate pays no more than the limit, whoever receives it.
LEMMA CappedPayment ==
    ASSUME NEW limit \in Int, limit <= 0, NEW b \in Int
    PROVE  LET rate == calculate_funding_rate_from_pnl_limit(limit, b)
           IN  rate \in Int /\ Pay(rate, b) <= -limit
<1> DEFINE biased == IF limit < 0 THEN limit + 1 ELSE limit
           rate == calculate_funding_rate_from_pnl_limit(limit, b)
           x == biased * PaymentUnit
           B == unsigned_abs(b)
           R == unsigned_abs(rate)
<1>1. biased \in Int /\ biased <= 0 /\ -biased \in Nat /\ -biased <= -limit
  OBVIOUS
<1>2. PaymentUnit \in Nat \ {0}
  BY UnitType
<1>3. rate = IF b = 0 THEN 0 ELSE Quot(x, b)
  BY UnitType DEF calculate_funding_rate_from_pnl_limit
<1> HIDE DEF biased, rate
<1>4. x \in Int /\ unsigned_abs(x) = (-biased) * PaymentUnit /\ unsigned_abs(x) \in Nat
  BY <1>1, <1>2 DEF unsigned_abs
<1> HIDE DEF x
<1>5. rate \in Int
  BY <1>3, <1>4, QuotType
<1>6. B \in Nat /\ R \in Nat /\ (b # 0 => B \in Nat \ {0})
  BY <1>5 DEF unsigned_abs
<1>7. R * B <= (-biased) * PaymentUnit
  <2>1. CASE b = 0
    <3>1. B = 0
      BY <2>1 DEF unsigned_abs
    <3> HIDE DEF B, R
    <3>2. R * B = 0
      BY <1>6, <3>1
    <3> QED
      BY <1>4, <3>2
  <2>2. CASE b # 0
    <3> DEFINE y == unsigned_abs(x) \div B
    <3>1. y \in Nat /\ y * B <= unsigned_abs(x)
      <4> HIDE DEF B
      <4> QED
        BY <1>4, <1>6, <2>2, DivNat, DivBounds
    <3>2. R = y
      <4>1. rate = y \/ rate = -y
        BY <1>3, <2>2 DEF Quot
      <4> HIDE DEF y
      <4> QED
        BY <3>1, <4>1 DEF unsigned_abs
    <3> HIDE DEF y, R, B
    <3> QED
      BY <1>4, <3>1, <3>2
  <2> QED
    BY <2>1, <2>2
<1>8. PICK q : Whole(q, R * B, PaymentUnit) /\ Pay(rate, b) \in {q, -q}
  <2>1. \E q : /\ Whole(q, R * B, PaymentUnit)
               /\ Pay(rate, b) = IF (rate > 0) = (b > 0) THEN -q ELSE q
    BY <1>5, PaymentValue
  <2> QED
    BY <2>1
<1> HIDE DEF R, B
<1>9. q \in Nat /\ q * PaymentUnit <= (-biased) * PaymentUnit
  <2>1. R * B \in Nat
    BY <1>6
  <2> QED
    BY <1>1, <1>2, <1>7, <1>8, <2>1 DEF Whole
<1>10. q <= -biased
  <2>1. ASSUME NEW u \in Nat, NEW v \in Nat, u * PaymentUnit <= v * PaymentUnit PROVE u <= v
    BY <1>2, <2>1
  <2> QED
    BY <1>1, <1>9, <2>1
<1>11. Pay(rate, b) <= -limit
  BY <1>1, <1>8, <1>9, <1>10
<1> QED
  BY <1>5, <1>11 DEF rate

\* The fee pool only pays.
LEMMA LimitSign ==
    ASSUME NEW m \in MarketType
    PROVE  funding_rate_pnl_limit(m) \in Int /\ funding_rate_pnl_limit(m) <= 0
<1> DEFINE low == total_fee_lower_bound(m)
           excess == m.total_fee_minus_distributions - low
           limit == (excess * 2) \div 3
<1>1. m.total_fee_minus_distributions \in Nat
  BY DEF MarketType
<1>2. CASE m.total_fee_minus_distributions > low
  <2>1. excess * 2 \in Nat
    BY <1>1, <1>2, LowerBound
  <2>2. limit \in Nat
    BY <2>1, DivNat
  <2>3. funding_rate_pnl_limit(m) = -limit
    BY <1>2 DEF funding_rate_pnl_limit
  <2> HIDE DEF limit
  <2> QED
    BY <2>2, <2>3
<1>3. CASE ~(m.total_fee_minus_distributions > low)
  BY <1>3 DEF funding_rate_pnl_limit
<1> QED
  BY <1>2, <1>3

\* A funding rate pays out no more than it takes in.
LEMMA RateIsFunded ==
    ASSUME NEW m, Good(m), Signed(m), NEW r \in Int
    PROVE  Pay(funding_rate_long(m, r), m.base_asset_amount_long)
             + Pay(funding_rate_short(m, r), m.base_asset_amount_short)
             + (funded_fee_pool(m, r) - m.total_fee_minus_distributions) <= 1
<1> DEFINE L == m.base_asset_amount_long
           S == m.base_asset_amount_short
           pool == m.total_fee_minus_distributions
           pnl == uncapped_funding_pnl(m, r)
           limit == funding_rate_pnl_limit(m)
           users == IF r > 0 THEN Pay(r, L) ELSE Pay(r, S)
           less == limit - unsigned_abs(users)
           receiver == IF r < 0 THEN L ELSE S
           rate == calculate_funding_rate_from_pnl_limit(less, receiver)
<1>1. /\ m \in MarketType /\ L \in Nat /\ S \in Int /\ S <= 0 /\ pool \in Nat
      /\ m.base_asset_amount = L + S
  BY DEF Good, IsNet, Signed, MarketType
<1>2. limit \in Int /\ limit <= 0 /\ pnl \in Int
  BY <1>1, LimitSign, FundingPnl
<1>3. pnl = -Pay(r, L + S)
  BY <1>1 DEF uncapped_funding_pnl, Pay
<1>4. \A x, y \in Int : Pay(x, y) \in Int
  BY FundingPayment DEF Pay
<1>5. Pay(r, L) \in Int /\ Pay(r, S) \in Int /\ Pay(r, L + S) \in Int
  <2> HIDE DEF L, S
  <2>1. L \in Int /\ S \in Int /\ L + S \in Int
    BY <1>1
  <2> QED
    BY <1>4, <2>1
<1>6. Pay(r, L) + Pay(r, S) - Pay(r, L + S) <= 1
  BY <1>1, SidesAndNet
<1>7. calculate_capped_funding_rate(m, r) = IF pnl < limit THEN rate ELSE r
  BY DEF calculate_capped_funding_rate, Pay
<1>8. /\ funding_rate_long(m, r) = IF pnl < 0 /\ r < 0
                                   THEN calculate_capped_funding_rate(m, r) ELSE r
      /\ funding_rate_short(m, r) = IF pnl < 0 /\ r > 0
                                    THEN calculate_capped_funding_rate(m, r) ELSE r
  BY DEF funding_rate_long, funding_rate_short
<1>9. funded_fee_pool(m, r) = IF pnl >= 0 THEN pool + pnl
                              ELSE pool - unsigned_abs(Larger(pnl, limit))
  BY DEF funded_fee_pool, capped_funding_pnl
<1> HIDE DEF L, S, pool, pnl, limit
<1>10. CASE pnl >= 0
  <2>1. funding_rate_long(m, r) = r /\ funding_rate_short(m, r) = r
    BY <1>2, <1>8, <1>10
  <2>2. funded_fee_pool(m, r) - pool = pnl
    BY <1>1, <1>2, <1>9, <1>10
  <2> QED
    BY <1>3, <1>5, <1>6, <2>1, <2>2 DEF L, S, pool
<1>11. CASE pnl < 0 /\ ~(pnl < limit)
  <2>1. funding_rate_long(m, r) = r /\ funding_rate_short(m, r) = r
    BY <1>7, <1>8, <1>11
  <2>2. Larger(pnl, limit) = pnl
    BY <1>2, <1>11 DEF Larger
  <2>3. funded_fee_pool(m, r) - pool = pnl
    BY <1>1, <1>2, <1>9, <1>11, <2>2 DEF unsigned_abs
  <2> QED
    BY <1>3, <1>5, <1>6, <2>1, <2>3 DEF L, S, pool
<1>12. CASE pnl < 0 /\ pnl < limit
  <2>1. Larger(pnl, limit) = limit
    BY <1>2, <1>12 DEF Larger
  <2>2. funded_fee_pool(m, r) - pool = limit
    BY <1>1, <1>2, <1>9, <1>12, <2>1 DEF unsigned_abs
  <2>3. users \in Int /\ less \in Int /\ less <= 0 /\ less = limit - unsigned_abs(users)
    BY <1>2, <1>5 DEF unsigned_abs
  <2>4. receiver \in Int
    BY <1>1
  <2> HIDE DEF less, receiver
  <2>5. rate \in Int /\ Pay(rate, receiver) <= -less
    BY <2>3, <2>4, CappedPayment
  <2>6. Pay(rate, receiver) \in Int
    BY <1>4, <2>4, <2>5
  <2> HIDE DEF rate
  <2>7. r # 0
    <3>1. SUFFICES ASSUME r = 0 PROVE FALSE
      OBVIOUS
    <3>2. PICK q : /\ Whole(q, unsigned_abs(r) * unsigned_abs(L + S), PaymentUnit)
                   /\ Pay(r, L + S) = IF (r > 0) = (L + S > 0) THEN -q ELSE q
      BY <1>1, PaymentValue
    <3>3. unsigned_abs(r) * unsigned_abs(L + S) = 0
      <4>1. unsigned_abs(r) = 0 /\ unsigned_abs(L + S) \in Int
        BY <1>1, <3>1 DEF unsigned_abs
      <4> QED
        BY <4>1
    <3>4. q \in Nat /\ q * PaymentUnit <= 0
      BY <3>2, <3>3 DEF Whole
    <3>5. q = 0
      BY <3>4, UnitType
    <3>6. Pay(r, L + S) = 0
      BY <3>2, <3>5
    <3> QED
      BY <1>3, <1>12, <3>6
  <2>8. CASE r > 0
    <3>1. /\ funding_rate_long(m, r) = r /\ funding_rate_short(m, r) = rate
          /\ receiver = S /\ users = Pay(r, L)
      BY <1>7, <1>8, <1>12, <2>8 DEF receiver
    <3>2. Pay(r, L) <= 0
      <4>1. PICK q : /\ Whole(q, unsigned_abs(r) * unsigned_abs(L), PaymentUnit)
                     /\ L >= 0 => Pay(r, L) = IF r > 0 THEN -q ELSE q
        BY <1>1, PaymentSides
      <4> QED
        BY <1>1, <2>8, <4>1 DEF Whole
    <3>3. unsigned_abs(users) = -Pay(r, L)
      BY <1>5, <3>1, <3>2 DEF unsigned_abs
    <3>4. Pay(r, L) + Pay(rate, S) + limit <= 0
      BY <1>2, <1>5, <2>3, <2>5, <2>6, <3>1, <3>3
    <3> QED
      BY <1>2, <1>5, <2>2, <2>6, <3>1, <3>4 DEF L, S, pool
  <2>9. CASE r < 0
    <3>1. /\ funding_rate_long(m, r) = rate /\ funding_rate_short(m, r) = r
          /\ receiver = L /\ users = Pay(r, S)
      BY <1>7, <1>8, <1>12, <2>9 DEF receiver
    <3>2. Pay(r, S) <= 0
      <4>1. PICK q : /\ Whole(q, unsigned_abs(r) * unsigned_abs(S), PaymentUnit)
                     /\ S <= 0 => Pay(r, S) = IF r > 0 THEN q ELSE -q
        BY <1>1, PaymentSides
      <4> QED
        BY <1>1, <2>9, <4>1 DEF Whole
    <3>3. unsigned_abs(users) = -Pay(r, S)
      BY <1>5, <3>1, <3>2 DEF unsigned_abs
    <3>4. Pay(rate, L) + Pay(r, S) + limit <= 0
      BY <1>2, <1>5, <2>3, <2>5, <2>6, <3>1, <3>3
    <3> QED
      BY <1>2, <1>5, <2>2, <2>6, <3>1, <3>4 DEF L, S, pool
  <2> QED
    BY <2>7, <2>8, <2>9
<1> QED
  BY <1>2, <1>10, <1>11, <1>12

\* Setting the rate of a period moves the cumulative rates and the fee pool,
\* which stays a natural number.
LEMMA ApplyRate ==
    ASSUME NEW m, Good(m), NEW ts \in Nat, 24 * ONE_HOUR >= m.funding_period,
           calculate_funding_rate_long_short_ok(m, period_funding_rate(m))
    PROVE  /\ Good(apply_funding_rate(m, ts)) /\ SameCurve(m, apply_funding_rate(m, ts))
           /\ SameFee(m, apply_funding_rate(m, ts))
           /\ apply_funding_rate(m, ts).funding_period = m.funding_period
           /\ apply_funding_rate(m, ts).last_funding_rate_ts = ts
           /\ Signed(m) => FundingReceived(m, apply_funding_rate(m, ts)) <= 1
<1> DEFINE rate  == period_funding_rate(m)
           pool  == funded_fee_pool(m, rate)
           long  == m.cumulative_funding_rate_long + funding_rate_long(m, rate)
           short == m.cumulative_funding_rate_short + funding_rate_short(m, rate)
           n     == [m EXCEPT !.total_fee_minus_distributions = pool,
                              !.cumulative_funding_rate_long = long,
                              !.cumulative_funding_rate_short = short,
                              !.last_funding_rate = rate,
                              !.last_funding_rate_ts = ts]
<1>1. m \in MarketType
  BY DEF Good
<1>2. rate \in Int
  BY <1>1, PeriodRate
<1>3. apply_funding_rate(m, ts) = n
  BY DEF apply_funding_rate
<1>4. calculate_funding_rate_long_short_ok(m, rate)
  OBVIOUS
<1> HIDE DEF rate
<1>5. pool \in Nat
  <2>1. uncapped_funding_pnl(m, rate) \in Int /\ capped_funding_pnl(m, rate) \in Int
    BY <1>1, <1>2, FundingPnl
  <2>2. m.total_fee_minus_distributions \in Nat
    BY <1>1 DEF MarketType
  <2> QED
    BY <1>4, <2>1, <2>2 DEF funded_fee_pool, calculate_funding_rate_long_short_ok, unsigned_abs
<1>6. long \in Int /\ short \in Int
  <2>1. m.cumulative_funding_rate_long \in Int /\ m.cumulative_funding_rate_short \in Int
    BY <1>1 DEF MarketType
  <2>2. funding_rate_long(m, rate) \in Int /\ funding_rate_short(m, rate) \in Int
    BY <1>1, <1>2, CappedRate DEF funding_rate_long, funding_rate_short
  <2> QED
    BY <2>1, <2>2
<1> HIDE DEF pool, long, short
<1>7. n \in MarketType
  BY <1>1, <1>2, <1>5, <1>6 DEF MarketType
<1>8. /\ IsNet(n) /\ SameCurve(m, n) /\ SameFee(m, n)
      /\ n.funding_period = m.funding_period /\ n.last_funding_rate_ts = ts
  BY <1>1 DEF Good, IsNet, SameCurve, SameSides, SameFee, SameReserves, MarketType
<1>9. Signed(m) => FundingReceived(m, n) <= 1
  <2> SUFFICES ASSUME Signed(m) PROVE FundingReceived(m, n) <= 1
    OBVIOUS
  <2> DEFINE dl == n.cumulative_funding_rate_long - m.cumulative_funding_rate_long
             ds == n.cumulative_funding_rate_short - m.cumulative_funding_rate_short
             pl == Pay(funding_rate_long(m, rate), m.base_asset_amount_long)
             ps == Pay(funding_rate_short(m, rate), m.base_asset_amount_short)
             old == m.total_fee_minus_distributions
  <2>1. /\ n.cumulative_funding_rate_long = long /\ n.cumulative_funding_rate_short = short
        /\ n.total_fee_minus_distributions = pool
    BY <1>1 DEF MarketType
  <2>2. m.cumulative_funding_rate_long \in Int /\ m.cumulative_funding_rate_short \in Int
    BY <1>1 DEF MarketType
  <2>3. funding_rate_long(m, rate) \in Int /\ funding_rate_short(m, rate) \in Int
    BY <1>1, <1>2, CappedRate DEF funding_rate_long, funding_rate_short
  <2>4. dl = funding_rate_long(m, rate) /\ ds = funding_rate_short(m, rate)
    BY <2>1, <2>2, <2>3 DEF long, short
  <2>5. Distributed(m) - Distributed(n) = pool - old
    <3>1. m.total_fee \in Nat /\ old \in Nat /\ n.total_fee = m.total_fee
      BY <1>1, <1>8 DEF MarketType, SameFee
    <3> QED
      BY <1>5, <2>1, <3>1 DEF Distributed
  <2>6. pl + ps + (pool - old) <= 1
    BY <1>2, RateIsFunded DEF pool
  <2>7. /\ n.base_asset_amount_long = m.base_asset_amount_long
        /\ n.base_asset_amount_short = m.base_asset_amount_short
    BY <1>8 DEF SameCurve, SameSides
  <2>8. FundingReceived(m, n) = pl + ps + (pool - old)
    BY <2>4, <2>5, <2>7 DEF FundingReceived, Pay
  <2> QED
    BY <2>6, <2>8
<1> QED
  BY <1>3, <1>7, <1>8, <1>9 DEF Good

\* A time is its period and the time since the period began.
LEMMA DivMod ==
    ASSUME NEW t \in Nat, NEW p \in Nat \ {0}
    PROVE  t = (t \div p) * p + (t % p) /\ t \div p \in Nat /\ t % p \in 0..(p - 1)
OBVIOUS

\* The next multiple of p.
LEMMA NextMultiple ==
    ASSUME NEW x \in Nat, NEW p \in Nat PROVE (x + 1) * p = x * p + p /\ x * p \in Nat
OBVIOUS

\* What an update waits for takes it into a later period, wherever in the
\* period the last one was made.
LEMMA NextPeriod ==
    ASSUME NEW m, NEW ts \in Nat, m.last_funding_rate_ts \in Nat,
           m.funding_period \in Nat \ {0},
           ts - m.last_funding_rate_ts >= next_update_wait(m)
    PROVE  ts \div m.funding_period > m.last_funding_rate_ts \div m.funding_period
<1> DEFINE old == m.last_funding_rate_ts
           p == m.funding_period
           x == old \div p
           delay == old % p
<1>1. old = x * p + delay /\ x \in Nat /\ delay \in 0..(p - 1)
  BY DivMod
<1>2. next_update_wait(m) >= p - delay
  <2>1. delay > p \div 3 => 2 * p - delay >= p - delay
    BY <1>1
  <2> QED
    BY <1>1, <2>1 DEF next_update_wait
<1>3. next_update_wait(m) \in Int
  BY <1>1 DEF next_update_wait
<1>4. p \in Nat \ {0} /\ ts - old >= next_update_wait(m)
  OBVIOUS
<1> HIDE DEF x, delay, old, p
<1>5. ts >= x * p + p
  <2>1. x * p \in Nat
    BY <1>1, <1>4
  <2> QED
    BY <1>1, <1>2, <1>3, <1>4, <2>1
<1>6. x * p + p = (x + 1) * p /\ x + 1 \in Nat
  BY <1>1, <1>4, NextMultiple
<1>7. (x + 1) * p <= ts
  BY <1>5, <1>6
<1>8. x + 1 <= ts \div p
  BY <1>6, <1>7, <1>4, DivAtLeast
<1>9. ts \div p \in Nat
  BY <1>4, DivNat
<1> QED
  BY <1>1, <1>8, <1>9 DEF x, old, p

\* update_funding_rate moves nothing but funding and the twaps, and the
\* funding at most once in a period.
LEMMA FundingRate ==
    ASSUME NEW m, Good(m), NEW o \in OracleType, NEW ts \in Nat, NEW g, NEW paused,
           update_funding_rate_ok(m, o, ts, g, paused)
    PROVE  /\ Funded(m, update_funding_rate(m, o, ts, g, paused))
           /\ SameFee(m, update_funding_rate(m, o, ts, g, paused))
<1>1. CASE ~funding_due(m, o, ts, g, paused)
  BY <1>1, KeptSame DEF update_funding_rate, Kept, Still, Funded, Paced
<1>2. CASE funding_due(m, o, ts, g, paused)
  <2> DEFINE price == oracle_processed(m, o)
             n == update_oracle_price_twap(m, ts, price)
             t == update_mark_twap(n, ts)
  <2>1. m \in MarketType /\ mark_price_ok(m)
    BY DEF Good, update_funding_rate_ok, block_operation_ok, calculate_oracle_mark_spread_ok
  <2>2. price \in Int
    BY <2>1, OracleProcessed
  <2>3. t = refreshed_twaps(m, o, ts)
    BY DEF refreshed_twaps
  <2>4. /\ update_funding_rate(m, o, ts, g, paused) = apply_funding_rate(t, ts)
        /\ 24 * ONE_HOUR >= m.funding_period
        /\ calculate_funding_rate_long_short_ok(t, period_funding_rate(t))
    BY <1>2, <2>3 DEF update_funding_rate, update_funding_rate_ok
  <2>5. t.funding_period = m.funding_period
    BY <2>1 DEF update_mark_twap, update_oracle_price_twap, MarketType
  <2> HIDE DEF price
  <2>6. Kept(m, n)
    BY <2>2, OracleTwap
  <2> HIDE DEF n
  <2>7. Good(n) /\ mark_price_ok(n)
    BY <2>1, <2>6 DEF Kept, Still, SameCurve, SameReserves, mark_price_ok
  <2>8. Kept(n, t)
    BY <2>7, UpdateMarkTwap
       DEF Kept, Still, SameCurve, SameReserves, SameTerms, SameFee, Distributed, Follows, Mirrors
  <2> HIDE DEF t
  <2> DEFINE r == apply_funding_rate(t, ts)
  <2>9. /\ Good(r) /\ SameCurve(t, r) /\ SameFee(t, r)
        /\ r.funding_period = t.funding_period /\ r.last_funding_rate_ts = ts
        /\ Signed(t) => FundingReceived(t, r) <= 1
    BY <2>4, <2>5, <2>8, ApplyRate DEF Kept, Still
  <2> HIDE DEF r
  <2>10. Kept(m, t)
    BY <2>6, <2>8, KeptTwice
  <2>11. m.funding_period > 0 =>
            ts \div m.funding_period > m.last_funding_rate_ts \div m.funding_period
    <3>1. ts - m.last_funding_rate_ts >= next_update_wait(m)
      BY <1>2 DEF funding_due
    <3>2. m.funding_period \in Nat /\ m.last_funding_rate_ts \in Nat
      BY <2>1 DEF MarketType
    <3> QED
      BY <3>1, <3>2, NextPeriod
  <2>12. SameCurve(m, r) /\ SameFee(m, r)
    BY <2>9, <2>10 DEF Kept, Still, SameCurve, SameSides, SameFee, SameReserves
  <2>13. Signed(r) => FundingReceived(m, r) <= 1
    <3>1. FundingReceived(m, r) = FundingReceived(t, r)
      BY <2>10, SameReceived DEF Kept, Still
    <3> QED
      BY <2>9, <3>1 DEF SameCurve, SameSides, Signed
  <2> QED
    BY <2>4, <2>9, <2>10, <2>11, <2>12, <2>13 DEF Kept, Still, SamePace, Funded, Paced, r
<1> QED
  BY <1>1, <1>2

(***************************************************************************)
(* Settling the funding payments of a user                                 *)
(***************************************************************************)
MarketsType == [Markets -> MarketType]
SlotsType == [Slots -> PositionType]

\* The rate a position is settled to, and when, have the type of its fields.
LEMMA MarketRate ==
    ASSUME NEW mk \in MarketsType, NEW p \in PositionType, NEW long
    PROVE  /\ cumulative_funding_rate(mk[p.market_index], long) \in Int
           /\ mk[p.market_index].last_funding_rate_ts \in Nat
<1>1. mk[p.market_index] \in MarketType
  BY DEF MarketsType, PositionType
<1> QED
  BY <1>1 DEF cumulative_funding_rate, MarketType

\* Settling keeps the type of the positions, their size and their market.
LEMMA SettledPositions ==
    ASSUME NEW mk \in MarketsType, NEW ps \in SlotsType
    PROVE  settled_positions(ps, mk) \in SlotsType
<1>1. ASSUME NEW s \in Slots PROVE settled_position(ps[s], mk) \in PositionType
  <2> DEFINE p == ps[s]
             long == p.base_asset_amount > 0
             rate == cumulative_funding_rate(mk[p.market_index], long)
             ts == mk[p.market_index].last_funding_rate_ts
  <2>1. p \in PositionType
    BY DEF SlotsType
  <2>2. settled_position(p, mk) = IF owes_funding(p, mk)
          THEN [p EXCEPT !.last_cumulative_funding_rate = rate, !.last_funding_rate_ts = ts]
          ELSE p
    BY DEF settled_position
  <2>3. rate \in Int /\ ts \in Nat
    BY <2>1, MarketRate
  <2> HIDE DEF p, rate, ts
  <2>4. settled_position(p, mk) \in PositionType
    BY <2>1, <2>2, <2>3 DEF PositionType
  <2> QED
    BY <2>4 DEF p
<1> QED
  BY <1>1 DEF settled_positions, SlotsType

\* The collateral after settling is a natural number, whatever is owed.
LEMMA SettledCollateral ==
    ASSUME NEW mk \in MarketsType, NEW ps \in SlotsType, NEW c \in Nat
    PROVE  settled_collateral(c, ps, mk) \in Nat
<1> DEFINE pay(s) == calculate_funding_payment(ps[s], mk)
           sum == pay(1) + pay(2) + pay(3) + pay(4) + pay(5)
<1>1. ASSUME NEW s \in Slots PROVE pay(s) \in Int
  <2> DEFINE p == ps[s]
             b == p.base_asset_amount
             long == b > 0
             rate == cumulative_funding_rate(mk[p.market_index], long)
             delta == rate - p.last_cumulative_funding_rate
  <2>1. p \in PositionType
    BY DEF SlotsType
  <2>2. b \in Int /\ p.last_cumulative_funding_rate \in Int
    BY <2>1 DEF PositionType
  <2>3. rate \in Int
    BY <2>1, MarketRate
  <2>4. pay(s) \in {0, funding_payment(delta, b)}
    BY DEF calculate_funding_payment
  <2> HIDE DEF rate, pay
  <2>5. delta \in Int
    BY <2>2, <2>3
  <2> HIDE DEF b, delta
  <2>6. funding_payment(delta, b) \in Int
    BY <2>2, <2>5, FundingPayment
  <2> QED
    BY <2>4, <2>6
<1>2. settled_collateral(c, ps, mk)
        = calculate_updated_collateral(c, Quot(sum, AMM_TO_QUOTE_PRECISION_RATIO))
  BY DEF settled_collateral, SumOverSlots, Slots
<1> HIDE DEF pay
<1>3. sum \in Int
  BY <1>1 DEF Slots
<1> HIDE DEF sum
<1>4. AMM_TO_QUOTE_PRECISION_RATIO \in Int \ {0}
  BY PrecisionFacts
<1>5. Quot(sum, AMM_TO_QUOTE_PRECISION_RATIO) \in Int
  BY <1>3, <1>4, QuotType
<1> QED
  BY <1>2, <1>5, UpdatedCollateral

\* Settling adds a natural number of records.
LEMMA PaymentRecords ==
    ASSUME NEW mk, NEW ps
    PROVE  funding_payment_records(ps, mk) \in Nat
BY DEF funding_payment_records, SumOverSlots, Slots

(***************************************************************************)
(* Slots, fees and withdrawals                                             *)
(***************************************************************************)
\* A set of slots, or of fee tiers, that is not empty has a first element.
LEMMA FirstIn ==
    ASSUME NEW S, S \subseteq 1..5, S # {}
    PROVE  First(S) \in S /\ \A t \in S : First(S) <= t
<1>1. \E s \in S : \A t \in S : s <= t
  <2>1. CASE 1 \in S
    BY <2>1
  <2>2. CASE 1 \notin S /\ 2 \in S
    BY <2>2
  <2>3. CASE 1 \notin S /\ 2 \notin S /\ 3 \in S
    BY <2>3
  <2>4. CASE 1 \notin S /\ 2 \notin S /\ 3 \notin S /\ 4 \in S
    BY <2>4
  <2>5. CASE 1 \notin S /\ 2 \notin S /\ 3 \notin S /\ 4 \notin S
    <3>1. PICK s \in S : TRUE
      OBVIOUS
    <3>2. \A t \in S : t = 5
      BY <2>5
    <3> QED
      BY <3>1, <3>2
  <2> QED
    BY <2>1, <2>2, <2>3, <2>4, <2>5
<1> QED
  BY <1>1 DEF First

\* The slot of a trade is one of the five.
LEMMA TradeSlotType ==
    ASSUME NEW ps, NEW i, SlotsFor(ps, i) # {} \/ FreeSlots(ps) # {}
    PROVE  TradeSlot(ps, i) \in Slots
<1> DEFINE S == IF SlotsFor(ps, i) # {} THEN SlotsFor(ps, i) ELSE FreeSlots(ps)
<1>1. S \subseteq 1..5 /\ S # {}
  BY DEF SlotsFor, FreeSlots, Slots
<1>2. TradeSlot(ps, i) = First(S)
  BY DEF TradeSlot
<1> HIDE DEF S
<1>3. First(S) \in S
  BY <1>1, FirstIn
<1> QED
  BY <1>1, <1>2, <1>3 DEF Slots

\* It is the slot of an open position in the market or else the first free one.
LEMMA TradeSlotChoice ==
    ASSUME NEW ps, NEW i
    PROVE  /\ SlotsFor(ps, i) # {} => TradeSlot(ps, i) \in SlotsFor(ps, i)
           /\ SlotsFor(ps, i) = {} /\ FreeSlots(ps) # {} =>
                /\ TradeSlot(ps, i) \in FreeSlots(ps)
                /\ \A t \in FreeSlots(ps) : TradeSlot(ps, i) <= t
<1>1. SlotsFor(ps, i) \subseteq 1..5 /\ FreeSlots(ps) \subseteq 1..5
  BY DEF SlotsFor, FreeSlots, Slots
<1>2. CASE SlotsFor(ps, i) # {}
  BY <1>1, <1>2, FirstIn DEF TradeSlot
<1>3. CASE SlotsFor(ps, i) = {} /\ FreeSlots(ps) # {}
  BY <1>1, <1>3, FirstIn DEF TradeSlot
<1> QED
  BY <1>2, <1>3

\* The position a trade starts from is in the market of the trade.
LEMMA TradePositionType ==
    ASSUME NEW ps \in SlotsType, NEW i \in Markets,
           SlotsFor(ps, i) # {} \/ FreeSlots(ps) # {}
    PROVE  TradePosition(ps, i) \in PositionType /\ TradePosition(ps, i).market_index = i
<1>1. ps[TradeSlot(ps, i)] \in PositionType
  BY TradeSlotType DEF SlotsType
<1>2. new_market_position(i) \in PositionType /\ new_market_position(i).market_index = i
  BY DEF new_market_position, PositionType
<1> QED
  BY <1>1, <1>2 DEF TradePosition, is_for

FeeType == [user_fee: Nat, fee_to_market: Nat, token_discount: Nat, referrer_reward: Nat,
            referee_discount: Nat]

\* A discount is a natural number.
LEMMA TokenDiscount ==
    ASSUME NEW fee \in Nat, NEW f \in FeeStructureType, NEW token
    PROVE  calculate_token_discount(fee, f, token) \in Nat
<1> DEFINE tiers == applicable_tiers(f, token)
           s == First(tiers)
           tier == f.discount_token_tiers[s]
<1>1. CASE tiers = {}
  BY <1>1 DEF calculate_token_discount
<1>2. CASE tiers # {}
  <2>1. tiers \subseteq 1..5
    BY DEF applicable_tiers
  <2>2. s \in tiers
    BY <1>2, <2>1, FirstIn
  <2>3. s \in 1..4 /\ tier.discount_denominator > 0
    BY <2>2 DEF applicable_tiers
  <2>4. tier \in TierType
    BY <2>3 DEF FeeStructureType
  <2>5. calculate_token_discount(fee, f, token)
          \in {0, (fee * tier.discount_numerator) \div tier.discount_denominator}
    BY DEF calculate_token_discount
  <2> HIDE DEF tier
  <2>6. tier.discount_numerator \in Nat /\ tier.discount_denominator \in Nat \ {0}
    BY <2>3, <2>4 DEF TierType
  <2>7. fee * tier.discount_numerator \in Nat
    BY <2>6, TimesNat
  <2>8. (fee * tier.discount_numerator) \div tier.discount_denominator \in Nat
    BY <2>6, <2>7, DivNat
  <2> QED
    BY <2>5, <2>8
<1> QED
  BY <1>1, <1>2

\* Where the program computes the fees without an error, none is negative, and
\* what the trader pays goes to the market and to the referrer, if there is one.
LEMMA Fees ==
    ASSUME NEW q \in Nat, NEW f \in FeeStructureType, NEW token, NEW has \in BOOLEAN,
           calculate_fees_ok(q, f, token, has)
    PROVE  LET c == calculate_fees(q, f, token, has)
           IN  /\ c \in FeeType
               /\ c.user_fee = c.fee_to_market + c.referrer_reward
               /\ ~has => c.referrer_reward = 0
<1> DEFINE fee == base_fee(q, f)
           discount == calculate_token_discount(fee, f, token)
           reward == calculate_referrer_reward(fee, f, has)
           referee == calculate_referee_discount(fee, f, has)
           charged == fee - discount - referee
           kept == charged - reward
<1>1. /\ f.fee_numerator \in Nat /\ f.fee_denominator \in Nat
      /\ f.referrer_reward_numerator \in Nat /\ f.referrer_reward_denominator \in Nat
      /\ f.referee_discount_numerator \in Nat /\ f.referee_discount_denominator \in Nat
  BY DEF FeeStructureType
<1>2. /\ f.fee_denominator > 0
      /\ has => f.referrer_reward_denominator > 0 /\ f.referee_discount_denominator > 0
  BY DEF calculate_fees_ok
<1>3. calculate_fees(q, f, token, has) =
        [user_fee |-> charged, fee_to_market |-> kept, token_discount |-> discount,
         referrer_reward |-> reward, referee_discount |-> referee]
  BY DEF calculate_fees
<1>4. charged >= 0 /\ kept >= 0
  BY <1>3 DEF calculate_fees_ok
<1>5. fee \in Nat
  <2>1. q * f.fee_numerator \in Nat
    BY <1>1, TimesNat
  <2> QED
    BY <1>1, <1>2, <2>1, DivNat DEF base_fee
<1> HIDE DEF fee
<1>6. discount \in Nat
  BY <1>5, TokenDiscount
<1>7. reward \in Nat
  <2>1. fee * f.referrer_reward_numerator \in Nat
    BY <1>1, <1>5, TimesNat
  <2> QED
    BY <1>1, <1>2, <2>1, DivNat DEF calculate_referrer_reward
<1>8. referee \in Nat
  <2>1. fee * f.referee_discount_numerator \in Nat
    BY <1>1, <1>5, TimesNat
  <2> QED
    BY <1>1, <1>2, <2>1, DivNat DEF calculate_referee_discount
<1>9. ~has => reward = 0
  BY DEF calculate_referrer_reward
<1> HIDE DEF discount, reward, referee
<1>10. charged \in Nat
  BY <1>4, <1>5, <1>6, <1>8
<1>11. kept \in Nat /\ charged = kept + reward
  BY <1>4, <1>7, <1>10
<1> HIDE DEF charged, kept
<1> QED
  BY <1>3, <1>6, <1>7, <1>8, <1>9, <1>10, <1>11 DEF FeeType

\* Collecting a fee only fills the fee pool.
LEMMA CollectFee ==
    ASSUME NEW m, Good(m), NEW fee \in FeeType
    PROVE  /\ Still(m, collect_fee(m, fee))
           /\ collect_fee(m, fee).total_fee = m.total_fee + fee.fee_to_market
<1> DEFINE total == m.total_fee + fee.fee_to_market
           pool  == m.total_fee_minus_distributions + fee.fee_to_market
           n == [m EXCEPT !.total_fee = total, !.total_fee_minus_distributions = pool]
<1>1. m \in MarketType
  BY DEF Good
<1>2. collect_fee(m, fee) = n
  BY DEF collect_fee
<1>3. total \in Nat /\ pool \in Nat
  BY <1>1 DEF MarketType, FeeType
<1> HIDE DEF total, pool
<1>4. n \in MarketType
  BY <1>1, <1>3 DEF MarketType
<1>5. /\ IsNet(n) /\ SameCurve(m, n) /\ SamePace(m, n) /\ n.total_fee = total
      /\ n.total_fee_minus_distributions = pool
  BY <1>1 DEF Good, IsNet, SameCurve, SameSides, SamePace, SameReserves, MarketType
<1>6. Distributed(n) = Distributed(m)
  <2>1. /\ m.total_fee \in Nat /\ m.total_fee_minus_distributions \in Nat
        /\ fee.fee_to_market \in Nat
    BY <1>1 DEF MarketType, FeeType
  <2> QED
    BY <1>5, <2>1 DEF Distributed, total, pool
<1> QED
  BY <1>2, <1>4, <1>5, <1>6 DEF Still, Good, total

\* A withdrawal takes no more than asked for, nor than a vault holds.
LEMMA Withdrawal ==
    ASSUME NEW amount \in Nat, NEW a \in Nat, NEW b \in Nat
    PROVE  LET w == calculate_withdrawal_amounts(amount, a, b)
           IN  /\ w.collateral \in Nat /\ w.insurance \in Nat
               /\ w.collateral <= a /\ w.insurance <= b
               /\ w.collateral + w.insurance <= amount
BY DEF calculate_withdrawal_amounts

(***************************************************************************)
(* Adjusting the curve                                                     *)
(***************************************************************************)
\* A step of a market from m to n that moves the curve and no position.
Adjusted(m, n) ==
    /\ Good(n)
    /\ n.base_asset_amount = m.base_asset_amount /\ SameSides(m, n)
    /\ n.initialized = m.initialized
    /\ SamePace(m, n) /\ SameFee(m, n)

\* The profit of a position that can be valued is an integer.
LEMMA PositionPnl ==
    ASSUME NEW m \in MarketType, NEW b \in Int, NEW q \in Nat, base_asset_value_ok(b, m)
    PROVE  calculate_position_pnl(b, q, m) \in Int
BY BaseAssetValue DEF calculate_position_pnl, calculate_pnl

\* adjust_k moves k and both reserves.
LEMMA AdjustK ==
    ASSUME NEW m, Good(m), NEW k \in Nat, m.sqrt_k > 0
    PROVE  Adjusted(m, adjust_k(m, k))
<1> DEFINE ratio == sqrt_k_ratio(m, k)
           b == (m.base_asset_reserve * ratio) \div MARK_PRICE_PRECISION
           q == (m.quote_asset_reserve * ratio) \div MARK_PRICE_PRECISION
           n == [m EXCEPT !.sqrt_k = k, !.base_asset_reserve = b, !.quote_asset_reserve = q]
<1>1. m \in MarketType
  BY DEF Good
<1>2. m.base_asset_reserve \in Nat /\ m.quote_asset_reserve \in Nat /\ m.sqrt_k \in Nat \ {0}
  BY <1>1 DEF MarketType
<1>3. MARK_PRICE_PRECISION \in Nat \ {0}
  BY PrecisionAssumption
<1>4. ratio \in Nat
  <2>1. k * MARK_PRICE_PRECISION \in Nat
    BY <1>3, TimesNat
  <2> QED
    BY <1>2, <2>1, DivNat DEF sqrt_k_ratio
<1>5. adjust_k(m, k) = n
  BY DEF adjust_k
<1> HIDE DEF ratio
<1>6. b \in Nat
  <2>1. m.base_asset_reserve * ratio \in Nat
    BY <1>2, <1>4, TimesNat
  <2> QED
    BY <1>3, <2>1, DivNat
<1>7. q \in Nat
  <2>1. m.quote_asset_reserve * ratio \in Nat
    BY <1>2, <1>4, TimesNat
  <2> QED
    BY <1>3, <2>1, DivNat
<1> HIDE DEF b, q
<1>8. n \in MarketType
  BY <1>1, <1>6, <1>7 DEF MarketType
<1>9. /\ IsNet(n) /\ n.base_asset_amount = m.base_asset_amount
      /\ n.initialized = m.initialized /\ SamePace(m, n) /\ SameFee(m, n) /\ SameSides(m, n)
  BY <1>1 DEF Good, IsNet, SamePace, SameFee, SameSides, MarketType
<1> QED
  BY <1>5, <1>8, <1>9 DEF Adjusted, Good

\* Paying for an adjustment leaves a natural number in the fee pool.
LEMMA PayAdjustment ==
    ASSUME NEW m, Good(m), NEW cost \in Int
    PROVE  Adjusted(m, pay_adjustment(m, cost))
<1> DEFINE pool == IF cost > 0 THEN Larger(0, m.total_fee_minus_distributions - cost)
                   ELSE m.total_fee_minus_distributions - cost
           n == [m EXCEPT !.total_fee_minus_distributions = pool]
<1>1. m \in MarketType
  BY DEF Good
<1>2. pay_adjustment(m, cost) = n
  BY DEF pay_adjustment
<1>3. pool \in Nat
  <2>1. m.total_fee_minus_distributions \in Nat
    BY <1>1 DEF MarketType
  <2> QED
    BY <2>1 DEF Larger
<1> HIDE DEF pool
<1>4. n \in MarketType
  BY <1>1, <1>3 DEF MarketType
<1>5. /\ IsNet(n) /\ n.base_asset_amount = m.base_asset_amount
      /\ n.initialized = m.initialized /\ SamePace(m, n) /\ SameFee(m, n) /\ SameSides(m, n)
  BY <1>1 DEF Good, IsNet, SamePace, SameFee, SameSides, MarketType
<1> QED
  BY <1>2, <1>4, <1>5 DEF Adjusted, Good

\* The cost of moving k is an integer.
LEMMA KCost ==
    ASSUME NEW m, Good(m), NEW k \in Nat, adjust_k_cost_ok(m, k)
    PROVE  adjust_k_cost(m, k) \in Int
<1> DEFINE b == m.base_asset_amount
           v == calculate_base_asset_value(b, m)
           n == adjust_k(m, k)
<1>1. m \in MarketType
  BY DEF Good
<1>2. b \in Int
  BY <1>1 DEF MarketType
<1>3. base_asset_value_ok(b, m) /\ base_asset_value_ok(b, n) /\ m.sqrt_k > 0
  BY DEF adjust_k_cost_ok
<1>4. n \in MarketType
  BY <1>3, AdjustK DEF Adjusted, Good
<1>5. adjust_k_cost(m, k) = calculate_position_pnl(b, v, n)
  BY DEF adjust_k_cost
<1> HIDE DEF b, n
<1>6. v \in Nat
  BY <1>1, <1>2, <1>3, BaseAssetValue
<1> HIDE DEF v
<1> QED
  BY <1>2, <1>3, <1>4, <1>5, <1>6, PositionPnl

\* So is the cost of moving the peg, and the peg moves nothing else.
LEMMA PegCost ==
    ASSUME NEW m, Good(m), NEW peg \in Nat, base_asset_value_ok(m.base_asset_amount, m)
    PROVE  /\ adjust_peg_cost(m, peg) \in Int
           /\ Adjusted(m, [m EXCEPT !.peg_multiplier = peg])
<1> DEFINE b == m.base_asset_amount
           v == calculate_base_asset_value(b, m)
           n == [m EXCEPT !.peg_multiplier = peg]
<1>1. m \in MarketType
  BY DEF Good
<1>2. b \in Int /\ base_asset_value_ok(b, m)
  BY <1>1 DEF MarketType
<1>3. n \in MarketType
  BY <1>1 DEF MarketType
<1>4. /\ IsNet(n) /\ n.base_asset_amount = m.base_asset_amount
      /\ n.initialized = m.initialized /\ SamePace(m, n) /\ SameFee(m, n) /\ SameSides(m, n)
  BY <1>1 DEF Good, IsNet, SamePace, SameFee, SameSides, MarketType
<1>5. /\ n.base_asset_reserve = m.base_asset_reserve
      /\ n.quote_asset_reserve = m.quote_asset_reserve /\ n.sqrt_k = m.sqrt_k
  BY <1>1 DEF MarketType
<1>6. adjust_peg_cost(m, peg) = calculate_position_pnl(b, v, n)
  BY DEF adjust_peg_cost
<1>7. Adjusted(m, n)
  BY <1>3, <1>4 DEF Adjusted, Good
<1> HIDE DEF b, n
<1>8. base_asset_value_ok(b, n)
  BY <1>2, <1>5 DEF base_asset_value_ok
<1>9. v \in Nat
  BY <1>1, <1>2, BaseAssetValue
<1> HIDE DEF v
<1> QED
  BY <1>2, <1>3, <1>6, <1>7, <1>8, <1>9, PositionPnl DEF n

\* move_price sets k and both reserves.
LEMMA MovePrice ==
    ASSUME NEW m, Good(m), NEW b \in Nat, NEW q \in Nat, NEW k \in Nat
    PROVE  Adjusted(m, move_price(m, b, q, k))
<1> DEFINE n == [m EXCEPT !.base_asset_reserve = b, !.quote_asset_reserve = q, !.sqrt_k = k]
<1>1. m \in MarketType
  BY DEF Good
<1>2. n \in MarketType
  BY <1>1 DEF MarketType
<1>3. /\ IsNet(n) /\ n.base_asset_amount = m.base_asset_amount
      /\ n.initialized = m.initialized /\ SamePace(m, n) /\ SameFee(m, n) /\ SameSides(m, n)
  BY <1>1 DEF Good, IsNet, SamePace, SameFee, SameSides, MarketType
<1> QED
  BY <1>2, <1>3 DEF Adjusted, Good, move_price

(***************************************************************************)
(* Liquidation                                                             *)
(***************************************************************************)
LiquidationType ==
    [market: MarketsType, ps: SlotsType, c: Nat, trades: Nat, ok: BOOLEAN]

\* A market that was never initialised has no position, no reserve and no fees.
Fresh(m) ==
    ~m.initialized =>
        /\ m.base_asset_amount = 0 /\ m.base_asset_amount_long = 0
        /\ m.base_asset_amount_short = 0 /\ m.base_asset_reserve = 0
        /\ m.total_fee = 0 /\ m.total_fee_minus_distributions = 0

Walkable(l) ==
    l \in LiquidationType /\ \A i \in Markets : Good(l.market[i]) /\ Fresh(l.market[i])

\* From positions ps to qs no slot changed its market and none was opened.
OnlyCloses(ps, qs) ==
    \A s \in Slots : /\ qs[s].market_index = ps[s].market_index
                     /\ is_open_position(qs[s]) => is_open_position(ps[s])

\* What market m holds in market i against the positions of the users other
\* than the one with the positions ps.
Against(m, ps, i) == m.base_asset_amount - NetIn(ps, i)

\* What one side of market m holds beyond the positions ps in market i.
Spare(m, ps, i, long) == SideOf(m, long) - HeldIn(ps, i, long)

\* From m to n market i books what the positions of a user change by from ps
\* to qs: on balance exactly, and on each side at least what they gain there.
Books(m, ps, n, qs, i) ==
    /\ Against(n, qs, i) = Against(m, ps, i)
    /\ \A long \in BOOLEAN : Spare(n, qs, i, long) >= Spare(m, ps, i, long)

\* It books exactly that.
Balances(m, ps, n, qs, i) ==
    \A long \in BOOLEAN : Spare(n, qs, i, long) = Spare(m, ps, i, long)

\* A step of the walk over the slots from l to r: the markets it changes are
\* left with a price, and book what the user's positions lose.
Walk(l, r) ==
    /\ Walkable(r)
    /\ OnlyCloses(l.ps, r.ps)
    /\ \A i \in Markets :
          /\ Follows(l.market[i], r.market[i])
          /\ r.market[i] = l.market[i] \/ mark_price_ok(r.market[i])
          /\ Books(l.market[i], l.ps, r.market[i], r.ps, i)

\* Changing one slot changes what a user holds by what the slot changes.
LEMMA HeldOfSlots ==
    ASSUME NEW ps \in SlotsType, NEW s \in Slots, NEW p \in PositionType, NEW i,
           NEW long \in BOOLEAN
    PROVE  /\ HeldIn(ps, i, long) \in Nat
           /\ Part(BaseIn(p, i), long) \in Nat /\ Part(BaseIn(ps[s], i), long) \in Nat
           /\ HeldIn([ps EXCEPT ![s] = p], i, long)
                = HeldIn(ps, i, long) - Part(BaseIn(ps[s], i), long) + Part(BaseIn(p, i), long)
<1> DEFINE qs == [ps EXCEPT ![s] = p]
           b(x) == Part(BaseIn(x, i), long)
<1>1. ASSUME NEW x \in PositionType PROVE b(x) \in Nat
  <2>1. BaseIn(x, i) \in Int
    BY DEF BaseIn, PositionType
  <2> QED
    BY <2>1 DEF Part, Larger
<1>2. ASSUME NEW x
      PROVE  HeldIn(x, i, long) = b(x[1]) + b(x[2]) + b(x[3]) + b(x[4]) + b(x[5])
  BY DEF HeldIn, SumOverSlots, Slots
<1>3. \A z \in Slots : b(ps[z]) \in Nat /\ b(qs[z]) = IF z = s THEN b(p) ELSE b(ps[z])
  BY <1>1 DEF SlotsType
<1>4. b(p) \in Nat
  BY <1>1
<1> HIDE DEF qs, b
<1>5. HeldIn(ps, i, long) \in Nat
  BY <1>2, <1>3 DEF Slots
<1>6. HeldIn(qs, i, long) = HeldIn(ps, i, long) - b(ps[s]) + b(p)
  <2>1. s \in {1, 2, 3, 4, 5} /\ \A z \in {1, 2, 3, 4, 5} : z \in Slots
    BY DEF Slots
  <2> QED
    BY <1>2, <1>3, <1>4, <2>1
<1> QED
  BY <1>3, <1>4, <1>5, <1>6 DEF qs, b

\* What a side has to spare is an integer.
LEMMA SpareType ==
    ASSUME NEW m, Good(m), NEW ps \in SlotsType, NEW i, NEW long \in BOOLEAN
    PROVE  Spare(m, ps, i, long) \in Int
<1>1. 1 \in Slots /\ ps[1] \in PositionType
  BY DEF Slots, SlotsType
<1>2. HeldIn(ps, i, long) \in Nat
  BY <1>1, HeldOfSlots
<1>3. SideOf(m, long) \in Int
  BY DEF SideOf, Good, MarketType
<1> QED
  BY <1>2, <1>3 DEF Spare

\* Positions of the same sizes in a market with the same counters need no booking.
LEMMA BooksSame ==
    ASSUME NEW m, Good(m), NEW ps \in SlotsType, NEW n, NEW qs, NEW i,
           n.base_asset_amount = m.base_asset_amount, SameSides(m, n),
           \A s \in Slots : BaseIn(qs[s], i) = BaseIn(ps[s], i)
    PROVE  Books(m, ps, n, qs, i) /\ Balances(m, ps, n, qs, i)
<1>1. NetIn(qs, i) = NetIn(ps, i)
  <2>1. [s \in Slots |-> BaseIn(qs[s], i)] = [s \in Slots |-> BaseIn(ps[s], i)]
    OBVIOUS
  <2> QED
    BY <2>1 DEF NetIn
<1>2. ASSUME NEW long \in BOOLEAN
      PROVE  /\ Spare(n, qs, i, long) = Spare(m, ps, i, long)
             /\ Spare(n, qs, i, long) >= Spare(m, ps, i, long)
  <2>1. [s \in Slots |-> Part(BaseIn(qs[s], i), long)]
          = [s \in Slots |-> Part(BaseIn(ps[s], i), long)]
    OBVIOUS
  <2>2. HeldIn(qs, i, long) = HeldIn(ps, i, long)
    BY <2>1 DEF HeldIn
  <2>3. Spare(n, qs, i, long) = Spare(m, ps, i, long)
    BY <2>2 DEF Spare, SideOf, SameSides
  <2> QED
    BY <2>3, SpareType
<1> QED
  BY <1>1, <1>2 DEF Books, Balances, Against

\* Bookings compose.
LEMMA BooksTwice ==
    ASSUME NEW m, Good(m), NEW ps \in SlotsType, NEW n, Good(n), NEW qs \in SlotsType,
           NEW r, Good(r), NEW rs \in SlotsType, NEW i,
           Books(m, ps, n, qs, i), Books(n, qs, r, rs, i)
    PROVE  Books(m, ps, r, rs, i)
<1>1. ASSUME NEW long \in BOOLEAN PROVE Spare(r, rs, i, long) >= Spare(m, ps, i, long)
  <2>1. /\ Spare(m, ps, i, long) \in Int /\ Spare(n, qs, i, long) \in Int
        /\ Spare(r, rs, i, long) \in Int
    BY SpareType
  <2>2. /\ Spare(n, qs, i, long) >= Spare(m, ps, i, long)
        /\ Spare(r, rs, i, long) >= Spare(n, qs, i, long)
    BY DEF Books
  <2> QED
    BY <2>1, <2>2
<1> QED
  BY <1>1 DEF Books

\* The steps of the walk compose.
LEMMA WalkTwice ==
    ASSUME NEW l, Walkable(l), NEW r, NEW u, Walk(l, r), Walk(r, u)
    PROVE  Walk(l, u)
<1>1. ASSUME NEW i \in Markets
      PROVE  /\ Follows(l.market[i], u.market[i])
             /\ u.market[i] = l.market[i] \/ mark_price_ok(u.market[i])
             /\ Books(l.market[i], l.ps, u.market[i], u.ps, i)
  <2>1. Follows(l.market[i], r.market[i]) /\ Follows(r.market[i], u.market[i])
    BY DEF Walk
  <2>2. Follows(l.market[i], u.market[i])
    BY <2>1, FollowsTwice
  <2>3. u.market[i] = l.market[i] \/ mark_price_ok(u.market[i])
    BY DEF Walk
  <2>4. /\ Good(l.market[i]) /\ Good(r.market[i]) /\ Good(u.market[i])
        /\ l.ps \in SlotsType /\ r.ps \in SlotsType /\ u.ps \in SlotsType
    BY DEF Walk, Walkable, LiquidationType
  <2>5. /\ Books(l.market[i], l.ps, r.market[i], r.ps, i)
        /\ Books(r.market[i], r.ps, u.market[i], u.ps, i)
    BY DEF Walk
  <2>6. Books(l.market[i], l.ps, u.market[i], u.ps, i)
    BY <2>4, <2>5, BooksTwice
  <2> QED
    BY <2>2, <2>3, <2>6
<1>2. OnlyCloses(l.ps, u.ps)
  BY DEF Walk, OnlyCloses
<1> QED
  BY <1>1, <1>2 DEF Walk

\* Changing one slot changes the net position of a user by what the slot changes.
LEMMA NetOfSlots ==
    ASSUME NEW ps \in SlotsType, NEW s \in Slots, NEW p \in PositionType, NEW i
    PROVE  /\ NetIn(ps, i) \in Int
           /\ BaseIn(p, i) \in Int /\ BaseIn(ps[s], i) \in Int
           /\ NetIn([ps EXCEPT ![s] = p], i) = NetIn(ps, i) - BaseIn(ps[s], i) + BaseIn(p, i)
<1> DEFINE qs == [ps EXCEPT ![s] = p]
           b(x) == BaseIn(x, i)
<1>1. ASSUME NEW x \in PositionType PROVE b(x) \in Int
  BY DEF BaseIn, PositionType
<1>2. ASSUME NEW x PROVE NetIn(x, i) = b(x[1]) + b(x[2]) + b(x[3]) + b(x[4]) + b(x[5])
  BY DEF NetIn, SumOverSlots, Slots
<1>3. \A z \in Slots : b(ps[z]) \in Int /\ b(qs[z]) = IF z = s THEN b(p) ELSE b(ps[z])
  BY <1>1 DEF SlotsType
<1>4. b(p) \in Int
  BY <1>1
<1> HIDE DEF qs, b
<1>5. NetIn(ps, i) \in Int
  BY <1>2, <1>3 DEF Slots
<1>6. NetIn(qs, i) = NetIn(ps, i) - b(ps[s]) + b(p)
  <2>1. s \in {1, 2, 3, 4, 5} /\ \A z \in {1, 2, 3, 4, 5} : z \in Slots
    BY DEF Slots
  <2> QED
    BY <1>2, <1>3, <1>4, <2>1
<1> QED
  BY <1>3, <1>4, <1>5, <1>6 DEF qs, b

\* A sound step of the position in a slot is booked in its market.
LEMMA BookedSlot ==
    ASSUME NEW ps \in SlotsType, NEW s \in Slots, NEW i, NEW t, NEW r, Sound(t),
           SoundStep(t, r), t.p.market_index = i,
           BaseIn(ps[s], i) = t.p.base_asset_amount
    PROVE  /\ Books(t.m, ps, r.m, [ps EXCEPT ![s] = r.p], i)
           /\ Exact(t, r) => Balances(t.m, ps, r.m, [ps EXCEPT ![s] = r.p], i)
<1>1. /\ t.m.base_asset_amount \in Int /\ r.m.base_asset_amount \in Int
      /\ t.p.base_asset_amount \in Int /\ r.p.base_asset_amount \in Int
      /\ r.p \in PositionType
  BY SoundParts DEF SoundStep
<1>2. BaseIn(r.p, i) = r.p.base_asset_amount /\ Others(r) = Others(t)
  BY DEF SoundStep, BaseIn
<1>3. /\ NetIn([ps EXCEPT ![s] = r.p], i)
            = NetIn(ps, i) - t.p.base_asset_amount + r.p.base_asset_amount
      /\ NetIn(ps, i) \in Int
  BY <1>1, <1>2, NetOfSlots
<1>4. Against(r.m, [ps EXCEPT ![s] = r.p], i) = Against(t.m, ps, i)
  BY <1>1, <1>2, <1>3 DEF Against, Others
<1>5. ASSUME NEW long \in BOOLEAN
      PROVE  /\ Spare(r.m, [ps EXCEPT ![s] = r.p], i, long) >= Spare(t.m, ps, i, long)
             /\ Exact(t, r) =>
                  Spare(r.m, [ps EXCEPT ![s] = r.p], i, long) = Spare(t.m, ps, i, long)
  <2> DEFINE before == Part(t.p.base_asset_amount, long)
             after == Part(r.p.base_asset_amount, long)
             h == HeldIn(ps, i, long)
             k == HeldIn([ps EXCEPT ![s] = r.p], i, long)
             x == SideOf(t.m, long)
             y == SideOf(r.m, long)
  <2>1. h \in Nat /\ before \in Nat /\ after \in Nat /\ k = h - before + after
    BY <1>1, <1>2, HeldOfSlots
  <2>2. x \in Int /\ y \in Int
    BY <1>1, SoundParts, RoomType DEF SoundStep
  <2>3. y - after >= x - before /\ (Exact(t, r) => y - after = x - before)
    BY DEF SoundStep, Exact, Room
  <2> HIDE DEF before, after, h, k, x, y
  <2>4. y - k >= x - h /\ (Exact(t, r) => y - k = x - h)
    BY <2>1, <2>2, <2>3
  <2> QED
    BY <2>4 DEF Spare, h, k, x, y
<1> QED
  BY <1>4, <1>5 DEF Books, Balances

\* The slot of a position in one market says nothing about the others.
LEMMA ElsewhereSlot ==
    ASSUME NEW m, Good(m), NEW ps \in SlotsType, NEW s \in Slots, NEW p \in PositionType,
           NEW j, BaseIn(ps[s], j) = BaseIn(p, j)
    PROVE  Books(m, ps, m, [ps EXCEPT ![s] = p], j) /\ Balances(m, ps, m, [ps EXCEPT ![s] = p], j)
<1>1. \A z \in Slots : BaseIn([ps EXCEPT ![s] = p][z], j) = BaseIn(ps[z], j)
  BY DEF SlotsType
<1> QED
  BY <1>1, BooksSame DEF SameSides

\* The part of its value by which a position is reduced is a natural number.
LEMMA ValueToClose ==
    ASSUME NEW t, Sound(t), state \in StateType, partial_liquidation_ok(t)
    PROVE  base_asset_value_to_close(t) \in Nat
<1> DEFINE n == state.partial_liquidation_close_percentage_numerator
           d == state.partial_liquidation_close_percentage_denominator
<1>1. n \in Nat /\ d \in Nat \ {0}
  BY DEF StateType, partial_liquidation_ok
<1>2. base_asset_value_ok(t.p.base_asset_amount, t.m)
  BY DEF partial_liquidation_ok
<1>3. close_value(t) \in Nat
  BY <1>2, SoundParts, BaseAssetValue DEF close_value
<1>4. base_asset_value_to_close(t) = (close_value(t) * n) \div d
  BY DEF base_asset_value_to_close
<1> HIDE DEF n, d
<1>5. close_value(t) * n \in Nat
  BY <1>1, <1>3, TimesNat
<1> QED
  BY <1>1, <1>4, <1>5, DivNat

\* The liquidation of one position is a sound step.
LEMMA Liquidated ==
    ASSUME NEW t, Sound(t), NEW full \in BOOLEAN, NEW reading, state \in StateType,
           now \in Nat, liquidated_ok(t, full, reading)
    PROVE  /\ SoundStep(t, liquidated(t, full))
           /\ mark_price_ok(t.m) /\ mark_price_ok(liquidated(t, full).m)
<1> DEFINE d == direction_to_close_position(t.p.base_asset_amount)
           v == base_asset_value_to_close(t)
<1>1. mark_price_ok(t.m) /\ mark_price_ok(liquidated(t, full).m)
  BY DEF liquidated_ok, liquidation_blocked, block_operation_ok, calculate_oracle_mark_spread_ok
<1>2. CASE full
  BY <1>1, <1>2, Close DEF liquidated_ok, liquidated
<1>3. CASE ~full
  <2>1. partial_liquidation_ok(t) /\ liquidated(t, full) = reduce(t, d, v, now)
    BY <1>3 DEF liquidated_ok, liquidated
  <2>2. v \in Nat /\ d \in Directions
    BY <2>1, ValueToClose DEF direction_to_close_position, Directions
  <2>3. reduce_ok(t, d, v)
    BY <2>1 DEF partial_liquidation_ok
  <2> HIDE DEF d, v
  <2> QED
    BY <1>1, <2>1, <2>2, <2>3, Reduce
<1> QED
  BY <1>1, <1>2, <1>3

\* A slot is passed over, stops the walk, or is liquidated.
LEMMA SlotCases ==
    ASSUME NEW l, NEW s, NEW full, NEW readings
    PROVE  LET i  == l.ps[s].market_index
               t  == slot_trade(l, s)
               t1 == liquidated(t, full)
               r  == liquidate_slot(l, s, full, readings)
           IN  \/ r = l
               \/ r = [l EXCEPT !.ok = FALSE]
               \/ /\ is_open_position(l.ps[s]) /\ liquidated_ok(t, full, readings[i])
                  /\ r = [market |-> [l.market EXCEPT ![i] = t1.m],
                          ps |-> [l.ps EXCEPT ![s] = t1.p],
                          c |-> t1.c, trades |-> l.trades + 1, ok |-> TRUE]
<1> DEFINE t1 == liquidated(slot_trade(l, s), full)
           r  == liquidate_slot(l, s, full, readings)
<1>1. \/ r = l
      \/ r = [l EXCEPT !.ok = FALSE]
      \/ /\ is_open_position(l.ps[s])
         /\ liquidated_ok(slot_trade(l, s), full, readings[l.ps[s].market_index])
         /\ r = with_trade(l, s, t1)
  BY DEF liquidate_slot
<1> HIDE DEF r, t1
<1> QED
  BY <1>1 DEF with_trade, r, t1

\* Liquidating one slot keeps the markets, the positions and the collateral
\* well-typed and trades along the curve.
LEMMA LiquidateSlot ==
    ASSUME NEW l, Walkable(l), NEW s \in Slots, NEW full \in BOOLEAN, NEW readings,
           state \in StateType, now \in Nat
    PROVE  Walk(l, liquidate_slot(l, s, full, readings))
<1> DEFINE i  == l.ps[s].market_index
           t  == slot_trade(l, s)
           t1 == liquidated(t, full)
           l1 == [market |-> [l.market EXCEPT ![i] = t1.m], ps |-> [l.ps EXCEPT ![s] = t1.p],
                  c |-> t1.c, trades |-> l.trades + 1, ok |-> TRUE]
           r  == liquidate_slot(l, s, full, readings)
<1>1. /\ l \in LiquidationType /\ l.market \in MarketsType /\ l.ps \in SlotsType
      /\ l.c \in Nat /\ l.trades \in Nat /\ l.ok \in BOOLEAN
      /\ \A j \in Markets : Good(l.market[j]) /\ Fresh(l.market[j])
  BY DEF Walkable, LiquidationType
<1>2. l.ps[s] \in PositionType /\ i \in Markets
  BY <1>1 DEF SlotsType, PositionType
<1>3. Sound(t)
  <2>1. Good(l.market[i])
    BY <1>1, <1>2
  <2>2. t = [m |-> l.market[i], p |-> l.ps[s], c |-> l.c]
    BY DEF slot_trade
  <2> HIDE DEF i, t
  <2> QED
    BY <1>1, <1>2, <2>1, <2>2 DEF Sound, TradeType, Good
<1>4. \/ r = l
      \/ r = [l EXCEPT !.ok = FALSE]
      \/ is_open_position(l.ps[s]) /\ liquidated_ok(t, full, readings[i]) /\ r = l1
  BY SlotCases
<1>5. CASE r = l
  BY <1>1, <1>5, FollowsSame, BooksSame DEF Walk, Walkable, OnlyCloses, SameSides
<1>6. CASE r = [l EXCEPT !.ok = FALSE]
  <2>1. r \in LiquidationType
    BY <1>1, <1>6 DEF LiquidationType
  <2>2. r.market = l.market /\ r.ps = l.ps
    BY <1>1, <1>6 DEF LiquidationType
  <2> QED
    BY <1>1, <2>1, <2>2, FollowsSame, BooksSame DEF Walk, Walkable, OnlyCloses, SameSides
<1>7. CASE is_open_position(l.ps[s]) /\ liquidated_ok(t, full, readings[i]) /\ r = l1
  <2>1. SoundStep(t, t1) /\ mark_price_ok(t.m) /\ mark_price_ok(t1.m)
    BY <1>3, <1>7, Liquidated
  <2>2. t.m = l.market[i] /\ t.p = l.ps[s]
    BY DEF slot_trade
  <2>3. i = l.ps[s].market_index
    OBVIOUS
  <2> HIDE DEF t, t1, i
  <2>4. /\ Good(t1.m) /\ t1.m \in MarketType /\ t1.p \in PositionType /\ t1.c \in Nat
        /\ Follows(t.m, t1.m) /\ t1.p.market_index = l.ps[s].market_index
    BY <2>1, <2>2, SoundParts DEF SoundStep
  <2>5. Fresh(t1.m)
    <3>1. t.m.initialized
      BY <1>1, <1>2, <2>1, <2>2 DEF Fresh, mark_price_ok
    <3> QED
      BY <2>4, <3>1 DEF Fresh, Follows
  <2>6. /\ r.market = [l.market EXCEPT ![i] = t1.m] /\ r.ps = [l.ps EXCEPT ![s] = t1.p]
        /\ r.c = t1.c /\ r.trades = l.trades + 1 /\ r.ok = TRUE
    BY <1>7
  <2> HIDE DEF r
  <2>7. r \in LiquidationType
    <3>1. [l.market EXCEPT ![i] = t1.m] \in MarketsType
      BY <1>1, <2>4 DEF MarketsType
    <3>2. [l.ps EXCEPT ![s] = t1.p] \in SlotsType
      BY <1>1, <2>4 DEF SlotsType
    <3>3. l.trades + 1 \in Nat
      BY <1>1
    <3> QED
      BY <1>7, <2>4, <3>1, <3>2, <3>3 DEF LiquidationType
  <2>8. ASSUME NEW j \in Markets
        PROVE  /\ Good(r.market[j]) /\ Fresh(r.market[j])
               /\ Follows(l.market[j], r.market[j])
               /\ r.market[j] = l.market[j] \/ mark_price_ok(r.market[j])
               /\ Books(l.market[j], l.ps, r.market[j], r.ps, j)
    <3>1. CASE j = i
      <4>1. r.market[j] = t1.m
        BY <1>1, <2>6, <3>1 DEF MarketsType
      <4>2. Books(t.m, l.ps, t1.m, r.ps, i)
        <5>1. t.p.market_index = i /\ BaseIn(l.ps[s], i) = t.p.base_asset_amount
          BY <2>2, <2>3 DEF BaseIn
        <5> QED
          BY <1>1, <1>3, <2>1, <2>6, <5>1, BookedSlot
      <4> QED
        BY <2>1, <2>2, <2>4, <2>5, <3>1, <4>1, <4>2
    <3>2. CASE j # i
      <4>1. r.market[j] = l.market[j]
        BY <1>1, <2>6, <3>2 DEF MarketsType
      <4>2. Books(l.market[j], l.ps, l.market[j], r.ps, j)
        <5>1. BaseIn(l.ps[s], j) = BaseIn(t1.p, j)
          BY <2>3, <2>4, <3>2 DEF BaseIn
        <5> QED
          BY <1>1, <2>4, <2>6, <5>1, ElsewhereSlot
      <4> QED
        BY <1>1, <4>1, <4>2, FollowsSame
    <3> QED
      BY <3>1, <3>2
  <2>9. OnlyCloses(l.ps, r.ps)
    <3>1. ASSUME NEW z \in Slots
          PROVE  /\ r.ps[z].market_index = l.ps[z].market_index
                 /\ is_open_position(r.ps[z]) => is_open_position(l.ps[z])
      <4>1. CASE z = s
        BY <1>1, <1>7, <2>4, <2>6, <4>1 DEF SlotsType
      <4>2. CASE z # s
        BY <1>1, <2>6, <4>2 DEF SlotsType
      <4> QED
        BY <4>1, <4>2
    <3> QED
      BY <3>1 DEF OnlyCloses
  <2> QED
    BY <2>7, <2>8, <2>9 DEF Walk, Walkable, r
<1> QED
  BY <1>4, <1>5, <1>6, <1>7

\* So does the walk over the five slots.
LEMMA LiquidateSlots ==
    ASSUME NEW l, Walkable(l), NEW full \in BOOLEAN, NEW readings,
           state \in StateType, now \in Nat
    PROVE  Walk(l, liquidate_slots(l, full, readings))
<1> DEFINE l1 == liquidate_slot(l, 1, full, readings)
           l2 == liquidate_slot(l1, 2, full, readings)
           l3 == liquidate_slot(l2, 3, full, readings)
           l4 == liquidate_slot(l3, 4, full, readings)
           l5 == liquidate_slot(l4, 5, full, readings)
<1>1. liquidate_slots(l, full, readings) = l5
  BY DEF liquidate_slots
<1>2. 1 \in Slots /\ 2 \in Slots /\ 3 \in Slots /\ 4 \in Slots /\ 5 \in Slots
  BY DEF Slots
<1>3. Walk(l, l1)
  BY <1>2, LiquidateSlot
<1> HIDE DEF l1
<1>4. Walk(l1, l2)
  BY <1>2, <1>3, LiquidateSlot DEF Walk
<1> HIDE DEF l2
<1>5. Walk(l2, l3)
  BY <1>2, <1>4, LiquidateSlot DEF Walk
<1> HIDE DEF l3
<1>6. Walk(l3, l4)
  BY <1>2, <1>5, LiquidateSlot DEF Walk
<1> HIDE DEF l4
<1>7. Walk(l4, l5)
  BY <1>2, <1>6, LiquidateSlot DEF Walk
<1> HIDE DEF l5
<1>8. Walk(l, l3)
  BY <1>3, <1>4, <1>5, WalkTwice
<1> QED
  BY <1>1, <1>6, <1>7, <1>8, WalkTwice

(***************************************************************************)
(* The funding rates of the positions                                      *)
(***************************************************************************)
\* None of the positions owes funding.
PaidUp(ps, mk) == \A s \in Slots : ~owes_funding(ps[s], mk)

\* The reserves of the markets that exist are on their curves, above a minimum
\* trade size.
AllTame(mk) == \A i \in Markets : mk[i].initialized => Tame(mk[i])

\* Position q is what is left of p.
Shrunk(p, q) ==
    LET before == p.base_asset_amount
        after  == q.base_asset_amount
    IN  /\ before > 0 => 0 <= after /\ after <= before
        /\ before < 0 => before <= after /\ after <= 0
        /\ before = 0 => after = 0
Shrinks(ps, qs) == \A s \in Slots : Shrunk(ps[s], qs[s])

\* A partial liquidation closes less than the whole.
ClosesLess ==
    state.partial_liquidation_close_percentage_numerator
        < state.partial_liquidation_close_percentage_denominator

\* Settling pays up.
LEMMA SettledPaidUp ==
    ASSUME NEW ps \in SlotsType, NEW mk
    PROVE  PaidUp(settled_positions(ps, mk), mk)
<1>1. ASSUME NEW p \in PositionType PROVE ~owes_funding(settled_position(p, mk), mk)
  <2> DEFINE rate == cumulative_funding_rate(mk[p.market_index], p.base_asset_amount > 0)
             q == settled_position(p, mk)
  <2>1. CASE owes_funding(p, mk)
    <3>1. /\ q.market_index = p.market_index /\ q.base_asset_amount = p.base_asset_amount
          /\ q.last_cumulative_funding_rate = rate
      BY <2>1 DEF settled_position, PositionType
    <3> QED
      BY <3>1 DEF owes_funding
  <2>2. CASE ~owes_funding(p, mk)
    BY <2>2 DEF settled_position
  <2> QED
    BY <2>1, <2>2
<1>2. ASSUME NEW s \in Slots PROVE ~owes_funding(settled_positions(ps, mk)[s], mk)
  BY <1>1 DEF settled_positions, SlotsType
<1> QED
  BY <1>2 DEF PaidUp

\* What is owed depends on the cumulative rates only.
LEMMA PaidUpAtRates ==
    ASSUME NEW ps \in SlotsType, NEW mk, NEW nk, PaidUp(ps, mk),
           \A i \in Markets : SamePace(mk[i], nk[i])
    PROVE  PaidUp(ps, nk)
<1>1. ASSUME NEW s \in Slots PROVE ~owes_funding(ps[s], nk)
  <2>1. ps[s].market_index \in Markets /\ ~owes_funding(ps[s], mk)
    BY DEF SlotsType, PositionType, PaidUp
  <2> QED
    BY <2>1 DEF owes_funding, cumulative_funding_rate, SamePace
<1> QED
  BY <1>1 DEF PaidUp

\* A part of less than the whole of a value that is not zero is less than the
\* value; the minimum trade size keeps the part from being zero.
LEMMA ClosedPart ==
    ASSUME NEW t, Sound(t), state \in StateType, partial_liquidation_ok(t), ClosesLess,
           t.m.minimum_trade_size > 0
    PROVE  base_asset_value_to_close(t) < close_value(t)
<1> DEFINE n == state.partial_liquidation_close_percentage_numerator
           d == state.partial_liquidation_close_percentage_denominator
           v == close_value(t)
           q == base_asset_value_to_close(t)
           X == AMM_TIMES_PEG_TO_QUOTE_PRECISION_RATIO
<1>1. n \in Nat /\ d \in Nat \ {0} /\ n < d
  BY DEF StateType, partial_liquidation_ok, ClosesLess
<1>2. v \in Nat /\ q \in Nat
  BY SoundParts, BaseAssetValue, ValueToClose DEF partial_liquidation_ok, close_value
<1>3. q = (v * n) \div d
  BY DEF base_asset_value_to_close
<1>4. t.m.peg_multiplier \in Nat \ {0} /\ t.m.minimum_trade_size \in Nat
  BY SoundParts DEF partial_liquidation_ok, reduce_ok, swap_quote_asset_ok, MarketType
<1>5. asset_to_reserve_amount(q, t.m.peg_multiplier) >= t.m.minimum_trade_size
  BY DEF partial_liquidation_ok, reduce_ok, swap_quote_asset_ok
<1> HIDE DEF n, d, v, q
<1>6. q # 0
  <2>1. asset_to_reserve_amount(0, t.m.peg_multiplier) = 0
    <3>1. X \in Nat /\ 0 * X = 0 /\ 0 \div t.m.peg_multiplier = 0
      BY <1>4, PrecisionFacts
    <3> QED
      BY <3>1 DEF asset_to_reserve_amount
  <2> QED
    BY <1>4, <1>5, <2>1
<1>7. v * n \in Nat /\ q * d <= v * n
  BY <1>1, <1>2, <1>3, TimesNat, DivBounds
<1>8. v # 0
  <2>1. SUFFICES ASSUME v = 0 PROVE FALSE
    OBVIOUS
  <2>2. q * d <= 0
    BY <1>1, <1>7, <2>1
  <2>3. q * d \in Nat /\ q * d >= d
    BY <1>1, <1>2, <1>6, TimesNat
  <2> QED
    BY <1>1, <2>2, <2>3
<1>9. v * n < v * d
  BY <1>1, <1>2, <1>8
<1>10. SUFFICES ASSUME v <= q PROVE FALSE
  BY <1>2 DEF v, q
<1>11. v * d <= q * d
  BY <1>1, <1>2, <1>10
<1> QED
  BY <1>1, <1>2, <1>7, <1>9, <1>11

\* The liquidation of one position takes a part of it away, and leaves the rest
\* on its side and at its rate.
LEMMA LiquidatedRate ==
    ASSUME NEW t, Sound(t), AtRate(t), NEW full \in BOOLEAN, NEW reading, state \in StateType,
           now \in Nat, ClosesLess, Tame(t.m), is_open_position(t.p),
           liquidated_ok(t, full, reading)
    PROVE  /\ AtRate(liquidated(t, full)) /\ Shrunk(t.p, liquidated(t, full).p)
           /\ Exact(t, liquidated(t, full))
<1> DEFINE d == direction_to_close_position(t.p.base_asset_amount)
           v == base_asset_value_to_close(t)
<1>1. CASE full
  <2>1. liquidated(t, full).p.base_asset_amount = 0
    BY <1>1 DEF liquidated, close, new_market_position
  <2>2. t.p.base_asset_amount \in Int
    BY SoundParts
  <2>3. Exact(t, liquidated(t, full))
    BY <1>1, Close DEF liquidated_ok, liquidated
  <2> QED
    BY <2>1, <2>2, <2>3 DEF AtRate, is_open_position, Shrunk
<1>2. CASE ~full
  <2>1. partial_liquidation_ok(t) /\ liquidated(t, full) = reduce(t, d, v, now)
    BY <1>2 DEF liquidated_ok, liquidated
  <2>2. v \in Nat /\ d \in Directions /\ v < close_value(t)
    BY <2>1, ValueToClose, ClosedPart DEF direction_to_close_position, Directions, Tame
  <2>3. reduce_ok(t, d, v) /\ base_asset_value_ok(t.p.base_asset_amount, t.m)
    BY <2>1 DEF partial_liquidation_ok
  <2>4. ~increases_position(t, d)
    BY SoundParts DEF increases_position, direction_to_close_position, is_open_position
  <2>5. t.p \in PositionType /\ t.p.base_asset_amount \in Int /\ t.p.base_asset_amount # 0
    BY SoundParts DEF is_open_position
  <2> HIDE DEF d, v
  <2>6. liquidated(t, full).p.base_asset_amount
          = t.p.base_asset_amount + reduced_base(t, d, v)
    <3>1. reduce(t, d, v, now).p.base_asset_amount
            = t.p.base_asset_amount + reduced_base(t, d, v)
      BY <2>5 DEF reduce, PositionType
    <3> QED
      BY <2>1, <3>1
  <2>7. Shrunk(t.p, liquidated(t, full).p)
    <3> DEFINE before == t.p.base_asset_amount
               after == before + reduced_base(t, d, v)
    <3>1. /\ after \in Int
          /\ before > 0 => after > 0 /\ after <= before
          /\ before < 0 => after <= 0 /\ after >= before
      BY <2>2, <2>3, <2>4, ReducedSide, ReducedSize
    <3> HIDE DEF before, after
    <3>2. /\ before > 0 => 0 <= after /\ after <= before
          /\ before < 0 => before <= after /\ after <= 0
      BY <3>1
    <3> QED
      BY <2>5, <2>6, <3>2 DEF Shrunk, before, after
  <2> QED
    BY <2>1, <2>2, <2>3, <2>4, <2>7, ReduceRate
<1> QED
  BY <1>1, <1>2

\* What is left of what is left.
LEMMA ShrinksTwice ==
    ASSUME NEW ps \in SlotsType, NEW qs \in SlotsType, NEW rs \in SlotsType,
           Shrinks(ps, qs), Shrinks(qs, rs)
    PROVE  Shrinks(ps, rs)
<1>1. ASSUME NEW s \in Slots PROVE Shrunk(ps[s], rs[s])
  <2>1. /\ ps[s].base_asset_amount \in Int /\ qs[s].base_asset_amount \in Int
        /\ rs[s].base_asset_amount \in Int
    BY DEF SlotsType, PositionType
  <2>2. Shrunk(ps[s], qs[s]) /\ Shrunk(qs[s], rs[s])
    BY DEF Shrinks
  <2> QED
    BY <2>1, <2>2 DEF Shrunk
<1> QED
  BY <1>1 DEF Shrinks

\* A walk stays on the curves.
LEMMA WalkTame ==
    ASSUME NEW l, NEW r, Walk(l, r), AllTame(l.market)
    PROVE  AllTame(r.market)
<1>1. ASSUME NEW i \in Markets, r.market[i].initialized PROVE Tame(r.market[i])
  <2> DEFINE m == l.market[i]
             n == r.market[i]
  <2>1. Follows(m, n) /\ (n = m \/ mark_price_ok(n))
    BY DEF Walk
  <2>2. Tame(m)
    BY <1>1, <2>1 DEF Follows, AllTame
  <2> HIDE DEF m, n
  <2>3. CASE n = m
    BY <2>2, <2>3 DEF n
  <2>4. CASE mark_price_ok(n)
    <3>1. n.sqrt_k = m.sqrt_k /\ Lands(m, n) /\ n.minimum_trade_size = m.minimum_trade_size
      BY <2>1 DEF Follows, Mirrors, SameTerms
    <3>2. OnCurve(n)
      BY <2>2, <2>4, <3>1, SameIsOnCurve DEF Lands, Tame
    <3> QED
      BY <2>2, <3>1, <3>2 DEF Tame, n
  <2> QED
    BY <2>1, <2>3, <2>4
<1> QED
  BY <1>1 DEF AllTame

\* The walk from l to r books exactly what the positions lose.
WalkBalances(l, r) == \A j \in Markets : Balances(l.market[j], l.ps, r.market[j], r.ps, j)

\* A step of the walk keeps the positions paid up and enlarges none.
LEMMA SlotPaidUp ==
    ASSUME NEW l, Walkable(l), NEW s \in Slots, NEW full \in BOOLEAN, NEW readings,
           state \in StateType, now \in Nat, ClosesLess, AllTame(l.market), PaidUp(l.ps, l.market)
    PROVE  LET r == liquidate_slot(l, s, full, readings)
           IN  /\ Walk(l, r) /\ AllTame(r.market)
               /\ PaidUp(r.ps, r.market) /\ Shrinks(l.ps, r.ps) /\ WalkBalances(l, r)
<1> DEFINE i  == l.ps[s].market_index
           t  == slot_trade(l, s)
           t1 == liquidated(t, full)
           l1 == [market |-> [l.market EXCEPT ![i] = t1.m], ps |-> [l.ps EXCEPT ![s] = t1.p],
                  c |-> t1.c, trades |-> l.trades + 1, ok |-> TRUE]
           r  == liquidate_slot(l, s, full, readings)
<1>1. /\ l \in LiquidationType /\ l.market \in MarketsType /\ l.ps \in SlotsType
      /\ l.c \in Nat /\ l.ok \in BOOLEAN
      /\ \A j \in Markets : Good(l.market[j]) /\ Fresh(l.market[j])
  BY DEF Walkable, LiquidationType
<1>2. Walk(l, r)
  BY LiquidateSlot
<1>3. /\ \A j \in Markets : SamePace(l.market[j], r.market[j])
      /\ AllTame(r.market)
  BY <1>2, WalkTame DEF Walk, Follows
<1>4. \/ r = l
      \/ r = [l EXCEPT !.ok = FALSE]
      \/ is_open_position(l.ps[s]) /\ liquidated_ok(t, full, readings[i]) /\ r = l1
  BY SlotCases
<1>5. ASSUME r.market = l.market, r.ps = l.ps
      PROVE  PaidUp(r.ps, r.market) /\ Shrinks(l.ps, r.ps) /\ WalkBalances(l, r)
  <2>1. ASSUME NEW z \in Slots PROVE Shrunk(l.ps[z], r.ps[z])
    <3>1. l.ps[z].base_asset_amount \in Int /\ r.ps[z] = l.ps[z]
      BY <1>1, <1>5 DEF SlotsType, PositionType
    <3> HIDE DEF r
    <3> QED
      BY <3>1 DEF Shrunk
  <2> QED
    BY <1>5, <2>1 DEF Shrinks, WalkBalances, Balances
<1>6. CASE r = l \/ r = [l EXCEPT !.ok = FALSE]
  <2>1. r.market = l.market /\ r.ps = l.ps
    BY <1>1, <1>6 DEF LiquidationType
  <2> HIDE DEF r
  <2>2. PaidUp(r.ps, r.market) /\ Shrinks(l.ps, r.ps) /\ WalkBalances(l, r)
    BY <1>5, <2>1
  <2> QED
    BY <1>2, <1>3, <2>2 DEF r
<1>7. CASE is_open_position(l.ps[s]) /\ liquidated_ok(t, full, readings[i]) /\ r = l1
  <2>1. t.m = l.market[i] /\ t.p = l.ps[s] /\ t = [m |-> l.market[i], p |-> l.ps[s], c |-> l.c]
    BY DEF slot_trade
  <2>2. l.ps[s] \in PositionType /\ i \in Markets
    BY <1>1 DEF SlotsType, PositionType
  <2>3. Sound(t)
    <3> HIDE DEF i, t
    <3> QED
      BY <1>1, <2>1, <2>2 DEF Sound, TradeType, Good
  <2>4. AtRate(t)
    BY <2>1 DEF AtRate, PaidUp, owes_funding
  <2>5. mark_price_ok(t.m) /\ SoundStep(t, t1)
    BY <1>7, <2>3, Liquidated
  <2>6. Tame(t.m)
    BY <1>1, <2>1, <2>2, <2>5 DEF Fresh, mark_price_ok, AllTame
  <2>7. AtRate(t1) /\ Shrunk(l.ps[s], t1.p) /\ Exact(t, t1)
    BY <1>7, <2>1, <2>3, <2>4, <2>6, LiquidatedRate
  <2>8. /\ t1.p.market_index = i /\ t1.p \in PositionType
    BY <2>1, <2>5, SoundParts DEF SoundStep
  <2>9. r.market = [l.market EXCEPT ![i] = t1.m] /\ r.ps = [l.ps EXCEPT ![s] = t1.p]
    BY <1>7
  <2> HIDE DEF t1, i, r
  <2>10. r.market[i] = t1.m
    BY <1>1, <2>2, <2>9 DEF MarketsType
  <2>11. PaidUp(l.ps, r.market)
    BY <1>1, <1>3, PaidUpAtRates
  <2>12. ASSUME NEW z \in Slots
         PROVE  ~owes_funding(r.ps[z], r.market) /\ Shrunk(l.ps[z], r.ps[z])
    <3>1. CASE z = s
      <4>1. r.ps[z] = t1.p
        BY <1>1, <2>9, <3>1 DEF SlotsType
      <4>2. ~owes_funding(r.ps[z], r.market)
        BY <2>7, <2>8, <2>10, <4>1 DEF AtRate, owes_funding
      <4> QED
        BY <2>7, <3>1, <4>1, <4>2
    <3>2. CASE z # s
      <4>1. r.ps[z] = l.ps[z] /\ l.ps[z].base_asset_amount \in Int
        BY <1>1, <2>9, <3>2 DEF SlotsType, PositionType
      <4>2. Shrunk(l.ps[z], r.ps[z])
        BY <4>1 DEF Shrunk
      <4> QED
        BY <2>11, <4>1, <4>2 DEF PaidUp
    <3> QED
      BY <3>1, <3>2
  <2>13. ASSUME NEW j \in Markets PROVE Balances(l.market[j], l.ps, r.market[j], r.ps, j)
    <3>1. CASE j = i
      <4>1. BaseIn(l.ps[s], i) = t.p.base_asset_amount /\ t.p.market_index = i
        BY <2>1 DEF BaseIn, i
      <4> HIDE DEF t
      <4>2. Balances(t.m, l.ps, t1.m, [l.ps EXCEPT ![s] = t1.p], i)
        BY <1>1, <2>3, <2>5, <2>7, <4>1, BookedSlot
      <4> QED
        BY <2>1, <2>9, <2>10, <3>1, <4>2
    <3>2. CASE j # i
      <4>1. r.market[j] = l.market[j]
        BY <1>1, <2>9, <3>2 DEF MarketsType
      <4>2. BaseIn(l.ps[s], j) = BaseIn(t1.p, j)
        BY <2>8, <3>2 DEF BaseIn, i
      <4> QED
        BY <1>1, <2>8, <2>9, <4>1, <4>2, ElsewhereSlot
    <3> QED
      BY <3>1, <3>2
  <2> QED
    BY <1>2, <1>3, <2>12, <2>13 DEF PaidUp, Shrinks, WalkBalances, r
<1> QED
  BY <1>4, <1>6, <1>7

\* So does the whole walk.
LEMMA SlotsPaidUp ==
    ASSUME NEW l, Walkable(l), NEW full \in BOOLEAN, NEW readings,
           state \in StateType, now \in Nat, ClosesLess, AllTame(l.market), PaidUp(l.ps, l.market)
    PROVE  LET r == liquidate_slots(l, full, readings)
           IN  PaidUp(r.ps, r.market) /\ Shrinks(l.ps, r.ps) /\ WalkBalances(l, r)
<1> DEFINE l1 == liquidate_slot(l, 1, full, readings)
           l2 == liquidate_slot(l1, 2, full, readings)
           l3 == liquidate_slot(l2, 3, full, readings)
           l4 == liquidate_slot(l3, 4, full, readings)
           l5 == liquidate_slot(l4, 5, full, readings)
           Going(k) == /\ Walkable(k) /\ AllTame(k.market)
                       /\ PaidUp(k.ps, k.market) /\ Shrinks(l.ps, k.ps)
                       /\ WalkBalances(l, k)
<1>1. liquidate_slots(l, full, readings) = l5
  BY DEF liquidate_slots
<1>2. ASSUME NEW k, Going(k), NEW s \in Slots
      PROVE  Going(liquidate_slot(k, s, full, readings))
  <2> DEFINE r == liquidate_slot(k, s, full, readings)
  <2>1. /\ Walk(k, r) /\ AllTame(r.market) /\ PaidUp(r.ps, r.market) /\ Shrinks(k.ps, r.ps)
        /\ WalkBalances(k, r)
    BY <1>2, SlotPaidUp
  <2> HIDE DEF r
  <2>2. l.ps \in SlotsType /\ k.ps \in SlotsType /\ r.ps \in SlotsType
    BY <1>2, <2>1 DEF Walk, Walkable, LiquidationType
  <2>3. Shrinks(l.ps, r.ps)
    BY <1>2, <2>1, <2>2, ShrinksTwice
  <2>4. WalkBalances(l, r)
    BY <1>2, <2>1 DEF WalkBalances, Balances
  <2> QED
    BY <2>1, <2>3, <2>4 DEF Walk, r
<1>3. 1 \in Slots /\ 2 \in Slots /\ 3 \in Slots /\ 4 \in Slots /\ 5 \in Slots
  BY DEF Slots
<1>4. Going(l)
  <2>1. ASSUME NEW z \in Slots PROVE Shrunk(l.ps[z], l.ps[z])
    <3>1. l.ps[z].base_asset_amount \in Int
      BY DEF Walkable, LiquidationType, SlotsType, PositionType
    <3> QED
      BY <3>1 DEF Shrunk
  <2> QED
    BY <2>1 DEF Shrinks, WalkBalances, Balances
<1> HIDE DEF Going
<1>5. Going(l1)
  BY <1>2, <1>3, <1>4
<1> HIDE DEF l1
<1>6. Going(l2)
  BY <1>2, <1>3, <1>5
<1> HIDE DEF l2
<1>7. Going(l3)
  BY <1>2, <1>3, <1>6
<1> HIDE DEF l3
<1>8. Going(l4)
  BY <1>2, <1>3, <1>7
<1> HIDE DEF l4
<1>9. Going(l5)
  BY <1>2, <1>3, <1>8
<1> HIDE DEF l5
<1> QED
  BY <1>1, <1>9 DEF Going
=============================================================================
