------------------------------ MODULE TradeProofs ------------------------------
(***************************************************************************)
(* What the operators on one market and what a trade preserve, for every   *)
(* value of the precisions.  A market keeps its type and the balance of    *)
(* its three position counters.  increase, reduce and close take a         *)
(* well-typed trade state with balanced counters to another one in the     *)
(* same market, keep the sum of the base reserve and the net position, and *)
(* leave the reserves on the curve.  What they book on a side covers what  *)
(* the position loses or gains, and is exactly that from a tame market.    *)
(***************************************************************************)
EXTENDS ClearingHouseProps, TLAPS

Good(m) == m \in MarketType /\ IsNet(m)

SamePace(m, n) ==
    /\ n.funding_period = m.funding_period
    /\ n.last_funding_rate_ts = m.last_funding_rate_ts
    /\ n.cumulative_funding_rate_long = m.cumulative_funding_rate_long
    /\ n.cumulative_funding_rate_short = m.cumulative_funding_rate_short

SameReserves(m, n) ==
    /\ n.base_asset_reserve = m.base_asset_reserve
    /\ n.quote_asset_reserve = m.quote_asset_reserve

SameFee(m, n) == n.total_fee = m.total_fee
SameTerms(m, n) ==
    /\ SameFee(m, n) /\ n.total_fee_minus_distributions = m.total_fee_minus_distributions
    /\ n.minimum_trade_size = m.minimum_trade_size

SameSides(m, n) ==
    /\ n.base_asset_amount_long = m.base_asset_amount_long
    /\ n.base_asset_amount_short = m.base_asset_amount_short

\* The reserves did not move, or they moved to the curve.
Lands(m, n) == SameReserves(m, n) \/ (mark_price_ok(n) => OnCurve(n))

\* Between two states of a market only trades happened.
Follows(m, n) ==
    /\ Mirrors(m, n) /\ n.initialized = m.initialized
    /\ SamePace(m, n) /\ SameTerms(m, n) /\ Lands(m, n)

TradeType == [m: MarketType, p: PositionType, c: Nat]

(***************************************************************************)
(* Arithmetic                                                              *)
(***************************************************************************)
\* Division of a natural number by a positive one gives a natural number.
LEMMA DivNat == ASSUME NEW a \in Nat, NEW b \in Nat \ {0} PROVE a \div b \in Nat
OBVIOUS

\* A product of natural numbers is a natural number.
LEMMA TimesNat == ASSUME NEW a \in Nat, NEW b \in Nat PROVE a * b \in Nat
OBVIOUS

\* The quotient is at most the dividend.
LEMMA DivLeq == ASSUME NEW a \in Nat, NEW b \in Nat \ {0} PROVE a \div b <= a
OBVIOUS

\* The ratios of the precisions are positive.
LEMMA PrecisionFacts ==
    /\ PRICE_TO_PEG_PRECISION_RATIO \in Nat \ {0}
    /\ AMM_TO_QUOTE_PRECISION_RATIO \in Nat \ {0}
    /\ AMM_TIMES_PEG_TO_QUOTE_PRECISION_RATIO \in Nat \ {0}
    /\ QUOTE_TO_BASE_AMT_FUNDING_PRECISION \in Nat
<1>1. PRICE_TO_PEG_PRECISION_RATIO \in Nat \ {0}
  BY PrecisionAssumption DEF PRICE_TO_PEG_PRECISION_RATIO
<1>2. AMM_TO_QUOTE_PRECISION_RATIO \in Nat \ {0}
  BY PrecisionAssumption DEF AMM_TO_QUOTE_PRECISION_RATIO
<1>3. AMM_TIMES_PEG_TO_QUOTE_PRECISION_RATIO \in Nat \ {0}
  <2>1. AMM_RESERVE_PRECISION * PEG_PRECISION >= AMM_RESERVE_PRECISION
    BY PrecisionAssumption
  <2>2. AMM_RESERVE_PRECISION * PEG_PRECISION \in Nat
    BY PrecisionAssumption
  <2> QED
    BY <2>1, <2>2, PrecisionAssumption DEF AMM_TIMES_PEG_TO_QUOTE_PRECISION_RATIO
<1>4. QUOTE_TO_BASE_AMT_FUNDING_PRECISION \in Nat
  <2>1. AMM_RESERVE_PRECISION * MARK_PRICE_PRECISION \in Nat
    BY PrecisionAssumption
  <2>2. AMM_RESERVE_PRECISION * MARK_PRICE_PRECISION * FUNDING_PAYMENT_PRECISION \in Nat
    BY <2>1, PrecisionAssumption
  <2> QED
    BY <2>2, PrecisionAssumption, DivNat DEF QUOTE_TO_BASE_AMT_FUNDING_PRECISION
<1> QED
  BY <1>1, <1>2, <1>3, <1>4

\* Truncating division gives an integer, and a natural number of natural numbers.
LEMMA QuotType ==
    ASSUME NEW a \in Int, NEW b \in Int \ {0}
    PROVE  /\ Quot(a, b) \in Int
           /\ a >= 0 /\ b > 0 => Quot(a, b) \in Nat
<1>1. unsigned_abs(a) \in Nat /\ unsigned_abs(b) \in Nat \ {0}
  BY DEF unsigned_abs
<1>2. unsigned_abs(a) \div unsigned_abs(b) \in Nat
  BY <1>1, DivNat
<1> QED
  BY <1>2 DEF Quot

\* A time weighted average of integers is an integer.
LEMMA TwapInt ==
    ASSUME NEW a \in Int, NEW b \in Int, NEW c \in Nat \ {0}, NEW d \in Nat \ {0}
    PROVE  calculate_twap(a, b, c, d) \in Int
<1>1. b * d \in Int /\ a * c \in Int /\ c + d \in Int \ {0}
  OBVIOUS
<1>2. b * d + a * c \in Int
  BY <1>1
<1> QED
  BY <1>1, <1>2, QuotType DEF calculate_twap

\* A time weighted average of natural numbers is a natural number.
LEMMA TwapNat ==
    ASSUME NEW a \in Nat, NEW b \in Nat, NEW c \in Nat \ {0}, NEW d \in Nat \ {0}
    PROVE  calculate_twap(a, b, c, d) \in Nat
<1>1. b * d \in Nat /\ a * c \in Nat /\ c + d \in Nat \ {0}
  OBVIOUS
<1>2. b * d + a * c \in Nat
  BY <1>1
<1> QED
  BY <1>1, <1>2, QuotType DEF calculate_twap

\* The weights of a time weighted average are positive.
LEMMA WeightType ==
    ASSUME NEW period \in Nat, NEW ts \in Int, NEW old \in Int
    PROVE  /\ since_last(ts, old) \in Nat \ {0}
           /\ from_start(period, ts, old) \in Nat \ {0}
BY DEF since_last, from_start, Larger

\* A price on non-empty reserves is a natural number.
LEMMA PriceType ==
    ASSUME NEW q \in Nat, NEW b \in Nat \ {0}, NEW p \in Nat
    PROVE  calculate_price(q, b, p) \in Nat
<1>1. q * p \in Nat
  OBVIOUS
<1>2. q * p * PRICE_TO_PEG_PRECISION_RATIO \in Nat
  BY PrecisionFacts, <1>1
<1> QED
  BY <1>2, DivNat DEF calculate_price

(***************************************************************************)
(* The curve                                                               *)
(***************************************************************************)
\* What a quotient is: the multiples of the divisor around the dividend.
LEMMA DivBounds ==
    ASSUME NEW k \in Nat, NEW a \in Nat \ {0}
    PROVE  (k \div a) * a <= k /\ k < (k \div a + 1) * a
OBVIOUS

\* A quotient is at least every number whose multiple fits into the dividend.
LEMMA DivAtLeast ==
    ASSUME NEW k \in Nat, NEW a \in Nat \ {0}, NEW x \in Nat, x * a <= k
    PROVE  x <= k \div a
<1> DEFINE y == k \div a
<1>1. y \in Nat /\ k < (y + 1) * a
  BY DivBounds, DivNat
<1> HIDE DEF y
<1>2. SUFFICES ASSUME x > y PROVE FALSE
  BY <1>1 DEF y
<1>3. x * a >= (y + 1) * a
  BY <1>1, <1>2
<1> QED
  BY <1>1, <1>3

\* A quotient is below every number whose multiple exceeds the dividend.
LEMMA DivBelow ==
    ASSUME NEW k \in Nat, NEW a \in Nat \ {0}, NEW x \in Nat, k < x * a
    PROVE  k \div a < x
<1> DEFINE y == k \div a
<1>1. y \in Nat /\ y * a <= k
  BY DivBounds, DivNat
<1> HIDE DEF y
<1>2. SUFFICES ASSUME y >= x PROVE FALSE
  BY <1>1 DEF y
<1>3. y * a >= x * a
  BY <1>1, <1>2
<1> QED
  BY <1>1, <1>3

\* A base reserve computed from the quote reserve is on the curve.
LEMMA CurveBase ==
    ASSUME NEW k \in Nat, NEW q \in Nat \ {0}, k \div q > 0
    PROVE  LET b == k \div q IN k \div (b + 1) <= q /\ q <= k \div b
<1> DEFINE b == k \div q
<1>1. b \in Nat \ {0} /\ b * q <= k /\ k < (b + 1) * q
  BY DivBounds, DivNat
<1> HIDE DEF b
<1>2. q * b <= k /\ k < q * (b + 1)
  BY <1>1
<1>3. q <= k \div b
  BY <1>1, <1>2, DivAtLeast
<1>4. b + 1 \in Nat \ {0}
  BY <1>1
<1>5. k \div (b + 1) < q
  BY <1>2, <1>4, DivBelow
<1>6. k \div (b + 1) \in Nat
  BY <1>4, DivNat
<1> QED
  BY <1>3, <1>5, <1>6 DEF b

\* So is a quote reserve computed from the base reserve.
LEMMA CurveQuote ==
    ASSUME NEW k \in Nat, NEW b \in Nat \ {0}
    PROVE  k \div (b + 1) <= k \div b
<1> DEFINE x == k \div (b + 1)
<1>1. x \in Nat /\ x * (b + 1) <= k
  BY DivBounds, DivNat
<1> HIDE DEF x
<1>2. x * b <= x * (b + 1)
  BY <1>1
<1>3. x * b <= k
  BY <1>1, <1>2
<1> QED
  BY <1>1, <1>3, DivAtLeast DEF x

\* Being on the curve is a matter of the reserves and k.
LEMMA SameIsOnCurve ==
    ASSUME NEW m, NEW n, SameReserves(m, n), n.sqrt_k = m.sqrt_k, OnCurve(m)
    PROVE  OnCurve(n)
BY DEF SameReserves, OnCurve

\* A market follows itself.
LEMMA FollowsSame == ASSUME NEW m PROVE Follows(m, m)
BY DEF Follows, Mirrors, SamePace, SameTerms, SameFee, Lands, SameReserves

\* Trades compose.
LEMMA FollowsTwice ==
    ASSUME NEW m, NEW n, NEW r, Follows(m, n), Follows(n, r)
    PROVE  Follows(m, r)
<1>1. /\ Mirrors(m, r) /\ r.initialized = m.initialized
      /\ SamePace(m, r) /\ SameTerms(m, r)
  BY DEF Follows, Mirrors, SamePace, SameTerms, SameFee
<1>2. CASE SameReserves(n, r) /\ SameReserves(m, n)
  BY <1>1, <1>2 DEF Follows, Lands, SameReserves
<1>3. CASE SameReserves(n, r) /\ (mark_price_ok(n) => OnCurve(n))
  <2>1. mark_price_ok(r) => OnCurve(r)
    BY <1>3, SameIsOnCurve DEF Follows, Mirrors, SameReserves, mark_price_ok
  <2> QED
    BY <1>1, <2>1 DEF Follows, Lands
<1>4. CASE mark_price_ok(r) => OnCurve(r)
  BY <1>1, <1>4 DEF Follows, Lands
<1> QED
  BY <1>2, <1>3, <1>4 DEF Follows, Lands

(***************************************************************************)
(* The twaps                                                               *)
(***************************************************************************)
\* update_mark_twap keeps the type, the counters and the curve of a market.
LEMMA UpdateMarkTwap ==
    ASSUME NEW m, Good(m), mark_price_ok(m), NEW ts \in Nat
    PROVE  /\ Good(update_mark_twap(m, ts))
           /\ Follows(m, update_mark_twap(m, ts))
           /\ update_mark_twap(m, ts).base_asset_reserve = m.base_asset_reserve
           /\ update_mark_twap(m, ts).quote_asset_reserve = m.quote_asset_reserve
           /\ update_mark_twap(m, ts).base_asset_amount = m.base_asset_amount
           /\ SameSides(m, update_mark_twap(m, ts))
<1> DEFINE old == m.last_mark_price_twap_ts
<1> DEFINE twap == calculate_twap(mark_price(m), m.last_mark_price_twap, since_last(ts, old),
                                  from_start(m.funding_period, ts, old))
<1>1. m \in MarketType
  BY DEF Good
<1>2. mark_price(m) \in Nat
  BY <1>1, PriceType DEF mark_price, mark_price_ok, MarketType
<1>3. old \in Nat /\ m.funding_period \in Nat /\ m.last_mark_price_twap \in Nat
  BY <1>1 DEF MarketType
<1>4. twap \in Nat
  <2>1. since_last(ts, old) \in Nat \ {0} /\ from_start(m.funding_period, ts, old) \in Nat \ {0}
    BY <1>3 DEF since_last, from_start, Larger
  <2> QED
    BY <1>2, <1>3, <2>1, TwapNat
<1>5. update_mark_twap(m, ts) = [m EXCEPT !.last_mark_price_twap = twap,
                                          !.last_mark_price_twap_ts = ts]
  BY DEF update_mark_twap
<1> HIDE DEF twap
<1>6. update_mark_twap(m, ts) \in MarketType
  BY <1>1, <1>4, <1>5 DEF MarketType
<1> QED
  BY <1>1, <1>5, <1>6
     DEF Good, IsNet, Follows, Mirrors, SamePace, SameTerms, SameFee, SameSides, Lands,
         SameReserves, MarketType

(***************************************************************************)
(* Booking a trade                                                         *)
(***************************************************************************)
\* book keeps the type and the balance of the counters, and moves the net
\* position by base.
LEMMA Book ==
    ASSUME NEW m, Good(m), NEW base \in Int, NEW after \in Int
    PROVE  /\ Good(book(m, base, after))
           /\ book(m, base, after).base_asset_amount = m.base_asset_amount + base
           /\ book(m, base, after).base_asset_amount_long =
                IF after > 0 THEN m.base_asset_amount_long + base ELSE m.base_asset_amount_long
           /\ book(m, base, after).base_asset_amount_short =
                IF after > 0 THEN m.base_asset_amount_short ELSE m.base_asset_amount_short + base
           /\ SameReserves(m, book(m, base, after)) /\ SamePace(m, book(m, base, after))
           /\ SameTerms(m, book(m, base, after))
           /\ book(m, base, after).base_asset_reserve = m.base_asset_reserve
           /\ book(m, base, after).sqrt_k = m.sqrt_k
           /\ book(m, base, after).peg_multiplier = m.peg_multiplier
           /\ book(m, base, after).open_interest = m.open_interest
           /\ book(m, base, after).initialized = m.initialized
<1> DEFINE net == m.base_asset_amount + base
           long == IF after > 0 THEN m.base_asset_amount_long + base
                                ELSE m.base_asset_amount_long
           short == IF after > 0 THEN m.base_asset_amount_short
                                 ELSE m.base_asset_amount_short + base
<1>1. m \in MarketType
  BY DEF Good
<1>2. /\ m.base_asset_amount \in Int
      /\ m.base_asset_amount_long \in Int
      /\ m.base_asset_amount_short \in Int
  BY <1>1 DEF MarketType
<1>3. net \in Int /\ long \in Int /\ short \in Int
  BY <1>2
<1>4. net = long + short
  BY <1>2 DEF Good, IsNet
<1>5. book(m, base, after) = [m EXCEPT !.base_asset_amount = net,
                                       !.base_asset_amount_long = long,
                                       !.base_asset_amount_short = short]
  BY DEF book
<1>6. net = m.base_asset_amount + base
  OBVIOUS
<1> HIDE DEF net, long, short
<1>7. book(m, base, after) \in MarketType
  BY <1>1, <1>3, <1>5 DEF MarketType
<1>8. /\ book(m, base, after).base_asset_amount_long = long
      /\ book(m, base, after).base_asset_amount_short = short
  BY <1>1, <1>5 DEF MarketType
<1>9. /\ book(m, base, after).base_asset_amount_long =
            IF after > 0 THEN m.base_asset_amount_long + base ELSE m.base_asset_amount_long
      /\ book(m, base, after).base_asset_amount_short =
            IF after > 0 THEN m.base_asset_amount_short ELSE m.base_asset_amount_short + base
  BY <1>8 DEF long, short
<1> QED
  BY <1>1, <1>4, <1>5, <1>6, <1>7, <1>9
     DEF Good, IsNet, SameReserves, SamePace, SameTerms, SameFee, MarketType

\* count_interest only moves the open interest, upwards.
LEMMA CountInterest ==
    ASSUME NEW m, Good(m), NEW is_new \in BOOLEAN
    PROVE  /\ Good(count_interest(m, is_new))
           /\ Follows(m, count_interest(m, is_new))
           /\ count_interest(m, is_new).base_asset_amount = m.base_asset_amount
           /\ SameSides(m, count_interest(m, is_new))
<1> DEFINE interest == IF is_new THEN m.open_interest + 1 ELSE m.open_interest
<1>1. m \in MarketType /\ m.open_interest \in Nat
  BY DEF Good, MarketType
<1>2. interest \in Nat
  BY <1>1
<1>3. count_interest(m, is_new) = [m EXCEPT !.open_interest = interest]
  BY DEF count_interest
<1> HIDE DEF interest
<1>4. count_interest(m, is_new) \in MarketType
  BY <1>1, <1>2, <1>3 DEF MarketType
<1> QED
  BY <1>1, <1>3, <1>4
     DEF Good, IsNet, Follows, Mirrors, SamePace, SameTerms, SameFee, SameSides, Lands,
         SameReserves, MarketType

(***************************************************************************)
(* Swaps                                                                   *)
(***************************************************************************)
SwapDirections == {"Add", "Remove"}

\* An amount of quote asset is worth a natural amount of reserve.
LEMMA AssetToReserve ==
    ASSUME NEW q \in Nat, NEW peg \in Nat \ {0}
    PROVE  asset_to_reserve_amount(q, peg) \in Nat
<1>1. q * AMM_TIMES_PEG_TO_QUOTE_PRECISION_RATIO \in Nat
  BY PrecisionFacts, TimesNat
<1> QED
  BY <1>1, DivNat DEF asset_to_reserve_amount

\* The other reserve after a swap is a natural number.
LEMMA SwapOutput ==
    ASSUME NEW a \in Nat, NEW r \in Nat, NEW d \in SwapDirections, NEW k \in Nat,
           calculate_swap_output_ok(a, r, d)
    PROVE  /\ new_input_amount(a, r, d) \in Nat \ {0}
           /\ calculate_swap_output(a, r, d, k) \in Nat
<1>1. new_input_amount(a, r, d) \in Nat \ {0}
  BY DEF calculate_swap_output_ok, new_input_amount, SwapDirections
<1>2. k * k \in Nat
  OBVIOUS
<1> QED
  BY <1>1, <1>2, DivNat DEF calculate_swap_output

\* swap_quote_asset keeps the type and the counters, and takes the base
\* reserve to the output of the swap.
LEMMA SwapQuote ==
    ASSUME NEW m, Good(m), NEW q \in Nat, NEW d \in SwapDirections, NEW ts \in Nat,
           swap_quote_asset_ok(m, q, d)
    PROVE  LET n == swap_quote_asset(m, q, d, ts)
               a == asset_to_reserve_amount(q, m.peg_multiplier)
           IN  /\ Good(n)
               /\ n.base_asset_reserve
                    = calculate_swap_output(a, m.quote_asset_reserve, d, m.sqrt_k)
               /\ n.quote_asset_reserve = new_input_amount(a, m.quote_asset_reserve, d)
               /\ n.base_asset_amount = m.base_asset_amount /\ SameSides(m, n)
               /\ n.sqrt_k = m.sqrt_k
               /\ n.peg_multiplier = m.peg_multiplier
               /\ n.open_interest = m.open_interest /\ n.initialized = m.initialized
               /\ SamePace(m, n) /\ SameTerms(m, n) /\ (mark_price_ok(n) => OnCurve(n))
<1> DEFINE a == asset_to_reserve_amount(q, m.peg_multiplier)
           b1 == calculate_swap_output(a, m.quote_asset_reserve, d, m.sqrt_k)
           q1 == new_input_amount(a, m.quote_asset_reserve, d)
           u  == update_mark_twap(m, ts)
           n  == swap_quote_asset(m, q, d, ts)
<1>1. m.peg_multiplier \in Nat \ {0} /\ m.quote_asset_reserve \in Nat /\ m.sqrt_k \in Nat
  BY DEF Good, MarketType, swap_quote_asset_ok
<1>2. a \in Nat
  BY <1>1, AssetToReserve
<1>3. calculate_swap_output_ok(a, m.quote_asset_reserve, d) /\ mark_price_ok(m)
  BY DEF swap_quote_asset_ok
<1> HIDE DEF a
<1>4. b1 \in Nat /\ q1 \in Nat
  BY <1>1, <1>2, <1>3, SwapOutput
<1>5. /\ Good(u) /\ Follows(m, u) /\ u.base_asset_amount = m.base_asset_amount
      /\ SameSides(m, u)
  BY <1>3, UpdateMarkTwap
<1>6. n = [u EXCEPT !.base_asset_reserve = b1, !.quote_asset_reserve = q1]
  BY DEF swap_quote_asset, a
<1>7. u.open_interest = m.open_interest /\ u.initialized = m.initialized /\ SamePace(m, u)
  BY DEF update_mark_twap, Good, SamePace, MarketType
<1> HIDE DEF b1, q1, u, n
<1>8. /\ Good(n) /\ n.base_asset_reserve = b1 /\ n.quote_asset_reserve = q1
      /\ n.base_asset_amount = u.base_asset_amount /\ SameSides(u, n)
      /\ n.open_interest = u.open_interest /\ n.initialized = u.initialized
      /\ n.sqrt_k = u.sqrt_k /\ n.peg_multiplier = u.peg_multiplier
      /\ SamePace(u, n) /\ SameTerms(u, n)
  <2>1. u \in MarketType
    BY <1>5 DEF Good
  <2>2. n \in MarketType
    BY <1>4, <1>6, <2>1 DEF MarketType
  <2> QED
    BY <1>5, <1>6, <2>1, <2>2 DEF Good, IsNet, SamePace, SameTerms, SameFee, SameSides, MarketType
<1>9. SamePace(m, n) /\ SameTerms(m, n) /\ n.sqrt_k = m.sqrt_k
  BY <1>5, <1>8, <1>7 DEF Follows, Mirrors, SamePace, SameTerms, SameFee
<1>10. mark_price_ok(n) => OnCurve(n)
  <2>1. q1 \in Nat \ {0} /\ b1 = (m.sqrt_k * m.sqrt_k) \div q1
    BY <1>1, <1>2, <1>3, SwapOutput DEF b1, q1, calculate_swap_output
  <2>2. m.sqrt_k * m.sqrt_k \in Nat
    BY <1>1, TimesNat
  <2> QED
    BY <1>8, <1>9, <2>1, <2>2, CurveBase DEF mark_price_ok, OnCurve
<1> QED
  BY <1>5, <1>8, <1>7, <1>9, <1>10 DEF Follows, Mirrors, SameSides, a, b1, q1, n

\* swap_base_asset does so too, and moves the base reserve by the amount.
LEMMA SwapBase ==
    ASSUME NEW m, Good(m), NEW a \in Nat, NEW d \in SwapDirections, NEW ts \in Nat,
           swap_base_asset_ok(m, a, d)
    PROVE  LET n == swap_base_asset(m, a, d, ts)
           IN  /\ Good(n)
               /\ n.base_asset_reserve = new_input_amount(a, m.base_asset_reserve, d)
               /\ n.quote_asset_reserve
                    = calculate_swap_output(a, m.base_asset_reserve, d, m.sqrt_k)
               /\ n.base_asset_amount = m.base_asset_amount /\ SameSides(m, n)
               /\ n.sqrt_k = m.sqrt_k
               /\ n.peg_multiplier = m.peg_multiplier
               /\ n.open_interest = m.open_interest /\ n.initialized = m.initialized
               /\ SamePace(m, n) /\ SameTerms(m, n) /\ (mark_price_ok(n) => OnCurve(n))
<1> DEFINE b1 == new_input_amount(a, m.base_asset_reserve, d)
           q1 == calculate_swap_output(a, m.base_asset_reserve, d, m.sqrt_k)
           u  == update_mark_twap(m, ts)
           n  == swap_base_asset(m, a, d, ts)
<1>1. m.base_asset_reserve \in Nat /\ m.sqrt_k \in Nat
  BY DEF Good, MarketType
<1>2. calculate_swap_output_ok(a, m.base_asset_reserve, d) /\ mark_price_ok(m)
  BY DEF swap_base_asset_ok
<1>3. b1 \in Nat /\ q1 \in Nat
  BY <1>1, <1>2, SwapOutput
<1>4. /\ Good(u) /\ Follows(m, u) /\ u.base_asset_amount = m.base_asset_amount
      /\ SameSides(m, u)
  BY <1>2, UpdateMarkTwap
<1>5. n = [u EXCEPT !.base_asset_reserve = b1, !.quote_asset_reserve = q1]
  BY DEF swap_base_asset
<1>6. u.open_interest = m.open_interest /\ u.initialized = m.initialized /\ SamePace(m, u)
  BY DEF update_mark_twap, Good, SamePace, MarketType
<1> HIDE DEF b1, q1, u, n
<1>7. /\ Good(n) /\ n.base_asset_reserve = b1 /\ n.quote_asset_reserve = q1
      /\ n.base_asset_amount = u.base_asset_amount /\ SameSides(u, n)
      /\ n.open_interest = u.open_interest /\ n.initialized = u.initialized
      /\ n.sqrt_k = u.sqrt_k /\ n.peg_multiplier = u.peg_multiplier
      /\ SamePace(u, n) /\ SameTerms(u, n)
  <2>1. u \in MarketType
    BY <1>4 DEF Good
  <2>2. n \in MarketType
    BY <1>3, <1>5, <2>1 DEF MarketType
  <2> QED
    BY <1>4, <1>5, <2>1, <2>2 DEF Good, IsNet, SamePace, SameTerms, SameFee, SameSides, MarketType
<1>8. SamePace(m, n) /\ SameTerms(m, n) /\ n.sqrt_k = m.sqrt_k
  BY <1>4, <1>6, <1>7 DEF Follows, Mirrors, SamePace, SameTerms, SameFee
<1>9. mark_price_ok(n) => OnCurve(n)
  <2> DEFINE k == m.sqrt_k * m.sqrt_k
  <2>1. b1 \in Nat \ {0} /\ q1 = k \div b1
    BY <1>1, <1>2, SwapOutput DEF b1, q1, calculate_swap_output
  <2>2. k \in Nat /\ k = n.sqrt_k * n.sqrt_k
    BY <1>1, <1>8, TimesNat
  <2> HIDE DEF k
  <2>3. k \div b1 \in Nat /\ k \div (b1 + 1) <= k \div b1
    BY <2>1, <2>2, DivNat, CurveQuote
  <2>4. k \div (n.base_asset_reserve + 1) <= n.quote_asset_reserve
    BY <1>7, <2>1, <2>3
  <2>5. n.quote_asset_reserve <= k \div n.base_asset_reserve
    BY <1>7, <2>1, <2>3
  <2> QED
    BY <2>2, <2>4, <2>5 DEF mark_price_ok, OnCurve
<1> QED
  BY <1>4, <1>6, <1>7, <1>8, <1>9 DEF Follows, Mirrors, SameSides, b1, q1, n

(***************************************************************************)
(* Trade states                                                            *)
(***************************************************************************)
Sound(t) == t \in TradeType /\ IsNet(t.m)

\* What the market holds against the other positions in it.
Others(t) == t.m.base_asset_amount - t.p.base_asset_amount

\* What a side of the market holds beyond a position of size b.
Room(m, b, long) == SideOf(m, long) - Part(b, long)

\* A step of a trade from t to r: it books on each side at least what the
\* position gains there.
SoundStep(t, r) ==
    /\ Sound(r) /\ Follows(t.m, r.m)
    /\ r.p.market_index = t.p.market_index
    /\ Others(r) = Others(t)
    /\ \A long \in BOOLEAN : Room(r.m, r.p.base_asset_amount, long)
                               >= Room(t.m, t.p.base_asset_amount, long)

\* It books exactly that.
Exact(t, r) ==
    \A long \in BOOLEAN : Room(r.m, r.p.base_asset_amount, long)
                             = Room(t.m, t.p.base_asset_amount, long)

\* A position that was before stays on its side, or is new on it.
Stays(before, after) == (before >= 0 /\ after > 0) \/ (before <= 0 /\ after <= 0)

\* The parts of a sound trade state.
LEMMA SoundParts ==
    ASSUME NEW t, Sound(t)
    PROVE  /\ Good(t.m) /\ t.m \in MarketType /\ t.p \in PositionType /\ t.c \in Nat
           /\ t.p.base_asset_amount \in Int /\ t.p.quote_asset_amount \in Nat
           /\ t.p.last_cumulative_funding_rate \in Int /\ t.p.market_index \in Markets
           /\ t.m.base_asset_reserve \in Nat /\ t.m.quote_asset_reserve \in Nat
           /\ t.m.sqrt_k \in Nat /\ t.m.peg_multiplier \in Nat /\ t.m.open_interest \in Nat
           /\ t.m.base_asset_amount \in Int
           /\ t.m.cumulative_funding_rate_long \in Int
           /\ t.m.cumulative_funding_rate_short \in Int
<1>1. t.m \in MarketType /\ t.p \in PositionType /\ t.c \in Nat /\ IsNet(t.m)
  BY DEF Sound, TradeType
<1>2. Good(t.m)
  BY <1>1 DEF Good
<1> QED
  BY <1>1, <1>2 DEF MarketType, PositionType

\* Sides and parts are integers.
LEMMA RoomType ==
    ASSUME NEW m, Good(m), NEW b \in Int, NEW long \in BOOLEAN
    PROVE  SideOf(m, long) \in Int /\ Part(b, long) \in Nat /\ Room(m, b, long) \in Int
<1>1. m.base_asset_amount_long \in Int /\ m.base_asset_amount_short \in Int
  BY DEF Good, MarketType
<1>2. SideOf(m, long) \in Int
  BY <1>1 DEF SideOf
<1>3. Part(b, long) \in Nat
  BY DEF Part, Larger
<1> QED
  BY <1>2, <1>3 DEF Room

\* book books the side of the position as it is afterwards; close, which says
\* how it was before, that one.
LEMMA BookedSides ==
    ASSUME NEW m, Good(m), NEW before \in Int, NEW base \in Int, NEW x \in Int,
           x = before + base \/ (base = -before /\ x = before), NEW long \in BOOLEAN
    PROVE  /\ Room(book(m, base, x), before + base, long) >= Room(m, before, long)
           /\ Stays(before, before + base) \/ x # before + base =>
                Room(book(m, base, x), before + base, long) = Room(m, before, long)
<1> DEFINE n == book(m, base, x)
           L == m.base_asset_amount_long
           S == m.base_asset_amount_short
           after == before + base
<1>1. L \in Int /\ S \in Int
  BY DEF Good, MarketType
<1>2. /\ n.base_asset_amount_long = IF x > 0 THEN L + base ELSE L
      /\ n.base_asset_amount_short = IF x > 0 THEN S ELSE S + base
  BY Book
<1> HIDE DEF n, L, S
<1>3. CASE long
  <2>1. SideOf(n, long) = (IF x > 0 THEN L + base ELSE L) /\ SideOf(m, long) = L
    BY <1>2, <1>3 DEF SideOf, L
  <2>2. /\ Part(after, long) = IF after > 0 THEN after ELSE 0
        /\ Part(before, long) = IF before > 0 THEN before ELSE 0
    BY <1>3 DEF Part, Larger
  <2>3. SideOf(n, long) - Part(after, long) >= SideOf(m, long) - Part(before, long)
    BY <1>1, <2>1, <2>2
  <2>4. Stays(before, after) \/ x # after =>
          SideOf(n, long) - Part(after, long) = SideOf(m, long) - Part(before, long)
    BY <1>1, <2>1, <2>2 DEF Stays
  <2> QED
    BY <2>3, <2>4 DEF Room, n
<1>4. CASE ~long
  <2>1. SideOf(n, long) = -(IF x > 0 THEN S ELSE S + base) /\ SideOf(m, long) = -S
    BY <1>2, <1>4 DEF SideOf, S
  <2>2. /\ Part(after, long) = IF after < 0 THEN -after ELSE 0
        /\ Part(before, long) = IF before < 0 THEN -before ELSE 0
    BY <1>4 DEF Part, Larger
  <2>3. SideOf(n, long) - Part(after, long) >= SideOf(m, long) - Part(before, long)
    BY <1>1, <2>1, <2>2
  <2>4. Stays(before, after) \/ x # after =>
          SideOf(n, long) - Part(after, long) = SideOf(m, long) - Part(before, long)
    BY <1>1, <2>1, <2>2 DEF Stays
  <2> QED
    BY <2>3, <2>4 DEF Room, n
<1> QED
  BY <1>3, <1>4

\* A market with the same sides has the same room.
LEMMA SameRoom ==
    ASSUME NEW m, NEW n, SameSides(m, n), NEW b, NEW long
    PROVE  Room(n, b, long) = Room(m, b, long)
BY DEF SameSides, Room, SideOf

\* Losses are capped at the collateral.
LEMMA UpdatedCollateral ==
    ASSUME NEW c \in Nat, NEW pnl \in Int
    PROVE  calculate_updated_collateral(c, pnl) \in Nat
BY DEF calculate_updated_collateral

\* A trade swaps in one of the two directions.
LEMMA SwapDirection ==
    ASSUME NEW d PROVE swap_direction(d) \in SwapDirections
BY DEF swap_direction, SwapDirections

\* So does the closing of a position.
LEMMA CloseDirection ==
    ASSUME NEW b \in Int PROVE swap_direction_to_close_position(b) \in SwapDirections
BY DEF swap_direction_to_close_position, SwapDirections

\* A swap that is booked follows the curve.
LEMMA SwappedFollows ==
    ASSUME NEW m, NEW n, NEW r, n.sqrt_k = m.sqrt_k, SamePace(m, n),
           mark_price_ok(n) => OnCurve(n), SameReserves(n, r), SamePace(n, r),
           SameTerms(m, n), SameTerms(n, r), Mirrors(m, r), r.initialized = m.initialized
    PROVE  Follows(m, r)
<1>1. mark_price_ok(r) => OnCurve(r)
  BY SameIsOnCurve DEF Mirrors, SameReserves, mark_price_ok
<1> QED
  BY <1>1 DEF Follows, SamePace, SameTerms, SameFee, Lands

\* Doing nothing is a sound step.
LEMMA SoundSame == ASSUME NEW t, Sound(t) PROVE SoundStep(t, t)
<1>1. ASSUME NEW long \in BOOLEAN
      PROVE  Room(t.m, t.p.base_asset_amount, long) >= Room(t.m, t.p.base_asset_amount, long)
  <2>1. Room(t.m, t.p.base_asset_amount, long) \in Int
    BY SoundParts, RoomType
  <2> QED
    BY <2>1
<1> QED
  BY <1>1, FollowsSame DEF SoundStep

\* What is booked after a swap, before the open interest is counted.
LEMMA BookedRoom ==
    ASSUME NEW m, NEW n, Good(n), SameSides(m, n), NEW before \in Int, NEW base \in Int,
           NEW x \in Int, x = before + base \/ (base = -before /\ x = before),
           NEW r, SameSides(book(n, base, x), r), NEW after, after = before + base
    PROVE  \A long \in BOOLEAN :
             /\ Room(r, after, long) >= Room(m, before, long)
             /\ Stays(before, after) \/ x # after => Room(r, after, long) = Room(m, before, long)
<1> SUFFICES ASSUME NEW long \in BOOLEAN
             PROVE  /\ Room(r, after, long) >= Room(m, before, long)
                    /\ Stays(before, after) \/ x # after =>
                         Room(r, after, long) = Room(m, before, long)
  OBVIOUS
<1>1. /\ Room(book(n, base, x), after, long) >= Room(n, before, long)
      /\ Stays(before, after) \/ x # after =>
           Room(book(n, base, x), after, long) = Room(n, before, long)
  BY BookedSides
<1>2. Room(r, after, long) = Room(book(n, base, x), after, long)
  BY SameRoom
<1>3. Room(n, before, long) = Room(m, before, long)
  BY SameRoom
<1> QED
  BY <1>1, <1>2, <1>3

\* increase is a sound step: it books exactly what the swap takes from the
\* base reserve, and on the right side if the position stays there.
LEMMA Increase ==
    ASSUME NEW t, Sound(t), NEW d \in Directions, NEW q \in Nat, NEW ts \in Nat,
           increase_ok(t, d, q)
    PROVE  LET r == increase(t, d, q, ts)
           IN  /\ SoundStep(t, r)
               /\ Stays(t.p.base_asset_amount, r.p.base_asset_amount) => Exact(t, r)
<1> DEFINE sd      == swap_direction(d)
           swapped == swap_quote_asset(t.m, q, sd, ts)
           base    == t.m.base_asset_reserve - swapped.base_asset_reserve
           after   == t.p.base_asset_amount + base
           is_new  == t.p.base_asset_amount = 0
           m1      == book(swapped, base, after)
           m2      == count_interest(m1, is_new)
           quote   == t.p.quote_asset_amount + q
           rate    == IF is_new THEN cumulative_funding_rate(t.m, d = "Long")
                      ELSE t.p.last_cumulative_funding_rate
           p1      == [t.p EXCEPT !.base_asset_amount = after, !.quote_asset_amount = quote,
                                  !.last_cumulative_funding_rate = rate]
<1>1. CASE q = 0
  BY <1>1, SoundSame DEF increase, Exact
<1>2. CASE q # 0
  <2>1. Good(t.m) /\ t.m.base_asset_reserve \in Nat /\ t.p \in PositionType /\ t.c \in Nat
    BY SoundParts
  <2>2. sd \in SwapDirections /\ swap_quote_asset_ok(t.m, q, sd)
    BY <1>2, SwapDirection DEF increase_ok
  <2>3. /\ Good(swapped) /\ swapped.base_asset_amount = t.m.base_asset_amount
        /\ SameSides(t.m, swapped)
        /\ swapped.sqrt_k = t.m.sqrt_k /\ swapped.peg_multiplier = t.m.peg_multiplier
        /\ swapped.initialized = t.m.initialized
        /\ SamePace(t.m, swapped) /\ SameTerms(t.m, swapped)
        /\ (mark_price_ok(swapped) => OnCurve(swapped))
    BY <2>1, <2>2, SwapQuote
  <2>4. base \in Int /\ after \in Int /\ is_new \in BOOLEAN /\ quote \in Nat
    <3>1. swapped.base_asset_reserve \in Nat
      BY <2>3 DEF Good, MarketType
    <3>2. t.p.base_asset_amount \in Int /\ t.p.quote_asset_amount \in Nat
      BY SoundParts
    <3> QED
      BY <2>1, <3>1, <3>2
  <2>5. rate \in Int
    BY SoundParts DEF cumulative_funding_rate
  <2>6. increase(t, d, q, ts) = [m |-> m2, p |-> p1, c |-> t.c]
    BY <1>2 DEF increase
  <2>7. /\ Good(m1) /\ m1.base_asset_amount = swapped.base_asset_amount + base
        /\ m1.base_asset_reserve = swapped.base_asset_reserve
        /\ m1.sqrt_k = swapped.sqrt_k /\ m1.peg_multiplier = swapped.peg_multiplier
        /\ m1.initialized = swapped.initialized
        /\ SameReserves(swapped, m1) /\ SamePace(swapped, m1) /\ SameTerms(swapped, m1)
    BY <2>3, <2>4, Book
  <2>8. /\ Good(m2) /\ Follows(m1, m2) /\ m2.base_asset_amount = m1.base_asset_amount
        /\ SameSides(m1, m2)
    BY <2>4, <2>7, CountInterest
  <2>9. Follows(t.m, m2)
    <3>1. swapped.base_asset_reserve \in Nat /\ t.m.base_asset_amount \in Int
      BY <2>3, SoundParts DEF Good, MarketType
    <3>2. base = t.m.base_asset_reserve - swapped.base_asset_reserve
      OBVIOUS
    <3> HIDE DEF swapped, base, m1, m2
    <3>3. Mirrors(t.m, m1) /\ m1.initialized = t.m.initialized
      BY <2>1, <2>3, <2>7, <3>1, <3>2 DEF Mirrors
    <3>4. Follows(t.m, m1)
      BY <2>3, <2>7, <3>3, SwappedFollows
    <3> QED
      BY <2>8, <3>4, FollowsTwice
  <2>10. after = t.p.base_asset_amount + base
    OBVIOUS
  <2>11. \A long \in BOOLEAN :
           /\ Room(m2, after, long) >= Room(t.m, t.p.base_asset_amount, long)
           /\ Stays(t.p.base_asset_amount, after) =>
                Room(m2, after, long) = Room(t.m, t.p.base_asset_amount, long)
    <3>1. t.p.base_asset_amount \in Int
      BY SoundParts
    <3>2. SameSides(book(swapped, base, after), m2)
      BY <2>8
    <3> HIDE DEF swapped, base, m2, m1, after
    <3> QED
      BY <2>3, <2>4, <2>10, <3>1, <3>2, BookedRoom
  <2> HIDE DEF m2, after, quote, rate
  <2>12. /\ p1 \in PositionType /\ p1.market_index = t.p.market_index
         /\ p1.base_asset_amount = after
    BY <2>1, <2>4, <2>5 DEF PositionType
  <2> HIDE DEF p1
  <2>13. m2.base_asset_amount - p1.base_asset_amount = Others(t)
    <3>1. t.m.base_asset_amount \in Int /\ t.p.base_asset_amount \in Int
      BY SoundParts
    <3> HIDE DEF base, m1, swapped
    <3> QED
      BY <2>3, <2>4, <2>7, <2>8, <2>10, <2>12, <3>1 DEF Others
  <2> QED
    <3>1. m2 \in MarketType /\ IsNet(m2)
      BY <2>8 DEF Good
    <3>2. [m |-> m2, p |-> p1, c |-> t.c] \in TradeType
      BY <2>1, <2>12, <3>1 DEF TradeType
    <3>3. SoundStep(t, increase(t, d, q, ts))
      BY <2>6, <2>9, <2>12, <2>13, <2>11, <3>1, <3>2 DEF SoundStep, Sound, Others
    <3>4. Stays(t.p.base_asset_amount, after) => Exact(t, increase(t, d, q, ts))
      BY <2>6, <2>11, <2>12 DEF Exact
    <3> QED
      BY <2>6, <2>12, <3>3, <3>4
<1> QED
  BY <1>1, <1>2

\* Setting the open interest disturbs nothing else.
LEMMA SetInterest ==
    ASSUME NEW m, Good(m), NEW x \in Nat
    PROVE  /\ Good([m EXCEPT !.open_interest = x])
           /\ Follows(m, [m EXCEPT !.open_interest = x])
           /\ [m EXCEPT !.open_interest = x].base_asset_amount = m.base_asset_amount
           /\ SameSides(m, [m EXCEPT !.open_interest = x])
<1> DEFINE n == [m EXCEPT !.open_interest = x]
<1>1. m \in MarketType
  BY DEF Good
<1>2. n \in MarketType
  BY <1>1 DEF MarketType
<1> QED
  BY <1>1, <1>2
     DEF Good, IsNet, Follows, Mirrors, SamePace, SameTerms, SameFee, SameSides, Lands,
         SameReserves, MarketType

\* The part of the entry value that a reduction closes is a natural number.
LEMMA QuoteClosed ==
    ASSUME NEW t, Sound(t), t.p.base_asset_amount # 0, NEW base \in Int
    PROVE  initial_quote_asset_amount_closed(t, base) \in Nat
<1>1. t.p.base_asset_amount \in Int /\ t.p.quote_asset_amount \in Nat
  BY SoundParts
<1>2. unsigned_abs(base) \in Nat /\ unsigned_abs(t.p.base_asset_amount) \in Nat \ {0}
  BY <1>1 DEF unsigned_abs
<1>3. t.p.quote_asset_amount * unsigned_abs(base) \in Nat
  BY <1>1, <1>2, TimesNat
<1> QED
  BY <1>2, <1>3, DivNat DEF initial_quote_asset_amount_closed

\* reduce is a sound step, and neither the entry value of the position nor the
\* open interest goes below zero.
LEMMA Reduce ==
    ASSUME NEW t, Sound(t), NEW d \in Directions, NEW q \in Nat, NEW ts \in Nat,
           reduce_ok(t, d, q)
    PROVE  LET r == reduce(t, d, q, ts)
           IN  /\ SoundStep(t, r)
               /\ Stays(t.p.base_asset_amount, r.p.base_asset_amount) => Exact(t, r)
<1> DEFINE sd      == swap_direction(d)
           swapped == swap_quote_asset(t.m, q, sd, ts)
           base    == reduced_base(t, d, q)
           after   == t.p.base_asset_amount + base
           closed  == initial_quote_asset_amount_closed(t, base)
           pnl     == IF after > 0 THEN q - closed ELSE closed - q
           m1      == book(swapped, base, after)
           x       == IF after = 0 THEN m1.open_interest - 1 ELSE m1.open_interest
           m2      == [m1 EXCEPT !.open_interest = x]
           quote   == t.p.quote_asset_amount - closed
           p1      == [t.p EXCEPT !.base_asset_amount = after, !.quote_asset_amount = quote]
           c1      == calculate_updated_collateral(t.c, pnl)
<1>1. /\ Good(t.m) /\ t.m.base_asset_reserve \in Nat /\ t.p \in PositionType /\ t.c \in Nat
      /\ t.p.base_asset_amount \in Int /\ t.p.quote_asset_amount \in Nat
      /\ t.m.open_interest \in Nat
  BY SoundParts
<1>2. sd \in SwapDirections /\ swap_quote_asset_ok(t.m, q, sd) /\ t.p.base_asset_amount # 0
  BY SwapDirection DEF reduce_ok
<1>3. /\ Good(swapped) /\ swapped.base_asset_amount = t.m.base_asset_amount
      /\ SameSides(t.m, swapped)
      /\ swapped.sqrt_k = t.m.sqrt_k /\ swapped.peg_multiplier = t.m.peg_multiplier
      /\ swapped.open_interest = t.m.open_interest /\ swapped.initialized = t.m.initialized
      /\ SamePace(t.m, swapped) /\ SameTerms(t.m, swapped)
      /\ (mark_price_ok(swapped) => OnCurve(swapped))
      /\ swapped.base_asset_reserve =
            calculate_swap_output(asset_to_reserve_amount(q, t.m.peg_multiplier),
                                  t.m.quote_asset_reserve, sd, t.m.sqrt_k)
  BY <1>1, <1>2, SwapQuote
<1>4. /\ base = t.m.base_asset_reserve - swapped.base_asset_reserve
      /\ swapped.base_asset_reserve \in Nat
  BY <1>3 DEF reduced_base, Good, MarketType
<1>5. reduce(t, d, q, ts) = [m |-> m2, p |-> p1, c |-> c1]
  BY DEF reduce
<1>6. /\ t.p.base_asset_amount + base = 0 => t.m.open_interest > 0
      /\ closed <= t.p.quote_asset_amount
  BY DEF reduce_ok
<1> HIDE DEF swapped, base
<1>7. base \in Int /\ after \in Int
  BY <1>1, <1>4
<1>8. closed \in Nat
  BY <1>2, <1>7, QuoteClosed
<1> HIDE DEF closed
<1>9. quote \in Nat /\ pnl \in Int
  BY <1>1, <1>6, <1>7, <1>8
<1>10. /\ Good(m1) /\ m1.base_asset_amount = swapped.base_asset_amount + base
       /\ m1.base_asset_reserve = swapped.base_asset_reserve
       /\ m1.sqrt_k = swapped.sqrt_k /\ m1.peg_multiplier = swapped.peg_multiplier
       /\ m1.open_interest = swapped.open_interest /\ m1.initialized = swapped.initialized
       /\ SameReserves(swapped, m1) /\ SamePace(swapped, m1) /\ SameTerms(swapped, m1)
  BY <1>3, <1>7, Book
<1> HIDE DEF m1
<1>11. x \in Nat
  BY <1>1, <1>3, <1>6, <1>7, <1>10
<1> HIDE DEF x
<1>12. /\ Good(m2) /\ Follows(m1, m2) /\ m2.base_asset_amount = m1.base_asset_amount
       /\ SameSides(m1, m2)
  BY <1>10, <1>11, SetInterest
<1>13. c1 \in Nat /\ after = t.p.base_asset_amount + base
  BY <1>1, <1>9, UpdatedCollateral
<1>14. \A long \in BOOLEAN :
         /\ Room(m2, after, long) >= Room(t.m, t.p.base_asset_amount, long)
         /\ Stays(t.p.base_asset_amount, after) =>
              Room(m2, after, long) = Room(t.m, t.p.base_asset_amount, long)
  <2>1. SameSides(book(swapped, base, after), m2)
    BY <1>12 DEF m1
  <2> HIDE DEF m2, after
  <2> QED
    BY <1>1, <1>3, <1>7, <1>13, <2>1, BookedRoom
<1> HIDE DEF m2, after, quote, pnl
<1>15. /\ p1 \in PositionType /\ p1.market_index = t.p.market_index
       /\ p1.base_asset_amount = after
  BY <1>1, <1>7, <1>9 DEF PositionType
<1> HIDE DEF p1, c1
<1>16. Follows(t.m, m2)
  <2>1. t.m.base_asset_amount \in Int
    BY SoundParts
  <2>2. Mirrors(t.m, m1) /\ m1.initialized = t.m.initialized
    BY <1>1, <1>3, <1>4, <1>10, <2>1 DEF Mirrors
  <2>3. Follows(t.m, m1)
    BY <1>3, <1>10, <2>2, SwappedFollows
  <2> QED
    BY <1>12, <2>3, FollowsTwice
<1>17. m2 \in MarketType /\ IsNet(m2)
  BY <1>12 DEF Good
<1>18. [m |-> m2, p |-> p1, c |-> c1] \in TradeType
  BY <1>13, <1>15, <1>17 DEF TradeType
<1>19. m2.base_asset_amount - p1.base_asset_amount = Others(t)
  <2>1. t.m.base_asset_amount \in Int
    BY SoundParts
  <2> QED
    BY <1>1, <1>3, <1>7, <1>10, <1>12, <1>13, <1>15, <2>1 DEF Others
<1>20. SoundStep(t, reduce(t, d, q, ts))
  BY <1>5, <1>15, <1>16, <1>17, <1>18, <1>19, <1>14 DEF SoundStep, Sound, Others
<1>21. Stays(t.p.base_asset_amount, after) => Exact(t, reduce(t, d, q, ts))
  BY <1>5, <1>14, <1>15 DEF Exact
<1> QED
  BY <1>5, <1>15, <1>20, <1>21

(***************************************************************************)
(* The value of a position                                                 *)
(***************************************************************************)
\* A position that can be valued has a natural value.
LEMMA BaseAssetValue ==
    ASSUME NEW m \in MarketType, NEW b \in Int, base_asset_value_ok(b, m)
    PROVE  calculate_base_asset_value(b, m) \in Nat
<1> DEFINE d == swap_direction_to_close_position(b)
           a == unsigned_abs(b)
           after == calculate_swap_output(a, m.base_asset_reserve, d, m.sqrt_k)
           change == quote_asset_reserve_change(m.quote_asset_reserve, after, d)
<1>1. CASE b = 0
  BY <1>1 DEF calculate_base_asset_value
<1>2. CASE b # 0
  <2>1. /\ m.base_asset_reserve \in Nat /\ m.quote_asset_reserve \in Nat
        /\ m.sqrt_k \in Nat /\ m.peg_multiplier \in Nat
    BY DEF MarketType
  <2>2. a \in Nat /\ d \in SwapDirections
    BY CloseDirection DEF unsigned_abs
  <2>3. calculate_swap_output_ok(a, m.base_asset_reserve, d) /\ change >= 0
    BY <1>2 DEF base_asset_value_ok
  <2>4. after \in Nat
    BY <2>1, <2>2, <2>3, SwapOutput
  <2>5. calculate_base_asset_value(b, m) = reserve_to_asset_amount(change, m.peg_multiplier)
    BY <1>2 DEF calculate_base_asset_value, calculate_quote_asset_amount_swapped
  <2> HIDE DEF after
  <2>6. change \in Nat
    BY <2>1, <2>3, <2>4 DEF quote_asset_reserve_change
  <2> HIDE DEF change
  <2>7. change * m.peg_multiplier \in Nat
    BY <2>1, <2>6, TimesNat
  <2> QED
    BY <2>5, <2>7, DivNat, PrecisionFacts DEF reserve_to_asset_amount
<1> QED
  BY <1>1, <1>2

\* So has one that can be closed.
LEMMA CloseValue ==
    ASSUME NEW t, Sound(t), close_ok(t)
    PROVE  base_asset_value_ok(t.p.base_asset_amount, t.m) /\ close_value(t) \in Nat
<1>1. base_asset_value_ok(t.p.base_asset_amount, t.m)
  BY DEF close_ok, base_asset_value_ok, swap_base_asset_ok, is_open_position
<1> QED
  BY <1>1, SoundParts, BaseAssetValue DEF close_value

\* close is a sound step: it gives the whole position back to the reserve.
LEMMA Close ==
    ASSUME NEW t, Sound(t), NEW ts \in Nat, close_ok(t)
    PROVE  SoundStep(t, close(t, ts)) /\ Exact(t, close(t, ts))
<1> DEFINE b       == t.p.base_asset_amount
           a       == unsigned_abs(b)
           sd      == swap_direction_to_close_position(b)
           swapped == swap_base_asset(t.m, a, sd, ts)
           pnl     == calculate_pnl(close_value(t), t.p.quote_asset_amount, sd)
           m1      == book(swapped, -b, b)
           x       == m1.open_interest - 1
           m2      == [m1 EXCEPT !.open_interest = x]
           p1      == new_market_position(t.p.market_index)
           c1      == calculate_updated_collateral(t.c, pnl)
<1>1. CASE ~is_open_position(t.p)
  BY <1>1, SoundSame DEF close, Exact
<1>2. CASE is_open_position(t.p)
  <2>1. /\ Good(t.m) /\ t.m.base_asset_reserve \in Nat /\ t.p \in PositionType /\ t.c \in Nat
        /\ b \in Int /\ t.p.quote_asset_amount \in Nat /\ t.p.market_index \in Markets
        /\ t.m.open_interest \in Nat /\ t.m.base_asset_amount \in Int
    BY SoundParts
  <2>2. swap_base_asset_ok(t.m, a, sd) /\ t.m.open_interest > 0
    BY <1>2 DEF close_ok
  <2>3. a \in Nat /\ sd \in SwapDirections
    BY <2>1, CloseDirection DEF unsigned_abs
  <2>4. /\ Good(swapped) /\ swapped.base_asset_amount = t.m.base_asset_amount
        /\ SameSides(t.m, swapped)
        /\ swapped.sqrt_k = t.m.sqrt_k /\ swapped.peg_multiplier = t.m.peg_multiplier
        /\ swapped.open_interest = t.m.open_interest /\ swapped.initialized = t.m.initialized
        /\ SamePace(t.m, swapped) /\ SameTerms(t.m, swapped)
        /\ (mark_price_ok(swapped) => OnCurve(swapped))
        /\ swapped.base_asset_reserve = new_input_amount(a, t.m.base_asset_reserve, sd)
    BY <2>1, <2>2, <2>3, SwapBase
  <2>5. swapped.base_asset_reserve = t.m.base_asset_reserve + b
    BY <2>1, <2>4 DEF new_input_amount, unsigned_abs, swap_direction_to_close_position
  <2>6. close(t, ts) = [m |-> m2, p |-> p1, c |-> c1]
    BY <1>2 DEF close
  <2>7. pnl \in Int
    BY <2>1, CloseValue DEF calculate_pnl
  <2>8. c1 \in Nat
    BY <2>1, <2>7, UpdatedCollateral
  <2> HIDE DEF swapped, pnl
  <2>9. /\ Good(m1) /\ m1.base_asset_amount = swapped.base_asset_amount + (-b)
        /\ m1.base_asset_reserve = swapped.base_asset_reserve
        /\ m1.sqrt_k = swapped.sqrt_k /\ m1.peg_multiplier = swapped.peg_multiplier
        /\ m1.open_interest = swapped.open_interest /\ m1.initialized = swapped.initialized
        /\ SameReserves(swapped, m1) /\ SamePace(swapped, m1) /\ SameTerms(swapped, m1)
    <3>1. -b \in Int
      BY <2>1
    <3> QED
      BY <2>1, <2>4, <3>1, Book
  <2> HIDE DEF m1
  <2>10. x \in Nat
    BY <2>1, <2>2, <2>4, <2>9
  <2> HIDE DEF x
  <2>11. /\ Good(m2) /\ Follows(m1, m2) /\ m2.base_asset_amount = m1.base_asset_amount
         /\ SameSides(m1, m2)
    BY <2>9, <2>10, SetInterest
  <2>12. \A long \in BOOLEAN : /\ Room(m2, 0, long) >= Room(t.m, b, long)
                                 /\ Room(m2, 0, long) = Room(t.m, b, long)
    <3>1. SameSides(book(swapped, -b, b), m2)
      BY <2>11 DEF m1
    <3>2. b \in Int /\ b # 0 /\ -b \in Int /\ 0 = b + (-b)
      BY <1>2, <2>1 DEF is_open_position
    <3> HIDE DEF m2, b
    <3> QED
      BY <2>4, <3>1, <3>2, BookedRoom
  <2> HIDE DEF m2
  <2>13. /\ p1 \in PositionType /\ p1.market_index = t.p.market_index
         /\ p1.base_asset_amount = 0
    BY <2>1 DEF new_market_position, PositionType
  <2> HIDE DEF p1, c1
  <2>14. Follows(t.m, m2)
    <3>1. Mirrors(t.m, m1) /\ m1.initialized = t.m.initialized
      BY <2>1, <2>4, <2>5, <2>9 DEF Mirrors
    <3>2. Follows(t.m, m1)
      BY <2>4, <2>9, <3>1, SwappedFollows
    <3> QED
      BY <2>11, <3>2, FollowsTwice
  <2>15. m2 \in MarketType /\ IsNet(m2)
    BY <2>11 DEF Good
  <2>16. [m |-> m2, p |-> p1, c |-> c1] \in TradeType
    BY <2>8, <2>13, <2>15 DEF TradeType
  <2>17. m2.base_asset_amount - p1.base_asset_amount = Others(t)
    BY <2>1, <2>4, <2>9, <2>11, <2>13 DEF Others
  <2>18. SoundStep(t, close(t, ts))
    BY <2>6, <2>13, <2>14, <2>15, <2>16, <2>17, <2>12 DEF SoundStep, Sound, Others
  <2>19. Exact(t, close(t, ts))
    BY <2>6, <2>12, <2>13 DEF Exact
  <2> QED
    BY <2>18, <2>19
<1> QED
  BY <1>1, <1>2

\* Sound steps compose.
LEMMA SoundTwice ==
    ASSUME NEW t, Sound(t), NEW r, NEW u, SoundStep(t, r), SoundStep(r, u)
    PROVE  SoundStep(t, u)
<1>1. ASSUME NEW long \in BOOLEAN
      PROVE  Room(u.m, u.p.base_asset_amount, long) >= Room(t.m, t.p.base_asset_amount, long)
  <2> DEFINE x == Room(t.m, t.p.base_asset_amount, long)
             y == Room(r.m, r.p.base_asset_amount, long)
             z == Room(u.m, u.p.base_asset_amount, long)
  <2>1. x \in Int /\ y \in Int /\ z \in Int
    BY SoundParts, RoomType DEF SoundStep
  <2>2. y >= x /\ z >= y
    BY DEF SoundStep
  <2> HIDE DEF x, y, z
  <2>3. z >= x
    BY <2>1, <2>2
  <2> QED
    BY <2>3 DEF x, z
<1>2. Follows(t.m, u.m)
  BY FollowsTwice DEF SoundStep
<1> QED
  BY <1>1, <1>2 DEF SoundStep

\* The amount that is traded is a natural number: the one asked for or the
\* value of the position.
LEMMA TradedQuote ==
    ASSUME NEW t, Sound(t), NEW d \in Directions, NEW q \in Nat, trade_ok(t, d, q)
    PROVE  /\ traded_quote(t, d, q) \in Nat
           /\ ~increases_position(t, d) => close_value(t) \in Nat
<1>1. CASE increases_position(t, d)
  BY <1>1 DEF traded_quote
<1>2. CASE ~increases_position(t, d)
  <2>1. base_asset_value_ok(t.p.base_asset_amount, t.m)
    BY <1>2 DEF trade_ok
  <2>2. close_value(t) \in Nat
    BY <2>1, SoundParts, BaseAssetValue DEF close_value
  <2> QED
    BY <2>2 DEF traded_quote
<1> QED
  BY <1>1, <1>2

\* The trade of open_position is a sound step, whether it increases, reduces
\* or reverses the position.
LEMMA Trade ==
    ASSUME NEW t, Sound(t), now \in Nat, NEW d \in Directions, NEW quote \in Nat,
           trade_ok(t, d, quote)
    PROVE  SoundStep(t, trade(t, d, quote))
<1> DEFINE q == traded_quote(t, d, quote)
           rest == q - close_value(t)
<1>1. q \in Nat
  BY TradedQuote
<1>2. CASE increases_position(t, d)
  <2>1. increase_ok(t, d, q) /\ trade(t, d, quote) = increase(t, d, q, now)
    BY <1>2 DEF trade_ok, trade
  <2> HIDE DEF q
  <2> QED
    BY <1>1, <2>1, Increase
<1>3. CASE ~increases_position(t, d) /\ close_value(t) > q
  <2>1. reduce_ok(t, d, q) /\ trade(t, d, quote) = reduce(t, d, q, now)
    BY <1>3 DEF trade_ok, trade
  <2> HIDE DEF q
  <2> QED
    BY <1>1, <2>1, Reduce
<1>4. CASE ~increases_position(t, d) /\ ~(close_value(t) > q)
  <2> DEFINE r == close(t, now)
  <2>1. /\ close_ok(t) /\ increase_ok(r, d, rest)
        /\ trade(t, d, quote) = increase(r, d, rest, now)
    BY <1>4 DEF trade_ok, trade
  <2>2. close_value(t) \in Nat
    BY <1>4, TradedQuote
  <2> HIDE DEF q
  <2>3. rest \in Nat
    BY <1>1, <1>4, <2>2
  <2> HIDE DEF rest
  <2>4. SoundStep(t, r)
    BY <2>1, Close
  <2> HIDE DEF r
  <2>5. SoundStep(r, increase(r, d, rest, now))
    BY <2>1, <2>3, <2>4, Increase DEF SoundStep
  <2> QED
    BY <2>1, <2>4, <2>5, SoundTwice
<1> QED
  BY <1>2, <1>3, <1>4

(***************************************************************************)
(* The side of a position                                                  *)
(*                                                                         *)
(* A trade carries the funding rate that the position was settled at,      *)
(* which is right only while the position stays on its side.  Whether it   *)
(* does rests on the rounding of the swaps.                                *)
(***************************************************************************)
\* A market with a minimum trade size, and with its reserves on the curve.
Tame(m) == OnCurve(m) /\ m.minimum_trade_size > 0

\* An open position is settled up to the funding rate of its side.
AtRate(t) ==
    is_open_position(t.p) =>
        t.p.last_cumulative_funding_rate
            = cumulative_funding_rate(t.m, t.p.base_asset_amount > 0)

\* The two reserves cross the curve together.
LEMMA CrossDown ==
    ASSUME NEW k \in Nat, NEW a \in Nat \ {0}, NEW b \in Nat \ {0}, k \div a < b
    PROVE  k \div b < a
<1> DEFINE y == k \div a
<1>1. y \in Nat /\ k < (y + 1) * a
  BY DivBounds, DivNat
<1>2. y + 1 <= b
  BY <1>1
<1> HIDE DEF y
<1>3. (y + 1) * a <= b * a
  BY <1>1, <1>2
<1>4. k < a * b
  BY <1>1, <1>3
<1> QED
  BY <1>4, DivBelow

\* They do so in the other direction, too.
LEMMA CrossUp ==
    ASSUME NEW k \in Nat, NEW a \in Nat \ {0}, NEW b \in Nat \ {0}, b <= k \div a
    PROVE  a <= k \div b
<1> DEFINE y == k \div a
<1>1. y \in Nat /\ y * a <= k
  BY DivBounds, DivNat
<1>2. b <= y
  OBVIOUS
<1> HIDE DEF y
<1>3. b * a <= y * a
  BY <1>1, <1>2
<1>4. a * b <= k
  BY <1>1, <1>3
<1> QED
  BY <1>4, DivAtLeast

\* Less than what a change of the reserve is worth buys less than that change.
LEMMA WorthLess ==
    ASSUME NEW quote \in Nat, NEW change \in Nat, NEW peg \in Nat \ {0},
           quote < reserve_to_asset_amount(change, peg)
    PROVE  asset_to_reserve_amount(quote, peg) < change
<1> DEFINE X == AMM_TIMES_PEG_TO_QUOTE_PRECISION_RATIO
           y == (change * peg) \div X
<1>1. X \in Nat \ {0} /\ change * peg \in Nat
  BY PrecisionFacts, TimesNat
<1>2. y \in Nat /\ y * X <= change * peg /\ quote < y
  BY <1>1, DivBounds, DivNat DEF reserve_to_asset_amount
<1>3. asset_to_reserve_amount(quote, peg) = (quote * X) \div peg
  BY DEF asset_to_reserve_amount
<1> HIDE DEF X, y
<1>4. quote * X < y * X /\ quote * X \in Nat /\ y * X \in Nat
  BY <1>1, <1>2
<1>5. quote * X < change * peg
  BY <1>1, <1>2, <1>4
<1> QED
  BY <1>3, <1>4, <1>5, DivBelow

\* On the curve, quote asset added to the reserve takes base asset out, and
\* quote asset removed puts it in.
LEMMA SwapSign ==
    ASSUME NEW m, Good(m), Tame(m), NEW q \in Nat, NEW d \in SwapDirections,
           swap_quote_asset_ok(m, q, d)
    PROVE  LET a == asset_to_reserve_amount(q, m.peg_multiplier)
               b == calculate_swap_output(a, m.quote_asset_reserve, d, m.sqrt_k)
           IN  /\ a > 0 /\ b \in Nat
               /\ d = "Add" => b <= m.base_asset_reserve
               /\ d = "Remove" => b >= m.base_asset_reserve
<1> DEFINE a == asset_to_reserve_amount(q, m.peg_multiplier)
           k == m.sqrt_k * m.sqrt_k
           old == m.base_asset_reserve
           quote == new_input_amount(a, m.quote_asset_reserve, d)
           b == calculate_swap_output(a, m.quote_asset_reserve, d, m.sqrt_k)
<1>1. /\ m.peg_multiplier \in Nat \ {0} /\ m.quote_asset_reserve \in Nat /\ m.sqrt_k \in Nat
      /\ old \in Nat \ {0} /\ m.minimum_trade_size \in Nat \ {0}
  BY DEF Good, MarketType, swap_quote_asset_ok, Tame, mark_price_ok
<1>2. a \in Nat /\ a >= m.minimum_trade_size
  BY <1>1, AssetToReserve DEF swap_quote_asset_ok
<1>3. quote \in Nat \ {0} /\ b \in Nat /\ b = k \div quote /\ k \in Nat
  BY <1>1, <1>2, SwapOutput, TimesNat DEF swap_quote_asset_ok, calculate_swap_output
<1>4. k \div (old + 1) <= m.quote_asset_reserve /\ m.quote_asset_reserve <= k \div old
  BY DEF Tame, OnCurve
<1>5. /\ d = "Add" => quote = m.quote_asset_reserve + a
      /\ d = "Remove" => quote = m.quote_asset_reserve - a
  BY DEF new_input_amount
<1> HIDE DEF a, k, old, quote, b
<1>6. d = "Add" => b <= old
  <2>1. SUFFICES ASSUME d = "Add" PROVE b <= old
    OBVIOUS
  <2>2. old + 1 \in Nat \ {0} /\ k \div (old + 1) \in Nat
    BY <1>1, <1>3, DivNat
  <2>3. k \div (old + 1) < quote
    BY <1>1, <1>2, <1>4, <1>5, <2>1, <2>2
  <2>4. k \div quote < old + 1
    BY <1>3, <2>2, <2>3, CrossDown
  <2> QED
    BY <1>1, <1>3, <2>4
<1>7. d = "Remove" => b >= old
  <2>1. SUFFICES ASSUME d = "Remove" PROVE b >= old
    OBVIOUS
  <2>2. k \div old \in Nat
    BY <1>1, <1>3, DivNat
  <2>3. quote <= k \div old
    BY <1>1, <1>2, <1>3, <1>4, <1>5, <2>1, <2>2
  <2>4. old <= k \div quote
    BY <1>1, <1>3, <2>3, CrossUp
  <2> QED
    BY <1>1, <1>3, <2>4
<1>8. a > 0
  BY <1>1, <1>2
<1> QED
  BY <1>3, <1>6, <1>7, <1>8 DEF a, old, b

\* A reduction by less than the value of the position does not reach the other
\* side, however its two divisions round.
LEMMA ReducedSide ==
    ASSUME NEW t, Sound(t), NEW d \in Directions, NEW q \in Nat, reduce_ok(t, d, q),
           ~increases_position(t, d), base_asset_value_ok(t.p.base_asset_amount, t.m),
           q < close_value(t)
    PROVE  LET before == t.p.base_asset_amount
               after == before + reduced_base(t, d, q)
           IN  /\ before > 0 => after > 0
               /\ before < 0 => after <= 0
<1> DEFINE m == t.m
           p == t.p.base_asset_amount
           k == m.sqrt_k * m.sqrt_k
           old == m.base_asset_reserve
           a == asset_to_reserve_amount(q, m.peg_multiplier)
           sd == swap_direction(d)
           quote == new_input_amount(a, m.quote_asset_reserve, sd)
           b == calculate_swap_output(a, m.quote_asset_reserve, sd, m.sqrt_k)
           cd == swap_direction_to_close_position(p)
           target == new_input_amount(unsigned_abs(p), old, cd)
           bound == calculate_swap_output(unsigned_abs(p), old, cd, m.sqrt_k)
           change == quote_asset_reserve_change(m.quote_asset_reserve, bound, cd)
<1>1. /\ Good(m) /\ p \in Int /\ p # 0 /\ old \in Nat /\ m.quote_asset_reserve \in Nat
      /\ m.sqrt_k \in Nat
  BY SoundParts DEF reduce_ok
<1>2. swap_quote_asset_ok(m, q, sd) /\ sd \in SwapDirections
  BY SwapDirection DEF reduce_ok
<1>3. m.peg_multiplier \in Nat \ {0} /\ calculate_swap_output_ok(a, m.quote_asset_reserve, sd)
  BY <1>1, <1>2 DEF swap_quote_asset_ok, Good, MarketType
<1>4. a \in Nat
  BY <1>3, AssetToReserve
<1>5. quote \in Nat \ {0} /\ b \in Nat /\ b = k \div quote /\ k \in Nat
  BY <1>1, <1>2, <1>3, <1>4, SwapOutput, TimesNat DEF calculate_swap_output
<1>6. unsigned_abs(p) \in Nat /\ cd \in SwapDirections
  BY <1>1, CloseDirection DEF unsigned_abs
<1>7. calculate_swap_output_ok(unsigned_abs(p), old, cd) /\ change >= 0
  BY <1>1 DEF base_asset_value_ok
<1>8. target \in Nat \ {0} /\ bound \in Nat /\ bound = k \div target
  BY <1>1, <1>6, <1>7, SwapOutput DEF calculate_swap_output
<1>9. close_value(t) = reserve_to_asset_amount(change, m.peg_multiplier)
  BY <1>1 DEF close_value, calculate_base_asset_value, calculate_quote_asset_amount_swapped
<1>10. reduced_base(t, d, q) = old - b
  BY DEF reduced_base
<1>11. /\ p > 0 => sd = "Remove" /\ quote = m.quote_asset_reserve - a
                    /\ target = old + p /\ change = m.quote_asset_reserve - bound
       /\ p < 0 => sd = "Add" /\ quote = m.quote_asset_reserve + a
                    /\ target = old + p /\ change = bound - m.quote_asset_reserve
  BY <1>1 DEF increases_position, swap_direction, Directions, new_input_amount, unsigned_abs,
              swap_direction_to_close_position, quote_asset_reserve_change
<1> HIDE DEF k, a, sd, quote, b, cd, target, bound, change
<1>12. change \in Nat
  BY <1>1, <1>7, <1>8, <1>11
<1>13. a < change
  <2>1. q < reserve_to_asset_amount(change, m.peg_multiplier)
    BY <1>9
  <2>2. asset_to_reserve_amount(q, m.peg_multiplier) < change
    BY <1>3, <1>12, <2>1, WorthLess
  <2> QED
    BY <2>2 DEF a
<1>14. p > 0 => p + (old - b) > 0
  <2>1. SUFFICES ASSUME p > 0 PROVE p + (old - b) > 0
    OBVIOUS
  <2>2. k \div target < quote
    BY <1>1, <1>4, <1>5, <1>8, <1>11, <1>12, <1>13, <2>1
  <2>3. k \div quote < target
    BY <1>5, <1>8, <2>2, CrossDown
  <2> QED
    BY <1>1, <1>5, <1>8, <1>11, <2>1, <2>3
<1>15. p < 0 => p + (old - b) <= 0
  <2>1. SUFFICES ASSUME p < 0 PROVE p + (old - b) <= 0
    OBVIOUS
  <2>2. quote <= k \div target
    BY <1>1, <1>4, <1>5, <1>8, <1>11, <1>12, <1>13, <2>1
  <2>3. target <= k \div quote
    BY <1>5, <1>8, <2>2, CrossUp
  <2> QED
    BY <1>1, <1>5, <1>8, <1>11, <2>1, <2>3
<1> QED
  BY <1>10, <1>14, <1>15

\* On the curve a reduction does not enlarge the position.
LEMMA ReducedSize ==
    ASSUME NEW t, Sound(t), Tame(t.m), NEW d \in Directions, NEW q \in Nat, reduce_ok(t, d, q),
           ~increases_position(t, d)
    PROVE  LET before == t.p.base_asset_amount
               after == before + reduced_base(t, d, q)
           IN  /\ after \in Int
               /\ before > 0 => after <= before
               /\ before < 0 => after >= before
<1> DEFINE p == t.p.base_asset_amount
           old == t.m.base_asset_reserve
           sd == swap_direction(d)
           b == calculate_swap_output(asset_to_reserve_amount(q, t.m.peg_multiplier),
                                      t.m.quote_asset_reserve, sd, t.m.sqrt_k)
<1>1. Good(t.m) /\ p \in Int /\ old \in Nat
  BY SoundParts
<1>2. swap_quote_asset_ok(t.m, q, sd) /\ sd \in SwapDirections
  BY SwapDirection DEF reduce_ok
<1>3. b \in Nat /\ (sd = "Add" => b <= old) /\ (sd = "Remove" => b >= old)
  BY <1>1, <1>2, SwapSign
<1>4. reduced_base(t, d, q) = old - b
  BY DEF reduced_base
<1>5. (p > 0 => sd = "Remove") /\ (p < 0 => sd = "Add")
  BY DEF increases_position, swap_direction, Directions
<1> HIDE DEF p, old, sd, b
<1>6. old - b \in Int /\ (p > 0 => old - b <= 0) /\ (p < 0 => old - b >= 0)
  BY <1>1, <1>3, <1>5
<1>7. /\ p + (old - b) \in Int
      /\ p > 0 => p + (old - b) <= p
      /\ p < 0 => p + (old - b) >= p
  BY <1>1, <1>6
<1> QED
  BY <1>4, <1>7 DEF p

\* An increase at the rate of the position stays at it, and a new position
\* starts at the rate of its side: on the curve the swap goes the right way, and
\* it is booked on the right side.
LEMMA IncreaseRate ==
    ASSUME NEW t, Sound(t), Tame(t.m), AtRate(t), NEW d \in Directions, NEW q \in Nat,
           NEW ts \in Nat, increases_position(t, d), increase_ok(t, d, q)
    PROVE  AtRate(increase(t, d, q, ts)) /\ Exact(t, increase(t, d, q, ts))
<1> DEFINE sd      == swap_direction(d)
           swapped == swap_quote_asset(t.m, q, sd, ts)
           base    == t.m.base_asset_reserve - swapped.base_asset_reserve
           before  == t.p.base_asset_amount
           after   == before + base
           rate    == IF before = 0 THEN cumulative_funding_rate(t.m, d = "Long")
                      ELSE t.p.last_cumulative_funding_rate
           r       == increase(t, d, q, ts)
<1>1. CASE q = 0
  BY <1>1 DEF increase, Exact
<1>2. CASE q # 0
  <2>1. Good(t.m) /\ t.m.base_asset_reserve \in Nat /\ before \in Int /\ t.p \in PositionType
    BY SoundParts
  <2>2. sd \in SwapDirections /\ swap_quote_asset_ok(t.m, q, sd)
    BY <1>2, SwapDirection DEF increase_ok
  <2>3. /\ swapped.base_asset_reserve \in Nat
        /\ sd = "Add" => swapped.base_asset_reserve <= t.m.base_asset_reserve
        /\ sd = "Remove" => swapped.base_asset_reserve >= t.m.base_asset_reserve
    BY <2>1, <2>2, SwapQuote, SwapSign
  <2>4. /\ r.p.base_asset_amount = after /\ r.p.last_cumulative_funding_rate = rate
    BY <1>2, <2>1 DEF increase, PositionType
  <2>5. SamePace(t.m, r.m) /\ (Stays(before, after) => Exact(t, r))
    BY <2>4, Increase DEF SoundStep, Follows
  <2> HIDE DEF swapped, r
  <2>6. /\ d = "Long" => before >= 0 /\ after >= before
        /\ d = "Short" => before <= 0 /\ after <= before
        /\ d = "Long" \/ d = "Short"
    BY <2>1, <2>3 DEF swap_direction, Directions, increases_position
  <2>7. after # 0 /\ before # 0 => (after > 0) = (before > 0)
    BY <2>1, <2>3, <2>6
  <2>8. after # 0 => (after > 0) = (d = "Long")
    BY <2>1, <2>3, <2>6
  <2>9. after # 0 => rate = cumulative_funding_rate(t.m, after > 0)
    <3>1. CASE before = 0
      BY <2>8, <3>1
    <3>2. CASE before # 0
      BY <2>7, <3>2 DEF AtRate, is_open_position
    <3> QED
      BY <3>1, <3>2
  <2>10. Exact(t, r)
    <3>1. after \in Int
      BY <2>1, <2>3
    <3> HIDE DEF after
    <3> QED
      BY <2>1, <2>5, <2>6, <2>7, <3>1 DEF Stays
  <2> HIDE DEF after, rate
  <2>11. AtRate(r)
    BY <2>4, <2>5, <2>9 DEF AtRate, is_open_position, cumulative_funding_rate, SamePace
  <2> QED
    BY <2>10, <2>11 DEF r
<1> QED
  BY <1>1, <1>2

\* A reduction stays at the rate of the position.
LEMMA ReduceRate ==
    ASSUME NEW t, Sound(t), AtRate(t), NEW d \in Directions, NEW q \in Nat, NEW ts \in Nat,
           reduce_ok(t, d, q), ~increases_position(t, d),
           base_asset_value_ok(t.p.base_asset_amount, t.m), q < close_value(t)
    PROVE  AtRate(reduce(t, d, q, ts)) /\ Exact(t, reduce(t, d, q, ts))
<1> DEFINE before == t.p.base_asset_amount
           after  == before + reduced_base(t, d, q)
           r      == reduce(t, d, q, ts)
<1>1. before \in Int /\ before # 0 /\ t.p \in PositionType
  BY SoundParts DEF reduce_ok
<1>2. /\ r.p.base_asset_amount = after
      /\ r.p.last_cumulative_funding_rate = t.p.last_cumulative_funding_rate
  BY <1>1 DEF reduce, PositionType
<1>3. /\ SamePace(t.m, r.m) /\ r.p.base_asset_amount \in Int
      /\ Stays(before, r.p.base_asset_amount) => Exact(t, r)
  BY Reduce, SoundParts DEF SoundStep, Follows
<1>4. /\ before > 0 => after > 0
      /\ before < 0 => after <= 0
  BY ReducedSide
<1> HIDE DEF after, r
<1>5. after # 0 => (after > 0) = (before > 0)
  BY <1>1, <1>2, <1>3, <1>4
<1>6. Exact(t, r)
  BY <1>1, <1>2, <1>3, <1>4 DEF Stays
<1>7. AtRate(r)
  BY <1>1, <1>2, <1>3, <1>5
     DEF AtRate, is_open_position, cumulative_funding_rate, SamePace
<1> QED
  BY <1>6, <1>7 DEF r

\* So does a trade, which may close the position and open one at the rate of
\* the other side.
LEMMA TradeRate ==
    ASSUME NEW t, Sound(t), Tame(t.m), AtRate(t), now \in Nat, NEW d \in Directions,
           NEW quote \in Nat, trade_ok(t, d, quote)
    PROVE  AtRate(trade(t, d, quote)) /\ Exact(t, trade(t, d, quote))
<1> DEFINE q == traded_quote(t, d, quote)
           rest == q - close_value(t)
<1>1. q \in Nat
  BY TradedQuote
<1>2. CASE increases_position(t, d)
  <2>1. increase_ok(t, d, q) /\ trade(t, d, quote) = increase(t, d, q, now)
    BY <1>2 DEF trade_ok, trade
  <2> HIDE DEF q
  <2> QED
    BY <1>1, <1>2, <2>1, IncreaseRate
<1>3. CASE ~increases_position(t, d) /\ close_value(t) > q
  <2>1. /\ reduce_ok(t, d, q) /\ trade(t, d, quote) = reduce(t, d, q, now)
        /\ base_asset_value_ok(t.p.base_asset_amount, t.m)
    BY <1>3 DEF trade_ok, trade
  <2>2. close_value(t) \in Nat
    BY <1>3, TradedQuote
  <2> HIDE DEF q
  <2>3. q < close_value(t)
    BY <1>1, <1>3, <2>2
  <2> QED
    BY <1>1, <1>3, <2>1, <2>3, ReduceRate
<1>4. CASE ~increases_position(t, d) /\ ~(close_value(t) > q)
  <2> DEFINE r == close(t, now)
  <2>1. /\ close_ok(t) /\ increase_ok(r, d, rest)
        /\ trade(t, d, quote) = increase(r, d, rest, now)
    BY <1>4 DEF trade_ok, trade
  <2>2. close_value(t) \in Nat
    BY <1>4, TradedQuote
  <2> HIDE DEF q
  <2>3. rest \in Nat
    BY <1>1, <1>4, <2>2
  <2> HIDE DEF rest
  <2>4. SoundStep(t, r) /\ Exact(t, r)
    BY <2>1, Close
  <2>5. r.p.base_asset_amount = 0
    BY <1>4 DEF close, is_open_position, increases_position, new_market_position
  <2> HIDE DEF r
  <2>6. AtRate(r) /\ increases_position(r, d) /\ Sound(r)
    BY <2>4, <2>5 DEF AtRate, is_open_position, increases_position, SoundStep
  <2>7. CASE rest = 0
    BY <2>1, <2>4, <2>6, <2>7 DEF increase
  <2>8. CASE rest # 0
    <3>1. mark_price_ok(r.m)
      BY <2>1, <2>8 DEF increase_ok, swap_quote_asset_ok
    <3>2. r.m.sqrt_k = t.m.sqrt_k
      BY <2>4 DEF SoundStep, Follows, Mirrors
    <3>3. OnCurve(r.m)
      BY <2>4, <3>1, <3>2, SameIsOnCurve DEF SoundStep, Follows, Lands, Tame
    <3>4. Tame(r.m)
      BY <2>4, <3>3 DEF SoundStep, Follows, SameTerms, Tame
    <3>5. AtRate(increase(r, d, rest, now)) /\ Exact(r, increase(r, d, rest, now))
      BY <2>1, <2>3, <2>6, <3>4, IncreaseRate
    <3> QED
      BY <2>1, <2>4, <3>5 DEF Exact
  <2> QED
    BY <2>7, <2>8
<1> QED
  BY <1>2, <1>3, <1>4
=============================================================================
