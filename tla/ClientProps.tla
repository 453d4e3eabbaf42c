------------------------------ MODULE ClientProps ------------------------------
(***************************************************************************)
(* What the SDK tells its user about the program: its formulas are not the *)
(* program's, and these properties compare the two on every state that the *)
(* program reaches.                                                        *)
(***************************************************************************)
EXTENDS ClearingHouseProps, ClearingHouseUser

\* getUserPosition takes the first slot that names the market, and a closed
\* position still names its market: the open one is always found first.
ClientFindsThePosition ==
    \A u \in Users, i \in Markets :
        SlotsFor(positions[u], i) # {} =>
            getUserPosition(u, i) = positions[u][First(SlotsFor(positions[u], i))]

\* The collateral the client shows, with the funding that is not settled yet,
\* is what the program reckons with once it has settled the funding
\* (getTotalCollateral and calculate_margin_ratio), and so is the funding
\* itself: to the unit, for a user with a position in one market (with several
\* the client truncates each payment in the total, and the program their sum).
\* When needsToSettleFundingPayment sees nothing to settle,
\* settling changes no balance, unless a position happens to have the rate of
\* the other side.
ClientKnowsTheCollateral ==
    \A u \in Users :
        LET settled == settled_collateral(user[u].collateral, positions[u], market)
            otherSide(p) == IF getPositionSide(p) = "Long"
                            THEN market[p.market_index].cumulative_funding_rate_short
                            ELSE market[p.market_index].cumulative_funding_rate_long
        IN  /\ settled = Larger(0, user[u].collateral
                                    + Quot(getUnrealizedFundingPNL(u), PRICE_TO_QUOTE_PRECISION))
            /\ settled > 0 =>
                  Larger(0, getTotalCollateral(u)) =
                     total_collateral(settled, settled_positions(positions[u], market), market)
            /\ ~needsToSettleFundingPayment(u) =>
                  \/ settled = user[u].collateral
                  \/ \E s \in Slots : /\ is_open_position(positions[u][s])
                                      /\ positions[u][s].last_cumulative_funding_rate
                                            = otherSide(positions[u][s])

\* The positions of u, and their sizes.
Held(u) == {s \in Slots : is_open_position(positions[u][s])}

\* How far the mark price is past a liquidation price: above it for a short,
\* below it for a long.
PastLiquidationPrice(p, price) ==
    LET past == calculateMarkPrice(market[p.market_index]) - price
    IN  IF getPositionSide(p) = "Long" THEN -past ELSE past

\* The two divisions of liquidationPrice each lose less than a unit.
PriceRounding(p) == 2 + AMM_RESERVE_PRECISION \div unsigned_abs(p.base_asset_amount)

\* canBeLiquidated says what the liquidate instruction will do, and both of the
\* client's liquidation prices are on the side of the mark price that fits, up
\* to their rounding, while the State has the ratios it had first; closing all
\* of a position leaves no liquidation price.  (The older formula takes the
\* size of a negative margin ratio, and is right for the others.)
ClientForeseesLiquidation ==
    state.margin_ratio_partial = PARTIAL_LIQUIDATION_RATIO =>
        \A u \in Users : \A unsafe \in {canBeLiquidated(u)} :
            /\ unsafe <=> Liquidatable(u)
            /\ \A s \in Held(u) : \A p \in {positions[u][s]} :
                \A price \in {liquidationPrice(u, p.market_index, 0, TRUE)},
                   old \in {liquidationPriceOld(u, p.market_index, 0, TRUE)} :
                    /\ getTotalCollateral(u) >= 0 =>
                          /\ old # -1 /\ PastLiquidationPrice(p, old) > 0 => unsafe
                          /\ unsafe => old # -1 /\ PastLiquidationPrice(p, old) >= 0
                    /\ p.quote_asset_amount > 0 =>
                          liquidationPriceAfterClose(u, p.market_index, p.quote_asset_amount) = -1
                    /\ price # -1 /\ PastLiquidationPrice(p, price) > PriceRounding(p) => unsafe
                    /\ unsafe => /\ price # -1
                                 /\ PastLiquidationPrice(p, price) >= -PriceRounding(p)

(***************************************************************************)
(* Forecasts of trades                                                     *)
(***************************************************************************)
\* The position of u in market i once its funding is settled, as a trade that
\* open_position begins with.
TradeOf(u, i) ==
    [m |-> market[i], p |-> TradePosition(settled_positions(positions[u], market), i),
     c |-> settled_collateral(user[u].collateral, positions[u], market)]

\* The collateral and the value of u's positions once a trade has left t in
\* market i, as the program reckons them for the margin.
MarginAfter(u, i, t) ==
    LET ps    == settled_positions(positions[u], market)
        after == [ps EXCEPT ![TradeSlot(ps, i)] = t.p]
        ms    == [market EXCEPT ![i] = t.m]
    IN  [collateral |-> total_collateral(t.c, after, ms),
         value |-> total_base_asset_value(after, ms)]

\* A trade of the size that the client calls the largest, before it takes a
\* millionth off, is within the leverage it was asked for by the client's own
\* forecast.  The program's margin ratio after it is one unit below the initial
\* one at most, reckoned with a unit more of collateral for the rounding.  (The
\* client truncates its leverage to four decimals, which can be worth more than
\* the millionth: the program may refuse the trade, but not for more than that.)
MaxTradeIsWithinAStep ==
    \A u \in Users, i \in Markets : \A tc \in {getTotalCollateral(u)} :
        tc > 0 =>
            \A max \in {getMaxLeverage("Initial")}, leverage \in {getLeverage(u)},
               power \in {getBuyingPower(u)}, t \in {TradeOf(u, i)} :
            \A d \in Directions : \A quote \in {maxPositionSize(u, i, d, max)} :
                quote > 0 =>
                  /\ d = currentSide(u, i) => quote <= Larger(0, power) + Quot(tc, TEN_THOUSAND) + 2
                  /\ leverage <= max => accountLeverageRatioAfterTrade(u, i, quote, d) <= max
                  /\ trade_ok(t, d, quote) /\ potentially_risk_increasing(t, d, quote) =>
                        \A after \in {MarginAfter(u, i, trade(t, d, quote))} :
                            (after.collateral + 1) * MARGIN_PRECISION
                                >= (state.margin_ratio_initial - 1) * after.value

\* The trade that should bring the price to a target ten units or more away is
\* found, and when the program carries it out the price moves towards the
\* target and not past it by more than a unit.
TargetTradeStopsAtTarget ==
    \A i \in Markets, target \in {80, 130} :
        LET m == market[i]
            x == calculateTargetPriceTrade(m, target, 1000)
            after == mark_price(swap_quote_asset(m, x.trade.size, swap_direction(x.direction), now))
        IN  unsigned_abs(target - mark_price(m)) >= 10 =>
              /\ calculateTargetPriceTrade_ok(m, target, 1000)
              /\ IF x.direction = "Long" THEN mark_price(m) < after /\ after <= target + 1
                                         ELSE target - 1 <= after /\ after < mark_price(m)

\* The only change that a step makes to the positions of u is in slot s.
MovesOnly(u, s) == positions' = [positions EXCEPT ![u] = [@ EXCEPT ![s] = positions'[u][s]]]

\* A trade that enlarges a position buys the base asset, and leaves the price,
\* that calculateTradeSlippage announced for the quote amount, unless it throws
\* because the price does not move; one that closes a position pays the profit
\* and leaves the price announced for its base, and
\* getPositionEstimatedExitPriceAndPnl is off by its rounding only.
\* (Nobody pays a fee here and no loss exceeds a collateral.)
ClientForecastsTrades ==
    [][\A u \in Users, s \in Slots :
        LET p     == positions[u][s]
            after == positions'[u][s]
            i     == after.market_index
            base  == after.base_asset_amount - p.base_asset_amount
            d     == IF base > 0 THEN "Long" ELSE "Short"
            quote == after.quote_asset_amount - p.quote_asset_amount
            newPrice(amount, type) == calculateTradeSlippage(d, amount, market[i], type).newPrice
        IN  base # 0 /\ MovesOnly(u, s) =>
              /\ unsigned_abs(after.base_asset_amount) > unsigned_abs(p.base_asset_amount)
                    /\ p.base_asset_amount * base >= 0 =>
                       /\ base = calculateTradeAcquiredAmounts(d, quote, market[i], "quote").base
                       /\ calculateMarkPrice(market'[i]) = newPrice(quote, "quote")
                       /\ calculateMarkPrice(market'[i]) # calculateMarkPrice(market[i]) =>
                             calculateTradeSlippage_ok(d, quote, market[i], "quote")
              /\ after.base_asset_amount = 0 =>
                    /\ unsigned_abs(getPositionEstimatedExitPriceAndPnl(p, {}).pnl
                                      - calculatePositionPNL(market[i], p, FALSE))
                         <= 3 + unsigned_abs(base) \div (MARK_PRICE_PRECISION
                                                            * AMM_TO_QUOTE_PRECISION_RATIO)
                    /\ calculateMarkPrice(market'[i]) = newPrice(unsigned_abs(base), "base")
                    /\ user'[u].collateral =
                         Larger(0, user[u].collateral + calculatePositionPNL(market[i], p, TRUE))]_vars

\* What the SDK announces as the cost of a new peg or a new k is what the fee
\* pool pays, or gets; the cost of k, for a ratio in mark price precision, is
\* one unit off at most.  The fee it announces for a trade is what the trader
\* pays together with the discounts.
ClientForecastsCosts ==
    [][ /\ history'.curve > history.curve =>
            \A i \in Markets :
                LET m    == market[i]
                    paid == m.total_fee_minus_distributions
                                - market'[i].total_fee_minus_distributions
                IN  /\ calculateTerminalPrice(m) = calculate_terminal_price(m)
                    /\ market'[i].peg_multiplier # m.peg_multiplier =>
                          paid = calculateRepegCost(m, market'[i].peg_multiplier)
                    /\ market'[i].sqrt_k # m.sqrt_k =>
                          unsigned_abs(paid - calculateAdjustKCost(m,
                                                sqrt_k_ratio(m, market'[i].sqrt_k),
                                                MARK_PRICE_PRECISION)) <= 1
        /\ \A u \in Users, s \in Slots :
              LET p     == positions[u][s]
                  after == positions'[u][s]
                  quote == after.quote_asset_amount - p.quote_asset_amount
                  fees(x) == x.total_fee_paid + x.total_token_discount + x.total_referee_discount
              IN  quote > 0 /\ p.base_asset_amount * after.base_asset_amount >= 0 =>
                      fees(user'[u]) - fees(user[u]) = calculateFeeForQuoteAmount(quote)
      ]_vars

\* The client never promises the side that receives more than there is: its
\* estimate, over all of the larger side, is within what the smaller side pays
\* and what the program lets the fee pool add in a period.
FundingEstimateIsAffordable ==
    \A i \in Markets :
        LET m      == market[i]
            o      == [price |-> m.last_oracle_price, previousPrice |-> m.last_oracle_price]
            est    == calculateLongShortFundingRateAndLiveTwaps(m, o, now, 1)
            longs  == m.base_asset_amount_long
            shorts == unsigned_abs(m.base_asset_amount_short)
            promised == unsigned_abs(IF longs > shorts THEN est.long ELSE est.short)
            budget == Quot(Smaller(longs, shorts) * unsigned_abs(twapSpread(m)), HOURS_IN_DAY)
                         - funding_rate_pnl_limit(m) * PRICE_TO_QUOTE_PRECISION
                                                     * AMM_RESERVE_PRECISION
        IN  calculateAllEstimatedFundingRate_ok(m, o, now) /\ largerSideReceives(m) =>
              promised * est.oracleTwap * Larger(longs, shorts)
                <= budget * MARK_PRICE_PRECISION * 100
=============================================================================
