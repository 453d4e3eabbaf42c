--------------------------- MODULE ClearingHouseUser ---------------------------
(***************************************************************************)
(* What the SDK's ClearingHouseUser computes for a user u from the         *)
(* accounts it subscribes to (sdk/src/clearingHouseUser.ts): position      *)
(* values, margin, leverage, liquidation prices and trade sizes.  The      *)
(* subscribed accounts are the ones of the program: a client that is up to *)
(* date.  (How it keeps up to date is the subject of Subscribers.)         *)
(***************************************************************************)
EXTENDS ClearingHouse, SdkFunding

BN_MAX == 10^6      \* Number.MAX_SAFE_INTEGER: more than any ratio of an instance

(***************************************************************************)
(* Positions                                                               *)
(***************************************************************************)
getEmptyPosition(i) ==
    [market_index |-> i, base_asset_amount |-> 0, quote_asset_amount |-> 0,
     last_cumulative_funding_rate |-> 0]

\* The first of the five slots that names the market, open or not.
getUserPosition(u, i) ==
    LET found == {s \in Slots : positions[u][s].market_index = i}
    IN  IF found = {} THEN getEmptyPosition(i) ELSE positions[u][First(found)]

getPositionValue(u, i) == calculateBaseAssetValue(market[i], getUserPosition(u, i))

getTotalPositionValue(u) ==
    SumOverSlots([s \in Slots |-> calculateBaseAssetValue(market[positions[u][s].market_index],
                                                          positions[u][s])])

getTotalPositionValueExcludingMarket(u, i) == getTotalPositionValue(u) - getPositionValue(u, i)

\* Without a market argument; with one it compares BN objects by identity.
getUnrealizedPNL(u, withFunding) ==
    SumOverSlots([s \in Slots |-> calculatePositionPNL(market[positions[u][s].market_index],
                                                       positions[u][s], withFunding)])

getUnrealizedFundingPNL(u) ==
    SumOverSlots([s \in Slots |-> calculatePositionFundingPNL(
                                    market[positions[u][s].market_index], positions[u][s])])

getPositionSide(p) ==
    IF p.base_asset_amount > 0 THEN "Long"
    ELSE IF p.base_asset_amount < 0 THEN "Short" ELSE "undefined"

\* For the part of the position in amountToClose, a set of at most one amount,
\* or for all of it.
getPositionEstimatedExitPriceAndPnl(p, amountToClose) ==
    LET m == market[p.market_index]
        base == IF amountToClose = {} THEN p.base_asset_amount
                                      ELSE CHOOSE x \in amountToClose : TRUE
        value == calculateBaseAssetValue(m, [p EXCEPT !.base_asset_amount = base])
        exitPrice == Quot(value * AMM_TO_QUOTE_PRECISION_RATIO * MARK_PRICE_PRECISION,
                          unsigned_abs(base))
    IN  IF amountToClose = {0} THEN [exitPrice |-> calculateMarkPrice(m), pnl |-> 0]
        ELSE IF base = 0 THEN [exitPrice |-> 0, pnl |-> 0]
        ELSE [exitPrice |-> exitPrice,
              pnl |-> Quot(Quot((exitPrice - calculateEntryPrice(p)) * base,
                                MARK_PRICE_PRECISION), AMM_TO_QUOTE_PRECISION_RATIO)]

(***************************************************************************)
(* Margin and leverage                                                     *)
(***************************************************************************)
getTotalCollateral(u) == user[u].collateral + getUnrealizedPNL(u, TRUE)

getMaxLeverage(category) ==
    Quot(TEN_THOUSAND * TEN_THOUSAND,
         IF category = "Maintenance" THEN state.margin_ratio_maintenance
         ELSE IF category = "Partial" THEN state.margin_ratio_partial
         ELSE state.margin_ratio_initial)

\* The collateral that a value of positions at the category's leverage leaves.
freeCollateral(u, value, category) ==
    getTotalCollateral(u) - Quot(value * TEN_THOUSAND, getMaxLeverage(category))

getFreeCollateral(u) == freeCollateral(u, getTotalPositionValue(u), "Initial")
getBuyingPower(u) == Quot(getFreeCollateral(u) * getMaxLeverage("Initial"), TEN_THOUSAND)

\* Divides by a collateral that may be zero.
getLeverage(u) ==
    IF getTotalPositionValue(u) = 0 /\ getTotalCollateral(u) = 0 THEN 0
    ELSE Quot(getTotalPositionValue(u) * TEN_THOUSAND, getTotalCollateral(u))

getMarginRatio(u) ==
    IF getTotalPositionValue(u) = 0 THEN BN_MAX
    ELSE Quot(getTotalCollateral(u) * TEN_THOUSAND, getTotalPositionValue(u))

\* Compares with the ratio that initialize sets, not with the State's.
Bug_canBeLiquidated(u) ==
    LET tc == user[u].collateral + getUnrealizedPNL(u, FALSE)
    IN  getTotalPositionValue(u) # 0 /\ 1600 * tc <= getTotalPositionValue(u)
canBeLiquidated(u) == getMarginRatio(u) <= PARTIAL_LIQUIDATION_RATIO

\* A position that has the rate of either side needs no settlement.
needsToSettleFundingPayment(u) ==
    \E s \in Slots :
        LET p == positions[u][s]
            m == market[p.market_index]
        IN  /\ p.base_asset_amount # 0
            /\ p.last_cumulative_funding_rate \notin
                 {m.cumulative_funding_rate_long, m.cumulative_funding_rate_short}

calculateFeeForQuoteAmount(quoteAmount) ==
    Quot(quoteAmount * state.fee_structure.fee_numerator, state.fee_structure.fee_denominator)

(***************************************************************************)
(* Liquidation prices: -1 where there is none                              *)
(***************************************************************************)
\* The position in market i after its size changes.
proposedMarketPosition(u, i, change) ==
    [getEmptyPosition(i) EXCEPT !.base_asset_amount = getUserPosition(u, i).base_asset_amount + change]

targetTotalPositionValue(u, i, change) ==
    getTotalPositionValueExcludingMarket(u, i)
        + calculateBaseAssetValue(market[i], proposedMarketPosition(u, i, change))

\* The price after the trade that changes the size.
priceAfterChange(i, change) ==
    IF change = 0 THEN calculateMarkPrice(market[i])
    ELSE calculateTradeSlippage(IF change > 0 THEN "Long" ELSE "Short", unsigned_abs(change),
                                market[i], "base").newPrice

liquidationPrice(u, i, change, partial) ==
    LET lev  == IF partial THEN 16 ELSE 20
        base == proposedMarketPosition(u, i, change).base_asset_amount
        free == freeCollateral(u, getTotalPositionValueExcludingMarket(u, i),
                               IF partial THEN "Partial" ELSE "Maintenance")
        priceDelt == Quot((getTotalCollateral(u) * lev - getTotalPositionValue(u))
                            * PRICE_TO_QUOTE_PRECISION, IF base < 0 THEN lev + 1 ELSE lev - 1)
        eatMargin == Quot(priceDelt * AMM_RESERVE_PRECISION, base)
        price == priceAfterChange(i, change)
    IN  IF \/ base > 0 /\ targetTotalPositionValue(u, i, change) <= free
           \/ base = 0
           \/ eatMargin > price
        THEN -1 ELSE price - eatMargin

\* BN.mod has the sign of the dividend.
remainder(a, b) == a - b * Quot(a, b)

\* The base amount that is closed with a quote amount, its sign reversed.
closeBaseAmount(p, quote) ==
    -(Quot(p.base_asset_amount * quote, p.quote_asset_amount)
        + remainder(p.base_asset_amount * quote, p.quote_asset_amount))

liquidationPriceAfterClose(u, i, quote) ==
    liquidationPrice(u, i, closeBaseAmount(getUserPosition(u, i), quote), FALSE)

liquidationPriceOld(u, i, change, partial) ==
    LET p     == proposedMarketPosition(u, i, change)
        value == calculateBaseAssetValue(market[i], p)
        free  == freeCollateral(u, getTotalPositionValue(u),
                                IF partial THEN "Partial" ELSE "Maintenance")
        ratio == IF value = 0 THEN BN_MAX ELSE Quot(getTotalCollateral(u) * TEN_THOUSAND, value)
        gap   == unsigned_abs(ratio)
                    - (IF partial THEN PARTIAL_LIQUIDATION_RATIO ELSE FULL_LIQUIDATION_RATIO)
        at(pct) == Quot(calculateMarkPrice(market[i]) * pct, TEN_THOUSAND)
    IN  IF p.base_asset_amount > 0 /\ targetTotalPositionValue(u, i, change) <= free THEN -1
        ELSE IF p.base_asset_amount < 0 THEN at(gap + TEN_THOUSAND)
        ELSE IF gap >= TEN_THOUSAND THEN -1 ELSE at(TEN_THOUSAND - gap)

(***************************************************************************)
(* Trade sizes                                                             *)
(***************************************************************************)
currentSide(u, i) == IF getUserPosition(u, i).base_asset_amount < 0 THEN "Short" ELSE "Long"

\* The size that takes the account to the leverage, or back to it.
Bug_maxPositionSize(u, i, tradeSide, maxLeverage) ==
    LET atMax == Quot(maxLeverage * getTotalCollateral(u), TEN_THOUSAND)
    IN  IF tradeSide = currentSide(u, i) THEN atMax ELSE atMax + getPositionValue(u, i)
maxPositionSize(u, i, tradeSide, maxLeverage) ==
    LET tc        == getTotalCollateral(u)
        leverage  == getLeverage(u)
        inMarket  == getPositionValue(u, i)
        sameSide  == tradeSide = currentSide(u, i)
        remaining == Quot(Larger(maxLeverage - leverage, 0) * tc, TEN_THOUSAND)
        others    == Quot(leverage * tc, TEN_THOUSAND) - inMarket
        atMax     == Quot(maxLeverage * tc, TEN_THOUSAND)
    IN  IF leverage <= maxLeverage
        THEN IF sameSide THEN remaining ELSE remaining + 2 * inMarket
        ELSE IF sameSide THEN remaining
        ELSE IF others - inMarket >= atMax THEN inMarket
        ELSE inMarket + (atMax - others)

\* Takes "oneMillionth" off, which a small QUOTE_PRECISION makes a larger part.
getMaxTradeSizeUSDC(u, i, tradeSide, maxLeverage) ==
    LET size == maxPositionSize(u, i, tradeSide, maxLeverage)
    IN  size - Quot(size, QUOTE_PRECISION)

accountLeverageRatioAfterTrade(u, i, quote, tradeSide) ==
    LET signed(side, x) == IF side = "Short" THEN -x ELSE x
        after == unsigned_abs(signed(currentSide(u, i), getPositionValue(u, i))
                                + signed(tradeSide, quote))
        tc == getTotalCollateral(u)
    IN  IF tc <= 0 THEN 0
        ELSE Quot(unsigned_abs(after + getTotalPositionValueExcludingMarket(u, i)) * TEN_THOUSAND,
                  tc)
=============================================================================
