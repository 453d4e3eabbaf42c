------------------------------- MODULE SdkMath -------------------------------
(***************************************************************************)
(* What the SDK computes from a market it has read (sdk/src/math): the     *)
(* prices, values, costs and forecasts it shows before a transaction is    *)
(* sent.  The program computes most of them too, with other formulas, and  *)
(* PROPERTIES of ClientProps compare the two.                              *)
(*                                                                         *)
(* A market m is a record with the fields of the Market account, a         *)
(* position p one with those of a UserPosition.  BN.div truncates towards  *)
(* zero, as Quot does.  A function that asserts or divides has a companion *)
(* X_ok that is FALSE where it throws.                                     *)
(***************************************************************************)
EXTENDS Precision

TEN_THOUSAND == 10000
PARTIAL_LIQUIDATION_RATIO == 625
FULL_LIQUIDATION_RATIO == 500
PRICE_TO_QUOTE_PRECISION == MARK_PRICE_PRECISION \div QUOTE_PRECISION

(***************************************************************************)
(* amm.ts and market.ts                                                    *)
(***************************************************************************)
calculatePrice(baseAssetAmount, quoteAssetAmount, peg_multiplier) ==
    IF baseAssetAmount = 0 THEN 0
    ELSE Quot(Quot(quoteAssetAmount * MARK_PRICE_PRECISION * peg_multiplier, PEG_PRECISION),
              baseAssetAmount)

calculateMarkPrice(m) ==
    calculatePrice(m.base_asset_reserve, m.quote_asset_reserve, m.peg_multiplier)

\* The reserve of the asset swapped in and the one of the other asset.
calculateSwapOutput(inputAssetReserve, swapAmount, swapDirection, invariant) ==
    LET after == IF swapDirection = "Add" THEN inputAssetReserve + swapAmount
                                          ELSE inputAssetReserve - swapAmount
    IN  [input |-> after, output |-> Quot(invariant, after)]

getSwapDirection(inputAssetType, positionDirection) ==
    IF \/ positionDirection = "Long" /\ inputAssetType = "base"
       \/ positionDirection = "Short" /\ inputAssetType = "quote"
    THEN "Remove" ELSE "Add"

swapAmountInReserves(m, inputAssetType, swapAmount) ==
    IF inputAssetType = "quote"
    THEN Quot(swapAmount * AMM_TIMES_PEG_TO_QUOTE_PRECISION_RATIO, m.peg_multiplier)
    ELSE swapAmount

calculateAmmReservesAfterSwap_ok(m, inputAssetType, swapAmount, swapDirection) ==
    /\ swapAmount >= 0
    /\ inputAssetType = "quote" => m.peg_multiplier # 0
    /\ swapDirection = "Remove" =>
         swapAmountInReserves(m, inputAssetType, swapAmount) #
            (IF inputAssetType = "quote" THEN m.quote_asset_reserve ELSE m.base_asset_reserve)

calculateAmmReservesAfterSwap(m, inputAssetType, swapAmount, swapDirection) ==
    LET amount == swapAmountInReserves(m, inputAssetType, swapAmount)
        swap(reserve) == calculateSwapOutput(reserve, amount, swapDirection, m.sqrt_k * m.sqrt_k)
    IN  IF inputAssetType = "quote"
        THEN [quote |-> swap(m.quote_asset_reserve).input,
              base |-> swap(m.quote_asset_reserve).output]
        ELSE [quote |-> swap(m.base_asset_reserve).output,
              base |-> swap(m.base_asset_reserve).input]

\* Both begin with the direction that closes the position, or the net one.
directionToClose(baseAssetAmount) == IF baseAssetAmount > 0 THEN "Short" ELSE "Long"
reservesAfterClose(m, baseAssetAmount) ==
    calculateAmmReservesAfterSwap(m, "base", unsigned_abs(baseAssetAmount),
                                  getSwapDirection("base", directionToClose(baseAssetAmount)))

calculateTerminalPrice(m) ==
    LET after == reservesAfterClose(m, m.base_asset_amount)
    IN  IF ~m.initialized THEN 0
        ELSE Quot(Quot(after.quote * MARK_PRICE_PRECISION * m.peg_multiplier, PEG_PRECISION),
                  after.base)

(***************************************************************************)
(* position.ts                                                             *)
(***************************************************************************)
calculateBaseAssetValue(m, p) ==
    LET after == reservesAfterClose(m, p.base_asset_amount)
        moved == IF directionToClose(p.base_asset_amount) = "Short"
                 THEN m.quote_asset_reserve - after.quote
                 ELSE after.quote - m.quote_asset_reserve
    IN  IF p.base_asset_amount = 0 THEN 0
        ELSE Quot(moved * m.peg_multiplier, AMM_TIMES_PEG_TO_QUOTE_PRECISION_RATIO)

Bug_calculatePositionFundingPNL(m, p) ==
    IF p.base_asset_amount = 0 THEN 0
    ELSE -Quot(Quot((m.cumulative_funding_rate_long - p.last_cumulative_funding_rate)
                        * p.base_asset_amount, AMM_RESERVE_PRECISION),
               FUNDING_PAYMENT_PRECISION)
calculatePositionFundingPNL(m, p) ==
    LET rate == IF p.base_asset_amount > 0 THEN m.cumulative_funding_rate_long
                                           ELSE m.cumulative_funding_rate_short
    IN  IF p.base_asset_amount = 0 THEN 0
        ELSE -Quot(Quot((rate - p.last_cumulative_funding_rate) * p.base_asset_amount,
                        AMM_RESERVE_PRECISION), FUNDING_PAYMENT_PRECISION)

Bug_calculatePositionPNL(m, p, withFunding) ==
    LET value == calculateBaseAssetValue(m, p)
    IN  IF p.base_asset_amount = 0 THEN 0
        ELSE unsigned_abs(value - p.quote_asset_amount)
calculatePositionPNL(m, p, withFunding) ==
    LET value == calculateBaseAssetValue(m, p)
        pnl == IF p.base_asset_amount > 0 THEN value - p.quote_asset_amount
                                          ELSE p.quote_asset_amount - value - 1
        funding == Quot(calculatePositionFundingPNL(m, p), PRICE_TO_QUOTE_PRECISION)
    IN  IF p.base_asset_amount = 0 THEN 0 ELSE IF withFunding THEN pnl + funding ELSE pnl

calculateEntryPrice(p) ==
    IF p.base_asset_amount = 0 THEN 0
    ELSE unsigned_abs(Quot(p.quote_asset_amount * MARK_PRICE_PRECISION
                                * AMM_TO_QUOTE_PRECISION_RATIO, p.base_asset_amount))

(***************************************************************************)
(* The cost of moving the curve (amm.ts): the profit of the traders' net   *)
(* position, bought at what it was worth before.                           *)
(***************************************************************************)
netUserPosition(m) ==
    LET net == [base_asset_amount |-> m.base_asset_amount, quote_asset_amount |-> 0,
                last_cumulative_funding_rate |-> 0]
    IN  [net EXCEPT !.quote_asset_amount = calculateBaseAssetValue(m, net)]

calculateAdjustKCost(m, numerator, denominator) ==
    LET scale(x) == Quot(x * numerator, denominator)
    IN  calculatePositionPNL([m EXCEPT !.base_asset_reserve = scale(@),
                                       !.quote_asset_reserve = scale(@),
                                       !.sqrt_k = scale(@)], netUserPosition(m), FALSE)

calculateRepegCost(m, newPeg) ==
    calculatePositionPNL([m EXCEPT !.peg_multiplier = newPeg], netUserPosition(m), FALSE)

(***************************************************************************)
(* trade.ts                                                                *)
(***************************************************************************)
Bug_calculateTradeAcquiredAmounts(direction, amount, m, inputAssetType) ==
    LET after == calculateAmmReservesAfterSwap(m, inputAssetType, amount,
                                               getSwapDirection("base", direction))
    IN  [base |-> m.base_asset_reserve - after.base, quote |-> m.quote_asset_reserve - after.quote]
calculateTradeAcquiredAmounts(direction, amount, m, inputAssetType) ==
    LET after == calculateAmmReservesAfterSwap(m, inputAssetType, amount,
                                               getSwapDirection(inputAssetType, direction))
    IN  IF amount = 0 THEN [base |-> 0, quote |-> 0]
        ELSE [base |-> m.base_asset_reserve - after.base,
              quote |-> m.quote_asset_reserve - after.quote]

newPriceAfter(m, acquired) ==
    calculatePrice(m.base_asset_reserve - acquired.base, m.quote_asset_reserve - acquired.quote,
                   m.peg_multiplier)

\* It asserts that the price moves.
calculateTradeSlippage_ok(direction, amount, m, inputAssetType) ==
    amount # 0 =>
        /\ calculateAmmReservesAfterSwap_ok(m, inputAssetType, amount,
                                            getSwapDirection(inputAssetType, direction))
        /\ LET newPrice == newPriceAfter(m, calculateTradeAcquiredAmounts(direction, amount, m,
                                                                          inputAssetType))
           IN  IF direction = "Short" THEN newPrice < calculateMarkPrice(m)
                                      ELSE calculateMarkPrice(m) < newPrice
        /\ calculateMarkPrice(m) # 0

calculateTradeSlippage(direction, amount, m, inputAssetType) ==
    LET oldPrice == calculateMarkPrice(m)
        acquired == calculateTradeAcquiredAmounts(direction, amount, m, inputAssetType)
        entryPrice == -calculatePrice(acquired.base, acquired.quote, m.peg_multiplier)
        newPrice == newPriceAfter(m, acquired)
        pct(price) == unsigned_abs(Quot((price - oldPrice) * MARK_PRICE_PRECISION, oldPrice))
    IN  IF amount = 0
        THEN [pctAvg |-> 0, pctMax |-> 0, entryPrice |-> oldPrice, newPrice |-> oldPrice]
        ELSE [pctAvg |-> pct(entryPrice), pctMax |-> pct(newPrice),
              entryPrice |-> entryPrice, newPrice |-> newPrice]

\* Newton's iteration from n itself, until two guesses are one apart (utils.ts).
squareRootBN(n) ==
    LET newton[x \in Nat] ==
            LET root == (x + (n \div x)) \div 2
            IN  IF unsigned_abs(x - root) <= 1 THEN root ELSE newton[root]
    IN  newton[n]

\* The target moved towards the mark price, to close only pct of 1000 of the gap.
scaledTarget(mark, targetPrice, pct) ==
    IF targetPrice > mark THEN mark + Quot((targetPrice - mark) * pct, 1000)
                          ELSE mark - Quot((mark - targetPrice) * pct, 1000)

\* The reserves at the target price; the bias keeps the trade short of it.
Bug_reservesAtTarget(m, target, bias) ==
    LET base == squareRootBN(Quot(m.sqrt_k * m.sqrt_k * MARK_PRICE_PRECISION, target)
                                * m.peg_multiplier)
    IN  [base |-> base, quote |-> Quot(m.sqrt_k * m.sqrt_k, base)]
reservesAtTarget(m, target, bias) ==
    LET k == m.sqrt_k * m.sqrt_k * MARK_PRICE_PRECISION
        base == squareRootBN(Quot(Quot(k, target) * m.peg_multiplier, PEG_PRECISION) + bias) + bias
    IN  [base |-> base, quote |-> Quot(Quot(k, MARK_PRICE_PRECISION), base)]

\* The trade that pushes the price to the target, with the base asset it moves.
calculateTargetPriceTrade(m, targetPrice, pct) ==
    LET mark   == calculateMarkPrice(m)
        target == scaledTarget(mark, targetPrice, pct)
        after  == reservesAtTarget(m, target, IF mark > target THEN -1 ELSE 1)
        size(x) == Quot(Quot(x * m.peg_multiplier, PEG_PRECISION), AMM_TO_QUOTE_PRECISION_RATIO)
        moved(quote, base) ==
            [size |-> size(quote), base |-> base,
             entryPrice |-> IF base = 0 THEN 0
                            ELSE Quot(size(quote) * AMM_TO_QUOTE_PRECISION_RATIO
                                        * MARK_PRICE_PRECISION, unsigned_abs(base)),
             markPriceAfter |-> calculatePrice(after.base, after.quote, m.peg_multiplier),
             target |-> target]
    IN  IF mark > target
        THEN [direction |-> "Short", trade |-> moved(m.quote_asset_reserve - after.quote,
                                                     after.base - m.base_asset_reserve)]
        ELSE IF mark < target
        THEN [direction |-> "Long", trade |-> moved(after.quote - m.quote_asset_reserve,
                                                    m.base_asset_reserve - after.base)]
        ELSE [direction |-> "Long", trade |-> [size |-> 0, base |-> 0, entryPrice |-> target,
                                               markPriceAfter |-> target, target |-> target]]

\* The assertions at its end.
calculateTargetPriceTrade_ok(m, targetPrice, pct) ==
    LET x    == calculateTargetPriceTrade(m, targetPrice, pct)
        gap  == x.trade.target - calculateMarkPrice(m)
        left == IF x.direction = "Short" THEN x.trade.markPriceAfter - x.trade.target
                                         ELSE x.trade.target - x.trade.markPriceAfter
    IN  /\ m.base_asset_reserve > 0 /\ targetPrice > 0 /\ pct \in 1..1000
        /\ gap # 0 => /\ x.trade.base # 0
                      /\ left <= unsigned_abs(gap)
                      /\ -left < 100000
=============================================================================
