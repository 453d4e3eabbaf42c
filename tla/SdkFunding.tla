------------------------------ MODULE SdkFunding ------------------------------
(***************************************************************************)
(* The SDK's estimate of the next funding rate (sdk/src/math/funding.ts):  *)
(* a percentage of the oracle's twap, in mark price precision, for the     *)
(* longs and for the shorts.  An oracle reading o has the price and the    *)
(* previous price of the Pyth account, in mark price precision.            *)
(***************************************************************************)
EXTENDS SdkMath

HOURS_IN_DAY == 24

Bug_calculateFundingPool(m) == m.total_fee_minus_distributions
calculateFundingPool(m) ==
    Larger(0, Quot((m.total_fee_minus_distributions - Quot(m.total_fee, 2)) * 2, 3))

\* The weight that the twap of the last update keeps: never below an hour.
timeSinceLastUpdate(since) == Larger(ONE_HOUR, ONE_HOUR - since)

markTwapLive(m, now) ==
    LET since == now - m.last_mark_price_twap_ts
    IN  Quot(timeSinceLastUpdate(since) * m.last_mark_price_twap + since * calculateMarkPrice(m),
             since + timeSinceLastUpdate(since))

\* The mean of the prices that are not negative.
oracleStablePrice(o) ==
    LET counted == {x \in {"price", "previousPrice"} : o[x] >= 0}
    IN  IF counted = {"price", "previousPrice"} THEN Quot(o.price + o.previousPrice, 2)
        ELSE o[CHOOSE x \in counted : TRUE]

\* The live price counts while it is within 10% of the last twap.
oracleTwapLive(m, o, now) ==
    LET twap  == m.last_oracle_price_twap
        since == now - m.last_oracle_price_twap_ts
        live  == oracleStablePrice(o)
    IN  IF Quot(unsigned_abs(live - twap) * MARK_PRICE_PRECISION * 100, twap)
              <= MARK_PRICE_PRECISION * 10
        THEN Quot(timeSinceLastUpdate(since) * twap + (now - m.last_mark_price_twap_ts) * live,
                  since + timeSinceLastUpdate(since))
        ELSE twap

calculateAllEstimatedFundingRate_ok(m, o, now) ==
    m.initialized => /\ \E x \in {"price", "previousPrice"} : o[x] >= 0
                     /\ m.last_oracle_price_twap # 0 /\ oracleTwapLive(m, o, now) # 0

twapSpread(m) == m.last_mark_price_twap - m.last_oracle_price_twap

\* What the smaller side pays and the fee pool tops up, over the larger side.
cappedAltEst(m, oracleTwap, interpEst, periodAdjustment) ==
    LET long    == m.base_asset_amount_long
        short   == unsigned_abs(m.base_asset_amount_short)
        pool    == IF Quot(interpEst, PRICE_TO_QUOTE_PRECISION) < 0
                   THEN -calculateFundingPool(m) ELSE calculateFundingPool(m)
        flow    == Quot(Smaller(long, short) * twapSpread(m), HOURS_IN_DAY)
        perUnit == Quot(flow + pool * PRICE_TO_QUOTE_PRECISION * AMM_RESERVE_PRECISION,
                        Larger(long, short))
        capped  == Quot(perUnit * MARK_PRICE_PRECISION * 100, oracleTwap) * periodAdjustment
    IN  IF unsigned_abs(capped) >= unsigned_abs(interpEst) THEN interpEst ELSE capped

\* The cap applies while the larger side receives.
largerSideReceives(m) ==
    LET short == unsigned_abs(m.base_asset_amount_short)
    IN  \/ m.base_asset_amount_long > short /\ twapSpread(m) <= 0
        \/ m.base_asset_amount_long < short /\ twapSpread(m) >= 0

calculateAllEstimatedFundingRate(m, o, now, periodAdjustment) ==
    LET oracleTwap == oracleTwapLive(m, o, now)
        spreadPct  == Quot(twapSpread(m) * MARK_PRICE_PRECISION * 100, oracleTwap)
        elapsed    == Smaller(ONE_HOUR, now - m.last_funding_rate_ts)
        interpEst  == Quot(spreadPct * periodAdjustment, HOURS_IN_DAY)
    IN  IF ~m.initialized
        THEN [markTwap |-> 0, oracleTwap |-> 0, lowerbound |-> 0, capped |-> 0, interp |-> 0]
        ELSE [markTwap |-> markTwapLive(m, now), oracleTwap |-> oracleTwap,
              lowerbound |-> Quot(Quot(Quot(spreadPct * m.funding_period * elapsed
                                                * periodAdjustment, ONE_HOUR), ONE_HOUR),
                                  HOURS_IN_DAY),
              capped |-> IF largerSideReceives(m)
                         THEN cappedAltEst(m, oracleTwap, interpEst, periodAdjustment)
                         ELSE interpEst,
              interp |-> interpEst]

calculateEstimatedFundingRate(m, o, now, periodAdjustment, estimationMethod) ==
    LET est == calculateAllEstimatedFundingRate(m, o, now, periodAdjustment)
    IN  IF estimationMethod \in {"lowerbound", "capped"} THEN est[estimationMethod] ELSE est.interp

\* Compares the longs with the shorts' negative amount: the longs are always
\* the larger side, unless both are zero.
calculateLongShortFundingRate(m, o, now, periodAdjustment) ==
    LET est == calculateAllEstimatedFundingRate(m, o, now, periodAdjustment)
    IN  IF m.base_asset_amount_long > m.base_asset_amount_short
        THEN [long |-> est.capped, short |-> est.interp]
        ELSE IF m.base_asset_amount_long < m.base_asset_amount_short
        THEN [long |-> est.interp, short |-> est.capped]
        ELSE [long |-> est.interp, short |-> est.interp]

calculateLongShortFundingRateAndLiveTwaps(m, o, now, periodAdjustment) ==
    LET est   == calculateAllEstimatedFundingRate(m, o, now, periodAdjustment)
        short == unsigned_abs(m.base_asset_amount_short)
    IN  IF m.base_asset_amount_long > short
        THEN [markTwap |-> est.markTwap, oracleTwap |-> est.oracleTwap,
              long |-> est.capped, short |-> est.interp]
        ELSE [markTwap |-> est.markTwap, oracleTwap |-> est.oracleTwap, long |-> est.interp,
              short |-> IF m.base_asset_amount_long < short THEN est.capped ELSE est.interp]
=============================================================================
