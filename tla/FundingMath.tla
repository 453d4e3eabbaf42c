------------------------------ MODULE FundingMath ------------------------------
(***************************************************************************)
(* Funding rates and payments (math/funding.rs, controller/funding.rs).    *)
(* Longs and shorts have cumulative rates of their own: when the side that *)
(* receives is the larger one, its rate is capped so that what it receives *)
(* is covered by the paying side and the market's fee pool.                *)
(***************************************************************************)
EXTENDS OracleMath

\* _calculate_funding_payment: what a position receives, in AMM precision.
\* The magnitude is rounded down whatever its sign; longs pay when the rate rises.
funding_payment(funding_rate_delta, base_asset_amount) ==
    LET magnitude ==
          ((unsigned_abs(funding_rate_delta) * unsigned_abs(base_asset_amount))
              \div MARK_PRICE_PRECISION) \div FUNDING_PAYMENT_PRECISION
    IN  IF (funding_rate_delta > 0) = (base_asset_amount > 0) THEN -magnitude ELSE magnitude

calculate_funding_payment_in_quote_precision(funding_rate_delta, base_asset_amount) ==
    Quot(funding_payment(funding_rate_delta, base_asset_amount), AMM_TO_QUOTE_PRECISION_RATIO)

calculate_funding_rate_from_pnl_limit(pnl_limit, base_asset_amount) ==
    LET pnl_limit_biased == IF pnl_limit < 0 THEN pnl_limit + 1 ELSE pnl_limit
    IN  IF base_asset_amount = 0 THEN 0
        ELSE Quot(pnl_limit_biased * QUOTE_TO_BASE_AMT_FUNDING_PRECISION, base_asset_amount)

total_fee_lower_bound(m) ==
    (m.total_fee * SHARE_OF_FEES_ALLOCATED_TO_CLEARING_HOUSE_NUMERATOR)
        \div SHARE_OF_FEES_ALLOCATED_TO_CLEARING_HOUSE_DENOMINATOR

\* What the fee pool may pay in one funding period, as a negative pnl.
funding_rate_pnl_limit(m) ==
    IF m.total_fee_minus_distributions > total_fee_lower_bound(m)
    THEN -(((m.total_fee_minus_distributions - total_fee_lower_bound(m)) * 2) \div 3)
    ELSE 0

\* Positive: the clearing house receives from the net position of the traders.
uncapped_funding_pnl(m, funding_rate) ==
    -calculate_funding_payment_in_quote_precision(funding_rate, m.base_asset_amount)

capped_funding_pnl(m, funding_rate) ==
    Larger(uncapped_funding_pnl(m, funding_rate), funding_rate_pnl_limit(m))

Bug_calculate_capped_funding_rate(m, funding_rate) == funding_rate
calculate_capped_funding_rate(m, funding_rate) ==
    LET payer    == IF funding_rate > 0 THEN m.base_asset_amount_long
                                        ELSE m.base_asset_amount_short
        receiver == IF funding_rate < 0 THEN m.base_asset_amount_long
                                        ELSE m.base_asset_amount_short
        from_users == calculate_funding_payment_in_quote_precision(funding_rate, payer)
    IN  IF uncapped_funding_pnl(m, funding_rate) < funding_rate_pnl_limit(m)
        THEN calculate_funding_rate_from_pnl_limit(
                funding_rate_pnl_limit(m) - unsigned_abs(from_users), receiver)
        ELSE funding_rate

\* The fee pool pays no more than it holds and keeps its share of the fees.
calculate_funding_rate_long_short_ok(m, funding_rate) ==
    LET paid == unsigned_abs(capped_funding_pnl(m, funding_rate))
    IN  uncapped_funding_pnl(m, funding_rate) < 0 =>
          /\ paid <= m.total_fee_minus_distributions
          /\ paid # 0 => m.total_fee_minus_distributions - paid >= total_fee_lower_bound(m)

\* The pool after funding: it receives the net payment, or pays the capped one.
funded_fee_pool(m, funding_rate) ==
    LET pnl == uncapped_funding_pnl(m, funding_rate)
    IN  IF pnl >= 0 THEN m.total_fee_minus_distributions + pnl
        ELSE m.total_fee_minus_distributions
                - unsigned_abs(capped_funding_pnl(m, funding_rate))

funding_rate_long(m, funding_rate) ==
    IF uncapped_funding_pnl(m, funding_rate) < 0 /\ funding_rate < 0
    THEN calculate_capped_funding_rate(m, funding_rate) ELSE funding_rate

funding_rate_short(m, funding_rate) ==
    IF uncapped_funding_pnl(m, funding_rate) < 0 /\ funding_rate > 0
    THEN calculate_capped_funding_rate(m, funding_rate) ELSE funding_rate

(***************************************************************************)
(* update_funding_rate                                                     *)
(***************************************************************************)
\* The next update is due on a multiple of the period: late in a period the
\* wait is until the end of the following one.
Bug_next_update_wait(m) == m.last_funding_rate_ts % m.funding_period
next_update_wait(m) ==
    LET period == m.funding_period
        delay  == m.last_funding_rate_ts % period
    IN  IF period <= 1 \/ delay = 0 THEN period
        ELSE IF delay > period \div 3 THEN 2 * period - delay
        ELSE period - delay

funding_due(m, o, now, g, funding_paused) ==
    /\ ~funding_paused
    /\ ~block_operation(m, o, g)
    /\ now - m.last_funding_rate_ts >= next_update_wait(m)

\* Both twaps are brought up to date before the rate is computed.
refreshed_twaps(m, o, now) ==
    update_mark_twap(update_oracle_price_twap(m, now, oracle_processed(m, o)), now)

\* A day's funding is spread over the periods of a day; the spread of the
\* twaps is clamped to 3% of the oracle's.
period_funding_rate(m) ==
    LET period_adjustment == (24 * ONE_HOUR) \div Larger(ONE_HOUR, m.funding_period)
        max_price_spread  == Quot(m.last_oracle_price_twap, 33)
        price_spread      == m.last_mark_price_twap - m.last_oracle_price_twap
    IN  Quot(Larger(-max_price_spread, Smaller(price_spread, max_price_spread))
                * FUNDING_PAYMENT_PRECISION, period_adjustment)

apply_funding_rate(m, now) ==
    LET rate == period_funding_rate(m)
    IN  [m EXCEPT !.total_fee_minus_distributions = funded_fee_pool(m, rate),
                  !.cumulative_funding_rate_long = @ + funding_rate_long(m, rate),
                  !.cumulative_funding_rate_short = @ + funding_rate_short(m, rate),
                  !.last_funding_rate = rate,
                  !.last_funding_rate_ts = now]

update_funding_rate_ok(m, o, now, g, funding_paused) ==
    /\ block_operation_ok(m, o)
    /\ funding_due(m, o, now, g, funding_paused) =>
         LET t == refreshed_twaps(m, o, now)
         IN  /\ 24 * ONE_HOUR >= m.funding_period
             /\ calculate_funding_rate_long_short_ok(t, period_funding_rate(t))

update_funding_rate(m, o, now, g, funding_paused) ==
    IF funding_due(m, o, now, g, funding_paused)
    THEN apply_funding_rate(refreshed_twaps(m, o, now), now) ELSE m
=============================================================================
