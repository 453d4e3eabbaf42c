-------------------------- MODULE PositionController --------------------------
(***************************************************************************)
(* What a trade does to one market and one position                        *)
(* (controller/position.rs), and the margin of a user's positions          *)
(* (math/margin.rs).                                                       *)
(*                                                                         *)
(* The operators map a trade state t to the next one, t being a record of  *)
(* the market, the position in it and the collateral of the user (m, p and *)
(* c).  As in AmmMath, X_ok says that X does not return an error.          *)
(***************************************************************************)
EXTENDS FundingMath, FeeMath

Slots == 1..5

is_open_position(p) == p.base_asset_amount # 0
is_for(p, market_index) == p.market_index = market_index /\ is_open_position(p)

new_market_position(market_index) ==
    [market_index |-> market_index, base_asset_amount |-> 0, quote_asset_amount |-> 0,
     last_cumulative_funding_rate |-> 0, last_funding_rate_ts |-> 0]

cumulative_funding_rate(m, is_long) ==
    IF is_long THEN m.cumulative_funding_rate_long ELSE m.cumulative_funding_rate_short

\* Add base to the market's net position and to the side the position is on
\* after the trade; a position that ends flat counts as a short one.
Bug_book(m, base, base_after) ==
    [m EXCEPT !.base_asset_amount = @ + base,
              !.base_asset_amount_long = IF base > 0 THEN @ + base ELSE @,
              !.base_asset_amount_short = IF base > 0 THEN @ ELSE @ + base]
Bug2_book(m, base, base_after) ==
    [m EXCEPT !.base_asset_amount = IF base_after > 0 THEN @ + base ELSE @ - base,
              !.base_asset_amount_long = IF base_after > 0 THEN @ + base ELSE @,
              !.base_asset_amount_short = IF base_after > 0 THEN @ ELSE @ + base]
book(m, base, base_after) ==
    [m EXCEPT !.base_asset_amount = @ + base,
              !.base_asset_amount_long = IF base_after > 0 THEN @ + base ELSE @,
              !.base_asset_amount_short = IF base_after > 0 THEN @ ELSE @ + base]

swap_direction(direction) == IF direction = "Long" THEN "Add" ELSE "Remove"

(***************************************************************************)
(* increase                                                                *)
(***************************************************************************)
increase_ok(t, direction, quote) ==
    quote # 0 => swap_quote_asset_ok(t.m, quote, swap_direction(direction))

Bug_count_interest(m, is_new) == m
count_interest(m, is_new) == [m EXCEPT !.open_interest = IF is_new THEN @ + 1 ELSE @]

increase(t, direction, quote, now) ==
    LET swapped == swap_quote_asset(t.m, quote, swap_direction(direction), now)
        base    == t.m.base_asset_reserve - swapped.base_asset_reserve
        after   == t.p.base_asset_amount + base
        is_new  == t.p.base_asset_amount = 0
    IN  IF quote = 0 THEN t
        ELSE [m |-> count_interest(book(swapped, base, after), is_new),
              p |-> [t.p EXCEPT
                        !.base_asset_amount = after,
                        !.quote_asset_amount = @ + quote,
                        !.last_cumulative_funding_rate =
                            IF is_new
                            THEN cumulative_funding_rate(t.m, direction = "Long") ELSE @],
              c |-> t.c]

(***************************************************************************)
(* reduce: the part of the entry value that is closed is realised          *)
(***************************************************************************)
reduced_base(t, direction, quote) ==
    t.m.base_asset_reserve
        - calculate_swap_output(asset_to_reserve_amount(quote, t.m.peg_multiplier),
                                t.m.quote_asset_reserve, swap_direction(direction), t.m.sqrt_k)

initial_quote_asset_amount_closed(t, base) ==
    (t.p.quote_asset_amount * unsigned_abs(base)) \div unsigned_abs(t.p.base_asset_amount)

reduce_ok(t, direction, quote) ==
    /\ swap_quote_asset_ok(t.m, quote, swap_direction(direction))
    /\ LET base == reduced_base(t, direction, quote)
       IN  /\ t.p.base_asset_amount + base = 0 => t.m.open_interest > 0
           /\ t.p.base_asset_amount # 0
           /\ initial_quote_asset_amount_closed(t, base) <= t.p.quote_asset_amount

reduce(t, direction, quote, now) ==
    LET swapped == swap_quote_asset(t.m, quote, swap_direction(direction), now)
        base    == reduced_base(t, direction, quote)
        after   == t.p.base_asset_amount + base
        closed  == initial_quote_asset_amount_closed(t, base)
        pnl     == IF after > 0 THEN quote - closed ELSE closed - quote
    IN  [m |-> [book(swapped, base, after) EXCEPT
                    !.open_interest = IF after = 0 THEN @ - 1 ELSE @],
         p |-> [t.p EXCEPT !.base_asset_amount = after, !.quote_asset_amount = @ - closed],
         c |-> calculate_updated_collateral(t.c, pnl)]

(***************************************************************************)
(* close                                                                   *)
(***************************************************************************)
\* The direction is Add for a long; close returns early on a flat position.
close_ok(t) ==
    is_open_position(t.p) =>
        /\ swap_base_asset_ok(t.m, unsigned_abs(t.p.base_asset_amount),
                              swap_direction_to_close_position(t.p.base_asset_amount))
        /\ t.m.open_interest > 0

close_value(t) == calculate_base_asset_value(t.p.base_asset_amount, t.m)

close(t, now) ==
    LET direction == swap_direction_to_close_position(t.p.base_asset_amount)
        swapped   == swap_base_asset(t.m, unsigned_abs(t.p.base_asset_amount), direction, now)
        pnl       == calculate_pnl(close_value(t), t.p.quote_asset_amount, direction)
    IN  IF ~is_open_position(t.p) THEN t
        ELSE [m |-> [book(swapped, -t.p.base_asset_amount, t.p.base_asset_amount)
                        EXCEPT !.open_interest = @ - 1],
              p |-> new_market_position(t.p.market_index),
              c |-> calculate_updated_collateral(t.c, pnl)]

(***************************************************************************)
(* settle_funding_payment, over the five slots of a user                   *)
(***************************************************************************)
owes_funding(p, market) ==
    /\ is_open_position(p)
    /\ p.last_cumulative_funding_rate #
          cumulative_funding_rate(market[p.market_index], p.base_asset_amount > 0)

Bug_calculate_funding_payment(p, market) ==
    IF owes_funding(p, market)
    THEN funding_payment(
            p.last_cumulative_funding_rate
                - cumulative_funding_rate(market[p.market_index], p.base_asset_amount > 0),
            p.base_asset_amount)
    ELSE 0
calculate_funding_payment(p, market) ==
    IF owes_funding(p, market)
    THEN funding_payment(
            cumulative_funding_rate(market[p.market_index], p.base_asset_amount > 0)
                - p.last_cumulative_funding_rate,
            p.base_asset_amount)
    ELSE 0

Bug_settled_position(p, market) ==
    IF owes_funding(p, market)
    THEN [p EXCEPT !.last_funding_rate_ts = market[p.market_index].last_funding_rate_ts]
    ELSE p
settled_position(p, market) ==
    IF owes_funding(p, market)
    THEN [p EXCEPT !.last_cumulative_funding_rate =
                        cumulative_funding_rate(market[p.market_index], p.base_asset_amount > 0),
                   !.last_funding_rate_ts = market[p.market_index].last_funding_rate_ts]
    ELSE p

SumOverSlots(f) == f[1] + f[2] + f[3] + f[4] + f[5]

settled_positions(ps, market) == [s \in Slots |-> settled_position(ps[s], market)]

settled_collateral(collateral, ps, market) ==
    LET payment == [s \in Slots |-> calculate_funding_payment(ps[s], market)]
    IN  calculate_updated_collateral(
            collateral, Quot(SumOverSlots(payment), AMM_TO_QUOTE_PRECISION_RATIO))

\* One funding payment record for each position that owed or was owed.
funding_payment_records(ps, market) ==
    SumOverSlots([s \in Slots |-> IF owes_funding(ps[s], market) THEN 1 ELSE 0])

(***************************************************************************)
(* calculate_margin_ratio                                                  *)
(***************************************************************************)
margin_ok(ps, market) ==
    \A s \in Slots : is_open_position(ps[s]) =>
        base_asset_value_ok(ps[s].base_asset_amount, market[ps[s].market_index])

total_base_asset_value(ps, market) ==
    SumOverSlots([s \in Slots |->
        IF is_open_position(ps[s])
        THEN calculate_base_asset_value(ps[s].base_asset_amount, market[ps[s].market_index])
        ELSE 0])

unrealized_pnl(ps, market) ==
    SumOverSlots([s \in Slots |->
        IF is_open_position(ps[s])
        THEN calculate_position_pnl(ps[s].base_asset_amount, ps[s].quote_asset_amount,
                                    market[ps[s].market_index])
        ELSE 0])

total_collateral(collateral, ps, market) ==
    calculate_updated_collateral(collateral, unrealized_pnl(ps, market))

calculate_margin_ratio(collateral, ps, market) ==
    (total_collateral(collateral, ps, market) * MARGIN_PRECISION)
        \div total_base_asset_value(ps, market)

\* margin_ratio < bound; without base asset value the ratio is u128::MAX.
margin_ratio_below(collateral, ps, market, bound) ==
    /\ total_base_asset_value(ps, market) # 0
    /\ calculate_margin_ratio(collateral, ps, market) < bound
=============================================================================
