------------------------------- MODULE AmmMath -------------------------------
(***************************************************************************)
(* The virtual AMM of a market: prices, swaps along the curve, time        *)
(* weighted average prices, the value of a position, and the cost of       *)
(* moving the curve (math/amm.rs, math/position.rs, math/pnl.rs,           *)
(* math/quote_asset.rs, math/repeg.rs, controller/amm.rs).                 *)
(*                                                                         *)
(* A market m is the Market struct and the AMM struct inside it in one     *)
(* record.  An operator X that the code lets fail has a companion X_ok:    *)
(* X_ok is FALSE exactly where the code returns an error or panics, and    *)
(* the value of X means nothing there.                                     *)
(***************************************************************************)
EXTENDS Precision

calculate_price(quote_asset_reserve, base_asset_reserve, peg_multiplier) ==
    (quote_asset_reserve * peg_multiplier * PRICE_TO_PEG_PRECISION_RATIO)
        \div base_asset_reserve

mark_price_ok(m) == m.base_asset_reserve > 0
mark_price(m) ==
    calculate_price(m.quote_asset_reserve, m.base_asset_reserve, m.peg_multiplier)

reserve_to_asset_amount(quote_asset_reserve, peg_multiplier) ==
    (quote_asset_reserve * peg_multiplier) \div AMM_TIMES_PEG_TO_QUOTE_PRECISION_RATIO

\* Divides by the peg with an unchecked `div`: a zero peg panics.
asset_to_reserve_amount(quote_asset_amount, peg_multiplier) ==
    (quote_asset_amount * AMM_TIMES_PEG_TO_QUOTE_PRECISION_RATIO) \div peg_multiplier

(***************************************************************************)
(* Swaps                                                                   *)
(***************************************************************************)
new_input_amount(swap_amount, input_asset_amount, direction) ==
    IF direction = "Add" THEN input_asset_amount + swap_amount
                         ELSE input_asset_amount - swap_amount

\* The subtraction does not underflow and the division is not by zero.
calculate_swap_output_ok(swap_amount, input_asset_amount, direction) ==
    new_input_amount(swap_amount, input_asset_amount, direction) > 0

calculate_swap_output(swap_amount, input_asset_amount, direction, sqrt_k) ==
    (sqrt_k * sqrt_k) \div new_input_amount(swap_amount, input_asset_amount, direction)

quote_asset_reserve_change(before, after, direction) ==
    IF direction = "Add" THEN before - after ELSE after - before

calculate_quote_asset_amount_swapped(before, after, direction, peg_multiplier) ==
    reserve_to_asset_amount(quote_asset_reserve_change(before, after, direction),
                            peg_multiplier)

\* The weights of the new and the old value in a time weighted average.
since_last(now, ts) == Larger(1, now - ts)
from_start(funding_period, now, ts) == Larger(1, funding_period - since_last(now, ts))

calculate_twap(new_data, old_data, new_weight, old_weight) ==
    Quot(old_data * old_weight + new_data * new_weight, new_weight + old_weight)

update_mark_twap(m, now) ==
    LET ts == m.last_mark_price_twap_ts
    IN  [m EXCEPT !.last_mark_price_twap =
                      calculate_twap(mark_price(m), m.last_mark_price_twap,
                                     since_last(now, ts),
                                     from_start(m.funding_period, now, ts)),
                  !.last_mark_price_twap_ts = now]

swap_quote_asset_ok(m, quote_asset_amount, direction) ==
    LET amount == asset_to_reserve_amount(quote_asset_amount, m.peg_multiplier)
    IN  /\ mark_price_ok(m)
        /\ m.peg_multiplier > 0
        /\ amount >= m.minimum_trade_size
        /\ calculate_swap_output_ok(amount, m.quote_asset_reserve, direction)

Bug_swap_quote_asset(m, quote_asset_amount, direction, now) ==
    LET amount == asset_to_reserve_amount(quote_asset_amount, m.peg_multiplier)
        after  == new_input_amount(amount, m.quote_asset_reserve, direction)
    IN  [update_mark_twap(m, now) EXCEPT
            !.base_asset_reserve = (m.base_asset_reserve * m.quote_asset_reserve) \div after,
            !.quote_asset_reserve = after]
swap_quote_asset(m, quote_asset_amount, direction, now) ==
    LET amount == asset_to_reserve_amount(quote_asset_amount, m.peg_multiplier)
    IN  [update_mark_twap(m, now) EXCEPT
            !.base_asset_reserve =
                calculate_swap_output(amount, m.quote_asset_reserve, direction, m.sqrt_k),
            !.quote_asset_reserve =
                new_input_amount(amount, m.quote_asset_reserve, direction)]

\* swap_base_asset values what it swapped, so the reserve must move the right way.
swap_base_asset_ok(m, base_asset_swap_amount, direction) ==
    /\ mark_price_ok(m)
    /\ calculate_swap_output_ok(base_asset_swap_amount, m.base_asset_reserve, direction)
    /\ quote_asset_reserve_change(
            m.quote_asset_reserve,
            calculate_swap_output(base_asset_swap_amount, m.base_asset_reserve,
                                  direction, m.sqrt_k),
            direction) >= 0

Bug_swap_base_asset(m, base_asset_swap_amount, direction, now) ==
    [update_mark_twap(m, now) EXCEPT
        !.quote_asset_reserve =
            calculate_swap_output(base_asset_swap_amount, m.base_asset_reserve,
                                  direction, m.sqrt_k)]
swap_base_asset(m, base_asset_swap_amount, direction, now) ==
    [update_mark_twap(m, now) EXCEPT
        !.base_asset_reserve =
            new_input_amount(base_asset_swap_amount, m.base_asset_reserve, direction),
        !.quote_asset_reserve =
            calculate_swap_output(base_asset_swap_amount, m.base_asset_reserve,
                                  direction, m.sqrt_k)]

(***************************************************************************)
(* The value of a position: what closing it now would pay                  *)
(***************************************************************************)
swap_direction_to_close_position(base_asset_amount) ==
    IF base_asset_amount >= 0 THEN "Add" ELSE "Remove"

Bug_direction_to_close_position(base_asset_amount) ==
    IF base_asset_amount > 0 THEN "Long" ELSE "Short"
direction_to_close_position(base_asset_amount) ==
    IF base_asset_amount > 0 THEN "Short" ELSE "Long"

\* A short loses one unit to the rounding of the value it is bought back for.
calculate_pnl(exit_value, entry_value, direction) ==
    IF direction = "Add" THEN exit_value - entry_value
                         ELSE entry_value - exit_value - 1

base_asset_value_ok(base_asset_amount, m) ==
    LET direction == swap_direction_to_close_position(base_asset_amount)
        amount == unsigned_abs(base_asset_amount)
    IN  base_asset_amount # 0 =>
          /\ calculate_swap_output_ok(amount, m.base_asset_reserve, direction)
          /\ quote_asset_reserve_change(
                m.quote_asset_reserve,
                calculate_swap_output(amount, m.base_asset_reserve, direction, m.sqrt_k),
                direction) >= 0

\* The two components of _calculate_base_asset_value_and_pnl.
calculate_base_asset_value(base_asset_amount, m) ==
    LET direction == swap_direction_to_close_position(base_asset_amount)
    IN  IF base_asset_amount = 0 THEN 0
        ELSE calculate_quote_asset_amount_swapped(
                m.quote_asset_reserve,
                calculate_swap_output(unsigned_abs(base_asset_amount),
                                      m.base_asset_reserve, direction, m.sqrt_k),
                direction, m.peg_multiplier)

calculate_position_pnl(base_asset_amount, quote_asset_amount, m) ==
    IF base_asset_amount = 0 THEN 0
    ELSE calculate_pnl(calculate_base_asset_value(base_asset_amount, m),
                       quote_asset_amount,
                       swap_direction_to_close_position(base_asset_amount))

\* Is the trade so close to the position's value that it closes it exactly?
should_round_trade(m, quote_asset_amount, base_asset_value) ==
    asset_to_reserve_amount(unsigned_abs(quote_asset_amount - base_asset_value),
                            m.peg_multiplier) < m.minimum_trade_size

(***************************************************************************)
(* Moving the curve                                                        *)
(***************************************************************************)
\* r is the result of U256::integer_sqrt on n.
is_integer_sqrt(r, n) == r * r <= n /\ n < (r + 1) * (r + 1)

move_price(m, base_asset_reserve, quote_asset_reserve, sqrt_k) ==
    [m EXCEPT !.base_asset_reserve = base_asset_reserve,
              !.quote_asset_reserve = quote_asset_reserve,
              !.sqrt_k = sqrt_k]

sqrt_k_ratio(m, new_sqrt_k) == (new_sqrt_k * MARK_PRICE_PRECISION) \div m.sqrt_k

\* The market after adjust_k_cost; its cost is the profit of the traders' net
\* position, valued at what the position was worth before.
adjust_k(m, new_sqrt_k) ==
    LET scale(reserve) == (reserve * sqrt_k_ratio(m, new_sqrt_k)) \div MARK_PRICE_PRECISION
    IN  [m EXCEPT !.sqrt_k = new_sqrt_k,
                  !.base_asset_reserve = scale(m.base_asset_reserve),
                  !.quote_asset_reserve = scale(m.quote_asset_reserve)]

adjust_k_cost_ok(m, new_sqrt_k) ==
    /\ base_asset_value_ok(m.base_asset_amount, m)
    /\ m.sqrt_k > 0
    /\ sqrt_k_ratio(m, new_sqrt_k) >= (MARK_PRICE_PRECISION * 975) \div 1000
    /\ base_asset_value_ok(m.base_asset_amount, adjust_k(m, new_sqrt_k))

adjust_k_cost(m, new_sqrt_k) ==
    calculate_position_pnl(m.base_asset_amount,
                           calculate_base_asset_value(m.base_asset_amount, m),
                           adjust_k(m, new_sqrt_k))

adjust_peg_cost(m, new_peg) ==
    calculate_position_pnl(m.base_asset_amount,
                           calculate_base_asset_value(m.base_asset_amount, m),
                           [m EXCEPT !.peg_multiplier = new_peg])

\* The price once the net position of all the traders is closed.
terminal_direction(m) == IF m.base_asset_amount > 0 THEN "Add" ELSE "Remove"
calculate_terminal_price_ok(m) ==
    calculate_swap_output_ok(unsigned_abs(m.base_asset_amount), m.base_asset_reserve,
                             terminal_direction(m))
calculate_terminal_price(m) ==
    LET amount == unsigned_abs(m.base_asset_amount)
    IN  calculate_price(
            calculate_swap_output(amount, m.base_asset_reserve, terminal_direction(m), m.sqrt_k),
            new_input_amount(amount, m.base_asset_reserve, terminal_direction(m)),
            m.peg_multiplier)
=============================================================================
