------------------------------ MODULE OracleMath ------------------------------
(***************************************************************************)
(* How the program reads a price oracle (math/amm.rs, math/oracle.rs).     *)
(*                                                                         *)
(* A reading o of the oracle account is what AMM::get_oracle_price         *)
(* returns: the price, its twap, their confidence intervals conf and twac, *)
(* and the delay in slots since the price was published, all in mark price *)
(* precision.  Guard rails g are State.oracle_guard_rails in one record.   *)
(***************************************************************************)
EXTENDS AmmMath

\* get_oracle_price: a Switchboard market has no reader, it reads as zeros.
get_oracle_price(m, o) ==
    IF m.oracle_source = "Pyth" THEN o
    ELSE [price |-> 0, twap |-> 0, conf |-> 0, twac |-> 0, delay |-> 0]

\* calculate_oracle_mark_spread normalises the oracle price towards the mark
\* price, at most to one basis point from it and at most by the confidence
\* interval.  (Its window argument is 0 in every call.)
oracle_processed(m, o) ==
    LET mark == mark_price(m)
        bp   == mark \div 10000
    IN  IF mark > o.price
        THEN Smaller(Larger(mark - bp, o.price), o.price + o.conf)
        ELSE Larger(Smaller(mark + bp, o.price), o.price - o.conf)

\* It asserts that the normalised price is positive.
calculate_oracle_mark_spread_ok(m, o) ==
    mark_price_ok(m) /\ oracle_processed(m, o) > 0

calculate_oracle_mark_spread_pct(m, o) ==
    Quot((mark_price(m) - o.price) * 1024, oracle_processed(m, o))

is_oracle_mark_too_divergent(price_spread_pct, g) ==
    unsigned_abs(price_spread_pct) >
        (g.mark_oracle_divergence_numerator * 1024) \div g.mark_oracle_divergence_denominator

\* The casts to u128 fail on a negative price: the caller gets an error, not FALSE.
is_oracle_valid_ok(o) == o.price >= 0 /\ o.twap >= 0

is_oracle_valid(o, g) ==
    LET is_oracle_price_nonpositive == o.twap <= 0 \/ o.price <= 0
        is_oracle_price_too_volatile ==
            \/ o.price \div Larger(1, o.twap) > g.too_volatile_ratio
            \/ o.twap \div Larger(1, o.price) > g.too_volatile_ratio
        is_conf_too_large ==
            \/ o.price \div Larger(1, o.conf) < g.confidence_interval_max_size
            \/ o.twap \div Larger(1, o.twac) < g.confidence_interval_max_size
        is_stale == o.delay > g.slots_before_stale
    IN  ~(\/ is_stale
          \/ is_conf_too_large
          \/ is_oracle_price_nonpositive
          \/ is_oracle_price_too_volatile)

block_operation_ok(m, o) ==
    is_oracle_valid_ok(o) /\ calculate_oracle_mark_spread_ok(m, o)

block_operation(m, o, g) ==
    \/ ~is_oracle_valid(o, g)
    \/ is_oracle_mark_too_divergent(calculate_oracle_mark_spread_pct(m, o), g)

(***************************************************************************)
(* The twap of the oracle price that the market keeps                      *)
(***************************************************************************)
\* The last price is nudged by at most 0.1% towards the new one.
interpolated_oracle_price(m, oracle_price) ==
    LET last == IF m.last_oracle_price > 0 THEN m.last_oracle_price ELSE oracle_price
        bp10 == last \div 1000
    IN  Smaller(last + bp10, Larger(last - bp10, oracle_price))

calculate_new_oracle_price_twap(m, now, oracle_price) ==
    LET ts == m.last_oracle_price_twap_ts
    IN  calculate_twap(interpolated_oracle_price(m, oracle_price),
                       m.last_oracle_price_twap,
                       since_last(now, ts), from_start(m.funding_period, now, ts))

\* A new price counts for at most a third of it away from the twap.
capped_oracle_update_price(m, oracle_price) ==
    LET twap  == m.last_oracle_price_twap
        third == Quot(oracle_price, 3)
    IN  IF unsigned_abs(oracle_price - twap) <= unsigned_abs(third) THEN oracle_price
        ELSE IF oracle_price > twap THEN twap + third ELSE twap - third

update_oracle_price_twap(m, now, oracle_price) ==
    LET capped == capped_oracle_update_price(m, oracle_price)
    IN  IF capped > 0 /\ oracle_price > 0
        THEN [m EXCEPT !.last_oracle_price = capped,
                       !.last_oracle_price_twap =
                            calculate_new_oracle_price_twap(m, now, capped),
                       !.last_oracle_price_twap_ts = now]
        ELSE m
=============================================================================
