---------------------------- MODULE MCClearingHouse ----------------------------
(***************************************************************************)
(* Small instances of the clearing house for TLC.  With the precisions of  *)
(* the .cfg files one unit of quote asset is two units of reserve at peg   *)
(* 2, a market starts with 1000 units of both reserves at mark price 100,  *)
(* and a trade of 40 moves its price by 17%.                               *)
(***************************************************************************)
EXTENDS DocumentedBehaviour, TLC

\* Two traders, and the numbers of the instance.
MCMarketInit == [reserve |-> 1000, funding_period |-> 24, peg_multiplier |-> 2]

Reading(price) == [price |-> price, twap |-> price, conf |-> 1, twac |-> 1, delay |-> 1]
MCGenesisOracle == Reading(100)

FairPrice == {Reading(100)}

\* A fee in percent, so that small trades pay one.
MCFees(percent) ==
    [initialized_state("admin", TRUE).fee_structure EXCEPT !.fee_numerator = percent,
                                                           !.fee_denominator = 100]

MCState ==
    [initialized_state("admin", TRUE) EXCEPT
        !.history_initialized = TRUE,
        !.fee_structure = MCFees(0),
        !.oracle_guard_rails.mark_oracle_divergence_numerator = 9]

NoChoices ==
    [oracle_sources |-> {}, margin_ratios |-> {}, percentages |-> {},
     share_denominators |-> {}, fee_structures |-> {}, guard_rails |-> {}, admins |-> {},
     mints |-> {}, max_deposits |-> {}, pauses |-> {}, disables_price_control |-> FALSE,
     renews_history |-> FALSE]

\* A market four times as deep, where funding is more than its rounding.
DeepMarketInit == [MCMarketInit EXCEPT !.reserve = 4000]
LowPrice == {Reading(90)}
FundingState == [MCState EXCEPT !.fee_structure = MCFees(4)]

\* An admin who changes the liquidators' shares.
OtherShares == [NoChoices EXCEPT !.share_denominators = {20}]

\* The curve run has a finer peg: one step of it is 5% of the price.
FinePegMarketInit == [MCMarketInit EXCEPT !.peg_multiplier = 20]
StalePrice == [Reading(100) EXCEPT !.delay = 2000]

\* Fees with discounts and rewards that a trade of 60 makes visible.
CurveFees ==
    [MCFees(20) EXCEPT !.referrer_reward_numerator = 1, !.referrer_reward_denominator = 4,
                       !.referee_discount_numerator = 1, !.referee_discount_denominator = 6]
FeePoolState == [MCState EXCEPT !.fee_structure = MCFees(10)]
CurveState == [MCState EXCEPT !.fee_structure = CurveFees, !.discount_mint = TRUE]

\* An admin who makes rewards and discounts too small to be seen.
PlainFees == [NoChoices EXCEPT !.fee_structures = {MCFees(20)}]
PricesForRepeg == {Reading(110), StalePrice}

\* Exchanging the users changes nothing where they are model values.
UserSymmetry == Permutations(Users)

SomeTokens == {NoToken, 1000}

MovedReserves == {[base |-> 950, quote |-> 1000]}

\* Before initialize.
UninitializedState == [MCState EXCEPT !.initialized = FALSE, !.history_initialized = FALSE]
LifecycleInits == {MCMarketInit}
NarrowGuardRails ==
    [MCState.oracle_guard_rails EXCEPT !.mark_oracle_divergence_numerator = 5]
LifecycleChoices ==
    [NoChoices EXCEPT !.admins = Admins, !.mints = {TRUE}, !.max_deposits = {15},
                      !.pauses = BOOLEAN, !.oracle_sources = {"Switchboard"},
                      !.guard_rails = {NarrowGuardRails},
                      !.disables_price_control = TRUE]

\* Parameters an admin may change while positions are open.
LiquidationChoices ==
    [NoChoices EXCEPT !.percentages = {[numerator |-> 1, denominator |-> 2]},
                      !.margin_ratios = {[initial |-> 3000, partial |-> 1900,
                                          maintenance |-> 500]}]

NoTokens == {NoToken}
=============================================================================
