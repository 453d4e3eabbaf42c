----------------------------- MODULE ClearingHouse -----------------------------
(***************************************************************************)
(* The clearing house program: one action per instruction handler of       *)
(* lib.rs.  A Solana transaction is atomic and transactions on the same    *)
(* accounts are serialised, so a handler is one step; whatever makes a     *)
(* handler return an error or panic aborts the transaction, so it is a     *)
(* guard of the action.  Every order of the transactions of the users,     *)
(* the liquidators, the keepers and the admin is a behaviour, and every    *)
(* transaction that reads an oracle may find any of the OracleReadings in  *)
(* its account.                                                            *)
(***************************************************************************)
EXTENDS PositionController, FiniteSets

CONSTANTS
    Users,                  \* authorities: one user account each
    Markets,                \* market indices
    Admins,
    \* what a transaction may carry
    DepositAmounts, WithdrawAmounts, QuoteAmounts, LimitPrices, DiscountTokens,
    MarketInits, OracleReadings, PegCandidates, SqrtKs, ReservePairs,
    FeeWithdrawals, InsuranceWithdrawals, TradeSizes, AdminChoices,
    DeletingUsers,          \* the users that may close their account
    Referrers,              \* sets of at most one user
    TwapMarkets,            \* the markets whose oracle twap the admin may set
    \* the state the run starts in
    GenesisState, GenesisUsers, GenesisMarkets, GenesisMarketInit, GenesisOracle,
    GenesisDeposit, GenesisVault,
    DEFAULT_MINIMUM_TRADE_SIZE, DISCOUNT_TOKEN_UNIT,
    \* bounds on the clock and on the lengths of the histories
    TimeSteps, MaxNow, MaxDeposits, MaxTrades, MaxLiquidations, MaxCurveChanges

VARIABLES
    state,      \* the State account
    market,     \* the Markets account: a market for each index
    user,       \* the User accounts
    positions,  \* the UserPositions accounts: five slots each
    vault,      \* the balances of the collateral vault and the insurance vault
    history,    \* how many records each history account received in the run
    now         \* the clock

vars == <<state, market, user, positions, vault, history, now>>

Directions == {"Long", "Short"}

ASSUME MarketsAssumption == 0 \in Markets /\ Markets \subseteq 0..63
ASSUME UsersAssumption == IsFiniteSet(Users)

(***************************************************************************)
(* The accounts                                                            *)
(***************************************************************************)
TierType == [minimum_balance: Nat, discount_numerator: Nat, discount_denominator: Nat]

FeeStructureType ==
    [fee_numerator: Nat, fee_denominator: Nat, discount_token_tiers: [1..4 -> TierType],
     referrer_reward_numerator: Nat, referrer_reward_denominator: Nat,
     referee_discount_numerator: Nat, referee_discount_denominator: Nat]

\* use_for_liquidations is stored by the program and never read.
GuardRailsType ==
    [mark_oracle_divergence_numerator: Nat, mark_oracle_divergence_denominator: Nat \ {0},
     slots_before_stale: Int, confidence_interval_max_size: Nat, too_volatile_ratio: Int,
     use_for_liquidations: BOOLEAN]

StateType ==
    [initialized: BOOLEAN, history_initialized: BOOLEAN, admin: Admins,
     exchange_paused: BOOLEAN, funding_paused: BOOLEAN, admin_controls_prices: BOOLEAN,
     margin_ratio_initial: Nat, margin_ratio_partial: Nat, margin_ratio_maintenance: Nat,
     partial_liquidation_close_percentage_numerator: Nat,
     partial_liquidation_close_percentage_denominator: Nat,
     partial_liquidation_penalty_percentage_numerator: Nat,
     partial_liquidation_penalty_percentage_denominator: Nat,
     full_liquidation_penalty_percentage_numerator: Nat,
     full_liquidation_penalty_percentage_denominator: Nat,
     partial_liquidation_liquidator_share_denominator: Nat,
     full_liquidation_liquidator_share_denominator: Nat,
     fee_structure: FeeStructureType, oracle_guard_rails: GuardRailsType,
     whitelist_mint: BOOLEAN, discount_mint: BOOLEAN, max_deposit: Nat]

MarketType ==
    [initialized: BOOLEAN, oracle_source: {"Pyth", "Switchboard"},
     base_asset_amount_long: Int, base_asset_amount_short: Int, base_asset_amount: Int,
     open_interest: Nat, base_asset_reserve: Nat, quote_asset_reserve: Nat, sqrt_k: Nat,
     peg_multiplier: Nat, minimum_trade_size: Nat, funding_period: Nat,
     cumulative_funding_rate_long: Int, cumulative_funding_rate_short: Int,
     last_funding_rate: Int, last_funding_rate_ts: Nat,
     last_mark_price_twap: Nat, last_mark_price_twap_ts: Nat, last_oracle_price: Int,
     last_oracle_price_twap: Int, last_oracle_price_twap_ts: Nat,
     total_fee: Nat, total_fee_minus_distributions: Nat, total_fee_withdrawn: Nat]

UserType ==
    [initialized: BOOLEAN, collateral: Nat, cumulative_deposits: Int, total_fee_paid: Nat,
     total_token_discount: Nat, total_referral_reward: Nat, total_referee_discount: Nat]

PositionType ==
    [market_index: Markets, base_asset_amount: Int, quote_asset_amount: Nat,
     last_cumulative_funding_rate: Int, last_funding_rate_ts: Nat]

OracleType == [price: Int, twap: Int, conf: Nat, twac: Nat, delay: Int]

\* A market and a user account that were never initialised, or were closed.
BlankMarket ==
    [initialized |-> FALSE, oracle_source |-> "Pyth",
     base_asset_amount_long |-> 0, base_asset_amount_short |-> 0, base_asset_amount |-> 0,
     open_interest |-> 0, base_asset_reserve |-> 0, quote_asset_reserve |-> 0, sqrt_k |-> 0,
     peg_multiplier |-> 0, minimum_trade_size |-> 0, funding_period |-> 0,
     cumulative_funding_rate_long |-> 0, cumulative_funding_rate_short |-> 0,
     last_funding_rate |-> 0, last_funding_rate_ts |-> 0,
     last_mark_price_twap |-> 0, last_mark_price_twap_ts |-> 0, last_oracle_price |-> 0,
     last_oracle_price_twap |-> 0, last_oracle_price_twap_ts |-> 0,
     total_fee |-> 0, total_fee_minus_distributions |-> 0, total_fee_withdrawn |-> 0]

BlankUser ==
    [initialized |-> FALSE, collateral |-> 0, cumulative_deposits |-> 0, total_fee_paid |-> 0,
     total_token_discount |-> 0, total_referral_reward |-> 0, total_referee_discount |-> 0]

\* A new UserPositions account is zeroed: every slot names market 0.
BlankPositions == [s \in Slots |-> new_market_position(0)]

\* The State account as initialize leaves it (constants.rs holds the fees).
initialized_state(admin, admin_controls_prices) ==
    LET tier(balance, numerator) ==
            [minimum_balance |-> balance, discount_numerator |-> numerator,
             discount_denominator |-> 100]
    IN  [initialized |-> TRUE, history_initialized |-> FALSE, admin |-> admin,
         exchange_paused |-> FALSE, funding_paused |-> FALSE,
         admin_controls_prices |-> admin_controls_prices,
         margin_ratio_initial |-> 2000, margin_ratio_partial |-> 625,
         margin_ratio_maintenance |-> 500,
         partial_liquidation_close_percentage_numerator |-> 25,
         partial_liquidation_close_percentage_denominator |-> 100,
         partial_liquidation_penalty_percentage_numerator |-> 25,
         partial_liquidation_penalty_percentage_denominator |-> 1000,
         full_liquidation_penalty_percentage_numerator |-> 1,
         full_liquidation_penalty_percentage_denominator |-> 1,
         partial_liquidation_liquidator_share_denominator |-> 2,
         full_liquidation_liquidator_share_denominator |-> 20,
         fee_structure |->
            [fee_numerator |-> 10, fee_denominator |-> 10000,
             discount_token_tiers |->
                <<tier(1000 * DISCOUNT_TOKEN_UNIT, 20), tier(100 * DISCOUNT_TOKEN_UNIT, 15),
                  tier(10 * DISCOUNT_TOKEN_UNIT, 10), tier(DISCOUNT_TOKEN_UNIT, 5)>>,
             referrer_reward_numerator |-> 5, referrer_reward_denominator |-> 100,
             referee_discount_numerator |-> 5, referee_discount_denominator |-> 100],
         oracle_guard_rails |->
            [mark_oracle_divergence_numerator |-> 1, mark_oracle_divergence_denominator |-> 10,
             slots_before_stale |-> 1000, confidence_interval_max_size |-> 4,
             too_volatile_ratio |-> 5, use_for_liquidations |-> TRUE],
         whitelist_mint |-> FALSE, discount_mint |-> FALSE, max_deposit |-> 0]

\* The market that initialize_market writes: x is the reserve of both assets
\* (they must be equal), the funding period and the peg; o is read from the oracle.
initialized_market(x, o, ts) ==
    [BlankMarket EXCEPT
        !.initialized = TRUE,
        !.base_asset_reserve = x.reserve, !.quote_asset_reserve = x.reserve,
        !.sqrt_k = x.reserve, !.peg_multiplier = x.peg_multiplier,
        !.minimum_trade_size = DEFAULT_MINIMUM_TRADE_SIZE,
        !.funding_period = x.funding_period, !.last_funding_rate_ts = ts,
        !.last_mark_price_twap = calculate_price(x.reserve, x.reserve, x.peg_multiplier),
        !.last_mark_price_twap_ts = ts, !.last_oracle_price = o.price,
        !.last_oracle_price_twap = o.twap, !.last_oracle_price_twap_ts = ts]

(***************************************************************************)
(* What the transactions may carry and the state a run starts in.          *)
(***************************************************************************)
MarketInitType == [reserve: Nat, funding_period: Nat, peg_multiplier: Nat]

AdminChoicesType ==
    [oracle_sources: SUBSET {"Pyth", "Switchboard"},
     margin_ratios: SUBSET [initial: Nat, partial: Nat, maintenance: Nat],
     percentages: SUBSET [numerator: Nat, denominator: Nat],
     share_denominators: SUBSET Nat, fee_structures: SUBSET FeeStructureType,
     guard_rails: SUBSET GuardRailsType, admins: SUBSET Admins, mints: SUBSET BOOLEAN,
     max_deposits: SUBSET Nat, pauses: SUBSET BOOLEAN, disables_price_control: BOOLEAN,
     renews_history: BOOLEAN]

ASSUME InputsAssumption ==
    /\ DepositAmounts \subseteq Nat /\ WithdrawAmounts \subseteq Nat
    /\ QuoteAmounts \subseteq Nat /\ LimitPrices \subseteq Nat
    /\ PegCandidates \subseteq Nat /\ SqrtKs \subseteq Nat
    /\ FeeWithdrawals \subseteq Nat /\ InsuranceWithdrawals \subseteq Nat
    /\ TradeSizes \subseteq Nat /\ TimeSteps \subseteq Nat
    /\ DiscountTokens \subseteq Nat \cup {NoToken}
    /\ ReservePairs \subseteq [base: Nat, quote: Nat]
    /\ MarketInits \subseteq MarketInitType
    /\ OracleReadings \subseteq OracleType
    /\ AdminChoices \in AdminChoicesType
    /\ \A r \in Referrers : Cardinality(r) <= 1

ASSUME GenesisAssumption ==
    /\ GenesisState \in StateType
    /\ GenesisState.history_initialized => GenesisState.initialized
    /\ GenesisUsers \subseteq Users /\ GenesisMarkets \subseteq Markets
    /\ GenesisUsers # {} => GenesisState.history_initialized
    /\ GenesisMarkets # {} => GenesisState.initialized
    /\ GenesisMarketInit \in MarketInitType /\ GenesisMarketInit.reserve > 0
    /\ GenesisOracle \in OracleType
    /\ GenesisDeposit \in Nat /\ GenesisVault \in Nat
    /\ GenesisVault = GenesisDeposit * Cardinality(GenesisUsers)
    /\ DEFAULT_MINIMUM_TRADE_SIZE \in Nat \ {0} /\ DISCOUNT_TOKEN_UNIT \in Nat

(***************************************************************************)
(* A run starts before initialize, or after the admin has initialised the  *)
(* GenesisMarkets and each of the GenesisUsers has deposited, at time 0.   *)
(***************************************************************************)
Init ==
    /\ state = GenesisState
    /\ market = [i \in Markets |-> IF i \in GenesisMarkets
                                  THEN initialized_market(GenesisMarketInit, GenesisOracle, 0)
                                  ELSE BlankMarket]
    /\ user = [u \in Users |->
                IF u \in GenesisUsers
                THEN [BlankUser EXCEPT !.initialized = TRUE, !.collateral = GenesisDeposit,
                                       !.cumulative_deposits = GenesisDeposit]
                ELSE BlankUser]
    /\ positions = [u \in Users |-> BlankPositions]
    /\ vault = [collateral |-> GenesisVault, insurance |-> 0]
    /\ history = [deposit |-> 0, trade |-> 0, funding_payment |-> 0, funding_rate |-> 0,
                  liquidation |-> 0, curve |-> 0]
    /\ now = 0

\* The access control helpers and the account constraints of context.rs:
\* the histories a handler writes to exist, and so do the user accounts it names.
market_initialized(i) == market[i].initialized
Bug_exchange_not_paused == ~state.funding_paused
exchange_not_paused == ~state.exchange_paused
Running == state.initialized /\ state.history_initialized
Bug_Account(u) == u \in Users
Account(u) == user[u].initialized

(***************************************************************************)
(* Collateral                                                              *)
(***************************************************************************)
deposit_collateral(u, amount) ==
    LET deposits == user[u].cumulative_deposits + amount
    IN  /\ Running /\ Account(u) /\ amount > 0
        /\ state.max_deposit > 0 => deposits <= state.max_deposit
        /\ history.deposit < MaxDeposits
        /\ user' = [user EXCEPT
                        ![u].collateral =
                            settled_collateral(@ + amount, positions[u], market),
                        ![u].cumulative_deposits = deposits]
        /\ positions' = [positions EXCEPT ![u] = settled_positions(@, market)]
        /\ vault' = [vault EXCEPT !.collateral = @ + amount]
        /\ history' = [history EXCEPT
                          !.deposit = @ + 1,
                          !.funding_payment = @ + funding_payment_records(positions[u], market)]
        /\ UNCHANGED <<state, market, now>>

withdraw_collateral(u, amount) ==
    LET ps        == settled_positions(positions[u], market)
        settled   == settled_collateral(user[u].collateral, positions[u], market)
        paid      == calculate_withdrawal_amounts(amount, vault.collateral, vault.insurance)
        remaining == settled - paid.collateral - paid.insurance
    IN  /\ Running /\ Account(u) /\ exchange_not_paused
        /\ amount <= settled
        /\ margin_ok(ps, market)
        /\ ~margin_ratio_below(remaining, ps, market, state.margin_ratio_initial)
        /\ history.deposit < MaxDeposits
        /\ user' = [user EXCEPT
                        ![u].collateral = remaining,
                        ![u].cumulative_deposits = @ - (paid.collateral + paid.insurance)]
        /\ positions' = [positions EXCEPT ![u] = ps]
        /\ vault' = [collateral |-> vault.collateral - paid.collateral,
                     insurance |-> vault.insurance - paid.insurance]
        /\ history' = [history EXCEPT
                          !.deposit = @ + 1,
                          !.funding_payment = @ + funding_payment_records(positions[u], market)]
        /\ UNCHANGED <<state, market, now>>

\* Anyone may settle anyone's funding.
settle_funding_payment(u) ==
    /\ Running /\ Account(u) /\ exchange_not_paused
    /\ user' = [user EXCEPT ![u].collateral = settled_collateral(@, positions[u], market)]
    /\ positions' = [positions EXCEPT ![u] = settled_positions(@, market)]
    /\ history' = [history EXCEPT
                      !.funding_payment = @ + funding_payment_records(positions[u], market)]
    /\ UNCHANGED <<state, market, vault, now>>

(***************************************************************************)
(* Trading                                                                 *)
(***************************************************************************)
\* The slot a trade of positions ps in market i uses: the open position in
\* that market or else the first free slot.
SlotsFor(ps, i) == {s \in Slots : is_for(ps[s], i)}
FreeSlots(ps) == {s \in Slots : ~is_open_position(ps[s])}
Bug_TradeSlot(ps, i) == First(SlotsFor(ps, i) \cup FreeSlots(ps))
TradeSlot(ps, i) == First(IF SlotsFor(ps, i) # {} THEN SlotsFor(ps, i) ELSE FreeSlots(ps))
TradePosition(ps, i) ==
    IF is_for(ps[TradeSlot(ps, i)], i) THEN ps[TradeSlot(ps, i)] ELSE new_market_position(i)

increases_position(t, direction) ==
    \/ t.p.base_asset_amount = 0
    \/ t.p.base_asset_amount > 0 /\ direction = "Long"
    \/ t.p.base_asset_amount < 0 /\ direction = "Short"

\* The amount that is traded: one close to the position's value closes it.
traded_quote(t, direction, quote) ==
    IF /\ ~increases_position(t, direction)
       /\ should_round_trade(t.m, quote, close_value(t))
    THEN close_value(t) ELSE quote

\* Increase the position, reduce it, or close it and open the opposite one.
trade(t, direction, quote) ==
    LET q == traded_quote(t, direction, quote)
    IN  IF increases_position(t, direction) THEN increase(t, direction, q, now)
        ELSE IF close_value(t) > q THEN reduce(t, direction, q, now)
        ELSE increase(close(t, now), direction, q - close_value(t), now)

trade_ok(t, direction, quote) ==
    LET q == traded_quote(t, direction, quote)
    IN  IF increases_position(t, direction) THEN increase_ok(t, direction, q)
        ELSE /\ base_asset_value_ok(t.p.base_asset_amount, t.m)
             /\ t.m.peg_multiplier > 0
             /\ IF close_value(t) > q THEN reduce_ok(t, direction, q)
                ELSE /\ close_ok(t)
                     /\ increase_ok(close(t, now), direction, q - close_value(t))

Bug_potentially_risk_increasing(t, direction, quote) ==
    LET q == traded_quote(t, direction, quote)
    IN  close_value(t) <= q /\ q - close_value(t) >= close_value(t)
potentially_risk_increasing(t, direction, quote) ==
    LET q == traded_quote(t, direction, quote)
    IN  \/ increases_position(t, direction)
        \/ close_value(t) <= q /\ q - close_value(t) >= close_value(t)

\* The entry price must not be worse than the limit, if there is one.
limit_ok(m, direction, quote, base, limit_price) ==
    limit_price # 0 =>
        LET entry_price ==
                calculate_price(asset_to_reserve_amount(quote, m.peg_multiplier), base,
                                m.peg_multiplier)
        IN  /\ base > 0 /\ m.peg_multiplier > 0
            /\ IF direction = "Long" THEN entry_price <= limit_price
                                     ELSE entry_price >= limit_price

\* The trade did not push the mark price out of its band around the oracle.
pushed_outside(before, after, o) ==
    LET g == state.oracle_guard_rails
        divergent(m) ==
            is_oracle_mark_too_divergent(calculate_oracle_mark_spread_pct(m, o), g)
    IN  divergent(after) /\ ~divergent(before) /\ is_oracle_valid(o, g)

diverges_further(before, after, o) ==
    LET g == state.oracle_guard_rails
        pct(m) == calculate_oracle_mark_spread_pct(m, o)
    IN  /\ is_oracle_mark_too_divergent(pct(after), g)
        /\ unsigned_abs(pct(after)) >= unsigned_abs(pct(before))
        /\ is_oracle_valid(o, g)

refresh_oracle_twap(m, o) ==
    IF is_oracle_valid(o, state.oracle_guard_rails)
    THEN update_oracle_price_twap(m, now, oracle_processed(m, o)) ELSE m

\* The optional accounts: a discount token needs a discount mint, and the
\* trader's own account is not a referrer.
optional_accounts_ok(token, referrer) ==
    /\ token # NoToken => state.discount_mint
    /\ referrer \subseteq {u \in Users : Account(u)}
Referrer(u, referrer) == referrer \ {u}

collect_fee(m, fee) ==
    [m EXCEPT !.total_fee = @ + fee.fee_to_market,
              !.total_fee_minus_distributions = @ + fee.fee_to_market]

\* The trader pays the fee, as far as the collateral goes; the referrer's
\* reward is only recorded.
charge_fee(u, collateral, fee, referrer) ==
    [v \in Users |->
        IF v = u
        THEN [user[v] EXCEPT !.collateral = Larger(0, collateral - fee.user_fee),
                             !.total_fee_paid = @ + fee.user_fee,
                             !.total_token_discount = @ + fee.token_discount,
                             !.total_referee_discount = @ + fee.referee_discount]
        ELSE IF v \in referrer
        THEN [user[v] EXCEPT !.total_referral_reward = @ + fee.referrer_reward]
        ELSE user[v]]

\* The records a trade of u adds, with the funding rate record of its end.
trade_records(u, m, o) ==
    [history EXCEPT
        !.trade = @ + 1,
        !.funding_payment = @ + funding_payment_records(positions[u], market),
        !.funding_rate = IF funding_due(m, o, now, state.oracle_guard_rails, state.funding_paused)
                         THEN @ + 1 ELSE @]

\* The end of both kinds of trade: t1 is what the trade left, m2 its market
\* after the fee.
finish_trade(u, i, slot, ps, t1, m2, o, fee, referrer) ==
    /\ update_funding_rate_ok(m2, o, now, state.oracle_guard_rails, state.funding_paused)
    /\ market' = [market EXCEPT
            ![i] = update_funding_rate(m2, o, now, state.oracle_guard_rails,
                                       state.funding_paused)]
    /\ user' = charge_fee(u, t1.c, fee, referrer)
    /\ positions' = [positions EXCEPT ![u] = [ps EXCEPT ![slot] = t1.p]]
    /\ history' = trade_records(u, m2, o)
    /\ UNCHANGED <<state, vault, now>>

\* (\E t1 \in {e} names the value of e, as LET does, for TLC to compute it once.)
open_position(u, i, direction, quote, limit_price, reading, token, referrer) ==
    LET ps     == settled_positions(positions[u], market)
        slot   == TradeSlot(ps, i)
        o      == get_oracle_price(market[i], reading)
        others == Referrer(u, referrer)
    IN  /\ Running /\ Account(u) /\ exchange_not_paused /\ market_initialized(i)
        /\ history.trade < MaxTrades
        /\ SlotsFor(ps, i) # {} \/ FreeSlots(ps) # {}
        /\ calculate_oracle_mark_spread_ok(market[i], o)
        /\ is_oracle_valid_ok(o)
        /\ optional_accounts_ok(token, referrer)
        /\ \E t0 \in {[m |-> refresh_oracle_twap(market[i], o), p |-> TradePosition(ps, i),
                       c |-> settled_collateral(user[u].collateral, positions[u], market)]} :
            /\ trade_ok(t0, direction, quote)
            /\ \E t1 \in {trade(t0, direction, quote)} :
                LET q     == traded_quote(t0, direction, quote)
                    risky == potentially_risk_increasing(t0, direction, quote)
                    ps1   == [ps EXCEPT ![slot] = t1.p]
                    after == [market EXCEPT ![i] = t1.m]
                    fee   == calculate_fees(q, state.fee_structure, token, others # {})
                    m2    == collect_fee(t1.m, fee)
                IN  /\ calculate_oracle_mark_spread_ok(t1.m, o)
                    /\ margin_ok(ps1, after)
                    /\ ~(risky /\ margin_ratio_below(t1.c, ps1, after,
                                                    state.margin_ratio_initial))
                    /\ calculate_fees_ok(q, state.fee_structure, token, others # {})
                    /\ ~pushed_outside(market[i], t1.m, o)
                    /\ ~(risky /\ diverges_further(market[i], t1.m, o))
                    /\ limit_ok(m2, direction, q,
                                unsigned_abs(t1.p.base_asset_amount - t0.p.base_asset_amount),
                                limit_price)
                    /\ finish_trade(u, i, slot, ps, t1, m2, o, fee, others)

\* Here the oracle twap is brought up to date after the trade.
close_position(u, i, reading, token, referrer) ==
    LET ps     == settled_positions(positions[u], market)
        slot   == TradeSlot(ps, i)
        o      == get_oracle_price(market[i], reading)
        others == Referrer(u, referrer)
    IN  /\ Running /\ Account(u) /\ exchange_not_paused /\ market_initialized(i)
        /\ history.trade < MaxTrades
        /\ SlotsFor(ps, i) # {}
        /\ calculate_oracle_mark_spread_ok(market[i], o)
        /\ is_oracle_valid_ok(o)
        /\ optional_accounts_ok(token, referrer)
        /\ \E t0 \in {[m |-> market[i], p |-> ps[slot],
                       c |-> settled_collateral(user[u].collateral, positions[u], market)]} :
            /\ close_ok(t0)
            /\ \E t1 \in {close(t0, now)} :
                LET q   == close_value(t0)
                    fee == calculate_fees(q, state.fee_structure, token, others # {})
                    m2  == refresh_oracle_twap(collect_fee(t1.m, fee), o)
                IN  /\ calculate_fees_ok(q, state.fee_structure, token, others # {})
                    /\ calculate_oracle_mark_spread_ok(t1.m, o)
                    /\ ~pushed_outside(market[i], t1.m, o)
                    /\ finish_trade(u, i, slot, ps, t1, m2, o, fee, others)

(***************************************************************************)
(* Liquidation.  The handler walks over the slots of the user: l holds the *)
(* markets, the positions, the collateral and the number of trade records  *)
(* so far, and whether every step so far succeeded.                        *)
(***************************************************************************)
liquidation_blocked(m, o) ==
    ~block_operation_ok(m, o) \/ block_operation(m, o, state.oracle_guard_rails)

base_asset_value_to_close(t) ==
    (close_value(t) * state.partial_liquidation_close_percentage_numerator)
        \div state.partial_liquidation_close_percentage_denominator

partial_liquidation_ok(t) ==
    /\ base_asset_value_ok(t.p.base_asset_amount, t.m)
    /\ state.partial_liquidation_close_percentage_denominator > 0
    /\ reduce_ok(t, direction_to_close_position(t.p.base_asset_amount),
                 base_asset_value_to_close(t))

\* What the liquidation of one position does, and that it does not fail.
liquidated(t, full) ==
    IF full THEN close(t, now)
    ELSE reduce(t, direction_to_close_position(t.p.base_asset_amount),
                base_asset_value_to_close(t), now)

liquidated_ok(t, full, reading) ==
    /\ ~liquidation_blocked(t.m, get_oracle_price(t.m, reading))
    /\ IF full THEN close_ok(t) ELSE partial_liquidation_ok(t)
    /\ mark_price_ok(liquidated(t, full).m)

slot_trade(l, s) == [m |-> l.market[l.ps[s].market_index], p |-> l.ps[s], c |-> l.c]

\* l after the trade of slot s has led to t1, with its trade record.
with_trade(l, s, t1) ==
    [market |-> [l.market EXCEPT ![l.ps[s].market_index] = t1.m],
     ps |-> [l.ps EXCEPT ![s] = t1.p], c |-> t1.c, trades |-> l.trades + 1, ok |-> TRUE]

liquidate_slot(l, s, full, readings) ==
    IF ~is_open_position(l.ps[s]) \/ ~l.ok THEN l
    ELSE IF ~liquidated_ok(slot_trade(l, s), full, readings[l.ps[s].market_index])
    THEN [l EXCEPT !.ok = FALSE]
    ELSE with_trade(l, s, liquidated(slot_trade(l, s), full))

liquidate_slots(l0, full, readings) ==
    LET l1 == liquidate_slot(l0, 1, full, readings)
        l2 == liquidate_slot(l1, 2, full, readings)
        l3 == liquidate_slot(l2, 3, full, readings)
        l4 == liquidate_slot(l3, 4, full, readings)
    IN  liquidate_slot(l4, 5, full, readings)

liquidation_fee_ok(full) ==
    IF full THEN /\ state.full_liquidation_penalty_percentage_denominator > 0
                 /\ state.full_liquidation_liquidator_share_denominator > 0
    ELSE /\ state.partial_liquidation_penalty_percentage_denominator > 0
         /\ state.partial_liquidation_liquidator_share_denominator > 0

\* A full liquidation takes its share of what is left, a partial one of the
\* total collateral the user had before.
Bug_liquidation_fee(full, collateral, total_before) ==
    ((IF full THEN collateral ELSE total_before)
        * state.full_liquidation_penalty_percentage_numerator)
            \div state.full_liquidation_penalty_percentage_denominator
liquidation_fee(full, collateral, total_before) ==
    IF full THEN (collateral * state.full_liquidation_penalty_percentage_numerator)
                    \div state.full_liquidation_penalty_percentage_denominator
    ELSE (total_before * state.partial_liquidation_penalty_percentage_numerator)
            \div state.partial_liquidation_penalty_percentage_denominator

liquidator_share(full, amount) ==
    amount \div (IF full THEN state.full_liquidation_liquidator_share_denominator
                         ELSE state.partial_liquidation_liquidator_share_denominator)

\* Only a user whose margin ratio is at or below the partial one may be
\* liquidated, the whole of it at or below the maintenance one.
Bug_liquidation_allowed(collateral, ps) ==
    /\ margin_ok(ps, market)
    /\ margin_ratio_below(collateral, ps, market, state.margin_ratio_initial + 1)
liquidation_allowed(collateral, ps) ==
    /\ margin_ok(ps, market)
    /\ margin_ratio_below(collateral, ps, market, state.margin_ratio_partial + 1)
is_full_liquidation(collateral, ps) ==
    margin_ratio_below(collateral, ps, market, state.margin_ratio_maintenance + 1)

\* When the liquidator liquidates its own account, the user's copy of the
\* account is written back last.
liquidate(liquidator, u, readings) ==
    LET ps0   == settled_positions(positions[u], market)
        c0    == settled_collateral(user[u].collateral, positions[u], market)
        full  == is_full_liquidation(c0, ps0)
    IN  /\ Running /\ Account(u) /\ Account(liquidator) /\ exchange_not_paused
        /\ history.liquidation < MaxLiquidations
        /\ liquidation_allowed(c0, ps0)
        /\ liquidation_fee_ok(full)
        /\ \E l \in {liquidate_slots([market |-> market, ps |-> ps0, c |-> c0, trades |-> 0,
                                      ok |-> TRUE], full, readings)} :
            LET fee   == liquidation_fee(full, l.c, total_collateral(c0, ps0, market))
                paid  == calculate_withdrawal_amounts(fee, vault.collateral,
                                                      vault.insurance).collateral
                share == liquidator_share(full, paid)
            IN  /\ l.ok
                /\ fee <= l.c
                /\ market' = l.market
                /\ positions' = [positions EXCEPT ![u] = l.ps]
                /\ user' = [user EXCEPT ![liquidator].collateral = @ + share,
                                        ![u].collateral = l.c - fee]
                /\ vault' = [collateral |-> vault.collateral - (paid - share),
                             insurance |-> vault.insurance + (paid - share)]
                /\ history' = [history EXCEPT
                        !.trade = @ + l.trades,
                        !.liquidation = @ + 1,
                        !.funding_payment = @ + funding_payment_records(positions[u], market)]
        /\ UNCHANGED <<state, now>>

(***************************************************************************)
(* Funding rate and oracle twap: keepers and the admin                     *)
(***************************************************************************)
UpdateFundingRate(i, reading) ==
    LET o == get_oracle_price(market[i], reading)
        g == state.oracle_guard_rails
    IN  /\ Running /\ exchange_not_paused /\ market_initialized(i)
        /\ update_funding_rate_ok(market[i], o, now, g, state.funding_paused)
        /\ market' = [market EXCEPT
                ![i] = update_funding_rate(@, o, now, g, state.funding_paused)]
        /\ history' = [history EXCEPT
                !.funding_rate = IF funding_due(market[i], o, now, g, state.funding_paused)
                                 THEN @ + 1 ELSE @]
        /\ UNCHANGED <<state, user, positions, vault, now>>

set_oracle_twap(m, twap) ==
    [m EXCEPT !.last_oracle_price_twap = twap, !.last_oracle_price_twap_ts = now]

\* Only an update that narrows the gap to the mark twap is taken; one that
\* would flip its sign closes it.
update_amm_oracle_twap(i, reading) ==
    LET m == market[i]
        o == get_oracle_price(m, reading)
        gap_before == m.last_mark_price_twap - m.last_oracle_price_twap
        gap_after  == m.last_mark_price_twap - o.twap
        flips == (gap_after > 0 /\ gap_before < 0) \/ (gap_after < 0 /\ gap_before > 0)
    IN  /\ Running /\ market_initialized(i)
        /\ is_oracle_valid_ok(o)
        /\ is_oracle_valid(o, state.oracle_guard_rails)
        /\ flips \/ unsigned_abs(gap_after) <= unsigned_abs(gap_before)
        /\ market' = [market EXCEPT
                ![i] = set_oracle_twap(m, IF flips THEN m.last_mark_price_twap ELSE o.twap)]
        /\ UNCHANGED <<state, user, positions, vault, history, now>>

reset_amm_oracle_twap(i, reading) ==
    LET m == market[i]
        o == get_oracle_price(m, reading)
    IN  /\ Running /\ market_initialized(i)
        /\ is_oracle_valid_ok(o)
        /\ market' = IF is_oracle_valid(o, state.oracle_guard_rails) THEN market
                     ELSE [market EXCEPT ![i] = set_oracle_twap(m, m.last_mark_price_twap)]
        /\ UNCHANGED <<state, user, positions, vault, history, now>>

(***************************************************************************)
(* The curve                                                               *)
(***************************************************************************)
move_amm_price(i, base_asset_reserve, quote_asset_reserve) ==
    /\ state.initialized /\ market_initialized(i) /\ exchange_not_paused
    /\ state.admin_controls_prices
    /\ \E sqrt_k \in 0..Larger(base_asset_reserve, quote_asset_reserve) :
        /\ is_integer_sqrt(sqrt_k, base_asset_reserve * quote_asset_reserve)
        /\ market' = [market EXCEPT
                ![i] = move_price(@, base_asset_reserve, quote_asset_reserve, sqrt_k)]
    /\ UNCHANGED <<state, user, positions, vault, history, now>>

\* The fee pool pays for what an adjustment gives the traders, and takes what
\* it takes from them.  repeg stops at an empty pool, update_k never gets there.
Bug_pay_adjustment(m, cost) ==
    [m EXCEPT !.total_fee_minus_distributions = IF cost > 0 THEN @ ELSE @ - cost]
pay_adjustment(m, cost) ==
    [m EXCEPT !.total_fee_minus_distributions =
        IF cost > 0 THEN Larger(0, @ - cost) ELSE @ - cost]

\* With a valid oracle the terminal price may only move towards the oracle,
\* up to its confidence band, and the mark price must not pass the band.
repeg_within_band(before, after, o) ==
    LET terminal_before == calculate_terminal_price(before)
        terminal_after  == calculate_terminal_price(after)
    IN  /\ o.price >= o.conf
        /\ o.price > terminal_after =>
             /\ terminal_after >= terminal_before
             /\ terminal_after <= o.price - o.conf
             /\ mark_price(after) <= o.price + o.conf
        /\ o.price < terminal_after =>
             /\ terminal_after <= terminal_before
             /\ terminal_after >= o.price + o.conf
             /\ mark_price(after) >= o.price - o.conf

repeg_amm_curve(i, new_peg_candidate, reading) ==
    LET m    == market[i]
        o    == get_oracle_price(m, reading)
        m1   == [m EXCEPT !.peg_multiplier = new_peg_candidate]
        cost == adjust_peg_cost(m, new_peg_candidate)
        m2   == pay_adjustment(m1, cost)
    IN  /\ Running /\ market_initialized(i) /\ exchange_not_paused
        /\ history.curve < MaxCurveChanges
        /\ new_peg_candidate # m.peg_multiplier
        /\ calculate_terminal_price_ok(m)
        /\ base_asset_value_ok(m.base_asset_amount, m)
        /\ is_oracle_valid_ok(o)
        /\ is_oracle_valid(o, state.oracle_guard_rails) =>
             mark_price_ok(m1) /\ repeg_within_band(m, m1, o)
        /\ cost > 0 => m2.total_fee_minus_distributions >= total_fee_lower_bound(m)
        /\ market' = [market EXCEPT ![i] = m2]
        /\ history' = [history EXCEPT !.curve = @ + 1]
        /\ UNCHANGED <<state, user, positions, vault, now>>

update_k(i, sqrt_k) ==
    LET m     == market[i]
        m1    == adjust_k(m, sqrt_k)
        cost  == adjust_k_cost(m, sqrt_k)
    IN  /\ Running /\ market_initialized(i) /\ exchange_not_paused
        /\ history.curve < MaxCurveChanges
        /\ mark_price_ok(m)
        /\ adjust_k_cost_ok(m, sqrt_k)
        /\ cost > 0 => cost <= m.total_fee_minus_distributions - m.total_fee_withdrawn
        /\ mark_price_ok(m1)
        /\ unsigned_abs(mark_price(m) - mark_price(m1)) <= UPDATE_K_ALLOWED_PRICE_CHANGE
        /\ market' = [market EXCEPT ![i] = pay_adjustment(m1, cost)]
        /\ history' = [history EXCEPT !.curve = @ + 1]
        /\ UNCHANGED <<state, user, positions, vault, now>>

(***************************************************************************)
(* Fees and insurance                                                      *)
(***************************************************************************)
withdraw_fees(i, amount) ==
    LET m == market[i]
    IN  /\ state.initialized /\ market_initialized(i)
        /\ amount <= total_fee_lower_bound(m) - m.total_fee_withdrawn
        /\ amount <= vault.collateral
        /\ market' = [market EXCEPT ![i].total_fee_withdrawn = @ + amount]
        /\ vault' = [vault EXCEPT !.collateral = @ - amount]
        /\ UNCHANGED <<state, user, positions, history, now>>

withdraw_from_insurance_vault(amount) ==
    /\ state.initialized
    /\ amount <= vault.insurance
    /\ vault' = [vault EXCEPT !.insurance = @ - amount]
    /\ UNCHANGED <<state, market, user, positions, history, now>>

withdraw_from_insurance_vault_to_market(i, amount) ==
    /\ state.initialized /\ market_initialized(i)
    /\ amount <= vault.insurance
    /\ market' = [market EXCEPT ![i].total_fee_minus_distributions = @ + amount]
    /\ vault' = [collateral |-> vault.collateral + amount,
                 insurance |-> vault.insurance - amount]
    /\ UNCHANGED <<state, user, positions, history, now>>

(***************************************************************************)
(* The life of the accounts                                                *)
(***************************************************************************)
initialize(admin, controls_prices) ==
    /\ ~state.initialized
    /\ state' = initialized_state(admin, controls_prices)
    /\ UNCHANGED <<market, user, positions, vault, history, now>>

\* The error for histories that exist already needs curve_history to be set,
\* which no handler does: the admin can always point the State to new, empty
\* history accounts.
initialize_history ==
    /\ state.initialized
    /\ state' = [state EXCEPT !.history_initialized = TRUE]
    /\ history' = [h \in DOMAIN history |-> 0]
    /\ UNCHANGED <<market, user, positions, vault, now>>

initialize_market(i, x, reading) ==
    /\ state.initialized /\ ~market[i].initialized
    /\ x.reserve > 0
    /\ market' = [market EXCEPT ![i] = initialized_market(x, reading, now)]
    /\ UNCHANGED <<state, user, positions, vault, history, now>>

\* A whitelist, where there is one, asks for a token of the user.
whitelist_ok(has_whitelist_token) == state.whitelist_mint => has_whitelist_token

\* initialize_user and initialize_user_with_explicit_payer; the Anchor
\* constraint `init` refuses an account that exists.
initialize_user(u, has_whitelist_token) ==
    /\ state.initialized /\ ~Account(u)
    /\ whitelist_ok(has_whitelist_token)
    /\ user' = [user EXCEPT ![u] = [BlankUser EXCEPT !.initialized = TRUE]]
    /\ positions' = [positions EXCEPT ![u] = BlankPositions]
    /\ UNCHANGED <<state, market, vault, history, now>>

\* Closes both accounts of the user; only the collateral is looked at.
delete_user(u) ==
    /\ Account(u)
    /\ user[u].collateral = 0
    /\ user' = [user EXCEPT ![u] = BlankUser]
    /\ positions' = [positions EXCEPT ![u] = BlankPositions]
    /\ UNCHANGED <<state, market, vault, history, now>>

(***************************************************************************)
(* The admin's setters                                                     *)
(***************************************************************************)
SetState(s) == state.initialized /\ state' = s
               /\ UNCHANGED <<market, user, positions, vault, history, now>>

update_margin_ratio(r) ==
    SetState([state EXCEPT !.margin_ratio_initial = r.initial,
                           !.margin_ratio_partial = r.partial,
                           !.margin_ratio_maintenance = r.maintenance])
update_partial_liquidation_close_percentage(r) ==
    SetState([state EXCEPT
        !.partial_liquidation_close_percentage_numerator = r.numerator,
        !.partial_liquidation_close_percentage_denominator = r.denominator])
update_partial_liquidation_penalty_percentage(r) ==
    SetState([state EXCEPT
        !.partial_liquidation_penalty_percentage_numerator = r.numerator,
        !.partial_liquidation_penalty_percentage_denominator = r.denominator])
update_full_liquidation_penalty_percentage(r) ==
    SetState([state EXCEPT
        !.full_liquidation_penalty_percentage_numerator = r.numerator,
        !.full_liquidation_penalty_percentage_denominator = r.denominator])
update_partial_liquidation_liquidator_share_denominator(d) ==
    SetState([state EXCEPT !.partial_liquidation_liquidator_share_denominator = d])
update_full_liquidation_liquidator_share_denominator(d) ==
    SetState([state EXCEPT !.full_liquidation_liquidator_share_denominator = d])
update_fee(f) == SetState([state EXCEPT !.fee_structure = f])
update_oracle_guard_rails(g) == SetState([state EXCEPT !.oracle_guard_rails = g])
update_admin(a) == SetState([state EXCEPT !.admin = a])
update_whitelist_mint(b) == SetState([state EXCEPT !.whitelist_mint = b])
update_discount_mint(b) == SetState([state EXCEPT !.discount_mint = b])
update_max_deposit(d) == SetState([state EXCEPT !.max_deposit = d])
update_exchange_paused(b) == SetState([state EXCEPT !.exchange_paused = b])
update_funding_paused(b) == SetState([state EXCEPT !.funding_paused = b])
disable_admin_controls_prices == SetState([state EXCEPT !.admin_controls_prices = FALSE])

SetMarket(i, m) == state.initialized /\ market_initialized(i)
                   /\ market' = [market EXCEPT ![i] = m]
                   /\ UNCHANGED <<state, user, positions, vault, history, now>>
update_market_oracle(i, source) == SetMarket(i, [market[i] EXCEPT !.oracle_source = source])
update_market_minimum_trade_size(i, size) ==
    SetMarket(i, [market[i] EXCEPT !.minimum_trade_size = size])

\* The cluster's clock.
Tick(d) == now + d <= MaxNow /\ now' = now + d
           /\ UNCHANGED <<state, market, user, positions, vault, history>>

(***************************************************************************)
(* The specification                                                       *)
(***************************************************************************)
UserStep ==
    \E u \in Users :
        \/ \E amount \in DepositAmounts : deposit_collateral(u, amount)
        \/ \E amount \in WithdrawAmounts : withdraw_collateral(u, amount)
        \/ settle_funding_payment(u)
        \/ \E b \in BOOLEAN : initialize_user(u, b)
        \/ u \in DeletingUsers /\ delete_user(u)
        \/ \E i \in Markets, d \in Directions, q \in QuoteAmounts, p \in LimitPrices,
              o \in OracleReadings, t \in DiscountTokens, r \in Referrers :
                open_position(u, i, d, q, p, o, t, r)
        \/ \E i \in Markets, o \in OracleReadings, t \in DiscountTokens, r \in Referrers :
                close_position(u, i, o, t, r)
        \/ \E v \in Users, readings \in [Markets -> OracleReadings] : liquidate(v, u, readings)

CurveStep ==
    \E i \in Markets :
        \/ \E r \in ReservePairs : move_amm_price(i, r.base, r.quote)
        \/ \E p \in PegCandidates, o \in OracleReadings : repeg_amm_curve(i, p, o)
        \/ \E k \in SqrtKs : update_k(i, k)

MarketStep ==
    \E i \in Markets :
        \/ \E o \in OracleReadings : UpdateFundingRate(i, o)
        \/ \E o \in OracleReadings : i \in TwapMarkets /\ update_amm_oracle_twap(i, o)
        \/ \E o \in OracleReadings : i \in TwapMarkets /\ reset_amm_oracle_twap(i, o)
        \/ \E amount \in FeeWithdrawals : withdraw_fees(i, amount)
        \/ \E amount \in InsuranceWithdrawals : withdraw_from_insurance_vault_to_market(i, amount)
        \/ \E x \in MarketInits, o \in OracleReadings : initialize_market(i, x, o)
        \/ \E source \in AdminChoices.oracle_sources : update_market_oracle(i, source)
        \/ \E size \in TradeSizes : update_market_minimum_trade_size(i, size)

AdminStep ==
    \/ \E amount \in InsuranceWithdrawals : withdraw_from_insurance_vault(amount)
    \/ \E a \in Admins, b \in BOOLEAN : initialize(a, b)
    \/ (AdminChoices.renews_history \/ ~state.history_initialized) /\ initialize_history
    \/ \E r \in AdminChoices.margin_ratios : update_margin_ratio(r)
    \/ \E r \in AdminChoices.percentages :
          \/ update_partial_liquidation_close_percentage(r)
          \/ update_partial_liquidation_penalty_percentage(r)
          \/ update_full_liquidation_penalty_percentage(r)
    \/ \E d \in AdminChoices.share_denominators :
          \/ update_partial_liquidation_liquidator_share_denominator(d)
          \/ update_full_liquidation_liquidator_share_denominator(d)
    \/ \E f \in AdminChoices.fee_structures : update_fee(f)
    \/ \E g \in AdminChoices.guard_rails : update_oracle_guard_rails(g)
    \/ \E a \in AdminChoices.admins : update_admin(a)
    \/ \E b \in AdminChoices.mints : update_whitelist_mint(b) \/ update_discount_mint(b)
    \/ \E d \in AdminChoices.max_deposits : update_max_deposit(d)
    \/ \E b \in AdminChoices.pauses : update_exchange_paused(b) \/ update_funding_paused(b)
    \/ AdminChoices.disables_price_control /\ disable_admin_controls_prices

Next == UserStep \/ CurveStep \/ MarketStep \/ AdminStep \/ \E d \in TimeSteps : Tick(d)

Spec == Init /\ [][Next]_vars
=============================================================================
