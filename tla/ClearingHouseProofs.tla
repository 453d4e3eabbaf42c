-------------------------- MODULE ClearingHouseProofs --------------------------
(***************************************************************************)
(* The specification keeps its type invariant and the balance of every     *)
(* market's counters, every change of a net position is mirrored by the    *)
(* base reserve and lands on the curve, and a funding rate is set at most  *)
(* once in a period: for any number of users and markets, any precisions,  *)
(* any inputs and any parameters of the exchange.                          *)
(*                                                                         *)
(* The inductive invariant adds to the two that a market which was never   *)
(* initialised is empty.                                                   *)
(***************************************************************************)
EXTENDS AccountProofs, FiniteSetTheorems

HistoryType == [deposit: Nat, trade: Nat, funding_payment: Nat, funding_rate: Nat,
                liquidation: Nat, curve: Nat]
VaultType == [collateral: Nat, insurance: Nat]

Inv == TypeOK /\ NetPosition /\ \A i \in Markets : Fresh(market[i])

\* What a step of one market may do.
Steady(m, n) ==
    /\ Good(n) /\ Fresh(n)
    /\ n.base_asset_amount # m.base_asset_amount => Mirrors(m, n) /\ OnCurve(n)
    /\ m.initialized => Paced(m, n)
    /\ n.last_funding_rate_ts # m.last_funding_rate_ts /\ Signed(n) =>
            FundingReceived(m, n) <= 1

MarketsSteady == \A i \in Markets : Steady(market[i], market'[i])

\* No net position and no side changes and no fee is collected.
BooksKept ==
    \A i \in Markets : /\ market'[i].base_asset_amount = market[i].base_asset_amount
                       /\ SameSides(market[i], market'[i])
                       /\ SameFee(market[i], market'[i])

\* What every step of the specification does.
StepOK == TypeOK' /\ MarketsSteady

\* The invariant taken apart: types, books and the markets that do not exist yet.
LEMMA InvParts ==
    ASSUME Inv
    PROVE  /\ state \in StateType /\ market \in MarketsType /\ user \in [Users -> UserType]
           /\ positions \in [Users -> SlotsType] /\ vault \in VaultType
           /\ history \in HistoryType /\ now \in Nat
           /\ \A i \in Markets : Good(market[i]) /\ Fresh(market[i])
<1>1. TypeOK /\ NetPosition /\ \A i \in Markets : Fresh(market[i])
  BY DEF Inv
<1>2. market \in MarketsType
  BY <1>1 DEF TypeOK, MarketsType
<1>3. \A i \in Markets : Good(market[i])
  BY <1>1, <1>2 DEF NetPosition, Good, MarketsType
<1> QED
  BY <1>1, <1>2, <1>3 DEF TypeOK, SlotsType, VaultType, HistoryType

\* The parts from which a step is put together.
LEMMA StepParts ==
    ASSUME state' \in StateType, market' \in MarketsType, user' \in [Users -> UserType],
           positions' \in [Users -> SlotsType], vault' \in VaultType,
           history' \in HistoryType, now' \in Nat, MarketsSteady
    PROVE  StepOK
BY DEF StepOK, TypeOK, MarketsType, SlotsType, VaultType, HistoryType

\* A steady step keeps the invariant.
LEMMA StepInv == ASSUME Inv, StepOK PROVE Inv'
BY DEF StepOK, MarketsSteady, Steady, Good, Inv, NetPosition

\* A step that leaves the markets alone has nothing to show for them.
LEMMA MarketsUnchanged ==
    ASSUME Inv, UNCHANGED market
    PROVE  market' \in MarketsType /\ MarketsSteady
BY InvParts DEF MarketsSteady, Steady, Paced, SamePace

\* A step that changes one market, steadily, is steady for all of them.
LEMMA OneMarket ==
    ASSUME Inv, NEW i \in Markets, NEW n, market' = [market EXCEPT ![i] = n],
           Steady(market[i], n)
    PROVE  market' \in MarketsType /\ MarketsSteady
<1>1. market \in MarketsType /\ \A j \in Markets : Good(market[j]) /\ Fresh(market[j])
  BY InvParts
<1>2. n \in MarketType
  BY DEF Steady, Good
<1>3. market' \in MarketsType
  BY <1>1, <1>2 DEF MarketsType
<1>4. ASSUME NEW j \in Markets PROVE Steady(market[j], market'[j])
  <2>1. CASE j = i
    BY <1>1, <2>1 DEF MarketsType
  <2>2. CASE j # i
    <3>1. market'[j] = market[j]
      BY <1>1, <2>2 DEF MarketsType
    <3> QED
      BY <1>1, <3>1 DEF Steady, Paced, SamePace
  <2> QED
    BY <2>1, <2>2
<1> QED
  BY <1>3, <1>4 DEF MarketsSteady

\* The books are kept by a step that keeps those of one market.
LEMMA OneKept ==
    ASSUME Inv, NEW i \in Markets, NEW n, market' = [market EXCEPT ![i] = n],
           n.base_asset_amount = market[i].base_asset_amount, SameSides(market[i], n),
           SameFee(market[i], n)
    PROVE  BooksKept
<1>1. market \in MarketsType
  BY InvParts
<1>2. market'[i] = n /\ \A j \in Markets \ {i} : market'[j] = market[j]
  BY <1>1 DEF MarketsType
<1> QED
  BY <1>2 DEF BooksKept, SameSides, SameFee

\* An adjustment of an initialised market is steady, and so is a step that
\* keeps its curve, whether it sets the funding rate or not.
LEMMA AdjustedSteady ==
    ASSUME NEW m, NEW n, m.initialized, Adjusted(m, n) \/ Kept(m, n) \/ Funded(m, n)
    PROVE  Steady(m, n)
BY DEF Steady, Adjusted, Kept, Still, Funded, Paced, SamePace, SameCurve, Fresh

(***************************************************************************)
(* Initially                                                               *)
(***************************************************************************)
\* A blank market is well-typed, balanced and empty.
LEMMA BlankMarketGood == Good(BlankMarket) /\ Fresh(BlankMarket)
<1>1. BlankMarket \in MarketType
  BY DEF BlankMarket, MarketType
<1> QED
  BY <1>1 DEF Good, IsNet, Fresh, BlankMarket

\* A market that was just initialised is well-typed and has no position.
LEMMA InitializedMarket ==
    ASSUME NEW x \in MarketInitType, x.reserve > 0, NEW o \in OracleType, NEW ts \in Nat
    PROVE  LET n == initialized_market(x, o, ts)
           IN  /\ Good(n) /\ n.initialized /\ n.base_asset_amount = 0
               /\ n.base_asset_amount_long = 0 /\ n.base_asset_amount_short = 0
               /\ n.total_fee = 0 /\ n.total_fee_minus_distributions = 0
<1> DEFINE price == calculate_price(x.reserve, x.reserve, x.peg_multiplier)
           n == initialized_market(x, o, ts)
<1>1. x.reserve \in Nat \ {0} /\ x.peg_multiplier \in Nat /\ x.funding_period \in Nat
  BY DEF MarketInitType
<1>2. price \in Nat
  BY <1>1, PriceType
<1>3. o.price \in Int /\ o.twap \in Int /\ DEFAULT_MINIMUM_TRADE_SIZE \in Nat
  BY GenesisAssumption DEF OracleType
<1>4. n = [BlankMarket EXCEPT
            !.initialized = TRUE,
            !.base_asset_reserve = x.reserve, !.quote_asset_reserve = x.reserve,
            !.sqrt_k = x.reserve, !.peg_multiplier = x.peg_multiplier,
            !.minimum_trade_size = DEFAULT_MINIMUM_TRADE_SIZE,
            !.funding_period = x.funding_period, !.last_funding_rate_ts = ts,
            !.last_mark_price_twap = price, !.last_mark_price_twap_ts = ts,
            !.last_oracle_price = o.price, !.last_oracle_price_twap = o.twap,
            !.last_oracle_price_twap_ts = ts]
  BY DEF initialized_market
<1> HIDE DEF price, n
<1>5. BlankMarket \in MarketType /\ IsNet(BlankMarket)
  BY BlankMarketGood DEF Good
<1>6. n \in MarketType
  BY <1>1, <1>2, <1>3, <1>4, <1>5 DEF MarketType
<1>7. /\ n.base_asset_amount = BlankMarket.base_asset_amount
      /\ n.base_asset_amount_long = BlankMarket.base_asset_amount_long
      /\ n.base_asset_amount_short = BlankMarket.base_asset_amount_short
      /\ n.total_fee = BlankMarket.total_fee
      /\ n.total_fee_minus_distributions = BlankMarket.total_fee_minus_distributions
      /\ n.initialized
  BY <1>4, <1>5 DEF MarketType
<1>8. /\ BlankMarket.base_asset_amount = 0 /\ BlankMarket.base_asset_amount_long = 0
      /\ BlankMarket.base_asset_amount_short = 0 /\ BlankMarket.total_fee = 0
      /\ BlankMarket.total_fee_minus_distributions = 0
  BY DEF BlankMarket
<1> QED
  BY <1>5, <1>6, <1>7, <1>8 DEF Good, IsNet, n

\* Nobody receives funding in a market that nobody has traded in.
LEMMA NothingReceived ==
    ASSUME NEW m, Good(m), NEW n, Good(n),
           n.base_asset_amount_long = 0, n.base_asset_amount_short = 0,
           m.total_fee = 0, m.total_fee_minus_distributions = 0,
           n.total_fee = 0, n.total_fee_minus_distributions = 0
    PROVE  FundingReceived(m, n) <= 1
<1> DEFINE long == n.cumulative_funding_rate_long - m.cumulative_funding_rate_long
           short == n.cumulative_funding_rate_short - m.cumulative_funding_rate_short
<1>1. long \in Int /\ short \in Int
  BY DEF Good, MarketType
<1>2. ASSUME NEW r \in Int PROVE Pay(r, 0) \in Int /\ Pay(r, 0) <= 0
  <2>1. PICK q : /\ Whole(q, unsigned_abs(r) * unsigned_abs(0), PaymentUnit)
                 /\ 0 >= 0 => Pay(r, 0) = IF r > 0 THEN -q ELSE q
                 /\ 0 <= 0 => Pay(r, 0) = IF r > 0 THEN q ELSE -q
    BY PaymentSides
  <2>2. q \in Nat
    BY <2>1 DEF Whole
  <2> QED
    BY <2>1, <2>2
<1>3. Pay(long, 0) \in Int /\ Pay(long, 0) <= 0 /\ Pay(short, 0) \in Int /\ Pay(short, 0) <= 0
  BY <1>1, <1>2
<1>4. FundingReceived(m, n) = Pay(long, 0) + Pay(short, 0) + (Distributed(m) - Distributed(n))
  BY DEF FundingReceived, Pay
<1>5. Distributed(m) = 0 - 0 /\ Distributed(n) = 0 - 0
  BY DEF Distributed
<1> HIDE DEF long, short
<1> QED
  BY <1>3, <1>4, <1>5

\* New accounts are well-typed.
LEMMA BlankAccounts == BlankUser \in UserType /\ BlankPositions \in SlotsType
<1>1. BlankUser \in UserType
  BY DEF BlankUser, UserType
<1>2. new_market_position(0) \in PositionType
  BY MarketsAssumption DEF new_market_position, PositionType
<1> QED
  BY <1>1, <1>2 DEF BlankPositions, SlotsType

\* The invariant holds initially.
LEMMA Initially == Init => Inv
<1> SUFFICES ASSUME Init PROVE Inv
  OBVIOUS
<1> DEFINE genesis == initialized_market(GenesisMarketInit, GenesisOracle, 0)
           rich == [BlankUser EXCEPT !.initialized = TRUE, !.collateral = GenesisDeposit,
                                     !.cumulative_deposits = GenesisDeposit]
<1>1. Good(genesis) /\ Fresh(genesis)
  <2>1. /\ GenesisMarketInit \in MarketInitType /\ GenesisMarketInit.reserve > 0
        /\ GenesisOracle \in OracleType
    BY GenesisAssumption
  <2> QED
    BY <2>1, InitializedMarket DEF Fresh
<1>2. rich \in UserType
  <2>1. GenesisDeposit \in Nat /\ GenesisDeposit \in Int
    BY GenesisAssumption
  <2> QED
    BY <2>1, BlankAccounts DEF UserType
<1>3. \A i \in Markets : market[i] \in {genesis, BlankMarket}
  BY DEF Init
<1>4. market \in [Markets -> {genesis, BlankMarket}]
  BY DEF Init
<1>5. user \in [Users -> {rich, BlankUser}]
  BY DEF Init
<1> HIDE DEF genesis, rich
<1>6. \A i \in Markets : Good(market[i]) /\ Fresh(market[i])
  BY <1>1, <1>3, BlankMarketGood
<1>7. market \in [Markets -> MarketType]
  BY <1>1, <1>4, BlankMarketGood DEF Good
<1>8. user \in [Users -> UserType]
  BY <1>2, <1>5, BlankAccounts
<1>9. positions \in [Users -> [Slots -> PositionType]]
  BY BlankAccounts DEF Init, SlotsType
<1>10. state \in StateType /\ now \in Nat /\ vault \in [collateral: Nat, insurance: Nat]
  BY GenesisAssumption DEF Init
<1>11. history \in [deposit: Nat, trade: Nat, funding_payment: Nat, funding_rate: Nat,
                    liquidation: Nat, curve: Nat]
  BY DEF Init
<1>12. TypeOK
  BY <1>7, <1>8, <1>9, <1>10, <1>11 DEF TypeOK
<1> QED
  BY <1>6, <1>12 DEF Inv, NetPosition, Good

(***************************************************************************)
(* The admin                                                               *)
(***************************************************************************)
\* A setter of the State account is a step if what it writes has the type.
LEMMA SetStateStep ==
    ASSUME Inv, NEW s \in StateType, SetState(s)
    PROVE  StepOK
<1>1. /\ state' = s
      /\ UNCHANGED market /\ UNCHANGED <<user, positions, vault, history, now>>
  BY DEF SetState
<1>2. market' \in MarketsType /\ MarketsSteady
  BY <1>1, MarketsUnchanged
<1> QED
  BY <1>1, <1>2, InvParts, StepParts

\* A setter of a market is a step if the field is not a counter or a rate.
LEMMA SetMarketStep ==
    ASSUME Inv, NEW i \in Markets, NEW n, SetMarket(i, n),
           Kept(market[i], n) \/ Adjusted(market[i], n)
    PROVE  StepOK /\ BooksKept
<1>1. /\ market[i].initialized /\ market' = [market EXCEPT ![i] = n]
      /\ UNCHANGED <<state, user, positions, vault, history, now>>
  BY DEF SetMarket, market_initialized
<1>2. market' \in MarketsType /\ MarketsSteady
  BY <1>1, AdjustedSteady, OneMarket
<1>3. BooksKept
  BY <1>1, OneKept DEF Kept, Still, SameCurve, Adjusted
<1> QED
  BY <1>1, <1>2, <1>3, InvParts, StepParts

\* The State account that initialize writes is well-typed.
LEMMA InitializedState ==
    ASSUME NEW a \in Admins, NEW b \in BOOLEAN
    PROVE  initialized_state(a, b) \in StateType
<1> DEFINE unit == DISCOUNT_TOKEN_UNIT
           tier(x, n) == [minimum_balance |-> x, discount_numerator |-> n,
                          discount_denominator |-> 100]
           tiers == <<tier(1000 * unit, 20), tier(100 * unit, 15), tier(10 * unit, 10),
                      tier(unit, 5)>>
           fees == initialized_state(a, b).fee_structure
           rails == initialized_state(a, b).oracle_guard_rails
<1>1. unit \in Nat
  BY GenesisAssumption
<1>2. ASSUME NEW x \in Nat, NEW n \in Nat PROVE tier(x, n) \in TierType
  BY DEF TierType
<1>3. /\ tier(1000 * unit, 20) \in TierType /\ tier(100 * unit, 15) \in TierType
      /\ tier(10 * unit, 10) \in TierType /\ tier(unit, 5) \in TierType
  <2>1. 1000 * unit \in Nat /\ 100 * unit \in Nat /\ 10 * unit \in Nat
    BY <1>1
  <2> QED
    BY <1>1, <1>2, <2>1
<1>4. tiers \in [1..4 -> TierType]
  <2> HIDE DEF tier
  <2> QED
    BY <1>3
<1>5. fees = [fee_numerator |-> 10, fee_denominator |-> 10000, discount_token_tiers |-> tiers,
              referrer_reward_numerator |-> 5, referrer_reward_denominator |-> 100,
              referee_discount_numerator |-> 5, referee_discount_denominator |-> 100]
  BY DEF initialized_state
<1>6. rails = [mark_oracle_divergence_numerator |-> 1, mark_oracle_divergence_denominator |-> 10,
               slots_before_stale |-> 1000, confidence_interval_max_size |-> 4,
               too_volatile_ratio |-> 5, use_for_liquidations |-> TRUE]
  BY DEF initialized_state
<1>7. initialized_state(a, b) =
        [initialized |-> TRUE, history_initialized |-> FALSE, admin |-> a,
         exchange_paused |-> FALSE, funding_paused |-> FALSE, admin_controls_prices |-> b,
         margin_ratio_initial |-> 2000, margin_ratio_partial |-> 625,
         margin_ratio_maintenance |-> 500,
         partial_liquidation_close_percentage_numerator |-> 25,
         partial_liquidation_close_percentage_denominator |-> 100,
         partial_liquidation_penalty_percentage_numerator |-> 25,
         partial_liquidation_penalty_percentage_denominator |-> 1000,
         full_liquidation_penalty_percentage_numerator |-> 1,
         full_liquidation_penalty_percentage_denominator |-> 1,
         partial_liquidation_liquidator_share_denominator |-> 2,
         full_liquidation_liquidator_share_denominator |-> 20,
         fee_structure |-> fees, oracle_guard_rails |-> rails,
         whitelist_mint |-> FALSE, discount_mint |-> FALSE, max_deposit |-> 0]
  BY DEF initialized_state
<1> HIDE DEF fees, rails, tiers
<1>8. fees \in FeeStructureType
  BY <1>4, <1>5 DEF FeeStructureType
<1>9. rails \in GuardRailsType
  BY <1>6 DEF GuardRailsType
<1> QED
  BY <1>7, <1>8, <1>9 DEF StateType

\* The choices of the admin have the types of the parameters they set.
LEMMA AdminInputs ==
    /\ \A r \in AdminChoices.margin_ratios :
          r.initial \in Nat /\ r.partial \in Nat /\ r.maintenance \in Nat
    /\ \A r \in AdminChoices.percentages : r.numerator \in Nat /\ r.denominator \in Nat
    /\ \A d \in AdminChoices.share_denominators : d \in Nat
    /\ \A f \in AdminChoices.fee_structures : f \in FeeStructureType
    /\ \A g \in AdminChoices.guard_rails : g \in GuardRailsType
    /\ \A a \in AdminChoices.admins : a \in Admins
    /\ \A b \in AdminChoices.mints : b \in BOOLEAN
    /\ \A d \in AdminChoices.max_deposits : d \in Nat
    /\ \A b \in AdminChoices.pauses : b \in BOOLEAN
    /\ \A x \in AdminChoices.oracle_sources : x \in {"Pyth", "Switchboard"}
<1>1. AdminChoices \in AdminChoicesType
  BY InputsAssumption
<1> QED
  BY <1>1 DEF AdminChoicesType

\* Every transaction of the admin that sets a parameter of the exchange.
LEMMA SetterSteps ==
    ASSUME Inv
    PROVE  /\ \A r \in AdminChoices.margin_ratios : update_margin_ratio(r) => StepOK
           /\ \A r \in AdminChoices.percentages :
                /\ update_partial_liquidation_close_percentage(r) => StepOK
                /\ update_partial_liquidation_penalty_percentage(r) => StepOK
                /\ update_full_liquidation_penalty_percentage(r) => StepOK
           /\ \A d \in AdminChoices.share_denominators :
                /\ update_partial_liquidation_liquidator_share_denominator(d) => StepOK
                /\ update_full_liquidation_liquidator_share_denominator(d) => StepOK
           /\ \A f \in AdminChoices.fee_structures : update_fee(f) => StepOK
           /\ \A g \in AdminChoices.guard_rails : update_oracle_guard_rails(g) => StepOK
           /\ \A a \in AdminChoices.admins : update_admin(a) => StepOK
           /\ \A b \in AdminChoices.mints :
                (update_whitelist_mint(b) => StepOK) /\ (update_discount_mint(b) => StepOK)
           /\ \A d \in AdminChoices.max_deposits : update_max_deposit(d) => StepOK
           /\ \A b \in AdminChoices.pauses :
                (update_exchange_paused(b) => StepOK) /\ (update_funding_paused(b) => StepOK)
           /\ disable_admin_controls_prices => StepOK
<1>1. state \in StateType
  BY InvParts
<1>2. ASSUME NEW r \in AdminChoices.margin_ratios, update_margin_ratio(r) PROVE StepOK
  <2>1. [state EXCEPT !.margin_ratio_initial = r.initial,
                      !.margin_ratio_partial = r.partial,
                      !.margin_ratio_maintenance = r.maintenance] \in StateType
    BY <1>1, AdminInputs DEF StateType
  <2> QED
    BY <1>2, <2>1, SetStateStep DEF update_margin_ratio
<1>3. ASSUME NEW r \in AdminChoices.percentages,
             update_partial_liquidation_close_percentage(r) PROVE StepOK
  <2>1. [state EXCEPT
            !.partial_liquidation_close_percentage_numerator = r.numerator,
            !.partial_liquidation_close_percentage_denominator = r.denominator] \in StateType
    BY <1>1, AdminInputs DEF StateType
  <2> QED
    BY <1>3, <2>1, SetStateStep DEF update_partial_liquidation_close_percentage
<1>4. ASSUME NEW r \in AdminChoices.percentages,
             update_partial_liquidation_penalty_percentage(r) PROVE StepOK
  <2>1. [state EXCEPT
            !.partial_liquidation_penalty_percentage_numerator = r.numerator,
            !.partial_liquidation_penalty_percentage_denominator = r.denominator] \in StateType
    BY <1>1, AdminInputs DEF StateType
  <2> QED
    BY <1>4, <2>1, SetStateStep DEF update_partial_liquidation_penalty_percentage
<1>5. ASSUME NEW r \in AdminChoices.percentages,
             update_full_liquidation_penalty_percentage(r) PROVE StepOK
  <2>1. [state EXCEPT
            !.full_liquidation_penalty_percentage_numerator = r.numerator,
            !.full_liquidation_penalty_percentage_denominator = r.denominator] \in StateType
    BY <1>1, AdminInputs DEF StateType
  <2> QED
    BY <1>5, <2>1, SetStateStep DEF update_full_liquidation_penalty_percentage
<1>6. ASSUME NEW d \in AdminChoices.share_denominators,
             update_partial_liquidation_liquidator_share_denominator(d) PROVE StepOK
  <2>1. [state EXCEPT !.partial_liquidation_liquidator_share_denominator = d] \in StateType
    BY <1>1, AdminInputs DEF StateType
  <2> QED
    BY <1>6, <2>1, SetStateStep DEF update_partial_liquidation_liquidator_share_denominator
<1>7. ASSUME NEW d \in AdminChoices.share_denominators,
             update_full_liquidation_liquidator_share_denominator(d) PROVE StepOK
  <2>1. [state EXCEPT !.full_liquidation_liquidator_share_denominator = d] \in StateType
    BY <1>1, AdminInputs DEF StateType
  <2> QED
    BY <1>7, <2>1, SetStateStep DEF update_full_liquidation_liquidator_share_denominator
<1>8. ASSUME NEW f \in AdminChoices.fee_structures, update_fee(f) PROVE StepOK
  <2>1. [state EXCEPT !.fee_structure = f] \in StateType
    BY <1>1, AdminInputs DEF StateType
  <2> QED
    BY <1>8, <2>1, SetStateStep DEF update_fee
<1>9. ASSUME NEW g \in AdminChoices.guard_rails, update_oracle_guard_rails(g) PROVE StepOK
  <2>1. [state EXCEPT !.oracle_guard_rails = g] \in StateType
    BY <1>1, AdminInputs DEF StateType
  <2> QED
    BY <1>9, <2>1, SetStateStep DEF update_oracle_guard_rails
<1>10. ASSUME NEW a \in AdminChoices.admins, update_admin(a) PROVE StepOK
  <2>1. [state EXCEPT !.admin = a] \in StateType
    BY <1>1, AdminInputs DEF StateType
  <2> QED
    BY <1>10, <2>1, SetStateStep DEF update_admin
<1>11. ASSUME NEW b \in AdminChoices.mints, update_whitelist_mint(b) PROVE StepOK
  <2>1. [state EXCEPT !.whitelist_mint = b] \in StateType
    BY <1>1, AdminInputs DEF StateType
  <2> QED
    BY <1>11, <2>1, SetStateStep DEF update_whitelist_mint
<1>12. ASSUME NEW b \in AdminChoices.mints, update_discount_mint(b) PROVE StepOK
  <2>1. [state EXCEPT !.discount_mint = b] \in StateType
    BY <1>1, AdminInputs DEF StateType
  <2> QED
    BY <1>12, <2>1, SetStateStep DEF update_discount_mint
<1>13. ASSUME NEW d \in AdminChoices.max_deposits, update_max_deposit(d) PROVE StepOK
  <2>1. [state EXCEPT !.max_deposit = d] \in StateType
    BY <1>1, AdminInputs DEF StateType
  <2> QED
    BY <1>13, <2>1, SetStateStep DEF update_max_deposit
<1>14. ASSUME NEW b \in AdminChoices.pauses, update_exchange_paused(b) PROVE StepOK
  <2>1. [state EXCEPT !.exchange_paused = b] \in StateType
    BY <1>1, AdminInputs DEF StateType
  <2> QED
    BY <1>14, <2>1, SetStateStep DEF update_exchange_paused
<1>15. ASSUME NEW b \in AdminChoices.pauses, update_funding_paused(b) PROVE StepOK
  <2>1. [state EXCEPT !.funding_paused = b] \in StateType
    BY <1>1, AdminInputs DEF StateType
  <2> QED
    BY <1>15, <2>1, SetStateStep DEF update_funding_paused
<1>16. ASSUME disable_admin_controls_prices PROVE StepOK
  <2>1. [state EXCEPT !.admin_controls_prices = FALSE] \in StateType
    BY <1>1 DEF StateType
  <2> QED
    BY <1>16, <2>1, SetStateStep DEF disable_admin_controls_prices
<1> QED
  BY <1>2, <1>3, <1>4, <1>5, <1>6, <1>7, <1>8, <1>9, <1>10, <1>11, <1>12, <1>13, <1>14,
     <1>15, <1>16

\* New history accounts are empty.
LEMMA EmptyHistory ==
    ASSUME NEW h \in HistoryType
    PROVE  [x \in DOMAIN h |-> 0] \in HistoryType
<1>1. DOMAIN h = {"deposit", "trade", "funding_payment", "funding_rate", "liquidation", "curve"}
  BY DEF HistoryType
<1>2. [x \in DOMAIN h |-> 0]
        = [deposit |-> 0, trade |-> 0, funding_payment |-> 0, funding_rate |-> 0,
           liquidation |-> 0, curve |-> 0]
  BY <1>1
<1> QED
  BY <1>2 DEF HistoryType

\* Every transaction of AdminStep keeps the invariant, and moves no position.
LEMMA AdminSteps == ASSUME Inv, AdminStep PROVE StepOK
<1>1. ASSUME NEW amount \in InsuranceWithdrawals, withdraw_from_insurance_vault(amount)
      PROVE  StepOK
  <2>1. /\ amount <= vault.insurance /\ vault' = [vault EXCEPT !.insurance = @ - amount]
        /\ UNCHANGED market /\ UNCHANGED <<state, user, positions, history, now>>
    BY <1>1 DEF withdraw_from_insurance_vault
  <2>2. amount \in Nat /\ vault \in VaultType
    BY InputsAssumption, InvParts
  <2>3. vault' \in VaultType
    BY <2>1, <2>2 DEF VaultType
  <2>4. market' \in MarketsType /\ MarketsSteady
    BY <2>1, MarketsUnchanged
  <2> QED
    BY <2>1, <2>3, <2>4, InvParts, StepParts
<1>2. ASSUME NEW a \in Admins, NEW b \in BOOLEAN, initialize(a, b) PROVE StepOK
  <2>1. /\ state' = initialized_state(a, b)
        /\ UNCHANGED market /\ UNCHANGED <<user, positions, vault, history, now>>
    BY <1>2 DEF initialize
  <2>2. state' \in StateType
    BY <2>1, InitializedState
  <2>3. market' \in MarketsType /\ MarketsSteady
    BY <2>1, MarketsUnchanged
  <2> QED
    BY <2>1, <2>2, <2>3, InvParts, StepParts
<1>3. ASSUME initialize_history PROVE StepOK
  <2>1. /\ state' = [state EXCEPT !.history_initialized = TRUE]
        /\ history' = [h \in DOMAIN history |-> 0]
        /\ UNCHANGED market /\ UNCHANGED <<user, positions, vault, now>>
    BY <1>3 DEF initialize_history
  <2>2. state' \in StateType
    BY <2>1, InvParts DEF StateType
  <2>3. history' \in HistoryType
    BY <2>1, InvParts, EmptyHistory
  <2>4. market' \in MarketsType /\ MarketsSteady
    BY <2>1, MarketsUnchanged
  <2> QED
    BY <2>1, <2>2, <2>3, <2>4, InvParts, StepParts
<1> QED
  BY <1>1, <1>2, <1>3, SetterSteps DEF AdminStep

(***************************************************************************)
(* The curve                                                               *)
(***************************************************************************)
\* An adjustment of one market that counts as a curve record or not.
LEMMA AdjustStep ==
    ASSUME Inv, NEW i \in Markets, NEW n, market[i].initialized,
           Adjusted(market[i], n) \/ Kept(market[i], n) \/ Funded(market[i], n),
           SameFee(market[i], n), market' = [market EXCEPT ![i] = n],
           history' \in HistoryType, vault' \in VaultType,
           UNCHANGED <<state, user, positions, now>>
    PROVE  StepOK /\ BooksKept
<1>1. market' \in MarketsType /\ MarketsSteady
  BY AdjustedSteady, OneMarket
<1>2. BooksKept
  BY OneKept DEF Adjusted, Kept, Still, Funded, SameCurve
<1> QED
  BY <1>1, <1>2, InvParts, StepParts

\* Appending a curve record keeps the type of the counters.
LEMMA CurveRecord ==
    ASSUME Inv, history' = [history EXCEPT !.curve = @ + 1]
    PROVE  history' \in HistoryType
BY InvParts DEF HistoryType

\* Adjustments compose.
LEMMA AdjustedTwice ==
    ASSUME NEW m, NEW n, NEW r, Adjusted(m, n), Adjusted(n, r)
    PROVE  Adjusted(m, r)
BY DEF Adjusted, SamePace, SameFee, SameSides

\* move_amm_price, repeg_amm_curve and update_k move k, the peg and the
\* reserves, but no position.
LEMMA CurveSteps == ASSUME Inv, CurveStep PROVE StepOK /\ BooksKept
<1> PICK i \in Markets :
        \/ \E r \in ReservePairs : move_amm_price(i, r.base, r.quote)
        \/ \E p \in PegCandidates, o \in OracleReadings : repeg_amm_curve(i, p, o)
        \/ \E k \in SqrtKs : update_k(i, k)
  BY DEF CurveStep
<1>1. Good(market[i]) /\ vault \in VaultType /\ history \in HistoryType
  BY InvParts
<1>2. ASSUME NEW x \in ReservePairs, move_amm_price(i, x.base, x.quote) PROVE StepOK /\ BooksKept
  <2>1. x.base \in Nat /\ x.quote \in Nat
    BY InputsAssumption
  <2>2. market[i].initialized /\ UNCHANGED <<state, user, positions, vault, history, now>>
    BY <1>2 DEF move_amm_price, market_initialized
  <2>3. PICK k \in 0..Larger(x.base, x.quote) :
            market' = [market EXCEPT ![i] = move_price(market[i], x.base, x.quote, k)]
    BY <1>2 DEF move_amm_price
  <2>4. k \in Nat
    BY <2>1 DEF Larger
  <2> DEFINE n == move_price(market[i], x.base, x.quote, k)
  <2>5. Adjusted(market[i], n)
    BY <1>1, <2>1, <2>4, MovePrice
  <2>6. market' = [market EXCEPT ![i] = n]
    BY <2>3
  <2> HIDE DEF n
  <2> QED
    BY <1>1, <2>2, <2>5, <2>6, AdjustStep DEF Adjusted, Kept
<1>3. ASSUME NEW p \in PegCandidates, NEW o \in OracleReadings, repeg_amm_curve(i, p, o)
      PROVE  StepOK /\ BooksKept
  <2> DEFINE m1 == [market[i] EXCEPT !.peg_multiplier = p]
             cost == adjust_peg_cost(market[i], p)
             n == pay_adjustment(m1, cost)
  <2>1. p \in Nat
    BY InputsAssumption
  <2>2. /\ market[i].initialized /\ base_asset_value_ok(market[i].base_asset_amount, market[i])
        /\ market' = [market EXCEPT ![i] = n]
        /\ history' = [history EXCEPT !.curve = @ + 1]
        /\ UNCHANGED <<state, user, positions, vault, now>>
    BY <1>3 DEF repeg_amm_curve, market_initialized
  <2>3. cost \in Int /\ Adjusted(market[i], m1)
    BY <1>1, <2>1, <2>2, PegCost
  <2> HIDE DEF cost, m1
  <2>4. Adjusted(m1, n)
    BY <2>3, PayAdjustment DEF Adjusted
  <2> HIDE DEF n
  <2>5. Adjusted(market[i], n)
    BY <2>3, <2>4, AdjustedTwice
  <2>6. history' \in HistoryType /\ vault' \in VaultType
    BY <1>1, <2>2, CurveRecord
  <2> QED
    BY <2>2, <2>5, <2>6, AdjustStep DEF Adjusted, Kept
<1>4. ASSUME NEW k \in SqrtKs, update_k(i, k) PROVE StepOK /\ BooksKept
  <2> DEFINE m1 == adjust_k(market[i], k)
             cost == adjust_k_cost(market[i], k)
             n == pay_adjustment(m1, cost)
  <2>1. k \in Nat
    BY InputsAssumption
  <2>2. /\ market[i].initialized /\ adjust_k_cost_ok(market[i], k)
        /\ market' = [market EXCEPT ![i] = n]
        /\ history' = [history EXCEPT !.curve = @ + 1]
        /\ UNCHANGED <<state, user, positions, vault, now>>
    BY <1>4 DEF update_k, market_initialized
  <2>3. cost \in Int
    BY <1>1, <2>1, <2>2, KCost
  <2>4. Adjusted(market[i], m1)
    BY <1>1, <2>1, <2>2, AdjustK DEF adjust_k_cost_ok
  <2> HIDE DEF cost, m1
  <2>5. Adjusted(m1, n)
    BY <2>3, <2>4, PayAdjustment DEF Adjusted
  <2> HIDE DEF n
  <2>6. Adjusted(market[i], n)
    BY <2>4, <2>5, AdjustedTwice
  <2>7. history' \in HistoryType /\ vault' \in VaultType
    BY <1>1, <2>2, CurveRecord
  <2> QED
    BY <2>2, <2>6, <2>7, AdjustStep DEF Adjusted, Kept
<1> QED
  BY <1>2, <1>3, <1>4

(***************************************************************************)
(* One market                                                              *)
(***************************************************************************)
\* Setting the oracle twap keeps the curve.
LEMMA SetOracleTwap ==
    ASSUME NEW m, Good(m), NEW twap \in Int, now \in Nat
    PROVE  Kept(m, set_oracle_twap(m, twap))
<1> DEFINE n == [m EXCEPT !.last_oracle_price_twap = twap, !.last_oracle_price_twap_ts = now]
<1>1. m \in MarketType
  BY DEF Good
<1>2. n \in MarketType
  BY <1>1 DEF MarketType
<1>3. IsNet(n) /\ SameCurve(m, n) /\ SamePace(m, n) /\ SameFee(m, n)
  BY <1>1 DEF Good, IsNet, SameCurve, SameSides, SameReserves, SamePace, SameFee, MarketType
<1>4. Distributed(n) = Distributed(m)
  BY <1>1 DEF Distributed, MarketType
<1> QED
  BY <1>2, <1>3, <1>4 DEF Kept, Still, Good, set_oracle_twap

\* So does each of the fields that the other transactions set.
LEMMA SetField ==
    ASSUME NEW m, Good(m), NEW x \in Nat, NEW source \in {"Pyth", "Switchboard"}
    PROVE  /\ Kept(m, [m EXCEPT !.total_fee_withdrawn = x])
           /\ Adjusted(m, [m EXCEPT !.total_fee_minus_distributions = x])
           /\ Adjusted(m, [m EXCEPT !.minimum_trade_size = x])
           /\ Kept(m, [m EXCEPT !.oracle_source = source])
<1>1. m \in MarketType
  BY DEF Good
<1>2. /\ [m EXCEPT !.total_fee_withdrawn = x] \in MarketType
      /\ [m EXCEPT !.total_fee_minus_distributions = x] \in MarketType
  BY <1>1 DEF MarketType
<1>3. /\ [m EXCEPT !.minimum_trade_size = x] \in MarketType
      /\ [m EXCEPT !.oracle_source = source] \in MarketType
  BY <1>1 DEF MarketType
<1> QED
  BY <1>1, <1>2, <1>3
     DEF Kept, Still, Adjusted, Good, IsNet, SameCurve, SameSides, SameReserves, SamePace,
         SameFee, Distributed, MarketType

\* The transactions of keepers and the admin on one market keep its curve.
LEMMA MarketSteps == ASSUME Inv, MarketStep PROVE StepOK /\ BooksKept
<1> PICK i \in Markets :
        \/ \E o \in OracleReadings : UpdateFundingRate(i, o)
        \/ \E o \in OracleReadings : update_amm_oracle_twap(i, o)
        \/ \E o \in OracleReadings : reset_amm_oracle_twap(i, o)
        \/ \E amount \in FeeWithdrawals : withdraw_fees(i, amount)
        \/ \E amount \in InsuranceWithdrawals : withdraw_from_insurance_vault_to_market(i, amount)
        \/ \E x \in MarketInits, o \in OracleReadings : initialize_market(i, x, o)
        \/ \E source \in AdminChoices.oracle_sources : update_market_oracle(i, source)
        \/ \E size \in TradeSizes : update_market_minimum_trade_size(i, size)
  BY DEF MarketStep
<1> DEFINE m == market[i]
<1>1. /\ Good(m) /\ Fresh(m) /\ m \in MarketType /\ vault \in VaultType
      /\ history \in HistoryType /\ now \in Nat /\ market \in MarketsType
  BY InvParts DEF Good
<1>2. /\ m.last_mark_price_twap \in Int /\ m.total_fee_withdrawn \in Nat
      /\ m.total_fee_minus_distributions \in Nat
  BY <1>1 DEF MarketType
<1>3. ASSUME NEW reading \in OracleReadings PROVE get_oracle_price(m, reading) \in OracleType
  BY InputsAssumption, OraclePrice
<1>4. ASSUME NEW reading \in OracleReadings, UpdateFundingRate(i, reading) PROVE StepOK /\ BooksKept
  <2> DEFINE o == get_oracle_price(m, reading)
             g == state.oracle_guard_rails
             paused == state.funding_paused
             n == update_funding_rate(m, o, now, g, paused)
  <2>1. /\ m.initialized /\ update_funding_rate_ok(m, o, now, g, paused)
        /\ market' = [market EXCEPT ![i] = n]
        /\ UNCHANGED <<state, user, positions, vault, now>>
    BY <1>4 DEF UpdateFundingRate, market_initialized
  <2>2. history' \in HistoryType
    BY <1>1, <1>4 DEF UpdateFundingRate, HistoryType
  <2>3. o \in OracleType
    BY <1>3
  <2> HIDE DEF m, o, g, paused
  <2>4. Funded(m, n) /\ SameFee(m, n)
    BY <1>1, <2>1, <2>3, FundingRate
  <2> HIDE DEF n
  <2> QED
    BY <1>1, <2>1, <2>2, <2>4, AdjustStep DEF m
<1>5. ASSUME NEW reading \in OracleReadings, update_amm_oracle_twap(i, reading) PROVE StepOK /\ BooksKept
  <2> DEFINE o == get_oracle_price(m, reading)
  <2>1. o.twap \in Int
    BY <1>3, <1>5 DEF OracleType
  <2>2. /\ m.initialized /\ UNCHANGED <<state, user, positions, vault, history, now>>
        /\ \/ market' = [market EXCEPT ![i] = set_oracle_twap(m, m.last_mark_price_twap)]
           \/ market' = [market EXCEPT ![i] = set_oracle_twap(m, o.twap)]
    BY <1>5 DEF update_amm_oracle_twap, market_initialized
  <2>3. Kept(m, set_oracle_twap(m, m.last_mark_price_twap))
    BY <1>1, <1>2, SetOracleTwap
  <2>4. Kept(m, set_oracle_twap(m, o.twap))
    BY <1>1, <2>1, SetOracleTwap
  <2> QED
    BY <1>1, <2>2, <2>3, <2>4, AdjustStep DEF Adjusted, Kept
<1>6. ASSUME NEW reading \in OracleReadings, reset_amm_oracle_twap(i, reading) PROVE StepOK /\ BooksKept
  <2>1. /\ m.initialized /\ UNCHANGED <<state, user, positions, vault, history, now>>
        /\ \/ market' = market
           \/ market' = [market EXCEPT ![i] = set_oracle_twap(m, m.last_mark_price_twap)]
    BY <1>6 DEF reset_amm_oracle_twap, market_initialized
  <2>2. Kept(m, set_oracle_twap(m, m.last_mark_price_twap))
    BY <1>1, <1>2, SetOracleTwap
  <2>3. CASE market' = market
    <3>1. market' \in MarketsType /\ MarketsSteady /\ BooksKept
      BY <2>3, MarketsUnchanged DEF BooksKept, SameFee, SameSides
    <3> QED
      BY <2>1, <3>1, InvParts, StepParts
  <2> QED
    BY <1>1, <2>1, <2>2, <2>3, AdjustStep DEF Adjusted, Kept
<1>7. ASSUME NEW amount \in FeeWithdrawals, withdraw_fees(i, amount) PROVE StepOK /\ BooksKept
  <2> DEFINE x == m.total_fee_withdrawn + amount
             n == [m EXCEPT !.total_fee_withdrawn = x]
  <2>1. amount \in Nat
    BY InputsAssumption
  <2>2. /\ m.initialized /\ amount <= vault.collateral
        /\ market' = [market EXCEPT ![i].total_fee_withdrawn = @ + amount]
        /\ vault' = [vault EXCEPT !.collateral = @ - amount]
        /\ UNCHANGED <<state, user, positions, history, now>>
    BY <1>7 DEF withdraw_fees, market_initialized
  <2>3. market' = [market EXCEPT ![i] = n]
    BY <2>2
  <2>4. x \in Nat
    BY <1>2, <2>1
  <2>5. vault' \in VaultType
    BY <1>1, <2>1, <2>2 DEF VaultType
  <2> HIDE DEF x
  <2>6. Kept(m, n)
    BY <1>1, <2>4, SetField
  <2> HIDE DEF n
  <2> QED
    BY <1>1, <2>2, <2>3, <2>5, <2>6, AdjustStep DEF Adjusted, Kept
<1>8. ASSUME NEW amount \in InsuranceWithdrawals,
             withdraw_from_insurance_vault_to_market(i, amount) PROVE StepOK /\ BooksKept
  <2> DEFINE x == m.total_fee_minus_distributions + amount
             n == [m EXCEPT !.total_fee_minus_distributions = x]
  <2>1. amount \in Nat
    BY InputsAssumption
  <2>2. /\ m.initialized /\ amount <= vault.insurance
        /\ market' = [market EXCEPT ![i].total_fee_minus_distributions = @ + amount]
        /\ vault' = [collateral |-> vault.collateral + amount,
                     insurance |-> vault.insurance - amount]
        /\ UNCHANGED <<state, user, positions, history, now>>
    BY <1>8 DEF withdraw_from_insurance_vault_to_market, market_initialized
  <2>3. market' = [market EXCEPT ![i] = n]
    BY <2>2
  <2>4. x \in Nat
    BY <1>2, <2>1
  <2>5. vault' \in VaultType
    BY <1>1, <2>1, <2>2 DEF VaultType
  <2> HIDE DEF x
  <2>6. Adjusted(m, n)
    BY <1>1, <2>4, SetField
  <2> HIDE DEF n
  <2> QED
    BY <1>1, <2>2, <2>3, <2>5, <2>6, AdjustStep DEF Adjusted, Kept
<1>9. ASSUME NEW x \in MarketInits, NEW o \in OracleReadings, initialize_market(i, x, o)
      PROVE  StepOK /\ BooksKept
  <2> DEFINE n == initialized_market(x, o, now)
  <2>1. /\ ~m.initialized /\ x.reserve > 0 /\ market' = [market EXCEPT ![i] = n]
        /\ UNCHANGED <<state, user, positions, vault, history, now>>
    BY <1>9 DEF initialize_market
  <2>2. x \in MarketInitType /\ o \in OracleType
    BY InputsAssumption
  <2>3. /\ Good(n) /\ n.initialized /\ n.base_asset_amount = 0
        /\ n.base_asset_amount_long = 0 /\ n.base_asset_amount_short = 0
        /\ n.total_fee = 0 /\ n.total_fee_minus_distributions = 0
    BY <1>1, <2>1, <2>2, InitializedMarket
  <2> HIDE DEF n
  <2>4. Steady(m, n)
    BY <1>1, <2>1, <2>3, NothingReceived DEF Steady, Fresh
  <2>5. market' \in MarketsType /\ MarketsSteady
    BY <2>1, <2>4, OneMarket
  <2>6. BooksKept
    BY <1>1, <2>1, <2>3, OneKept DEF Fresh, SameFee, SameSides
  <2> QED
    BY <2>1, <2>5, <2>6, InvParts, StepParts
<1>10. ASSUME NEW source \in AdminChoices.oracle_sources, update_market_oracle(i, source)
       PROVE  StepOK /\ BooksKept
  <2>1. source \in {"Pyth", "Switchboard"}
    BY AdminInputs
  <2>2. Kept(m, [m EXCEPT !.oracle_source = source])
    BY <1>1, <1>2, <2>1, SetField
  <2> QED
    BY <1>10, <2>2, SetMarketStep DEF update_market_oracle
<1>11. ASSUME NEW size \in TradeSizes, update_market_minimum_trade_size(i, size) PROVE StepOK /\ BooksKept
  <2>1. size \in Nat
    BY InputsAssumption
  <2>2. Adjusted(m, [m EXCEPT !.minimum_trade_size = size])
    BY <1>1, <2>1, SetField
  <2> QED
    BY <1>11, <2>2, SetMarketStep DEF update_market_minimum_trade_size
<1> QED
  BY <1>4, <1>5, <1>6, <1>7, <1>8, <1>9, <1>10, <1>11

(***************************************************************************)
(* Accounts and collateral                                                 *)
(***************************************************************************)
\* The parts of a user and of the positions of a user.
LEMMA UserParts ==
    ASSUME Inv, NEW u \in Users
    PROVE  /\ user[u] \in UserType /\ user[u].collateral \in Nat
           /\ user[u].cumulative_deposits \in Int /\ positions[u] \in SlotsType
           /\ settled_positions(positions[u], market) \in SlotsType
           /\ settled_collateral(user[u].collateral, positions[u], market) \in Nat
<1>1. user[u] \in UserType /\ positions[u] \in SlotsType /\ market \in MarketsType
  BY InvParts
<1>2. user[u].collateral \in Nat /\ user[u].cumulative_deposits \in Int
  BY <1>1 DEF UserType
<1> QED
  BY <1>1, <1>2, SettledPositions, SettledCollateral

\* A step that changes the account of one user and their positions.
LEMMA UserChange ==
    ASSUME Inv, NEW u \in Users, NEW x \in UserType, NEW ps \in SlotsType,
           user' = [user EXCEPT ![u] = x], positions' = [positions EXCEPT ![u] = ps],
           vault' \in VaultType, history' \in HistoryType, UNCHANGED <<state, market, now>>
    PROVE  StepOK
<1>1. user' \in [Users -> UserType] /\ positions' \in [Users -> SlotsType]
  BY InvParts
<1>2. market' \in MarketsType /\ MarketsSteady
  BY MarketsUnchanged
<1> QED
  BY <1>1, <1>2, InvParts, StepParts

\* A transaction on the account of u that leaves it with the positions ps: it
\* opens and closes no account, and does not touch one that does not exist.
Touches(u, ps) ==
    /\ Running /\ Account(u) /\ UNCHANGED state
    /\ positions' = [positions EXCEPT ![u] = ps]
    /\ \A v \in Users : /\ user'[v].initialized = user[v].initialized
                        /\ ~user[v].initialized => user'[v] = user[v]

Settled(u) == settled_positions(positions[u], market)

\* The markets book what the positions of u change by.
Booked(u) ==
    \A j \in Markets : Books(market[j], positions[u], market'[j], positions'[u], j)

BookedExactly(u) ==
    \A j \in Markets : Balances(market[j], positions[u], market'[j], positions'[u], j)

SamePaid(x, y) ==
    /\ y.total_fee_paid = x.total_fee_paid
    /\ y.total_referral_reward = x.total_referral_reward

\* No fee is paid, collected or rewarded.
FeesKept ==
    /\ \A j \in Markets : SameFee(market[j], market'[j])
    /\ \A v \in Users : SamePaid(user[v], user'[v])

\* User u pays a fee, which is shared by a market and a referrer.
FeesCharged(u) ==
    \E i \in Markets, w \in Users, fee \in FeeType :
        /\ fee.user_fee = fee.fee_to_market + fee.referrer_reward
        /\ \A j \in Markets :
              market'[j].total_fee
                = market[j].total_fee + (IF j = i THEN fee.fee_to_market ELSE 0)
        /\ \A v \in Users :
              /\ user'[v].total_fee_paid
                    = user[v].total_fee_paid + (IF v = u THEN fee.user_fee ELSE 0)
              /\ user'[v].total_referral_reward
                    = user[v].total_referral_reward + (IF v = w THEN fee.referrer_reward ELSE 0)

\* A partial liquidation closes less than the whole, and the reserves of every
\* market are on its curve, above a minimum trade size.
Regular ==
    /\ state.initialized => ClosesLess
    /\ AllTame(market)

\* Such a transaction that moves money and settles the funding of u.
Settles(u) ==
    /\ Touches(u, Settled(u)) /\ UNCHANGED market
    /\ UNCHANGED history.liquidation
    /\ Booked(u) /\ BookedExactly(u) /\ FeesKept
    /\ state.exchange_paused =>
         \A v \in Users : user'[v].cumulative_deposits >= user[v].cumulative_deposits

\* One that trades for u: the slot of the trade is left with a position in its market.
Trades(u) ==
    \E i \in Markets, p \in PositionType :
        /\ SlotsFor(Settled(u), i) # {} \/ FreeSlots(Settled(u)) # {}
        /\ p.market_index = i
        /\ Touches(u, [Settled(u) EXCEPT ![TradeSlot(Settled(u), i)] = p])
        /\ UNCHANGED history.liquidation
        /\ ~state.exchange_paused
        /\ Booked(u) /\ FeesCharged(u)
        /\ Regular => PaidUp(positions'[u], market) /\ BookedExactly(u) /\ AllTame(market')

\* One that liquidates u.
Liquidates(u) ==
    \E ps \in SlotsType :
        /\ Touches(u, ps)
        /\ OnlyCloses(Settled(u), ps)
        /\ Liquidatable(u)
        /\ ~state.exchange_paused
        /\ Booked(u) /\ FeesKept
        /\ Regular => /\ PaidUp(ps, market) /\ Shrinks(Settled(u), ps)
                      /\ BookedExactly(u) /\ AllTame(market')

\* One that opens the account of u, which did not exist, or closes it.
Resets(u) ==
    /\ positions' = [positions EXCEPT ![u] = BlankPositions]
    /\ \/ user' = [user EXCEPT ![u] = BlankUser]
       \/ ~Account(u) /\ user' = [user EXCEPT ![u] = [BlankUser EXCEPT !.initialized = TRUE]]
    /\ UNCHANGED <<state, market, history>>

\* Settling the funding changes neither the market nor the size of a position.
LEMMA SettledSlots ==
    ASSUME NEW ps \in SlotsType, NEW mk, NEW s \in Slots
    PROVE  /\ settled_positions(ps, mk)[s].market_index = ps[s].market_index
           /\ settled_positions(ps, mk)[s].base_asset_amount = ps[s].base_asset_amount
<1>1. ps[s] \in PositionType
  BY DEF SlotsType
<1>2. settled_positions(ps, mk)[s] = settled_position(ps[s], mk)
  BY DEF settled_positions
<1>3. ASSUME NEW p \in PositionType, NEW rate, NEW ts
      PROVE  LET q == [p EXCEPT !.last_cumulative_funding_rate = rate,
                                !.last_funding_rate_ts = ts]
             IN  q.market_index = p.market_index /\ q.base_asset_amount = p.base_asset_amount
  BY DEF PositionType
<1> QED
  BY <1>1, <1>2, <1>3 DEF settled_position

\* Nor is there anything to book.
LEMMA SettledBooks ==
    ASSUME NEW ps \in SlotsType, NEW mk, NEW i, NEW m, Good(m), NEW n,
           n.base_asset_amount = m.base_asset_amount, SameSides(m, n)
    PROVE  /\ Books(m, ps, n, settled_positions(ps, mk), i)
           /\ Balances(m, ps, n, settled_positions(ps, mk), i)
<1> DEFINE qs == settled_positions(ps, mk)
<1>1. ASSUME NEW s \in Slots PROVE BaseIn(qs[s], i) = BaseIn(ps[s], i)
  BY SettledSlots DEF BaseIn
<1> HIDE DEF qs
<1>2. Books(m, ps, n, qs, i) /\ Balances(m, ps, n, qs, i)
  BY <1>1, BooksSame
<1> QED
  BY <1>2 DEF qs

\* A transaction that settles the funding of u, and moves no market and no fee.
LEMMA SettlesOnly ==
    ASSUME Inv, NEW u \in Users, NEW x,
           user' = [user EXCEPT ![u] = x], positions' = [positions EXCEPT ![u] = Settled(u)],
           UNCHANGED market, x.total_fee_paid = user[u].total_fee_paid,
           x.total_referral_reward = user[u].total_referral_reward
    PROVE  Booked(u) /\ BookedExactly(u) /\ FeesKept
<1>1. /\ user \in [Users -> UserType] /\ positions \in [Users -> SlotsType]
      /\ positions[u] \in SlotsType /\ \A j \in Markets : Good(market[j])
  BY InvParts
<1>2. positions'[u] = settled_positions(positions[u], market)
  BY <1>1 DEF Settled
<1>3. Booked(u) /\ BookedExactly(u)
  BY <1>1, <1>2, SettledBooks DEF Booked, BookedExactly, SameSides
<1>4. user'[u] = x /\ \A v \in Users \ {u} : user'[v] = user[v]
  BY <1>1
<1> QED
  BY <1>3, <1>4 DEF FeesKept, SameFee, SamePaid

\* Changing the account of u alone touches no other.
LEMMA TouchesOne ==
    ASSUME Inv, NEW u \in Users, NEW x \in UserType, NEW ps, Running, Account(u), x.initialized,
           user' = [user EXCEPT ![u] = x], positions' = [positions EXCEPT ![u] = ps],
           UNCHANGED state
    PROVE  /\ Touches(u, ps)
           /\ user'[u] = x /\ \A v \in Users \ {u} : user'[v] = user[v]
<1>1. user \in [Users -> UserType]
  BY InvParts
<1>2. user'[u] = x /\ \A v \in Users \ {u} : user'[v] = user[v]
  BY <1>1
<1>3. user[u].initialized \in BOOLEAN /\ x.initialized \in BOOLEAN
  BY <1>1 DEF UserType
<1>4. user[u].initialized = x.initialized
  BY <1>3 DEF Account
<1> QED
  BY <1>2, <1>4 DEF Touches, Account

\* deposit_collateral and withdraw_collateral count their records.
LEMMA DepositRecords ==
    ASSUME NEW h \in HistoryType, NEW k \in Nat
    PROVE  [h EXCEPT !.deposit = @ + 1, !.funding_payment = @ + k] \in HistoryType
<1> DEFINE a == h.deposit + 1
           b == h.funding_payment + k
<1>1. a \in Nat /\ b \in Nat
  BY DEF HistoryType
<1> HIDE DEF a, b
<1>2. [h EXCEPT !.deposit = a, !.funding_payment = b] \in HistoryType
  BY <1>1 DEF HistoryType
<1> QED
  BY <1>2 DEF a, b

\* deposit_collateral settles the user's funding and credits the amount.
LEMMA DepositStep ==
    ASSUME Inv, NEW u \in Users, NEW amount \in Nat, deposit_collateral(u, amount)
    PROVE  StepOK /\ Settles(u)
<1> DEFINE c == settled_collateral(user[u].collateral + amount, positions[u], market)
           d == user[u].cumulative_deposits + amount
           x == [user[u] EXCEPT !.collateral = c, !.cumulative_deposits = d]
           ps == settled_positions(positions[u], market)
           k == funding_payment_records(positions[u], market)
<1>1. /\ user' = [user EXCEPT ![u].collateral = c, ![u].cumulative_deposits = d]
      /\ positions' = [positions EXCEPT ![u] = ps]
      /\ vault' = [vault EXCEPT !.collateral = @ + amount]
      /\ history' = [history EXCEPT !.deposit = @ + 1, !.funding_payment = @ + k]
      /\ UNCHANGED <<state, market, now>>
  BY DEF deposit_collateral
<1>2. Running /\ Account(u)
  BY DEF deposit_collateral
<1>3. user[u] \in UserType /\ ps \in SlotsType
  BY UserParts
<1>4. c \in Nat /\ d \in Int
  <2>1. user[u].collateral + amount \in Nat /\ d \in Int
    BY UserParts
  <2>2. positions[u] \in SlotsType /\ market \in MarketsType
    BY UserParts, InvParts
  <2> QED
    BY <2>1, <2>2, SettledCollateral
<1>5. k \in Nat
  BY PaymentRecords
<1> HIDE DEF c, d, k
<1>6. x \in UserType
  BY <1>3, <1>4 DEF UserType
<1>7. user' = [user EXCEPT ![u] = x]
  BY <1>1
<1>8. vault' \in VaultType
  BY <1>1, InvParts DEF VaultType
<1>9. history' \in HistoryType
  BY <1>1, <1>5, InvParts, DepositRecords
<1>10. /\ x.total_fee_paid = user[u].total_fee_paid
       /\ x.total_referral_reward = user[u].total_referral_reward
  BY <1>3 DEF UserType
<1>11. x.initialized /\ x.cumulative_deposits >= user[u].cumulative_deposits
  <2>1. user[u].cumulative_deposits \in Int /\ d = user[u].cumulative_deposits + amount
    BY UserParts DEF d
  <2> QED
    BY <1>2, <1>3, <1>4, <2>1 DEF UserType, Account
<1>12. UNCHANGED history.liquidation
  BY <1>1, InvParts DEF HistoryType
<1>13. ps = Settled(u)
  BY DEF Settled
<1> HIDE DEF x, ps
<1>14. Touches(u, ps) /\ user'[u] = x /\ \A v \in Users \ {u} : user'[v] = user[v]
  BY <1>1, <1>2, <1>6, <1>7, <1>11, TouchesOne
<1>15. \A v \in Users : user'[v].cumulative_deposits >= user[v].cumulative_deposits
  BY <1>11, <1>14, UserParts
<1>16. Booked(u) /\ BookedExactly(u) /\ FeesKept
  BY <1>1, <1>7, <1>13, <1>10, SettlesOnly
<1> QED
  BY <1>1, <1>3, <1>6, <1>7, <1>8, <1>9, <1>12, <1>13, <1>14, <1>15, <1>16, UserChange
     DEF Settles

\* A withdrawal takes no vault and no user below zero.
LEMMA WithdrawStep ==
    ASSUME Inv, NEW u \in Users, NEW amount \in Nat, withdraw_collateral(u, amount)
    PROVE  StepOK /\ Settles(u)
<1> DEFINE c == settled_collateral(user[u].collateral, positions[u], market)
           w == calculate_withdrawal_amounts(amount, vault.collateral, vault.insurance)
           rest == c - w.collateral - w.insurance
           d == user[u].cumulative_deposits - (w.collateral + w.insurance)
           x == [user[u] EXCEPT !.collateral = rest, !.cumulative_deposits = d]
           ps == settled_positions(positions[u], market)
           k == funding_payment_records(positions[u], market)
<1>1. /\ amount <= c
      /\ user' = [user EXCEPT ![u].collateral = rest, ![u].cumulative_deposits = d]
      /\ positions' = [positions EXCEPT ![u] = ps]
      /\ vault' = [collateral |-> vault.collateral - w.collateral,
                   insurance |-> vault.insurance - w.insurance]
      /\ history' = [history EXCEPT !.deposit = @ + 1, !.funding_payment = @ + k]
      /\ UNCHANGED <<state, market, now>>
  BY DEF withdraw_collateral
<1>2. Running /\ Account(u) /\ ~state.exchange_paused
  BY DEF withdraw_collateral, exchange_not_paused
<1>3. /\ user[u] \in UserType /\ ps \in SlotsType /\ c \in Nat
      /\ user[u].cumulative_deposits \in Int
  BY UserParts
<1>4. vault.collateral \in Nat /\ vault.insurance \in Nat
  BY InvParts DEF VaultType
<1>5. /\ w.collateral \in Nat /\ w.insurance \in Nat
      /\ w.collateral <= vault.collateral /\ w.insurance <= vault.insurance
      /\ w.collateral + w.insurance <= amount
  BY <1>4, Withdrawal
<1>6. k \in Nat
  BY PaymentRecords
<1> HIDE DEF c, w, k
<1>7. rest \in Nat /\ d \in Int
  BY <1>1, <1>3, <1>5
<1>8. vault' \in VaultType
  BY <1>1, <1>4, <1>5 DEF VaultType
<1> HIDE DEF rest, d
<1>9. x \in UserType
  BY <1>3, <1>7 DEF UserType
<1>10. user' = [user EXCEPT ![u] = x]
  BY <1>1
<1>11. history' \in HistoryType
  BY <1>1, <1>6, InvParts, DepositRecords
<1>12. /\ x.initialized /\ x.total_fee_paid = user[u].total_fee_paid
       /\ x.total_referral_reward = user[u].total_referral_reward
  BY <1>2, <1>3 DEF UserType, Account
<1>13. UNCHANGED history.liquidation
  BY <1>1, InvParts DEF HistoryType
<1>14. ps = Settled(u)
  BY DEF Settled
<1> HIDE DEF x, ps
<1>15. Touches(u, ps)
  BY <1>1, <1>2, <1>9, <1>10, <1>12, TouchesOne
<1>16. Booked(u) /\ BookedExactly(u) /\ FeesKept
  BY <1>1, <1>10, <1>12, <1>14, SettlesOnly
<1> QED
  BY <1>1, <1>2, <1>3, <1>8, <1>9, <1>10, <1>11, <1>13, <1>14, <1>15, <1>16, UserChange
     DEF Settles

\* settle_funding_payment changes one user's collateral and no position's size.
LEMMA SettleStep ==
    ASSUME Inv, NEW u \in Users, settle_funding_payment(u)
    PROVE  StepOK /\ Settles(u)
<1> DEFINE c == settled_collateral(user[u].collateral, positions[u], market)
           x == [user[u] EXCEPT !.collateral = c]
           ps == settled_positions(positions[u], market)
           k == funding_payment_records(positions[u], market)
<1>1. /\ user' = [user EXCEPT ![u].collateral = c]
      /\ positions' = [positions EXCEPT ![u] = ps]
      /\ history' = [history EXCEPT !.funding_payment = @ + k]
      /\ UNCHANGED <<state, market, vault, now>>
  BY DEF settle_funding_payment
<1>2. Running /\ Account(u) /\ ~state.exchange_paused
  BY DEF settle_funding_payment, exchange_not_paused
<1>3. user[u] \in UserType /\ ps \in SlotsType /\ c \in Nat
  BY UserParts
<1>4. k \in Nat
  BY PaymentRecords
<1> HIDE DEF c, k
<1>5. x \in UserType
  BY <1>3 DEF UserType
<1>6. user' = [user EXCEPT ![u] = x]
  BY <1>1
<1>7. history' \in HistoryType /\ vault' \in VaultType
  BY <1>1, <1>4, InvParts DEF HistoryType
<1>8. /\ x.initialized /\ x.total_fee_paid = user[u].total_fee_paid
      /\ x.total_referral_reward = user[u].total_referral_reward
  BY <1>2, <1>3 DEF UserType, Account
<1>9. UNCHANGED history.liquidation
  BY <1>1, InvParts DEF HistoryType
<1>10. ps = Settled(u)
  BY DEF Settled
<1> HIDE DEF x, ps
<1>11. Touches(u, ps)
  BY <1>1, <1>2, <1>5, <1>6, <1>8, TouchesOne
<1>12. Booked(u) /\ BookedExactly(u) /\ FeesKept
  BY <1>1, <1>6, <1>8, <1>10, SettlesOnly
<1> QED
  BY <1>1, <1>2, <1>3, <1>5, <1>6, <1>7, <1>9, <1>10, <1>11, <1>12, UserChange DEF Settles

\* initialize_user and delete_user leave a blank account.
LEMMA AccountStep ==
    ASSUME Inv, NEW u \in Users, NEW b, initialize_user(u, b) \/ delete_user(u)
    PROVE  StepOK /\ Resets(u)
<1> DEFINE opened == [BlankUser EXCEPT !.initialized = TRUE]
<1>1. PICK x \in {opened, BlankUser} :
        /\ user' = [user EXCEPT ![u] = x]
        /\ positions' = [positions EXCEPT ![u] = BlankPositions]
        /\ UNCHANGED <<state, market, vault, history, now>>
  BY DEF initialize_user, delete_user
<1>2. opened \in UserType /\ BlankUser \in UserType /\ BlankPositions \in SlotsType
  BY BlankAccounts DEF UserType
<1>3. x \in UserType
  BY <1>1, <1>2
<1>4. history' \in HistoryType /\ vault' \in VaultType
  BY <1>1, InvParts
<1>5. Resets(u)
  BY DEF initialize_user, delete_user, Resets
<1> QED
  BY <1>1, <1>2, <1>3, <1>4, <1>5, UserChange

(***************************************************************************)
(* Trading                                                                 *)
(***************************************************************************)
\* Refreshing the oracle twap keeps the curve.
LEMMA RefreshTwap ==
    ASSUME NEW m, Good(m), NEW o \in OracleType, mark_price_ok(m), now \in Nat
    PROVE  Kept(m, refresh_oracle_twap(m, o))
<1>1. oracle_processed(m, o) \in Int
  BY OracleProcessed DEF Good
<1>2. Kept(m, update_oracle_price_twap(m, now, oracle_processed(m, o)))
  BY <1>1, OracleTwap
<1> QED
  BY <1>2, KeptSame DEF refresh_oracle_twap

\* A step that keeps the reserves, k and the minimum trade size.
SameShape(m, n) ==
    SameReserves(m, n) /\ n.sqrt_k = m.sqrt_k /\ n.minimum_trade_size = m.minimum_trade_size

\* It leaves the reserves where they are on the curve.
LEMMA ShapeTame == ASSUME NEW m, NEW n, Tame(m), SameShape(m, n) PROVE Tame(n)
BY SameIsOnCurve DEF Tame, SameShape

\* So does one that keeps the curve.
LEMMA CurveTame == ASSUME NEW m, NEW n, Tame(m), SameCurve(m, n) PROVE Tame(n)
BY ShapeTame DEF SameShape, SameCurve

\* A trade between two of them takes them along it, when the market has a price.
LEMMA TradeTame ==
    ASSUME NEW m, NEW a, NEW b, NEW c, Kept(m, a), Follows(a, b), mark_price_ok(b),
           Funded(b, c), Tame(m)
    PROVE  Tame(c)
<1>1. Tame(a)
  BY CurveTame DEF Kept, Still
<1>2. OnCurve(b)
  BY <1>1, SameIsOnCurve DEF Follows, Mirrors, Lands, Tame
<1>3. Tame(b)
  BY <1>1, <1>2 DEF Follows, SameTerms, Tame
<1> QED
  BY <1>3, CurveTame DEF Funded

\* A step that leaves one market with its reserves on the curve.
LEMMA OneTame ==
    ASSUME Inv, NEW i \in Markets, NEW n, market' = [market EXCEPT ![i] = n], Tame(n),
           AllTame(market)
    PROVE  AllTame(market')
<1>1. market \in MarketsType
  BY InvParts
<1>2. market'[i] = n /\ \A j \in Markets \ {i} : market'[j] = market[j]
  BY <1>1 DEF MarketsType
<1> QED
  BY <1>2 DEF AllTame

\* A trade between steps that keep the curve is a steady step, when it leaves
\* the market with a price.
LEMMA TradeSteady ==
    ASSUME NEW m, NEW a, NEW b, NEW c, m.initialized, Kept(m, a), Follows(a, b),
           mark_price_ok(b), Funded(b, c), Good(m), Good(a), Good(b)
    PROVE  Steady(m, c)
<1>1. Good(c) /\ c.initialized
  BY DEF Kept, Still, Funded, SameCurve, Follows
<1>2. Mirrors(m, c)
  BY DEF Kept, Still, Funded, SameCurve, SameReserves, Follows, Mirrors
<1>3. Paced(m, c)
  <2>1. SamePace(m, b)
    BY DEF Kept, Still, Follows, SamePace
  <2>2. Distributed(b) = Distributed(m)
    BY DEF Kept, Still, Follows, SameTerms, SameFee, Distributed
  <2>3. FundingReceived(m, c) = FundingReceived(b, c)
    BY <2>1, <2>2, SameReceived
  <2> QED
    BY <2>1, <2>3 DEF Funded, Paced, SamePace
<1>4. c.base_asset_amount # m.base_asset_amount => OnCurve(c)
  <2>1. SUFFICES ASSUME c.base_asset_amount # m.base_asset_amount PROVE OnCurve(c)
    OBVIOUS
  <2>2. b.base_asset_amount # a.base_asset_amount /\ SameReserves(b, c) /\ c.sqrt_k = b.sqrt_k
    BY <2>1 DEF Kept, Still, Funded, SameCurve
  <2>3. ~SameReserves(a, b)
    <3>1. b.base_asset_reserve + b.base_asset_amount
            = a.base_asset_reserve + a.base_asset_amount
      BY DEF Follows, Mirrors
    <3>2. /\ a.base_asset_reserve \in Nat /\ b.base_asset_reserve \in Nat
          /\ a.base_asset_amount \in Int /\ b.base_asset_amount \in Int
      BY DEF Good, MarketType
    <3> QED
      BY <2>2, <3>1, <3>2 DEF SameReserves
  <2>4. OnCurve(b)
    BY <2>3 DEF Follows, Lands
  <2> QED
    BY <2>2, <2>4, SameIsOnCurve
<1> QED
  BY <1>1, <1>2, <1>3, <1>4 DEF Steady, Fresh, Paced, SamePace

\* Charging a fee leaves every user well-typed: the payer's collateral stops at zero.
LEMMA ChargeFee ==
    ASSUME Inv, NEW u \in Users, NEW c \in Nat, NEW fee \in FeeType, NEW referrer
    PROVE  /\ charge_fee(u, c, fee, referrer) \in [Users -> UserType]
           /\ \A v \in Users :
                /\ charge_fee(u, c, fee, referrer)[v].initialized = user[v].initialized
                /\ v \notin referrer \cup {u} => charge_fee(u, c, fee, referrer)[v] = user[v]
                /\ charge_fee(u, c, fee, referrer)[v].total_fee_paid
                      = user[v].total_fee_paid + (IF v = u THEN fee.user_fee ELSE 0)
                /\ charge_fee(u, c, fee, referrer)[v].total_referral_reward
                      = user[v].total_referral_reward
                            + (IF v \in referrer \ {u} THEN fee.referrer_reward ELSE 0)
<1> DEFINE rest == Larger(0, c - fee.user_fee)
           paid(v) == user[v].total_fee_paid + fee.user_fee
           token(v) == user[v].total_token_discount + fee.token_discount
           referee(v) == user[v].total_referee_discount + fee.referee_discount
           reward(v) == user[v].total_referral_reward + fee.referrer_reward
           payer(v) == [user[v] EXCEPT !.collateral = rest, !.total_fee_paid = paid(v),
                                       !.total_token_discount = token(v),
                                       !.total_referee_discount = referee(v)]
           referring(v) == [user[v] EXCEPT !.total_referral_reward = reward(v)]
<1>1. /\ fee.user_fee \in Nat /\ fee.token_discount \in Nat /\ fee.referee_discount \in Nat
      /\ fee.referrer_reward \in Nat
  BY DEF FeeType
<1>2. rest \in Nat
  BY <1>1 DEF Larger
<1>3. charge_fee(u, c, fee, referrer) =
        [v \in Users |-> IF v = u THEN payer(v) ELSE IF v \in referrer THEN referring(v)
                                              ELSE user[v]]
  BY DEF charge_fee
<1>4. ASSUME NEW v \in Users
      PROVE  /\ payer(v) \in UserType /\ referring(v) \in UserType /\ user[v] \in UserType
             /\ payer(v).initialized = user[v].initialized
             /\ referring(v).initialized = user[v].initialized
             /\ payer(v).total_fee_paid = paid(v)
             /\ payer(v).total_referral_reward = user[v].total_referral_reward
             /\ referring(v).total_fee_paid = user[v].total_fee_paid
             /\ referring(v).total_referral_reward = reward(v)
             /\ user[v].total_fee_paid \in Nat /\ user[v].total_referral_reward \in Nat
  <2>1. user[v] \in UserType
    BY UserParts
  <2>2. /\ paid(v) \in Nat /\ token(v) \in Nat /\ referee(v) \in Nat /\ reward(v) \in Nat
    BY <1>1, <2>1 DEF UserType
  <2> HIDE DEF rest, paid, token, referee, reward
  <2> QED
    BY <1>2, <2>1, <2>2 DEF UserType
<1> HIDE DEF payer, referring
<1> QED
  BY <1>1, <1>3, <1>4

\* The records of a trade are counted.
LEMMA TradeRecords ==
    ASSUME Inv, NEW u, NEW m, NEW o
    PROVE  /\ trade_records(u, m, o) \in HistoryType
           /\ trade_records(u, m, o).liquidation = history.liquidation
<1> DEFINE due == funding_due(m, o, now, state.oracle_guard_rails, state.funding_paused)
           a == history.trade + 1
           b == history.funding_payment + funding_payment_records(positions[u], market)
           c == IF due THEN history.funding_rate + 1 ELSE history.funding_rate
<1>1. history \in HistoryType
  BY InvParts
<1>2. funding_payment_records(positions[u], market) \in Nat
  BY PaymentRecords
<1>3. a \in Nat /\ b \in Nat /\ c \in Nat
  BY <1>1, <1>2 DEF HistoryType
<1>4. trade_records(u, m, o) =
        [history EXCEPT !.trade = a, !.funding_payment = b, !.funding_rate = c]
  BY DEF trade_records
<1> HIDE DEF a, b, c
<1> QED
  BY <1>1, <1>3, <1>4 DEF HistoryType

\* The slot of a trade holds the position that the trade starts from, or none.
LEMMA TradeSlotBase ==
    ASSUME NEW ps \in SlotsType, NEW i \in Markets,
           SlotsFor(ps, i) # {} \/ FreeSlots(ps) # {}
    PROVE  LET old == ps[TradeSlot(ps, i)]
           IN  /\ BaseIn(old, i) = TradePosition(ps, i).base_asset_amount
               /\ \A j \in Markets \ {i} : BaseIn(old, j) = 0
<1> DEFINE old == ps[TradeSlot(ps, i)]
<1>1. \/ is_for(old, i)
      \/ ~is_for(old, i) /\ ~is_open_position(old)
  BY TradeSlotChoice DEF SlotsFor, FreeSlots
<1>2. new_market_position(i).base_asset_amount = 0
  BY DEF new_market_position
<1>3. CASE is_for(old, i)
  BY <1>3 DEF TradePosition, is_for, BaseIn
<1>4. CASE ~is_for(old, i) /\ ~is_open_position(old)
  BY <1>2, <1>4 DEF TradePosition, is_open_position, BaseIn
<1> QED
  BY <1>1, <1>3, <1>4

\* The market books what the trade does to the position, and the other markets
\* notice nothing.
LEMMA TradeBooked ==
    ASSUME Inv, NEW u \in Users, NEW i \in Markets, NEW n, NEW t, NEW r, NEW ps, ps = Settled(u),
           SlotsFor(ps, i) # {} \/ FreeSlots(ps) # {}, Sound(t), SoundStep(t, r),
           t.p.market_index = i,
           t.p.base_asset_amount = TradePosition(ps, i).base_asset_amount,
           t.m.base_asset_amount = market[i].base_asset_amount, SameSides(market[i], t.m),
           n.base_asset_amount = r.m.base_asset_amount, SameSides(r.m, n), Good(n),
           market' = [market EXCEPT ![i] = n],
           positions' = [positions EXCEPT ![u] = [ps EXCEPT ![TradeSlot(ps, i)] = r.p]]
    PROVE  Booked(u) /\ (Exact(t, r) => BookedExactly(u))
<1> DEFINE slot == TradeSlot(ps, i)
           qs == [ps EXCEPT ![slot] = r.p]
<1>1. /\ ps \in SlotsType /\ ps = settled_positions(positions[u], market)
      /\ positions[u] \in SlotsType /\ positions \in [Users -> SlotsType]
  BY UserParts, InvParts DEF Settled
<1>2. market \in MarketsType /\ \A j \in Markets : Good(market[j])
  BY InvParts
<1>3. slot \in Slots
  BY <1>1, TradeSlotType
<1>4. BaseIn(ps[slot], i) = t.p.base_asset_amount /\ \A j \in Markets \ {i} : BaseIn(ps[slot], j) = 0
  BY <1>1, TradeSlotBase
<1>5. positions'[u] = qs
  BY <1>1
<1> HIDE DEF slot
<1>6. r.p \in PositionType /\ r.p.market_index = i
  BY SoundParts DEF SoundStep
<1>7. qs \in SlotsType
  BY <1>1, <1>3, <1>6 DEF SlotsType
<1>8. market'[i] = n /\ \A j \in Markets \ {i} : market'[j] = market[j]
  BY <1>2 DEF MarketsType
<1>9. /\ Books(market[i], positions[u], n, qs, i)
      /\ Exact(t, r) => Balances(market[i], positions[u], n, qs, i)
  <2>1. Good(t.m) /\ Good(r.m)
    BY SoundParts DEF SoundStep
  <2>2. Books(market[i], positions[u], t.m, ps, i) /\ Balances(market[i], positions[u], t.m, ps, i)
    BY <1>1, <1>2, SettledBooks
  <2>3. Books(t.m, ps, r.m, qs, i) /\ (Exact(t, r) => Balances(t.m, ps, r.m, qs, i))
    <3>1. BaseIn(ps[slot], i) = t.p.base_asset_amount
      BY <1>4
    <3> QED
      BY ONLY <1>1, <1>3, <3>1, Sound(t), SoundStep(t, r), t.p.market_index = i, BookedSlot
  <2>4. Books(r.m, qs, n, qs, i) /\ Balances(r.m, qs, n, qs, i)
    BY <1>7, <2>1, BooksSame
  <2>5. Books(market[i], positions[u], r.m, qs, i)
    BY ONLY <1>1, <1>2, <1>7, <2>1, <2>2, <2>3, BooksTwice
  <2>6. Books(market[i], positions[u], n, qs, i)
    BY ONLY <1>1, <1>2, <1>7, <2>1, <2>4, <2>5, Good(n), BooksTwice
  <2>7. Exact(t, r) => Balances(market[i], positions[u], n, qs, i)
    BY ONLY <2>2, <2>3, <2>4 DEF Balances
  <2> QED
    BY <2>6, <2>7
<1>10. ASSUME NEW j \in Markets \ {i}
       PROVE  /\ Books(market[j], positions[u], market[j], qs, j)
              /\ Balances(market[j], positions[u], market[j], qs, j)
  <2>1. BaseIn(ps[slot], j) = BaseIn(r.p, j)
    BY <1>4, <1>6, <1>10 DEF BaseIn
  <2>2. /\ Books(market[j], positions[u], market[j], ps, j)
        /\ Balances(market[j], positions[u], market[j], ps, j)
    BY <1>1, <1>2, SettledBooks DEF SameSides
  <2>3. Books(market[j], ps, market[j], qs, j) /\ Balances(market[j], ps, market[j], qs, j)
    BY <1>1, <1>2, <1>3, <1>6, <2>1, ElsewhereSlot
  <2>4. Books(market[j], positions[u], market[j], qs, j)
    BY ONLY <1>1, <1>2, <1>7, <2>2, <2>3, j \in Markets \ {i}, BooksTwice
  <2> QED
    BY <2>2, <2>3, <2>4 DEF Balances
<1> HIDE DEF qs
<1>11. ASSUME NEW j \in Markets
       PROVE  /\ Books(market[j], positions[u], market'[j], positions'[u], j)
              /\ Exact(t, r) => Balances(market[j], positions[u], market'[j], positions'[u], j)
  <2>1. CASE j = i
    BY <1>5, <1>8, <1>9, <2>1
  <2>2. CASE j # i
    BY <1>5, <1>8, <1>10, <2>2
  <2> QED
    BY <2>1, <2>2
<1> QED
  BY <1>11 DEF Booked, BookedExactly

\* A set of at most one user has no two members.
LEMMA AtMostOne ==
    ASSUME NEW S, S \subseteq Users, Cardinality(S) <= 1, NEW v \in S, NEW w \in S
    PROVE  v = w
<1>1. IsFiniteSet(S) /\ Cardinality(S) \in Nat
  BY UsersAssumption, FS_Subset, FS_CardinalityType
<1>2. Cardinality(S) # 0
  BY <1>1, FS_EmptySet
<1>3. PICK x : S = {x}
  BY <1>1, <1>2, FS_Singleton
<1> QED
  BY <1>3

\* The fee of a trade is shared by the market and the referrer.
LEMMA TradeFees ==
    ASSUME Inv, NEW u \in Users, NEW i \in Markets, NEW n, NEW c \in Nat, NEW fee \in FeeType,
           NEW others, others \subseteq Users, u \notin others,
           \A v, w \in others : v = w, others = {} => fee.referrer_reward = 0,
           fee.user_fee = fee.fee_to_market + fee.referrer_reward,
           n.total_fee = market[i].total_fee + fee.fee_to_market,
           market' = [market EXCEPT ![i] = n],
           user' = charge_fee(u, c, fee, others)
    PROVE  FeesCharged(u)
<1>1. market \in MarketsType
  BY InvParts
<1>2. \A j \in Markets : market[j].total_fee \in Nat
  BY <1>1 DEF MarketsType, MarketType
<1>3. ASSUME NEW j \in Markets
      PROVE  market'[j].total_fee
                = market[j].total_fee + (IF j = i THEN fee.fee_to_market ELSE 0)
  <2>1. CASE j = i
    BY <1>1, <2>1 DEF MarketsType
  <2>2. CASE j # i
    <3>1. market'[j] = market[j]
      BY <1>1, <2>2 DEF MarketsType
    <3> QED
      BY <1>2, <2>2, <3>1
  <2> QED
    BY <2>1, <2>2
<1>4. ASSUME NEW v \in Users
      PROVE  /\ user'[v].total_fee_paid
                    = user[v].total_fee_paid + (IF v = u THEN fee.user_fee ELSE 0)
             /\ user'[v].total_referral_reward
                    = user[v].total_referral_reward
                        + (IF v \in others THEN fee.referrer_reward ELSE 0)
  <2>1. others \ {u} = others
    OBVIOUS
  <2> QED
    BY <2>1, ChargeFee
<1>5. PICK w \in Users : (others = {} /\ w = u) \/ others = {w}
  <2>1. CASE others = {}
    BY <2>1
  <2>2. CASE others # {}
    <3>1. PICK w \in others : TRUE
      BY <2>2
    <3> QED
      BY <3>1
  <2> QED
    BY <2>1, <2>2
<1>6. ASSUME NEW v \in Users
      PROVE  user'[v].total_referral_reward
                = user[v].total_referral_reward + (IF v = w THEN fee.referrer_reward ELSE 0)
  BY <1>4, <1>5
<1> QED
  BY <1>3, <1>4, <1>6 DEF FeesCharged

\* A trade starts from a position that is settled, or from none.
LEMMA TradeAtRate ==
    ASSUME NEW ps \in SlotsType, NEW i \in Markets, NEW t, PaidUp(ps, market),
           SlotsFor(ps, i) # {} \/ FreeSlots(ps) # {},
           t.p = TradePosition(ps, i), SamePace(market[i], t.m)
    PROVE  AtRate(t)
<1> DEFINE slot == TradeSlot(ps, i)
<1>1. slot \in Slots
  BY TradeSlotType
<1>2. CASE is_for(ps[slot], i)
  <2>1. t.p = ps[slot] /\ t.p.market_index = i /\ ~owes_funding(t.p, market)
    BY <1>1, <1>2 DEF TradePosition, is_for, PaidUp
  <2> QED
    BY <2>1 DEF AtRate, owes_funding, cumulative_funding_rate, SamePace
<1>3. CASE ~is_for(ps[slot], i)
  <2>1. t.p.base_asset_amount = 0
    BY <1>3 DEF TradePosition, new_market_position
  <2> QED
    BY <2>1 DEF AtRate, is_open_position
<1> QED
  BY <1>2, <1>3

\* A trade that leaves its position at the rate of its side leaves the user
\* paid up.
LEMMA TradePaidUp ==
    ASSUME NEW ps \in SlotsType, NEW i \in Markets, NEW slot \in Slots, NEW t,
           PaidUp(ps, market), AtRate(t), t.p.market_index = i, SamePace(market[i], t.m)
    PROVE  PaidUp([ps EXCEPT ![slot] = t.p], market)
<1> DEFINE qs == [ps EXCEPT ![slot] = t.p]
<1>1. ASSUME NEW s \in Slots PROVE ~owes_funding(qs[s], market)
  <2>1. CASE s = slot
    <3>1. qs[s] = t.p
      BY <2>1 DEF SlotsType
    <3> HIDE DEF qs
    <3> QED
      BY <3>1 DEF AtRate, owes_funding, cumulative_funding_rate, SamePace
  <2>2. CASE s # slot
    <3>1. qs[s] = ps[s]
      BY <2>2 DEF SlotsType
    <3> QED
      BY <3>1 DEF PaidUp
  <2> QED
    BY <2>1, <2>2
<1> HIDE DEF qs
<1>2. PaidUp(qs, market)
  BY <1>1 DEF PaidUp
<1> QED
  BY <1>2 DEF qs

\* What a trade of one user in one market leaves behind.
LEMMA TradeStep ==
    ASSUME Inv, NEW u \in Users, NEW i \in Markets, NEW n, Steady(market[i], n),
           NEW slot \in Slots, NEW ps \in SlotsType, NEW p \in PositionType,
           NEW c \in Nat, NEW fee \in FeeType, NEW others, NEW m, NEW o,
           Running, Account(u), others \subseteq {v \in Users : Account(v)},
           market' = [market EXCEPT ![i] = n],
           user' = charge_fee(u, c, fee, others),
           positions' = [positions EXCEPT ![u] = [ps EXCEPT ![slot] = p]],
           history' = trade_records(u, m, o), UNCHANGED <<state, vault, now>>
    PROVE  StepOK /\ Touches(u, [ps EXCEPT ![slot] = p]) /\ UNCHANGED history.liquidation
<1>1. market' \in MarketsType /\ MarketsSteady
  BY OneMarket
<1>2. user' \in [Users -> UserType]
  BY ChargeFee
<1>3. [ps EXCEPT ![slot] = p] \in SlotsType
  BY DEF SlotsType
<1>4. positions' \in [Users -> SlotsType]
  BY <1>3, InvParts
<1>5. history' \in HistoryType /\ UNCHANGED history.liquidation
  BY TradeRecords
<1>6. ASSUME NEW v \in Users
      PROVE  /\ user'[v].initialized = user[v].initialized
             /\ ~user[v].initialized => user'[v] = user[v]
  BY ChargeFee DEF Account
<1>7. Touches(u, [ps EXCEPT ![slot] = p])
  BY <1>6 DEF Touches
<1> QED
  BY <1>1, <1>2, <1>4, <1>5, <1>7, InvParts, StepParts

\* open_position: from the refreshed oracle twap through the trade and the fee
\* to the funding rate, the market moves along its curve.
LEMMA OpenStep ==
    ASSUME Inv, NEW u \in Users, NEW i \in Markets, NEW d \in Directions, NEW quote \in Nat,
           NEW limit \in Nat, NEW reading \in OracleType, NEW token, NEW referrer,
           Cardinality(referrer) <= 1,
           open_position(u, i, d, quote, limit, reading, token, referrer)
    PROVE  StepOK /\ Trades(u)
<1> DEFINE ps == settled_positions(positions[u], market)
           slot == TradeSlot(ps, i)
           o == get_oracle_price(market[i], reading)
           m0 == refresh_oracle_twap(market[i], o)
           p0 == TradePosition(ps, i)
           c0 == settled_collateral(user[u].collateral, positions[u], market)
           t0 == [m |-> m0, p |-> p0, c |-> c0]
           t1 == trade(t0, d, quote)
           q == traded_quote(t0, d, quote)
           others == Referrer(u, referrer)
           has == others # {}
           fees == state.fee_structure
           fee == calculate_fees(q, fees, token, has)
           m2 == collect_fee(t1.m, fee)
           g == state.oracle_guard_rails
           paused == state.funding_paused
           n == update_funding_rate(m2, o, now, g, paused)
<1>1. /\ market[i].initialized
      /\ SlotsFor(ps, i) # {} \/ FreeSlots(ps) # {}
      /\ mark_price_ok(market[i])
      /\ trade_ok(t0, d, quote) /\ mark_price_ok(t1.m)
  BY DEF open_position, market_initialized, calculate_oracle_mark_spread_ok
<1>2. /\ Running /\ Account(u) /\ ~state.exchange_paused
       /\ others \subseteq {v \in Users : Account(v)}
  BY DEF open_position, exchange_not_paused, optional_accounts_ok, Referrer
<1>3. u \notin others /\ \A v, w \in others : v = w
  BY AtMostOne DEF open_position, optional_accounts_ok, Referrer
<1>4. ps = Settled(u)
  BY DEF Settled
<1>5. /\ calculate_fees_ok(q, fees, token, has)
      /\ update_funding_rate_ok(m2, o, now, g, paused)
  BY DEF open_position, finish_trade
<1>6. /\ market' = [market EXCEPT ![i] = n]
      /\ user' = charge_fee(u, t1.c, fee, others)
      /\ positions' = [positions EXCEPT ![u] = [ps EXCEPT ![slot] = t1.p]]
      /\ history' = trade_records(u, m2, o)
      /\ UNCHANGED <<state, vault, now>>
  BY DEF open_position, finish_trade
<1>7. Good(market[i]) /\ state \in StateType /\ now \in Nat /\ fees \in FeeStructureType
  BY InvParts DEF StateType
<1>8. ps \in SlotsType /\ c0 \in Nat /\ o \in OracleType
  BY UserParts, OraclePrice
<1> HIDE DEF ps, c0, o, others, fees
<1>9. slot \in Slots /\ p0 \in PositionType /\ p0.market_index = i
  BY <1>1, <1>8, TradeSlotType, TradePositionType
<1>10. Kept(market[i], m0)
  BY <1>1, <1>7, <1>8, RefreshTwap
<1>11. Sound(t0) /\ t0.m = m0 /\ t0.p = p0 /\ t0.p.market_index = i
  <2>1. m0 \in MarketType /\ IsNet(m0)
    BY <1>10 DEF Kept, Still, Good
  <2> HIDE DEF m0, p0
  <2> QED
    BY <1>8, <1>9, <2>1 DEF Sound, TradeType
<1>12. /\ slot = TradeSlot(ps, i) /\ p0 = TradePosition(ps, i)
  OBVIOUS
<1> HIDE DEF t0, m0, p0, slot
<1>13. SoundStep(t0, t1) /\ q \in Nat
  BY <1>1, <1>7, <1>11, Trade, TradedQuote
<1> HIDE DEF t1, q
<1>14. /\ Good(t1.m) /\ t1.p \in PositionType /\ t1.c \in Nat /\ Follows(m0, t1.m)
       /\ t1.p.market_index = i
  BY <1>11, <1>13, SoundParts DEF SoundStep
<1>15. /\ fee \in FeeType /\ fee.user_fee = fee.fee_to_market + fee.referrer_reward
       /\ others = {} => fee.referrer_reward = 0
  BY <1>5, <1>7, <1>13, Fees
<1> HIDE DEF fee, has
<1>16. Still(t1.m, m2) /\ m2.total_fee = t1.m.total_fee + fee.fee_to_market
  BY <1>14, <1>15, CollectFee
<1> HIDE DEF m2
<1>17. Funded(m2, n) /\ SameFee(m2, n)
  BY <1>5, <1>7, <1>8, <1>16, FundingRate DEF Still
<1> HIDE DEF n
<1>18. Funded(t1.m, n)
  BY <1>16, <1>17, StillFunded
<1>19. Steady(market[i], n)
  BY <1>1, <1>7, <1>10, <1>14, <1>18, TradeSteady DEF Kept, Still
<1>20. StepOK /\ Touches(u, [ps EXCEPT ![slot] = t1.p]) /\ UNCHANGED history.liquidation
  BY <1>2, <1>6, <1>8, <1>9, <1>14, <1>15, <1>19, TradeStep
<1>21. Booked(u) /\ (Exact(t0, t1) => BookedExactly(u))
  <2>1. /\ n.base_asset_amount = t1.m.base_asset_amount /\ SameSides(t1.m, n) /\ Good(n)
        /\ t0.m.base_asset_amount = market[i].base_asset_amount
        /\ SameSides(market[i], t0.m)
    BY <1>10, <1>11, <1>18 DEF Kept, Still, Funded, SameCurve
  <2> QED
    BY <1>1, <1>4, <1>6, <1>11, <1>12, <1>13, <2>1, TradeBooked
<1>22. FeesCharged(u)
  <2>1. n.total_fee = market[i].total_fee + fee.fee_to_market
    BY <1>10, <1>14, <1>16, <1>17 DEF Kept, Follows, SameTerms, SameFee
  <2>2. others \subseteq Users
    BY <1>2
  <2> QED
    BY <1>6, <1>14, <1>15, <1>3, <2>1, <2>2, TradeFees
<1>23. ASSUME Regular
       PROVE  PaidUp(positions'[u], market) /\ BookedExactly(u) /\ AllTame(market')
  <2>1. PaidUp(ps, market)
    BY <1>4, UserParts, SettledPaidUp DEF Settled
  <2>2. SamePace(market[i], t0.m) /\ SamePace(market[i], t1.m)
    BY <1>10, <1>11, <1>14 DEF Kept, Still, Follows, SamePace
  <2>3. AtRate(t0)
    BY <1>1, <1>8, <1>11, <1>12, <2>1, <2>2, TradeAtRate
  <2>4. Tame(market[i]) /\ Tame(t0.m)
    BY <1>1, <1>10, <1>11, <1>23, CurveTame DEF Regular, AllTame, Kept, Still
  <2>5. AtRate(t1) /\ Exact(t0, t1)
    BY <1>1, <1>7, <1>11, <2>3, <2>4, TradeRate DEF t1
  <2>6. PaidUp([ps EXCEPT ![slot] = t1.p], market)
    BY <1>8, <1>9, <1>14, <2>1, <2>2, <2>5, TradePaidUp
  <2>7. positions'[u] = [ps EXCEPT ![slot] = t1.p]
    BY <1>6, InvParts
  <2>8. AllTame(market')
    BY <1>1, <1>6, <1>10, <1>14, <1>18, <1>23, <2>4, TradeTame, OneTame DEF Regular
  <2> QED
    BY <1>21, <2>5, <2>6, <2>7, <2>8
<1> QED
  BY <1>1, <1>2, <1>4, <1>12, <1>14, <1>20, <1>21, <1>22, <1>23 DEF Trades

\* close_position: the same for a trade that closes the position, with the
\* oracle twap refreshed after it.
LEMMA CloseStep ==
    ASSUME Inv, NEW u \in Users, NEW i \in Markets, NEW reading \in OracleType, NEW token,
           NEW referrer, Cardinality(referrer) <= 1,
           close_position(u, i, reading, token, referrer)
    PROVE  StepOK /\ Trades(u)
<1> DEFINE ps == settled_positions(positions[u], market)
           slot == TradeSlot(ps, i)
           o == get_oracle_price(market[i], reading)
           m0 == market[i]
           p0 == ps[slot]
           c0 == settled_collateral(user[u].collateral, positions[u], market)
           t0 == [m |-> m0, p |-> p0, c |-> c0]
           t1 == close(t0, now)
           q == close_value(t0)
           others == Referrer(u, referrer)
           has == others # {}
           fees == state.fee_structure
           fee == calculate_fees(q, fees, token, has)
           m1 == collect_fee(t1.m, fee)
           m2 == refresh_oracle_twap(m1, o)
           g == state.oracle_guard_rails
           paused == state.funding_paused
           n == update_funding_rate(m2, o, now, g, paused)
<1>1. /\ m0.initialized /\ SlotsFor(ps, i) # {} /\ close_ok(t0) /\ mark_price_ok(t1.m)
  BY DEF close_position, market_initialized, calculate_oracle_mark_spread_ok
<1>2. /\ Running /\ Account(u) /\ ~state.exchange_paused
       /\ others \subseteq {v \in Users : Account(v)}
  BY DEF close_position, exchange_not_paused, optional_accounts_ok, Referrer
<1>3. u \notin others /\ \A v, w \in others : v = w
  BY AtMostOne DEF close_position, optional_accounts_ok, Referrer
<1>4. ps = Settled(u)
  BY DEF Settled
<1>5. /\ calculate_fees_ok(q, fees, token, has)
      /\ update_funding_rate_ok(m2, o, now, g, paused)
  BY DEF close_position, finish_trade
<1>6. /\ market' = [market EXCEPT ![i] = n]
      /\ user' = charge_fee(u, t1.c, fee, others)
      /\ positions' = [positions EXCEPT ![u] = [ps EXCEPT ![slot] = t1.p]]
      /\ history' = trade_records(u, m2, o)
      /\ UNCHANGED <<state, vault, now>>
  BY DEF close_position, finish_trade
<1>7. Good(m0) /\ state \in StateType /\ now \in Nat /\ fees \in FeeStructureType
  BY InvParts DEF StateType
<1>8. ps \in SlotsType /\ c0 \in Nat /\ o \in OracleType
  BY UserParts, OraclePrice
<1> HIDE DEF ps, c0, o, others, fees
<1>9. slot \in Slots /\ p0 \in PositionType /\ p0.market_index = i
  <2>1. slot \in Slots /\ p0 = ps[slot]
    BY <1>1, TradeSlotType
  <2>2. slot \in SlotsFor(ps, i)
    BY <1>1, TradeSlotChoice
  <2> QED
    BY <1>8, <2>1, <2>2 DEF SlotsType, SlotsFor, is_for
<1>10. m0 = market[i] /\ slot = TradeSlot(ps, i) /\ p0 = TradePosition(ps, i)
  <2>1. is_for(ps[slot], i)
    BY <1>1, TradeSlotChoice DEF SlotsFor
  <2> QED
    BY <2>1 DEF TradePosition
<1>11. Sound(t0) /\ t0.m = m0 /\ t0.p = p0 /\ t0.p.market_index = i
  <2>1. m0 \in MarketType /\ IsNet(m0)
    BY <1>7 DEF Good
  <2> HIDE DEF m0, p0
  <2> QED
    BY <1>8, <1>9, <2>1 DEF Sound, TradeType
<1> HIDE DEF t0, m0, p0, slot
<1>12. SoundStep(t0, t1) /\ Exact(t0, t1) /\ q \in Nat
  BY <1>1, <1>7, <1>11, Close, CloseValue
<1> HIDE DEF t1, q
<1>13. /\ Good(t1.m) /\ t1.p \in PositionType /\ t1.c \in Nat /\ Follows(m0, t1.m)
       /\ t1.p.market_index = i
  BY <1>11, <1>12, SoundParts DEF SoundStep
<1>14. /\ fee \in FeeType /\ fee.user_fee = fee.fee_to_market + fee.referrer_reward
       /\ others = {} => fee.referrer_reward = 0
  BY <1>5, <1>7, <1>12, Fees
<1> HIDE DEF fee, has
<1>15. Still(t1.m, m1) /\ m1.total_fee = t1.m.total_fee + fee.fee_to_market
  BY <1>13, <1>14, CollectFee
<1> HIDE DEF m1
<1>16. Kept(m1, m2)
  <2>1. Good(m1) /\ mark_price_ok(m1)
    BY <1>1, <1>15 DEF Still, SameCurve, SameReserves, mark_price_ok
  <2> QED
    BY <1>7, <1>8, <2>1, RefreshTwap
<1> HIDE DEF m2
<1>17. Funded(m2, n) /\ SameFee(m2, n)
  BY <1>5, <1>7, <1>8, <1>16, FundingRate DEF Kept, Still
<1> HIDE DEF n
<1>18. Funded(t1.m, n)
  BY <1>15, <1>16, <1>17, StillFunded DEF Kept
<1>19. Steady(m0, n)
  BY <1>1, <1>7, <1>13, <1>18, KeptSame, TradeSteady
<1>20. StepOK /\ Touches(u, [ps EXCEPT ![slot] = t1.p]) /\ UNCHANGED history.liquidation
  BY <1>2, <1>6, <1>8, <1>9, <1>10, <1>13, <1>14, <1>19, TradeStep
<1>21. Booked(u) /\ BookedExactly(u)
  <2>1. /\ n.base_asset_amount = t1.m.base_asset_amount /\ SameSides(t1.m, n) /\ Good(n)
        /\ t0.m.base_asset_amount = market[i].base_asset_amount
        /\ SameSides(market[i], t0.m)
    BY <1>10, <1>11, <1>18 DEF Funded, SameCurve, SameSides
  <2> QED
    BY <1>1, <1>4, <1>6, <1>10, <1>11, <1>12, <2>1, TradeBooked
<1>22. FeesCharged(u)
  <2>1. n.total_fee = market[i].total_fee + fee.fee_to_market
    BY <1>10, <1>13, <1>15, <1>16, <1>17 DEF Kept, Follows, SameTerms, SameFee
  <2>2. others \subseteq Users
    BY <1>2
  <2> QED
    BY <1>6, <1>13, <1>14, <1>3, <2>1, <2>2, TradeFees
<1>23. PaidUp(positions'[u], market)
  <2>1. PaidUp(ps, market)
    BY <1>4, UserParts, SettledPaidUp DEF Settled
  <2>2. SamePace(market[i], t1.m)
    BY <1>10, <1>13 DEF Follows
  <2>3. AtRate(t1)
    BY DEF AtRate, is_open_position, t1, close, new_market_position
  <2>4. PaidUp([ps EXCEPT ![slot] = t1.p], market)
    BY <1>8, <1>9, <1>13, <2>1, <2>2, <2>3, TradePaidUp
  <2>5. positions'[u] = [ps EXCEPT ![slot] = t1.p]
    BY <1>6, InvParts
  <2> QED
    BY <2>4, <2>5
<1>24. ASSUME Regular PROVE AllTame(market')
  <2>1. Tame(m0)
    BY <1>1, <1>10, <1>24 DEF Regular, AllTame
  <2> QED
    BY <1>1, <1>6, <1>7, <1>13, <1>18, <1>24, <2>1, KeptSame, TradeTame, OneTame DEF Regular
<1> QED
  BY <1>1, <1>2, <1>4, <1>10, <1>13, <1>20, <1>21, <1>22, <1>23, <1>24 DEF Trades

(***************************************************************************)
(* Liquidation                                                             *)
(***************************************************************************)
\* The collateral with the unrealised profits and losses is a natural number.
LEMMA TotalCollateral ==
    ASSUME NEW c \in Nat, NEW ps \in SlotsType, NEW mk \in MarketsType, margin_ok(ps, mk)
    PROVE  total_collateral(c, ps, mk) \in Nat
<1> DEFINE b(s) == ps[s].base_asset_amount
           q(s) == ps[s].quote_asset_amount
           m(s) == mk[ps[s].market_index]
           pnl(s) == IF is_open_position(ps[s])
                     THEN calculate_position_pnl(b(s), q(s), m(s)) ELSE 0
           sum == pnl(1) + pnl(2) + pnl(3) + pnl(4) + pnl(5)
<1>1. ASSUME NEW s \in Slots PROVE pnl(s) \in Int
  <2>1. ps[s] \in PositionType
    BY DEF SlotsType
  <2>2. b(s) \in Int /\ q(s) \in Nat /\ m(s) \in MarketType
    BY <2>1 DEF PositionType, MarketsType
  <2>3. CASE is_open_position(ps[s])
    <3>1. base_asset_value_ok(b(s), m(s))
      BY <2>3 DEF margin_ok
    <3>2. pnl(s) = calculate_position_pnl(b(s), q(s), m(s))
      BY <2>3
    <3> HIDE DEF b, q, m
    <3> QED
      BY <2>2, <3>1, <3>2, PositionPnl
  <2>4. CASE ~is_open_position(ps[s])
    BY <2>4
  <2> QED
    BY <2>3, <2>4
<1>2. unrealized_pnl(ps, mk) = sum
  BY DEF unrealized_pnl, SumOverSlots, Slots
<1> HIDE DEF pnl
<1>3. sum \in Int
  BY <1>1 DEF Slots
<1> QED
  BY <1>2, <1>3, UpdatedCollateral DEF total_collateral

\* The penalty is a natural number, and the liquidator's share is part of it.
LEMMA LiquidationFee ==
    ASSUME state \in StateType, NEW full \in BOOLEAN, NEW c \in Nat, NEW total \in Nat,
           liquidation_fee_ok(full)
    PROVE  /\ liquidation_fee(full, c, total) \in Nat
           /\ \A x \in Nat : /\ liquidator_share(full, x) \in Nat
                            /\ liquidator_share(full, x) <= x
<1> DEFINE fn == state.full_liquidation_penalty_percentage_numerator
           fd == state.full_liquidation_penalty_percentage_denominator
           fs == state.full_liquidation_liquidator_share_denominator
           pn == state.partial_liquidation_penalty_percentage_numerator
           pd == state.partial_liquidation_penalty_percentage_denominator
           sh == state.partial_liquidation_liquidator_share_denominator
<1>1. /\ fn \in Nat /\ fd \in Nat /\ fs \in Nat
      /\ pn \in Nat /\ pd \in Nat /\ sh \in Nat
  BY DEF StateType
<1>2. CASE full
  <2>1. fd \in Nat \ {0} /\ fs \in Nat \ {0}
    BY <1>1, <1>2 DEF liquidation_fee_ok
  <2>2. /\ liquidation_fee(full, c, total) = (c * fn) \div fd
        /\ \A x : liquidator_share(full, x) = x \div fs
    BY <1>2 DEF liquidation_fee, liquidator_share
  <2> HIDE DEF fn, fd, fs
  <2>3. c * fn \in Nat
    BY <1>1, TimesNat
  <2> QED
    BY <2>1, <2>2, <2>3, DivNat, DivLeq
<1>3. CASE ~full
  <2>1. pd \in Nat \ {0} /\ sh \in Nat \ {0}
    BY <1>1, <1>3 DEF liquidation_fee_ok
  <2>2. /\ liquidation_fee(full, c, total) = (total * pn) \div pd
        /\ \A x : liquidator_share(full, x) = x \div sh
    BY <1>3 DEF liquidation_fee, liquidator_share
  <2> HIDE DEF pn, pd, sh
  <2>3. total * pn \in Nat
    BY <1>1, TimesNat
  <2> QED
    BY <2>1, <2>2, <2>3, DivNat, DivLeq
<1> QED
  BY <1>2, <1>3

\* Trades that leave a market with a price are a steady step.
LEMMA FollowsSteady ==
    ASSUME NEW m, NEW n, Good(m), Good(n), Fresh(n), Follows(m, n), n = m \/ mark_price_ok(n)
    PROVE  Steady(m, n)
<1>1. Mirrors(m, n) /\ Paced(m, n)
  BY DEF Follows, Paced
<1>2. n.base_asset_amount # m.base_asset_amount => OnCurve(n)
  <2>1. SUFFICES ASSUME n.base_asset_amount # m.base_asset_amount PROVE OnCurve(n)
    OBVIOUS
  <2>2. /\ m.base_asset_reserve \in Nat /\ n.base_asset_reserve \in Nat
        /\ m.base_asset_amount \in Int /\ n.base_asset_amount \in Int
    BY DEF Good, MarketType
  <2>3. ~SameReserves(m, n)
    BY <1>1, <2>1, <2>2 DEF Mirrors, SameReserves
  <2> QED
    BY <2>1, <2>3 DEF Follows, Lands
<1> QED
  BY <1>1, <1>2 DEF Steady, Paced, SamePace

\* liquidate: the penalty leaves the user's collateral, the user and the
\* liquidator may be the same.
LEMMA LiquidateStep ==
    ASSUME Inv, NEW v \in Users, NEW u \in Users, NEW readings, liquidate(v, u, readings)
    PROVE  StepOK /\ Liquidates(u)
<1> DEFINE ps0 == settled_positions(positions[u], market)
           c0 == settled_collateral(user[u].collateral, positions[u], market)
           full == is_full_liquidation(c0, ps0)
           l0 == [market |-> market, ps |-> ps0, c |-> c0, trades |-> 0, ok |-> TRUE]
           l == liquidate_slots(l0, full, readings)
           total == total_collateral(c0, ps0, market)
           fee == liquidation_fee(full, l.c, total)
           w == calculate_withdrawal_amounts(fee, vault.collateral, vault.insurance)
           paid == w.collateral
           share == liquidator_share(full, paid)
           k == funding_payment_records(positions[u], market)
<1>1. /\ liquidation_allowed(c0, ps0) /\ liquidation_fee_ok(full) /\ fee <= l.c
      /\ market' = l.market /\ positions' = [positions EXCEPT ![u] = l.ps]
      /\ user' = [user EXCEPT ![v].collateral = @ + share, ![u].collateral = l.c - fee]
  BY DEF liquidate
<1>2. /\ vault' = [collateral |-> vault.collateral - (paid - share),
                   insurance |-> vault.insurance + (paid - share)]
      /\ history' = [history EXCEPT !.trade = @ + l.trades, !.liquidation = @ + 1,
                                    !.funding_payment = @ + k]
      /\ UNCHANGED <<state, now>>
  BY DEF liquidate
<1>3. /\ state \in StateType /\ market \in MarketsType /\ now \in Nat
      /\ vault.collateral \in Nat /\ vault.insurance \in Nat
      /\ \A i \in Markets : Good(market[i]) /\ Fresh(market[i])
  BY InvParts DEF VaultType
<1>4. ps0 \in SlotsType /\ c0 \in Nat
  BY UserParts
<1>5. Running /\ Account(u) /\ Account(v) /\ ~state.exchange_paused
  BY DEF liquidate, exchange_not_paused
<1>6. ps0 = Settled(u) /\ Liquidatable(u)
  BY <1>1 DEF Settled, Liquidatable, liquidation_allowed
<1>7. full \in BOOLEAN
  BY DEF is_full_liquidation, margin_ratio_below
<1>8. total \in Nat
  BY <1>1, <1>3, <1>4, TotalCollateral DEF liquidation_allowed
<1>9. k \in Nat
  BY PaymentRecords
<1> HIDE DEF ps0, c0, full, total, k
<1>10. Walkable(l0) /\ l0.market = market /\ l0.ps = ps0
  BY <1>3, <1>4 DEF Walkable, LiquidationType
<1> HIDE DEF l0
<1>11. Walk(l0, l)
  BY <1>3, <1>7, <1>10, LiquidateSlots
<1> HIDE DEF l
<1>12. /\ l.market \in MarketsType /\ l.ps \in SlotsType /\ l.c \in Nat /\ l.trades \in Nat
       /\ \A i \in Markets : Good(l.market[i]) /\ Fresh(l.market[i])
  BY <1>11 DEF Walk, Walkable, LiquidationType
<1>13. market' \in MarketsType /\ MarketsSteady
  <2>1. ASSUME NEW i \in Markets PROVE Steady(market[i], l.market[i])
    <3>1. Follows(market[i], l.market[i])
      BY <1>10, <1>11 DEF Walk
    <3>2. l.market[i] = market[i] \/ mark_price_ok(l.market[i])
      BY <1>10, <1>11 DEF Walk
    <3>3. Good(market[i]) /\ Good(l.market[i]) /\ Fresh(l.market[i])
      BY <1>3, <1>12
    <3> QED
      BY <3>1, <3>2, <3>3, FollowsSteady
  <2> QED
    BY <1>1, <1>12, <2>1 DEF MarketsSteady
<1>14. fee \in Nat
  BY <1>1, <1>3, <1>7, <1>8, <1>12, LiquidationFee
<1> HIDE DEF fee
<1>15. paid \in Nat /\ paid <= vault.collateral
  BY <1>3, <1>14, Withdrawal
<1> HIDE DEF w, paid
<1>16. share \in Nat /\ share <= paid
  BY <1>1, <1>3, <1>7, <1>8, <1>12, <1>15, LiquidationFee
<1> HIDE DEF share
<1>17. vault' \in VaultType
  BY <1>2, <1>3, <1>15, <1>16 DEF VaultType
<1>18. history' \in HistoryType
  <2> DEFINE a == history.trade + l.trades
             b == history.liquidation + 1
             c == history.funding_payment + k
  <2>1. history \in HistoryType
    BY InvParts
  <2>2. a \in Nat /\ b \in Nat /\ c \in Nat
    BY <1>9, <1>12, <2>1 DEF HistoryType
  <2>3. history' = [history EXCEPT !.trade = a, !.liquidation = b, !.funding_payment = c]
    BY <1>2
  <2> HIDE DEF a, b, c
  <2> QED
    BY <2>1, <2>2, <2>3 DEF HistoryType
<1>19. positions' \in [Users -> SlotsType]
  BY <1>1, <1>12, InvParts
<1>20. /\ user' \in [Users -> UserType]
       /\ \A z \in Users : /\ user'[z].initialized = user[z].initialized
                           /\ z \notin {u, v} => user'[z] = user[z]
                           /\ SamePaid(user[z], user'[z])
  <2> DEFINE x == user[v].collateral + share
             y == l.c - fee
             first == [user EXCEPT ![v].collateral = x]
  <2>1. user \in [Users -> UserType] /\ user[v].collateral \in Nat
    BY InvParts, UserParts
  <2>2. x \in Nat /\ y \in Nat
    BY <1>1, <1>12, <1>14, <1>16, <2>1
  <2>3. user' = [first EXCEPT ![u].collateral = y]
    BY <1>1
  <2> HIDE DEF x, y
  <2>4. /\ [user[v] EXCEPT !.collateral = x] \in UserType
        /\ [user[v] EXCEPT !.collateral = x].initialized = user[v].initialized
        /\ SamePaid(user[v], [user[v] EXCEPT !.collateral = x])
    BY <2>1, <2>2 DEF UserType, SamePaid
  <2>5. /\ first \in [Users -> UserType]
        /\ \A z \in Users : /\ first[z].initialized = user[z].initialized
                            /\ z # v => first[z] = user[z]
                            /\ SamePaid(user[z], first[z])
    BY <2>1, <2>4 DEF SamePaid
  <2> HIDE DEF first
  <2>6. first[u] \in UserType
    BY <2>5
  <2>7. /\ [first[u] EXCEPT !.collateral = y] \in UserType
        /\ [first[u] EXCEPT !.collateral = y].initialized = first[u].initialized
        /\ SamePaid(first[u], [first[u] EXCEPT !.collateral = y])
    BY <2>2, <2>6 DEF UserType, SamePaid
  <2> QED
    BY <2>3, <2>5, <2>7 DEF SamePaid
<1>21. Touches(u, l.ps)
  BY <1>1, <1>2, <1>5, <1>20 DEF Touches, Account
<1>22. Booked(u)
  <2>1. positions[u] \in SlotsType /\ positions'[u] = l.ps
    BY <1>1, InvParts
  <2>2. ASSUME NEW j \in Markets PROVE Books(market[j], positions[u], l.market[j], l.ps, j)
    <3>1. Books(market[j], positions[u], market[j], ps0, j)
      BY <1>3, <1>6, <2>1, SettledBooks DEF Settled, SameSides
    <3>2. Books(market[j], ps0, l.market[j], l.ps, j)
      BY <1>10, <1>11 DEF Walk
    <3> QED
      BY <1>3, <1>4, <1>12, <2>1, <3>1, <3>2, BooksTwice
  <2> QED
    BY <1>1, <2>1, <2>2 DEF Booked
<1>23. FeesKept
  BY <1>1, <1>10, <1>11, <1>20 DEF FeesKept, Walk, Follows, SameTerms
<1>24. ASSUME Regular
       PROVE  /\ PaidUp(l.ps, market) /\ Shrinks(ps0, l.ps)
              /\ BookedExactly(u) /\ AllTame(market')
  <2>1. ClosesLess /\ AllTame(market)
    BY <1>5, <1>24 DEF Regular, Running
  <2>2. PaidUp(ps0, market)
    BY <1>6, UserParts, SettledPaidUp DEF Settled
  <2>3. /\ PaidUp(l.ps, l.market) /\ Shrinks(ps0, l.ps)
        /\ \A j \in Markets : Balances(market[j], ps0, l.market[j], l.ps, j)
    BY <1>3, <1>7, <1>10, <2>1, <2>2, SlotsPaidUp DEF l, WalkBalances
  <2>4. \A i \in Markets : SamePace(l.market[i], market[i])
    BY <1>10, <1>11 DEF Walk, Follows, SamePace
  <2>5. positions[u] \in SlotsType /\ positions'[u] = l.ps
    BY <1>1, InvParts
  <2>6. ASSUME NEW j \in Markets PROVE Balances(market[j], positions[u], market[j], ps0, j)
    BY <1>3, <1>6, <2>5, SettledBooks DEF Settled, SameSides
  <2>7. BookedExactly(u)
    BY <1>1, <2>3, <2>5, <2>6 DEF BookedExactly, Balances
  <2>8. AllTame(market')
    BY <1>1, <1>10, <1>11, <2>1, WalkTame
  <2> QED
    BY <1>12, <2>3, <2>4, <2>7, <2>8, PaidUpAtRates
<1>25. Liquidates(u)
  BY <1>5, <1>6, <1>10, <1>11, <1>12, <1>21, <1>22, <1>23, <1>24 DEF Liquidates, Walk
<1> QED
  BY <1>2, <1>3, <1>13, <1>17, <1>18, <1>19, <1>20, <1>25, StepParts

(***************************************************************************)
(* The specification                                                       *)
(***************************************************************************)
\* Every transaction of UserStep keeps the invariant, trades along the curve and
\* is of one of four kinds.
LEMMA UserSteps ==
    ASSUME Inv, UserStep
    PROVE  StepOK /\ \E u \in Users : Settles(u) \/ Trades(u) \/ Liquidates(u) \/ Resets(u)
<1> PICK u \in Users :
        \/ \E amount \in DepositAmounts : deposit_collateral(u, amount)
        \/ \E amount \in WithdrawAmounts : withdraw_collateral(u, amount)
        \/ settle_funding_payment(u)
        \/ \E b \in BOOLEAN : initialize_user(u, b)
        \/ delete_user(u)
        \/ \E i \in Markets, d \in Directions, q \in QuoteAmounts, p \in LimitPrices,
              o \in OracleReadings, t \in DiscountTokens, r \in Referrers :
                open_position(u, i, d, q, p, o, t, r)
        \/ \E i \in Markets, o \in OracleReadings, t \in DiscountTokens, r \in Referrers :
                close_position(u, i, o, t, r)
        \/ \E v \in Users, readings \in [Markets -> OracleReadings] : liquidate(v, u, readings)
  BY DEF UserStep
<1>1. /\ DepositAmounts \subseteq Nat /\ WithdrawAmounts \subseteq Nat /\ QuoteAmounts \subseteq Nat
      /\ LimitPrices \subseteq Nat /\ OracleReadings \subseteq OracleType
      /\ \A r \in Referrers : Cardinality(r) <= 1
  BY InputsAssumption
<1>2. CASE \E amount \in DepositAmounts : deposit_collateral(u, amount)
  BY <1>1, <1>2, DepositStep
<1>3. CASE \E amount \in WithdrawAmounts : withdraw_collateral(u, amount)
  BY <1>1, <1>3, WithdrawStep
<1>4. CASE settle_funding_payment(u)
  BY <1>4, SettleStep
<1>5. CASE delete_user(u) \/ \E b \in BOOLEAN : initialize_user(u, b)
  BY <1>5, AccountStep
<1>6. CASE \E i \in Markets, d \in Directions, q \in QuoteAmounts, p \in LimitPrices,
              o \in OracleReadings, t \in DiscountTokens, r \in Referrers :
                open_position(u, i, d, q, p, o, t, r)
  <2>1. PICK i \in Markets, d \in Directions, q \in QuoteAmounts, p \in LimitPrices,
             o \in OracleReadings, t \in DiscountTokens, r \in Referrers :
                open_position(u, i, d, q, p, o, t, r)
    BY <1>6
  <2>2. q \in Nat /\ p \in Nat /\ o \in OracleType /\ Cardinality(r) <= 1
    BY <1>1
  <2> QED
    BY <2>1, <2>2, OpenStep
<1>7. CASE \E i \in Markets, o \in OracleReadings, t \in DiscountTokens, r \in Referrers :
                close_position(u, i, o, t, r)
  BY <1>1, <1>7, CloseStep
<1>8. CASE \E v \in Users, readings \in [Markets -> OracleReadings] : liquidate(v, u, readings)
  BY <1>8, LiquidateStep
<1> QED
  BY <1>2, <1>3, <1>4, <1>5, <1>6, <1>7, <1>8

\* The clock moves nothing else.
LEMMA TickStep == ASSUME Inv, NEW d \in TimeSteps, Tick(d) PROVE StepOK
<1>1. now' = now + d /\ UNCHANGED market /\ UNCHANGED <<state, user, positions, vault, history>>
  BY DEF Tick
<1>2. now' \in Nat
  BY <1>1, InputsAssumption, InvParts
<1>3. market' \in MarketsType /\ MarketsSteady
  BY <1>1, MarketsUnchanged
<1> QED
  BY <1>1, <1>2, <1>3, InvParts, StepParts

\* Every step, stuttering included.
LEMMA EveryStep == ASSUME Inv, [Next]_vars PROVE StepOK
<1>1. CASE UNCHANGED vars
  <2>1. UNCHANGED <<state, market, user, positions, vault, history, now>>
    BY <1>1 DEF vars
  <2>2. market' \in MarketsType /\ MarketsSteady
    BY <2>1, MarketsUnchanged
  <2> QED
    BY <2>1, <2>2, InvParts, StepParts
<1>2. CASE Next
  BY <1>2, UserSteps, CurveSteps, MarketSteps, AdminSteps, TickStep DEF Next
<1> QED
  BY <1>1, <1>2

\* The inductive invariant: the types, the balance of the counters, and the
\* emptiness of the markets that do not exist yet.
THEOREM Invariance == Spec => []Inv
<1>1. Init => Inv
  BY Initially
<1>2. Inv /\ [Next]_vars => Inv'
  BY EveryStep, StepInv
<1> QED
  BY <1>1, <1>2, PTL DEF Spec

\* Type correctness of the program's accounts: no balance, reserve, pool or
\* counter of an unsigned type goes below zero, whatever the transactions.
THEOREM TypeCorrect == Spec => []TypeOK
<1>1. Inv => TypeOK
  BY DEF Inv
<1> QED
  BY <1>1, Invariance, PTL

\* The net position of every market is the sum of its two sides.
THEOREM NetPositionHolds == Spec => []NetPosition
<1>1. Inv => NetPosition
  BY DEF Inv
<1> QED
  BY <1>1, Invariance, PTL

\* Every change of a net position is mirrored by the base reserve, with k and
\* the peg unchanged.
THEOREM ReserveMirrors == Spec => ReserveMirrorsPosition
<1>1. Inv /\ [Next]_vars =>
        [\A i \in Markets :
            market'[i].base_asset_amount # market[i].base_asset_amount =>
                Mirrors(market[i], market'[i])]_vars
  BY EveryStep DEF StepOK, MarketsSteady, Steady
<1> QED
  BY <1>1, Invariance, PTL DEF Spec, ReserveMirrorsPosition

\* A trade leaves the reserves on the curve, up to the rounding of one division,
\* wherever an adjustment of k or a moved price had left them.
THEOREM TradesLand == Spec => TradesLandOnCurve
<1>1. Inv /\ [Next]_vars =>
        [\A i \in Markets :
            market'[i].base_asset_amount # market[i].base_asset_amount =>
                OnCurve(market'[i])]_vars
  BY EveryStep DEF StepOK, MarketsSteady, Steady
<1> QED
  BY <1>1, Invariance, PTL DEF Spec, TradesLandOnCurve

\* The funding rate of a market is set at most once in each of its periods,
\* by whichever trade or keeper comes first.
THEOREM FundingIsPeriodic == Spec => FundingOncePerPeriod
<1>1. ASSUME Inv, [Next]_vars, NEW i \in Markets,
             market'[i].last_funding_rate_ts # market[i].last_funding_rate_ts,
             market[i].initialized, market[i].funding_period > 0
      PROVE  market'[i].last_funding_rate_ts \div market[i].funding_period
                > market[i].last_funding_rate_ts \div market[i].funding_period
  BY <1>1, EveryStep DEF StepOK, MarketsSteady, Steady, Paced, SamePace
<1>2. Inv /\ [Next]_vars =>
        [\A i \in Markets :
            LET period == market[i].funding_period
            IN  market'[i].last_funding_rate_ts # market[i].last_funding_rate_ts
                    /\ market[i].initialized /\ period > 0 =>
                  market'[i].last_funding_rate_ts \div period
                      > market[i].last_funding_rate_ts \div period]_vars
  BY <1>1
<1> QED
  BY <1>2, Invariance, PTL DEF Spec, FundingOncePerPeriod
=============================================================================
