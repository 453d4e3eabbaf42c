----------------------------- MODULE ExchangeProofs -----------------------------
(***************************************************************************)
(* What the instructions do to the users' accounts, for every size of the  *)
(* exchange: who may hold funds, what a pause freezes, whom a liquidation  *)
(* may touch and what it takes away, and that a user has one position in a *)
(* market, the one that the client finds.  What the accounts add up to:    *)
(* the sides of a market cover or are what its users hold, the fees are    *)
(* shared out, funding is funded and never retroactive, and the client     *)
(* estimates no more of it than there is.                                  *)
(***************************************************************************)
EXTENDS ClearingHouseProofs, ClientProps

(***************************************************************************)
(* The inductive invariants                                                *)
(***************************************************************************)
\* The histories are created after the State: initialize, which forgets them,
\* comes first.
InOrder == state.history_initialized => state.initialized

\* An account that does not exist is blank, and all of them are empty until
\* the histories exist: every transaction that moves money writes to one.
AccountOK(u) ==
    /\ ~user[u].initialized => user[u] = BlankUser /\ positions[u] = BlankPositions
    /\ ~state.history_initialized => user[u].collateral = 0 /\ positions[u] = BlankPositions

\* An open position comes first among the slots that name its market: a slot
\* keeps the name of the market of a position that was closed in it.
OpenFirst(ps) ==
    \A s, t \in Slots :
        t < s /\ is_open_position(ps[s]) => ps[t].market_index # ps[s].market_index

ExchangeInv ==
    /\ Inv
    /\ InOrder
    /\ \A u \in Users : AccountOK(u) /\ OpenFirst(positions[u])

(***************************************************************************)
(* The steps that leave the users alone                                    *)
(***************************************************************************)
Quiet ==
    /\ UNCHANGED <<user, positions>> /\ BooksKept
    /\ history'.liquidation <= history.liquidation
    /\ state.history_initialized => state'.history_initialized
    /\ InOrder'

\* Markets that stay as they are keep their books.
LEMMA SameBooks == ASSUME UNCHANGED market PROVE BooksKept
BY DEF BooksKept, SameFee, SameSides

\* A step that keeps the State, the books and the liquidation records.
LEMMA QuietStep ==
    ASSUME Inv, InOrder, UNCHANGED <<state, user, positions>>, UNCHANGED history.liquidation,
           BooksKept
    PROVE  Quiet
<1>1. history.liquidation \in Nat
  BY InvParts DEF HistoryType
<1> QED
  BY <1>1 DEF Quiet, InOrder

\* The markets stay as they are, and so does the share that a partial
\* liquidation closes.
SharesKept ==
    /\ UNCHANGED market /\ UNCHANGED state.initialized
    /\ UNCHANGED state.partial_liquidation_close_percentage_numerator
    /\ UNCHANGED state.partial_liquidation_close_percentage_denominator

\* A setter of the admin.
LEMMA QuietSetter ==
    ASSUME Inv, InOrder, NEW s, SetState(s), s.initialized = state.initialized,
           s.history_initialized = state.history_initialized
    PROVE  /\ Quiet
           /\ s.partial_liquidation_close_percentage_numerator
                    = state.partial_liquidation_close_percentage_numerator
                /\ s.partial_liquidation_close_percentage_denominator
                    = state.partial_liquidation_close_percentage_denominator
              => SharesKept
<1>1. history.liquidation \in Nat
  BY InvParts DEF HistoryType
<1>2. state' = s /\ UNCHANGED <<market, user, positions, history>> /\ BooksKept
  BY SameBooks DEF SetState
<1>3. Quiet
  BY <1>1, <1>2 DEF Quiet, InOrder
<1> QED
  BY <1>2, <1>3 DEF SharesKept

\* The setter of the share sets neither of the two flags.
LEMMA QuietShare ==
    ASSUME Inv, InOrder, NEW r, update_partial_liquidation_close_percentage(r)
    PROVE  Quiet
<1> DEFINE s == [state EXCEPT
                    !.partial_liquidation_close_percentage_numerator = r.numerator,
                    !.partial_liquidation_close_percentage_denominator = r.denominator]
<1>1. SetState(s)
  BY DEF update_partial_liquidation_close_percentage
<1>2. s.initialized = state.initialized /\ s.history_initialized = state.history_initialized
  BY InvParts DEF StateType
<1> QED
  BY <1>1, <1>2, QuietSetter

\* The others do not set the share either.
LEMMA QuietSetters ==
    ASSUME Inv, InOrder, NEW r,
           \/ update_margin_ratio(r)
           \/ update_partial_liquidation_penalty_percentage(r)
           \/ update_full_liquidation_penalty_percentage(r)
           \/ update_partial_liquidation_liquidator_share_denominator(r)
           \/ update_full_liquidation_liquidator_share_denominator(r)
           \/ update_fee(r) \/ update_oracle_guard_rails(r) \/ update_admin(r)
           \/ update_whitelist_mint(r) \/ update_discount_mint(r) \/ update_max_deposit(r)
           \/ update_exchange_paused(r) \/ update_funding_paused(r)
           \/ disable_admin_controls_prices
    PROVE  Quiet /\ SharesKept
<1> USE QuietSetter DEF StateType
<1>1. state \in StateType
  BY InvParts
<1>2. CASE update_margin_ratio(r)
  <2> DEFINE s == [state EXCEPT !.margin_ratio_initial = r.initial,
                                !.margin_ratio_partial = r.partial,
                                !.margin_ratio_maintenance = r.maintenance]
  <2>1. SetState(s)
    BY <1>2 DEF update_margin_ratio
  <2>2. s.initialized = state.initialized /\ s.history_initialized = state.history_initialized
    BY <1>1
  <2>3. /\ s.partial_liquidation_close_percentage_numerator
            = state.partial_liquidation_close_percentage_numerator
        /\ s.partial_liquidation_close_percentage_denominator
            = state.partial_liquidation_close_percentage_denominator
    BY <1>1
  <2> HIDE DEF s
  <2> QED
    BY <2>1, <2>2, <2>3
<1>3. CASE update_partial_liquidation_penalty_percentage(r)
  <2> DEFINE s == [state EXCEPT
                    !.partial_liquidation_penalty_percentage_numerator = r.numerator,
                    !.partial_liquidation_penalty_percentage_denominator = r.denominator]
  <2>1. SetState(s)
    BY <1>3 DEF update_partial_liquidation_penalty_percentage
  <2>2. s.initialized = state.initialized /\ s.history_initialized = state.history_initialized
    BY <1>1
  <2>3. /\ s.partial_liquidation_close_percentage_numerator
            = state.partial_liquidation_close_percentage_numerator
        /\ s.partial_liquidation_close_percentage_denominator
            = state.partial_liquidation_close_percentage_denominator
    BY <1>1
  <2> HIDE DEF s
  <2> QED
    BY <2>1, <2>2, <2>3
<1>4. CASE update_full_liquidation_penalty_percentage(r)
  <2> DEFINE s == [state EXCEPT
                    !.full_liquidation_penalty_percentage_numerator = r.numerator,
                    !.full_liquidation_penalty_percentage_denominator = r.denominator]
  <2>1. SetState(s)
    BY <1>4 DEF update_full_liquidation_penalty_percentage
  <2>2. s.initialized = state.initialized /\ s.history_initialized = state.history_initialized
    BY <1>1
  <2>3. /\ s.partial_liquidation_close_percentage_numerator
            = state.partial_liquidation_close_percentage_numerator
        /\ s.partial_liquidation_close_percentage_denominator
            = state.partial_liquidation_close_percentage_denominator
    BY <1>1
  <2> HIDE DEF s
  <2> QED
    BY <2>1, <2>2, <2>3
<1>5. CASE update_partial_liquidation_liquidator_share_denominator(r)
  BY <1>1, <1>5 DEF update_partial_liquidation_liquidator_share_denominator
<1>6. CASE update_full_liquidation_liquidator_share_denominator(r)
  BY <1>1, <1>6 DEF update_full_liquidation_liquidator_share_denominator
<1>7. CASE update_fee(r)
  BY <1>1, <1>7 DEF update_fee
<1>8. CASE update_oracle_guard_rails(r)
  BY <1>1, <1>8 DEF update_oracle_guard_rails
<1>9. CASE update_admin(r)
  BY <1>1, <1>9 DEF update_admin
<1>10. CASE update_whitelist_mint(r)
  BY <1>1, <1>10 DEF update_whitelist_mint
<1>11. CASE update_discount_mint(r)
  BY <1>1, <1>11 DEF update_discount_mint
<1>12. CASE update_max_deposit(r)
  BY <1>1, <1>12 DEF update_max_deposit
<1>13. CASE update_exchange_paused(r)
  BY <1>1, <1>13 DEF update_exchange_paused
<1>14. CASE update_funding_paused(r)
  BY <1>1, <1>14 DEF update_funding_paused
<1>15. CASE disable_admin_controls_prices
  BY <1>1, <1>15 DEF disable_admin_controls_prices
<1> QED
  BY <1>2, <1>3, <1>4, <1>5, <1>6, <1>7, <1>8, <1>9, <1>10, <1>11, <1>12, <1>13, <1>14,
     <1>15

\* The other steps of the admin: initialize runs once, before there is a
\* history, and initialize_history empties the histories.
LEMMA QuietAdmin == ASSUME Inv, InOrder, AdminStep PROVE Quiet
<1>1. history \in HistoryType /\ state \in StateType
  BY InvParts
<1>2. ASSUME NEW amount, withdraw_from_insurance_vault(amount) PROVE Quiet
  BY <1>2, QuietStep, SameBooks DEF withdraw_from_insurance_vault
<1>3. ASSUME NEW a, NEW b, initialize(a, b) PROVE Quiet
  <2>1. /\ ~state.initialized /\ UNCHANGED <<market, user, positions, history>>
        /\ state'.initialized /\ ~state'.history_initialized
    BY <1>3 DEF initialize, initialized_state
  <2> QED
    BY <1>1, <2>1, SameBooks DEF Quiet, InOrder, HistoryType
<1>4. ASSUME initialize_history PROVE Quiet
  <2>1. /\ state.initialized /\ UNCHANGED <<market, user, positions>>
        /\ state' = [state EXCEPT !.history_initialized = TRUE]
        /\ history' = [h \in DOMAIN history |-> 0]
    BY <1>4 DEF initialize_history
  <2>2. history'.liquidation = 0 /\ history.liquidation \in Nat
    BY <1>1, <2>1 DEF HistoryType
  <2>3. state'.initialized /\ state'.history_initialized
    BY <1>1, <2>1 DEF StateType
  <2> QED
    BY <2>1, <2>2, <2>3, SameBooks DEF Quiet, InOrder
<1> QED
  BY <1>2, <1>3, <1>4, QuietShare, QuietSetters, Zenon DEF AdminStep

\* The steps of the curve, of the markets and of the clock.
LEMMA QuietMarkets ==
    ASSUME Inv, InOrder, CurveStep \/ MarketStep \/ \E d \in TimeSteps : Tick(d)
    PROVE  Quiet
<1>1. history \in HistoryType
  BY InvParts
<1>2. CASE CurveStep
  <2>1. UNCHANGED <<state, user, positions>> /\ UNCHANGED history.liquidation
    BY <1>1, <1>2 DEF CurveStep, move_amm_price, repeg_amm_curve, update_k, HistoryType
  <2> QED
    BY <1>2, <2>1, QuietStep, CurveSteps
<1>3. CASE MarketStep
  <2>1. UNCHANGED <<state, user, positions>> /\ UNCHANGED history.liquidation
    <3>1. ASSUME NEW i \in Markets, NEW o, UpdateFundingRate(i, o)
          PROVE  UNCHANGED <<state, user, positions>> /\ UNCHANGED history.liquidation
      BY <1>1, <3>1 DEF UpdateFundingRate, HistoryType
    <3> QED
      BY <1>3, <3>1 DEF MarketStep, update_amm_oracle_twap, reset_amm_oracle_twap,
         withdraw_fees, withdraw_from_insurance_vault_to_market, initialize_market,
         update_market_oracle, update_market_minimum_trade_size, SetMarket
  <2> QED
    BY <1>3, <2>1, QuietStep, MarketSteps
<1>4. CASE \E d \in TimeSteps : Tick(d)
  BY <1>4, QuietStep, SameBooks DEF Tick
<1> QED
  BY <1>2, <1>3, <1>4

\* Every step is one of a user's transactions or leaves the users alone.
LEMMA StepKinds ==
    ASSUME Inv, InOrder, [Next]_vars
    PROVE  \/ Quiet
           \/ \E u \in Users : Settles(u) \/ Trades(u) \/ Liquidates(u) \/ Resets(u)
<1>1. CASE UNCHANGED vars
  BY <1>1, QuietStep, SameBooks DEF vars
<1>2. CASE UserStep
  BY <1>2, UserSteps
<1>3. CASE Next /\ ~UserStep
  BY <1>3, QuietAdmin, QuietMarkets DEF Next
<1> QED
  BY <1>1, <1>2, <1>3

(***************************************************************************)
(* Regular exchanges                                                       *)
(***************************************************************************)
\* The transactions of the admin that put the reserves of a market on another
\* curve, or off it, take its minimum trade size away, or let a partial
\* liquidation close the whole.
Reshapes ==
    \/ \E i \in Markets :
          \/ \E r \in ReservePairs : move_amm_price(i, r.base, r.quote)
          \/ \E k \in SqrtKs : update_k(i, k)
          \/ update_market_minimum_trade_size(i, 0)
    \/ /\ \E r \in AdminChoices.percentages : update_partial_liquidation_close_percentage(r)
       /\ ~ClosesLess'

\* The reserves of a new market are on its curve.
LEMMA InitializedTame ==
    ASSUME NEW x \in MarketInitType, x.reserve > 0, NEW o, NEW ts
    PROVE  Tame(initialized_market(x, o, ts))
<1> DEFINE n == initialized_market(x, o, ts)
           r == x.reserve
<1>1. /\ n.base_asset_reserve = r /\ n.quote_asset_reserve = r /\ n.sqrt_k = r
      /\ n.minimum_trade_size = DEFAULT_MINIMUM_TRADE_SIZE
  BY DEF initialized_market, BlankMarket
<1>2. DEFAULT_MINIMUM_TRADE_SIZE > 0
  BY GenesisAssumption
<1>3. r \in Nat \ {0}
  BY DEF MarketInitType
<1> HIDE DEF n, r
<1>4. (r * r) \div (r + 1) <= r /\ r <= (r * r) \div r
  <2>1. r * r \in Nat /\ r + 1 \in Nat \ {0} /\ r * r = r * r
    BY <1>3
  <2>2. r * r < (r + 1) * (r + 1) /\ r * r <= r * (r + 1)
    BY <1>3
  <2> QED
    BY <1>3, <2>1, <2>2
<1> QED
  BY <1>1, <1>2, <1>3, <1>4 DEF Tame, OnCurve, n

\* The transactions on one market keep its reserves on the curve.
LEMMA MarketTame ==
    ASSUME Inv, AllTame(market), MarketStep, ~Reshapes
    PROVE  AllTame(market')
<1> PICK i \in Markets :
        \/ \E o \in OracleReadings : UpdateFundingRate(i, o)
        \/ \E o \in OracleReadings : update_amm_oracle_twap(i, o)
        \/ \E o \in OracleReadings : reset_amm_oracle_twap(i, o)
        \/ \E amount \in FeeWithdrawals : withdraw_fees(i, amount)
        \/ \E amount \in InsuranceWithdrawals : withdraw_from_insurance_vault_to_market(i, amount)
        \/ \E x \in MarketInits, o \in OracleReadings : initialize_market(i, x, o)
        \/ \E source \in AdminChoices.oracle_sources : update_market_oracle(i, source)
        \/ \E size \in TradeSizes : update_market_minimum_trade_size(i, size)
  BY DEF MarketStep
<1> DEFINE m == market[i]
<1>1. Good(m) /\ m \in MarketType /\ now \in Nat /\ (m.initialized => Tame(m))
  BY InvParts DEF Good, AllTame
<1>2. ASSUME NEW reading \in OracleReadings, UpdateFundingRate(i, reading)
      PROVE  AllTame(market')
  <2> DEFINE o == get_oracle_price(m, reading)
             g == state.oracle_guard_rails
             paused == state.funding_paused
             n == update_funding_rate(m, o, now, g, paused)
  <2>1. /\ m.initialized /\ update_funding_rate_ok(m, o, now, g, paused)
        /\ market' = [market EXCEPT ![i] = n]
    BY <1>2 DEF UpdateFundingRate, market_initialized
  <2>2. o \in OracleType
    BY InputsAssumption, OraclePrice
  <2> HIDE DEF m, o, g, paused
  <2>3. Funded(m, n)
    BY <1>1, <2>1, <2>2, FundingRate
  <2>4. Tame(n)
    BY <1>1, <2>1, <2>3, CurveTame DEF Funded
  <2> HIDE DEF n
  <2> QED
    BY <2>1, <2>4, OneTame
<1>3. ASSUME NEW n, m.initialized, SameShape(m, n), market' = [market EXCEPT ![i] = n]
      PROVE  AllTame(market')
  BY <1>1, <1>3, ShapeTame, OneTame
<1>4. ASSUME NEW x, NEW y
      PROVE  /\ SameShape(m, [m EXCEPT !.last_oracle_price_twap = x,
                                       !.last_oracle_price_twap_ts = y])
             /\ SameShape(m, [m EXCEPT !.total_fee_withdrawn = x])
             /\ SameShape(m, [m EXCEPT !.total_fee_minus_distributions = x])
             /\ SameShape(m, [m EXCEPT !.oracle_source = x])
  BY <1>1 DEF SameShape, SameReserves, MarketType
<1>5. ASSUME NEW o, update_amm_oracle_twap(i, o) \/ reset_amm_oracle_twap(i, o)
      PROVE  AllTame(market')
  <2>1. m.initialized /\ (market' = market \/ \E twap :
            market' = [market EXCEPT ![i] = set_oracle_twap(m, twap)])
    BY <1>5 DEF update_amm_oracle_twap, reset_amm_oracle_twap, market_initialized
  <2> QED
    BY <1>3, <1>4, <2>1 DEF set_oracle_twap
<1>6. ASSUME NEW amount, withdraw_fees(i, amount) PROVE AllTame(market')
  <2>1. /\ m.initialized
        /\ market' = [market EXCEPT ![i] = [m EXCEPT !.total_fee_withdrawn =
                                                m.total_fee_withdrawn + amount]]
    BY <1>6 DEF withdraw_fees, market_initialized
  <2> QED
    BY <1>3, <1>4, <2>1
<1>7. ASSUME NEW amount, withdraw_from_insurance_vault_to_market(i, amount)
      PROVE  AllTame(market')
  <2>1. /\ m.initialized
        /\ market' = [market EXCEPT ![i] = [m EXCEPT !.total_fee_minus_distributions =
                                                m.total_fee_minus_distributions + amount]]
    BY <1>7 DEF withdraw_from_insurance_vault_to_market, market_initialized
  <2> QED
    BY <1>3, <1>4, <2>1
<1>8. ASSUME NEW x \in MarketInits, NEW o, initialize_market(i, x, o) PROVE AllTame(market')
  <2>1. x.reserve > 0 /\ market' = [market EXCEPT ![i] = initialized_market(x, o, now)]
    BY <1>8 DEF initialize_market
  <2>2. Tame(initialized_market(x, o, now))
    BY <2>1, InputsAssumption, InitializedTame
  <2> QED
    BY <2>1, <2>2, OneTame
<1>9. ASSUME NEW source, update_market_oracle(i, source) PROVE AllTame(market')
  BY <1>3, <1>4, <1>9 DEF update_market_oracle, SetMarket, market_initialized
<1>10. ASSUME NEW size \in TradeSizes, update_market_minimum_trade_size(i, size)
       PROVE  AllTame(market')
  <2> DEFINE n == [m EXCEPT !.minimum_trade_size = size]
  <2>1. size \in Nat /\ size # 0
    BY <1>10, InputsAssumption DEF Reshapes
  <2>2. m.initialized /\ market' = [market EXCEPT ![i] = n]
    BY <1>10 DEF update_market_minimum_trade_size, SetMarket, market_initialized
  <2>3. SameReserves(m, n) /\ n.sqrt_k = m.sqrt_k /\ n.minimum_trade_size = size
    BY <1>1 DEF SameReserves, MarketType
  <2> HIDE DEF n, m
  <2>4. Tame(n)
    BY <1>1, <2>1, <2>2, <2>3, SameIsOnCurve DEF Tame
  <2> QED
    BY <2>2, <2>4, OneTame DEF m
<1> QED
  BY <1>2, <1>5, <1>6, <1>7, <1>8, <1>9, <1>10

\* A new peg moves neither the reserves nor k.
LEMMA RepegTame ==
    ASSUME Inv, AllTame(market), NEW i \in Markets, NEW p, NEW o, repeg_amm_curve(i, p, o)
    PROVE  AllTame(market')
<1> DEFINE m == market[i]
           m1 == [m EXCEPT !.peg_multiplier = p]
           n == pay_adjustment(m1, adjust_peg_cost(m, p))
<1>1. m \in MarketType
  BY InvParts DEF Good
<1>2. m.initialized /\ market' = [market EXCEPT ![i] = n]
  BY DEF repeg_amm_curve, market_initialized
<1>3. ASSUME NEW x
      PROVE  SameShape(m, [m1 EXCEPT !.total_fee_minus_distributions = x])
  BY <1>1 DEF SameShape, SameReserves, MarketType
<1>4. SameShape(m, n)
  BY <1>3 DEF pay_adjustment
<1> HIDE DEF n
<1> QED
  BY <1>2, <1>4, ShapeTame, OneTame DEF AllTame

\* Every other step leaves a regular exchange regular.
LEMMA RegularStep ==
    ASSUME Inv, InOrder, Regular, [Next]_vars, ~Reshapes
    PROVE  Regular'
<1>1. ASSUME SharesKept PROVE Regular'
  BY <1>1 DEF SharesKept, Regular, ClosesLess
<1>2. ASSUME UNCHANGED state, AllTame(market') PROVE Regular'
  BY <1>2 DEF Regular, ClosesLess
<1>3. CASE UNCHANGED vars
  BY <1>1, <1>3 DEF vars, SharesKept
<1>4. CASE UserStep
  <2>1. PICK u \in Users : Settles(u) \/ Trades(u) \/ Liquidates(u) \/ Resets(u)
    BY <1>4, UserSteps
  <2>2. CASE Settles(u) \/ Resets(u)
    BY <1>1, <2>2 DEF Settles, Resets, Touches, SharesKept
  <2>3. CASE Trades(u) \/ Liquidates(u)
    BY <1>2, <2>3 DEF Trades, Liquidates, Touches
  <2> QED
    BY <2>1, <2>2, <2>3
<1>5. CASE CurveStep
  <2>1. PICK i \in Markets, p \in PegCandidates, o \in OracleReadings : repeg_amm_curve(i, p, o)
    BY <1>5 DEF CurveStep, Reshapes
  <2>2. UNCHANGED state
    BY <2>1 DEF repeg_amm_curve
  <2>3. AllTame(market')
    BY <2>1, RepegTame DEF Regular
  <2> QED
    BY <1>2, <2>2, <2>3
<1>6. CASE MarketStep
  <2>1. UNCHANGED state
    BY <1>6 DEF MarketStep, UpdateFundingRate, update_amm_oracle_twap, reset_amm_oracle_twap,
       withdraw_fees, withdraw_from_insurance_vault_to_market, initialize_market,
       update_market_oracle, update_market_minimum_trade_size, SetMarket
  <2>2. AllTame(market')
    BY <1>6, MarketTame DEF Regular
  <2> QED
    BY <1>2, <2>1, <2>2
<1>7. CASE AdminStep
  <2>1. ASSUME NEW a, NEW b, initialize(a, b) PROVE Regular'
    <3>1. /\ state'.partial_liquidation_close_percentage_numerator = 25
          /\ state'.partial_liquidation_close_percentage_denominator = 100
          /\ UNCHANGED market
      BY <2>1 DEF initialize, initialized_state
    <3> QED
      BY <3>1 DEF Regular, ClosesLess
  <2>2. ASSUME initialize_history PROVE Regular'
    <3>1. SharesKept
      BY <2>2, InvParts DEF initialize_history, SharesKept, StateType
    <3> QED
      BY <1>1, <3>1
  <2>3. ASSUME NEW amount, withdraw_from_insurance_vault(amount) PROVE Regular'
    BY <1>1, <2>3 DEF withdraw_from_insurance_vault, SharesKept
  <2>4. ASSUME NEW r \in AdminChoices.percentages,
               update_partial_liquidation_close_percentage(r) PROVE Regular'
    <3>1. ClosesLess' /\ UNCHANGED market
      BY <2>4 DEF Reshapes, update_partial_liquidation_close_percentage, SetState
    <3> QED
      BY <3>1 DEF Regular
  <2> QED
    BY <1>7, <1>1, <2>1, <2>2, <2>3, <2>4, QuietSetters, Zenon DEF AdminStep
<1>8. CASE \E d \in TimeSteps : Tick(d)
  BY <1>1, <1>8 DEF Tick, SharesKept
<1> QED
  BY <1>3, <1>4, <1>5, <1>6, <1>7, <1>8 DEF Next

(***************************************************************************)
(* The slots of a user                                                     *)
(***************************************************************************)
\* Once the funding is settled the open positions still come first.
LEMMA SettledOpenFirst ==
    ASSUME NEW ps \in SlotsType, NEW mk, OpenFirst(ps)
    PROVE  OpenFirst(settled_positions(ps, mk))
BY SettledSlots DEF OpenFirst, is_open_position

\* Reducing and closing positions keeps them first.
LEMMA ClosesOpenFirst ==
    ASSUME NEW ps, NEW qs, OpenFirst(ps), OnlyCloses(ps, qs)
    PROVE  OpenFirst(qs)
BY DEF OpenFirst, OnlyCloses

\* A trade uses the slot of the open position, or else the first free one: the
\* slots before that one are all open, in other markets.
LEMMA TradeOpenFirst ==
    ASSUME NEW ps \in SlotsType, OpenFirst(ps), NEW i \in Markets, NEW p \in PositionType,
           p.market_index = i, SlotsFor(ps, i) # {} \/ FreeSlots(ps) # {}
    PROVE  OpenFirst([ps EXCEPT ![TradeSlot(ps, i)] = p])
<1> DEFINE slot == TradeSlot(ps, i)
           qs == [ps EXCEPT ![slot] = p]
<1>1. slot \in Slots
  BY TradeSlotType
<1>2. /\ SlotsFor(ps, i) # {} => slot \in SlotsFor(ps, i)
      /\ SlotsFor(ps, i) = {} =>
            slot \in FreeSlots(ps) /\ \A t \in FreeSlots(ps) : slot <= t
  BY TradeSlotChoice
<1> HIDE DEF slot
<1>3. qs[slot] = p /\ \A s \in Slots \ {slot} : qs[s] = ps[s]
  BY <1>1 DEF SlotsType
<1> HIDE DEF qs
<1>4. CASE SlotsFor(ps, i) # {}
  <2>1. ps[slot].market_index = i /\ is_open_position(ps[slot])
    BY <1>2, <1>4 DEF SlotsFor, is_for
  <2>2. OnlyCloses(ps, qs)
    BY <1>3, <2>1 DEF OnlyCloses
  <2> QED
    BY <2>2, ClosesOpenFirst DEF qs, slot
<1>5. CASE SlotsFor(ps, i) = {}
  <2>1. ASSUME NEW s \in Slots, NEW t \in Slots, t < s, is_open_position(qs[s])
        PROVE  qs[t].market_index # qs[s].market_index
    <3>1. CASE s = slot
      <4>1. is_open_position(ps[t])
        BY <1>2, <1>5, <2>1, <3>1 DEF FreeSlots, Slots
      <4>2. ps[t].market_index # i
        BY <1>5, <4>1 DEF SlotsFor, is_for
      <4> QED
        BY <1>3, <2>1, <3>1, <4>2 DEF Slots
    <3>2. CASE s # slot /\ t = slot
      BY <1>3, <1>5, <2>1, <3>2 DEF SlotsFor, is_for
    <3>3. CASE s # slot /\ t # slot
      BY <1>3, <2>1, <3>3 DEF OpenFirst
    <3> QED
      BY <3>1, <3>2, <3>3
  <2> QED
    BY <2>1 DEF OpenFirst, qs, slot
<1> QED
  BY <1>4, <1>5

\* Blank slots hold nothing.
LEMMA BlankOpenFirst == OpenFirst(BlankPositions)
BY DEF OpenFirst, BlankPositions, new_market_position, is_open_position

(***************************************************************************)
(* The transactions keep the invariants                                    *)
(***************************************************************************)
\* The parts of the invariant for one user.
LEMMA ExchangeParts ==
    ASSUME ExchangeInv, NEW u \in Users
    PROVE  /\ Inv /\ InOrder /\ user[u] \in UserType /\ positions[u] \in SlotsType
           /\ AccountOK(u) /\ OpenFirst(positions[u])
BY InvParts DEF ExchangeInv

\* A transaction on an account keeps the invariants when it leaves the slots in order.
LEMMA TouchedOK ==
    ASSUME ExchangeInv, NEW u \in Users, NEW ps, Touches(u, ps), OpenFirst(ps)
    PROVE  InOrder' /\ \A v \in Users : AccountOK(v)' /\ OpenFirst(positions'[v])
<1>1. positions \in [Users -> SlotsType] /\ InOrder
  BY InvParts DEF ExchangeInv
<1>2. Running /\ Account(u) /\ UNCHANGED state /\ positions' = [positions EXCEPT ![u] = ps]
  BY DEF Touches
<1>3. positions'[u] = ps /\ \A v \in Users \ {u} : positions'[v] = positions[v]
  BY <1>1, <1>2
<1>4. ASSUME NEW v \in Users PROVE AccountOK(v)'
  <2>1. state'.history_initialized
    BY <1>2 DEF Running
  <2>2. SUFFICES ASSUME ~user'[v].initialized
                 PROVE  user'[v] = BlankUser /\ positions'[v] = BlankPositions
    BY <2>1 DEF AccountOK
  <2>3. ~user[v].initialized /\ user'[v] = user[v]
    BY <2>2 DEF Touches
  <2>4. v # u
    BY <1>2, <2>3 DEF Account
  <2> QED
    BY <1>3, <2>3, <2>4, ExchangeParts DEF AccountOK
<1>5. ASSUME NEW v \in Users PROVE OpenFirst(positions'[v])
  BY <1>3, ExchangeParts
<1>6. InOrder'
  BY <1>1, <1>2 DEF InOrder
<1> QED
  BY <1>4, <1>5, <1>6

\* Opening or closing an account leaves it blank, and its collateral empty.
LEMMA ResetOK ==
    ASSUME ExchangeInv, NEW u \in Users, Resets(u)
    PROVE  InOrder' /\ \A v \in Users : AccountOK(v)' /\ OpenFirst(positions'[v])
<1> DEFINE opened == [BlankUser EXCEPT !.initialized = TRUE]
<1>1. positions \in [Users -> SlotsType] /\ user \in [Users -> UserType] /\ InOrder
  BY InvParts DEF ExchangeInv
<1>2. /\ positions' = [positions EXCEPT ![u] = BlankPositions] /\ UNCHANGED state
      /\ user' = [user EXCEPT ![u] = BlankUser] \/ user' = [user EXCEPT ![u] = opened]
  BY DEF Resets
<1>3. opened.initialized /\ opened.collateral = 0 /\ BlankUser.collateral = 0
  BY DEF BlankUser
<1> HIDE DEF opened
<1>4. /\ positions'[u] = BlankPositions /\ user'[u] \in {BlankUser, opened}
      /\ \A v \in Users \ {u} : positions'[v] = positions[v] /\ user'[v] = user[v]
  BY <1>1, <1>2
<1>5. ASSUME NEW v \in Users PROVE AccountOK(v)'
  <2>1. CASE v = u
    BY <1>3, <1>4, <2>1 DEF AccountOK
  <2>2. CASE v # u
    BY <1>2, <1>4, <2>2, ExchangeParts DEF AccountOK
  <2> QED
    BY <2>1, <2>2
<1>6. ASSUME NEW v \in Users PROVE OpenFirst(positions'[v])
  BY <1>4, BlankOpenFirst, ExchangeParts
<1>7. InOrder'
  BY <1>1, <1>2 DEF InOrder
<1> QED
  BY <1>5, <1>6, <1>7

\* A quiet step keeps them too: initialize_history only makes way for funds.
LEMMA QuietOK ==
    ASSUME ExchangeInv, Quiet
    PROVE  InOrder' /\ \A v \in Users : AccountOK(v)' /\ OpenFirst(positions'[v])
BY ExchangeParts DEF Quiet, AccountOK

\* Every step keeps the invariants.
LEMMA ExchangeStep == ASSUME ExchangeInv, [Next]_vars PROVE ExchangeInv'
<1> DEFINE UsersOK == InOrder' /\ \A v \in Users : AccountOK(v)' /\ OpenFirst(positions'[v])
<1>1. Inv /\ InOrder /\ Inv'
  BY EveryStep, StepInv DEF ExchangeInv
<1>2. ASSUME Quiet PROVE UsersOK
  BY <1>2, QuietOK
<1>3. ASSUME NEW u \in Users, Settles(u) \/ Trades(u) \/ Liquidates(u) \/ Resets(u)
      PROVE  UsersOK
  <2>1. OpenFirst(Settled(u)) /\ Settled(u) \in SlotsType
    BY <1>1, ExchangeParts, SettledOpenFirst, UserParts DEF Settled
  <2>2. CASE Settles(u)
    BY <2>1, <2>2, TouchedOK DEF Settles
  <2>3. CASE Trades(u)
    <3>1. PICK i \in Markets, p \in PositionType :
            /\ SlotsFor(Settled(u), i) # {} \/ FreeSlots(Settled(u)) # {}
            /\ p.market_index = i
            /\ Touches(u, [Settled(u) EXCEPT ![TradeSlot(Settled(u), i)] = p])
      BY <2>3 DEF Trades
    <3>2. OpenFirst([Settled(u) EXCEPT ![TradeSlot(Settled(u), i)] = p])
      BY <2>1, <3>1, TradeOpenFirst
    <3> QED
      BY <3>1, <3>2, TouchedOK
  <2>4. CASE Liquidates(u)
    <3>1. PICK ps \in SlotsType : Touches(u, ps) /\ OnlyCloses(Settled(u), ps)
      BY <2>4 DEF Liquidates
    <3>2. OpenFirst(ps)
      BY <2>1, <3>1, ClosesOpenFirst
    <3> QED
      BY <3>1, <3>2, TouchedOK
  <2>5. CASE Resets(u)
    BY <2>5, ResetOK
  <2> QED
    BY <1>3, <2>2, <2>3, <2>4, <2>5
<1>4. UsersOK
  BY <1>1, <1>2, <1>3, StepKinds
<1> QED
  BY <1>1, <1>4 DEF ExchangeInv

\* The invariants hold initially: whoever has deposited has found the histories.
LEMMA ExchangeInit == ASSUME Init PROVE ExchangeInv
<1>1. Inv
  BY Initially
<1>2. InOrder
  BY GenesisAssumption DEF Init, InOrder
<1>3. ASSUME NEW u \in Users PROVE AccountOK(u) /\ OpenFirst(positions[u])
  <2>1. positions[u] = BlankPositions
    BY DEF Init
  <2>2. CASE u \in GenesisUsers
    <3>1. state.history_initialized
      BY <2>2, GenesisAssumption DEF Init
    <3>2. user[u].initialized
      BY <2>2 DEF Init, BlankUser
    <3> QED
      BY <2>1, <3>1, <3>2, BlankOpenFirst DEF AccountOK
  <2>3. CASE u \notin GenesisUsers
    <3>1. user[u] = BlankUser
      BY <2>3 DEF Init
    <3>2. BlankUser.collateral = 0
      BY DEF BlankUser
    <3> QED
      BY <2>1, <3>1, <3>2, BlankOpenFirst DEF AccountOK
  <2> QED
    BY <2>2, <2>3
<1> QED
  BY <1>1, <1>2, <1>3 DEF ExchangeInv

\* The inductive invariant of the accounts.
THEOREM ExchangeInvariance == Spec => []ExchangeInv
<1>1. Init => ExchangeInv
  BY ExchangeInit
<1>2. ExchangeInv /\ [Next]_vars => ExchangeInv'
  BY ExchangeStep
<1> QED
  BY <1>1, <1>2, PTL DEF Spec

(***************************************************************************)
(* Sums over users and markets                                             *)
(***************************************************************************)
\* The element of a set that the sum takes first.
Pick(s) == CHOOSE x \in s : TRUE

\* Induction over the subsets of a finite set, with a set for the predicate.
LEMMA SubsetInduction ==
    ASSUME NEW S, IsFiniteSet(S), NEW B, {} \in B,
           \A s \in SUBSET S : s # {} /\ s \ {Pick(s)} \in B => s \in B
    PROVE  S \in B
<1> DEFINE T == {s \in SUBSET S : s \notin B}
           R == StrictSubsetOrdering(S)
<1>1. SUFFICES ASSUME S \notin B PROVE FALSE
  OBVIOUS
<1>2. T # {} /\ T \subseteq SUBSET S
  BY <1>1
<1>3. IsWellFoundedOn(R, SUBSET S)
  <2>1. FiniteSubsetsOf(S) = SUBSET S
    BY FS_FiniteSubsetsOfFinite
  <2> QED
    BY <2>1, FS_StrictSubsetOrderingWellFounded
<1> HIDE DEF T, R
<1>4. PICK s \in T : \A y \in T : ~(<<y, s>> \in R)
  BY <1>2, <1>3, WFMin
<1>5. s \in SUBSET S /\ s \notin B /\ s # {}
  BY <1>4 DEF T
<1>6. Pick(s) \in s
  BY <1>5 DEF Pick
<1>7. s \ {Pick(s)} \in B
  <2>1. <<s \ {Pick(s)}, s>> \in R
    BY <1>5, <1>6 DEF R, StrictSubsetOrdering
  <2> QED
    BY <1>4, <1>5, <2>1 DEF T
<1> QED
  BY <1>5, <1>7

\* One step of the sum.
Total(g, f, s) == IF s = {} THEN 0 ELSE f[Pick(s)] + g[s \ {Pick(s)}]

\* g sums f over the subsets of S.
Sums(g, f, S) == g = [s \in SUBSET S |-> Total(g, f, s)]

\* The sum of f is such a g's value for the domain of f.
LEMMA SumDefinition ==
    ASSUME NEW f, NEW S, DOMAIN f = S
    PROVE  SumOf(f) = (CHOOSE g : Sums(g, f, S))[S]
BY Zenon DEF SumOf, MapThenSumSet, MapThenFoldSet, Sums, Total, Pick

\* Induction over the natural numbers, with a set for the predicate.
LEMMA NatSetInduction ==
    ASSUME NEW B, 0 \in B, \A n \in Nat : n \in B => n + 1 \in B
    PROVE  \A n \in Nat : n \in B
<1> DEFINE T == {n \in Nat : n \notin B}
           R == OpToRel(<, Nat)
<1>1. SUFFICES ASSUME T # {} PROVE FALSE
  OBVIOUS
<1>2. T \subseteq Nat /\ IsWellFoundedOn(R, Nat)
  BY NatLessThanWellFounded
<1>3. \A a, b \in Nat : a < b => <<a, b>> \in R
  BY DEF OpToRel
<1> HIDE DEF T, R
<1>4. PICK n \in T : \A y \in T : ~(<<y, n>> \in R)
  BY <1>1, <1>2, WFMin
<1>5. n \in Nat /\ n \notin B /\ n # 0
  BY <1>4 DEF T
<1>6. n - 1 \in Nat /\ n - 1 < n /\ (n - 1) + 1 = n
  BY <1>5
<1>7. n - 1 \in B
  BY <1>3, <1>4, <1>5, <1>6 DEF T
<1> QED
  BY <1>5, <1>6, <1>7

\* There is such a g: n rounds fix its values on the sets of at most n elements.
LEMMA SumExists ==
    ASSUME NEW S, IsFiniteSet(S), NEW f \in [S -> Int]
    PROVE  \E g : Sums(g, f, S)
<1> DEFINE Fixed(g, n) == \A s \in SUBSET S : Cardinality(s) <= n => g[s] = Total(g, f, s)
           B == {n \in Nat : \E g \in [SUBSET S -> Int] : Fixed(g, n)}
<1>1. ASSUME NEW s \in SUBSET S
      PROVE  /\ Cardinality(s) \in Nat /\ (Cardinality(s) = 0 <=> s = {})
             /\ s # {} => /\ Pick(s) \in S /\ s \ {Pick(s)} \in SUBSET S
                          /\ Cardinality(s \ {Pick(s)}) = Cardinality(s) - 1
  <2>1. IsFiniteSet(s)
    BY FS_Subset
  <2>2. s # {} => Pick(s) \in s
    BY DEF Pick
  <2>3. Cardinality(s) \in Nat /\ (Cardinality(s) = 0 <=> s = {})
    BY <2>1, FS_CardinalityType, FS_EmptySet
  <2>4. Cardinality(s \ {Pick(s)}) = IF Pick(s) \in s THEN Cardinality(s) - 1 ELSE Cardinality(s)
    BY <2>1, FS_RemoveElement
  <2> QED
    BY <2>2, <2>3, <2>4
<1>2. ASSUME NEW g \in [SUBSET S -> Int], NEW s \in SUBSET S PROVE Total(g, f, s) \in Int
  <2>1. CASE s = {}
    BY <2>1 DEF Total
  <2>2. CASE s # {}
    <3>1. Pick(s) \in S /\ s \ {Pick(s)} \in SUBSET S
      BY <1>1, <2>2
    <3>2. f[Pick(s)] \in Int /\ g[s \ {Pick(s)}] \in Int
      BY <3>1
    <3> QED
      BY <2>2, <3>2 DEF Total
  <2> QED
    BY <2>1, <2>2
<1>3. 0 \in B
  <2> DEFINE g == [s \in SUBSET S |-> 0]
  <2>1. g \in [SUBSET S -> Int]
    OBVIOUS
  <2>2. Fixed(g, 0)
    <3>1. ASSUME NEW s \in SUBSET S, Cardinality(s) <= 0 PROVE g[s] = Total(g, f, s)
      <4>1. Cardinality(s) \in Nat /\ (Cardinality(s) = 0 <=> s = {})
        BY <1>1
      <4>2. s = {}
        BY <3>1, <4>1
      <4> QED
        BY <4>2 DEF Total
    <3> QED
      BY <3>1
  <2> QED
    BY <2>1, <2>2
<1>4. ASSUME NEW n \in Nat, n \in B PROVE n + 1 \in B
  <2>1. PICK g \in [SUBSET S -> Int] : Fixed(g, n)
    BY <1>4
  <2> DEFINE h == [s \in SUBSET S |-> Total(g, f, s)]
  <2>2. h \in [SUBSET S -> Int]
    BY <1>2
  <2>3. ASSUME NEW s \in SUBSET S, Cardinality(s) <= n + 1 PROVE h[s] = Total(h, f, s)
    <3>1. CASE s = {}
      BY <3>1 DEF Total
    <3>2. CASE s # {}
      <4> DEFINE r == s \ {Pick(s)}
      <4>1. r \in SUBSET S /\ Cardinality(r) <= n
        BY <1>1, <2>3, <3>2
      <4>2. g[r] = Total(g, f, r)
        BY <2>1, <4>1
      <4>3. h[r] = g[r]
        BY <4>1, <4>2
      <4>4. h[s] = Total(g, f, s)
        OBVIOUS
      <4> HIDE DEF h
      <4> QED
        BY <3>2, <4>3, <4>4 DEF Total
    <3> QED
      BY <3>1, <3>2
  <2> HIDE DEF h
  <2>4. Fixed(h, n + 1)
    BY <2>3
  <2> QED
    BY <2>2, <2>4
<1>5. Cardinality(S) \in Nat
  BY FS_CardinalityType
<1>6. Cardinality(S) \in B
  <2> HIDE DEF B
  <2> QED
    BY <1>3, <1>4, <1>5, NatSetInduction
<1>7. PICK g \in [SUBSET S -> Int] : Fixed(g, Cardinality(S))
  BY <1>6
<1>8. \A s \in SUBSET S : g[s] = Total(g, f, s)
  BY <1>7, FS_Subset
<1> QED
  BY <1>7, <1>8 DEF Sums

\* SumOf(f) is the value of such a g, whatever it does to other sets.
LEMMA SumChosen ==
    ASSUME NEW S, IsFiniteSet(S), NEW f \in [S -> Int]
    PROVE  \E g : Sums(g, f, S) /\ SumOf(f) = g[S]
BY SumExists, SumDefinition, Zenon

\* The sum of integers is an integer.
LEMMA SumType ==
    ASSUME NEW S, IsFiniteSet(S), NEW f \in [S -> Int]
    PROVE  SumOf(f) \in Int
<1>1. PICK g : Sums(g, f, S) /\ SumOf(f) = g[S]
  BY SumChosen
<1> DEFINE B == {s \in SUBSET S : g[s] \in Int}
<1>2. ASSUME NEW s \in SUBSET S
      PROVE  g[s] = IF s = {} THEN 0 ELSE f[Pick(s)] + g[s \ {Pick(s)}]
  BY <1>1 DEF Sums, Total
<1>3. {} \in B
  <2>1. g[{}] = 0
    BY <1>2, Zenon
  <2> QED
    BY <2>1
<1>4. ASSUME NEW s \in SUBSET S, s # {}, s \ {Pick(s)} \in B PROVE s \in B
  <2>1. Pick(s) \in S
    BY <1>4 DEF Pick
  <2> QED
    BY <1>2, <1>4, <2>1
<1>5. S \in B
  <2> HIDE DEF B
  <2> QED
    BY <1>3, <1>4, SubsetInduction
<1> QED
  BY <1>1, <1>5

\* A change of one summand changes the sum by as much.
LEMMA SumChange ==
    ASSUME NEW S, IsFiniteSet(S), NEW f \in [S -> Int], NEW h \in [S -> Int], NEW x \in S,
           \A y \in S \ {x} : h[y] = f[y]
    PROVE  SumOf(h) = SumOf(f) + (h[x] - f[x])
<1>1. PICK g : Sums(g, f, S) /\ SumOf(f) = g[S]
  BY SumChosen
<1>2. PICK k : Sums(k, h, S) /\ SumOf(h) = k[S]
  BY SumChosen
<1> DEFINE d(s) == IF x \in s THEN h[x] - f[x] ELSE 0
           B == {s \in SUBSET S : g[s] \in Int /\ k[s] = g[s] + d(s)}
<1>3. ASSUME NEW s \in SUBSET S
      PROVE  /\ g[s] = IF s = {} THEN 0 ELSE f[Pick(s)] + g[s \ {Pick(s)}]
             /\ k[s] = IF s = {} THEN 0 ELSE h[Pick(s)] + k[s \ {Pick(s)}]
  BY <1>1, <1>2 DEF Sums, Total
<1>4. {} \in B
  <2>1. g[{}] = 0 /\ k[{}] = 0
    BY <1>3, Zenon
  <2> QED
    BY <2>1
<1>5. ASSUME NEW s \in SUBSET S, s # {}, s \ {Pick(s)} \in B PROVE s \in B
  <2> DEFINE p == Pick(s)
             r == s \ {p}
  <2>1. p \in S /\ p \in s
    BY <1>5 DEF Pick
  <2>2. g[s] = f[p] + g[r] /\ k[s] = h[p] + k[r]
    BY <1>3, <1>5
  <2>3. g[r] \in Int /\ k[r] = g[r] + d(r)
    BY <1>5
  <2>4. p # x => d(s) = d(r) /\ h[p] = f[p]
    BY <2>1
  <2>5. p = x => d(s) = h[x] - f[x] /\ d(r) = 0
    BY <2>1
  <2>6. d(r) \in Int /\ f[p] \in Int /\ h[p] \in Int
    BY <2>1
  <2> HIDE DEF p, r, d
  <2> QED
    BY <2>2, <2>3, <2>4, <2>5, <2>6
<1>6. S \in B
  <2> HIDE DEF B
  <2> QED
    BY <1>4, <1>5, SubsetInduction
<1> QED
  BY <1>1, <1>2, <1>6

\* Zeros add up to zero.
LEMMA SumOfZeros ==
    ASSUME NEW S, IsFiniteSet(S), NEW f \in [S -> Int], \A x \in S : f[x] = 0
    PROVE  SumOf(f) = 0
<1>1. PICK g : Sums(g, f, S) /\ SumOf(f) = g[S]
  BY SumChosen
<1> DEFINE B == {s \in SUBSET S : g[s] = 0}
<1>2. ASSUME NEW s \in SUBSET S
      PROVE  g[s] = IF s = {} THEN 0 ELSE f[Pick(s)] + g[s \ {Pick(s)}]
  BY <1>1 DEF Sums, Total
<1>3. {} \in B
  <2>1. g[{}] = 0
    BY <1>2, Zenon
  <2> QED
    BY <2>1
<1>4. ASSUME NEW s \in SUBSET S, s # {}, s \ {Pick(s)} \in B PROVE s \in B
  <2>1. Pick(s) \in S
    BY <1>4 DEF Pick
  <2> QED
    BY <1>2, <1>4, <2>1
<1>5. S \in B
  <2> HIDE DEF B
  <2> QED
    BY <1>3, <1>4, SubsetInduction
<1> QED
  BY <1>1, <1>5

\* Naturals add up to a natural.
LEMMA SumNonneg ==
    ASSUME NEW S, IsFiniteSet(S), NEW f \in [S -> Int], \A x \in S : f[x] >= 0
    PROVE  SumOf(f) >= 0
<1>1. PICK g : Sums(g, f, S) /\ SumOf(f) = g[S]
  BY SumChosen
<1> DEFINE B == {s \in SUBSET S : g[s] \in Nat}
<1>2. ASSUME NEW s \in SUBSET S
      PROVE  g[s] = IF s = {} THEN 0 ELSE f[Pick(s)] + g[s \ {Pick(s)}]
  BY <1>1 DEF Sums, Total
<1>3. {} \in B
  <2>1. g[{}] = 0
    BY <1>2, Zenon
  <2> QED
    BY <2>1
<1>4. ASSUME NEW s \in SUBSET S, s # {}, s \ {Pick(s)} \in B PROVE s \in B
  <2>1. Pick(s) \in S
    BY <1>4 DEF Pick
  <2> QED
    BY <1>2, <1>4, <2>1
<1>5. S \in B
  <2> HIDE DEF B
  <2> QED
    BY <1>3, <1>4, SubsetInduction
<1> QED
  BY <1>1, <1>5

(***************************************************************************)
(* The books of the exchange                                               *)
(***************************************************************************)
\* The users and the markets can be counted.
LEMMA FiniteExchange == IsFiniteSet(Users) /\ IsFiniteSet(Markets)
<1>1. \A a, b \in Int : IsFiniteSet(a..b)
  BY FS_Interval
<1>2. IsFiniteSet(0..63)
  <2>1. 0 \in Int /\ 63 \in Int
    OBVIOUS
  <2> QED
    BY <1>1, <2>1, Zenon
<1> QED
  BY <1>2, UsersAssumption, MarketsAssumption, FS_Subset

\* The net position of a user in a market is a number, zero in blank slots.
LEMMA NetType ==
    ASSUME NEW ps \in SlotsType, NEW i
    PROVE  /\ NetIn(ps, i) \in Int
           /\ (\A s \in Slots : ~is_open_position(ps[s])) => NetIn(ps, i) = 0
<1>1. NetIn(ps, i) = BaseIn(ps[1], i) + BaseIn(ps[2], i) + BaseIn(ps[3], i)
                       + BaseIn(ps[4], i) + BaseIn(ps[5], i)
  BY DEF NetIn, SumOverSlots, Slots
<1>2. ASSUME NEW s \in Slots
      PROVE  BaseIn(ps[s], i) \in Int /\ (~is_open_position(ps[s]) => BaseIn(ps[s], i) = 0)
  BY DEF BaseIn, PositionType, SlotsType, is_open_position
<1>3. \A s \in {1, 2, 3, 4, 5} : s \in Slots
  BY DEF Slots
<1> QED
  BY <1>1, <1>2, <1>3

\* The second half of BooksBalance.
Balanced == \A i \in Markets : market[i].base_asset_amount = SumOf(NetsOfUsers(i))

\* What the positions of one user change by is booked: the books still balance.
LEMMA BookedBalanced ==
    ASSUME Inv, Inv', Balanced, NEW u \in Users,
           \A i \in Markets :
              Against(market'[i], positions'[u], i) = Against(market[i], positions[u], i),
           \A v \in Users \ {u} : positions'[v] = positions[v]
    PROVE  Balanced'
<1>1. ASSUME NEW i \in Markets PROVE market'[i].base_asset_amount = SumOf(NetsOfUsers(i)')
  <2> DEFINE f == NetsOfUsers(i)
             h == NetsOfUsers(i)'
  <2>1. positions \in [Users -> SlotsType] /\ positions' \in [Users -> SlotsType]
    BY DEF Inv, TypeOK, SlotsType
  <2>2. f \in [Users -> Int] /\ h \in [Users -> Int]
    BY <2>1, NetType DEF NetsOfUsers
  <2>3. /\ f[u] = NetIn(positions[u], i) /\ h[u] = NetIn(positions'[u], i)
        /\ \A v \in Users \ {u} : h[v] = f[v]
    BY DEF NetsOfUsers
  <2>4. market[i].base_asset_amount = SumOf(f)
    BY DEF Balanced
  <2>5. market[i].base_asset_amount \in Int /\ market'[i].base_asset_amount \in Int
    BY InvParts DEF Inv, TypeOK, MarketsType, MarketType
  <2>6. market'[i].base_asset_amount - h[u] = market[i].base_asset_amount - f[u]
    BY <2>3 DEF Against
  <2> HIDE DEF f, h
  <2>7. SumOf(h) = SumOf(f) + (h[u] - f[u])
    BY <2>2, <2>3, FiniteExchange, SumChange
  <2>8. f[u] \in Int /\ h[u] \in Int
    BY <2>2
  <2>9. market'[i].base_asset_amount = SumOf(h)
    BY <2>4, <2>5, <2>6, <2>7, <2>8
  <2> QED
    BY <2>9 DEF h
<1> QED
  BY <1>1 DEF Balanced

\* A user whose account is closed has no position.
FlatToClose(u) ==
    Account(u) /\ ~Account(u)' => \A s \in Slots : ~is_open_position(positions[u][s])

\* Then an account that is opened or closed has none before and after.
LEMMA FlatReset ==
    ASSUME ExchangeInv, NEW u \in Users, Resets(u), FlatToClose(u)
    PROVE  \A s \in Slots : ~is_open_position(positions[u][s]) /\ ~is_open_position(positions'[u][s])
<1>1. InOrder /\ positions \in [Users -> SlotsType] /\ user \in [Users -> UserType]
  BY InvParts DEF ExchangeInv
<1>2. \A s \in Slots : ~is_open_position(BlankPositions[s])
  BY DEF BlankPositions, new_market_position, is_open_position
<1>3. CASE ~Account(u)
  BY <1>1, <1>2, <1>3, ExchangeParts DEF Resets, Account, AccountOK
<1>4. CASE Account(u)
  <2>1. ~Account(u)'
    BY <1>1, <1>4 DEF Resets, Account, BlankUser
  <2> QED
    BY <1>1, <1>2, <1>4, <2>1 DEF Resets, FlatToClose
<1> QED
  BY <1>3, <1>4

\* Every step keeps the books in balance, unless it closes an account with a position.
LEMMA BalancedStep ==
    ASSUME ExchangeInv, Balanced, [Next]_vars, \A u \in Users : FlatToClose(u)
    PROVE  Balanced'
<1>1. /\ Inv /\ InOrder /\ Inv' /\ positions \in [Users -> SlotsType]
      /\ user \in [Users -> UserType]
  BY EveryStep, StepInv, InvParts DEF ExchangeInv
<1>2. CASE Quiet
  <2>1. ASSUME NEW i \in Markets PROVE NetsOfUsers(i)' = NetsOfUsers(i)
    BY <1>2 DEF Quiet, NetsOfUsers
  <2> QED
    BY <1>2, <2>1 DEF Quiet, BooksKept, Balanced
<1>3. ASSUME NEW u \in Users, NEW ps, Touches(u, ps), Booked(u) PROVE Balanced'
  <2>1. \A v \in Users \ {u} : positions'[v] = positions[v]
    BY <1>1, <1>3 DEF Touches
  <2> QED
    BY <1>1, <1>3, <2>1, BookedBalanced DEF Booked, Books
<1>4. ASSUME NEW u \in Users, Resets(u) PROVE Balanced'
  <2>1. /\ positions'[u] = BlankPositions /\ \A v \in Users \ {u} : positions'[v] = positions[v]
        /\ UNCHANGED market
    BY <1>1, <1>4 DEF Resets
  <2>2. \A s \in Slots : ~is_open_position(positions[u][s]) /\ ~is_open_position(positions'[u][s])
    BY <1>4, FlatReset
  <2>3. positions[u] \in SlotsType /\ positions'[u] \in SlotsType
    BY <1>1, <2>1, BlankAccounts
  <2>4. \A i \in Markets : NetIn(positions'[u], i) = NetIn(positions[u], i)
    BY <2>2, <2>3, NetType
  <2>5. \A i \in Markets :
          Against(market'[i], positions'[u], i) = Against(market[i], positions[u], i)
    BY <2>1, <2>4 DEF Against
  <2> QED
    BY <1>1, <2>1, <2>5, BookedBalanced
<1> QED
  BY <1>1, <1>2, <1>3, <1>4, StepKinds DEF Settles, Trades, Liquidates

(***************************************************************************)
(* The sides of the markets                                                *)
(***************************************************************************)
\* The two counters of a market cover the positions that the users hold: more
\* than those only when an account was closed with a position.
SidesCover ==
    \A i \in Markets, long \in BOOLEAN :
        SumOf(HeldByUsers(i, long)) <= SideOf(market[i], long)

\* What a user holds is a natural number, zero without an open position.
LEMMA HeldType ==
    ASSUME NEW ps \in SlotsType, NEW i, NEW long \in BOOLEAN
    PROVE  HeldIn(ps, i, long) \in Nat
<1>1. 1 \in Slots /\ ps[1] \in PositionType
  BY DEF Slots, SlotsType
<1> QED
  BY <1>1, HeldOfSlots

LEMMA HeldFlat ==
    ASSUME NEW ps, NEW i, NEW long \in BOOLEAN, \A s \in Slots : ~is_open_position(ps[s])
    PROVE  HeldIn(ps, i, long) = 0
<1> DEFINE b(s) == Part(BaseIn(ps[s], i), long)
<1>1. HeldIn(ps, i, long) = b(1) + b(2) + b(3) + b(4) + b(5)
  BY DEF HeldIn, SumOverSlots, Slots
<1>2. ASSUME NEW s \in Slots PROVE b(s) = 0
  <2>1. BaseIn(ps[s], i) = 0
    BY DEF BaseIn, is_open_position
  <2>2. ASSUME NEW w \in Int, w <= 0, w >= 0 PROVE Part(w, long) = 0
    <3>1. -w = w
      BY <2>2, MinusZero
    <3>2. Larger(w, 0) = 0
      BY <2>2 DEF Larger
    <3> QED
      BY <3>1, <3>2 DEF Part
  <2> QED
    BY <2>1, <2>2
<1>3. \A s \in {1, 2, 3, 4, 5} : s \in Slots
  BY DEF Slots
<1> HIDE DEF b
<1> QED
  BY <1>1, <1>2, <1>3

LEMMA HeldBlank ==
    ASSUME NEW i, NEW long \in BOOLEAN
    PROVE  HeldIn(BlankPositions, i, long) = 0
  BY HeldFlat DEF BlankPositions, new_market_position, is_open_position

\* A side that gains at least what the positions of one user gain still covers.
LEMMA SparedCovers ==
    ASSUME Inv, Inv', SidesCover, NEW u \in Users,
           \A i \in Markets, long \in BOOLEAN :
              Spare(market'[i], positions'[u], i, long) >= Spare(market[i], positions[u], i, long),
           \A v \in Users \ {u} : positions'[v] = positions[v]
    PROVE  SidesCover'
<1>1. ASSUME NEW i \in Markets, NEW long \in BOOLEAN
      PROVE  SumOf(HeldByUsers(i, long)') <= SideOf(market'[i], long)
  <2> DEFINE f == HeldByUsers(i, long)
             h == HeldByUsers(i, long)'
             x == SideOf(market[i], long)
             y == SideOf(market'[i], long)
  <2>1. positions \in [Users -> SlotsType] /\ positions' \in [Users -> SlotsType]
    BY DEF Inv, TypeOK, SlotsType
  <2>2. f \in [Users -> Int] /\ h \in [Users -> Int]
    BY <2>1, HeldType DEF HeldByUsers
  <2>3. /\ f[u] = HeldIn(positions[u], i, long) /\ h[u] = HeldIn(positions'[u], i, long)
        /\ \A v \in Users \ {u} : h[v] = f[v]
    BY DEF HeldByUsers
  <2>4. SumOf(f) <= x
    BY DEF SidesCover
  <2>5. x \in Int /\ y \in Int
    BY DEF Inv, TypeOK, MarketType, SideOf
  <2>6. y - h[u] >= x - f[u]
    BY <2>3 DEF Spare
  <2> HIDE DEF f, h, x, y
  <2>7. SumOf(h) = SumOf(f) + (h[u] - f[u]) /\ SumOf(f) \in Int
    BY <2>2, <2>3, FiniteExchange, SumChange, SumType
  <2>8. f[u] \in Int /\ h[u] \in Int
    BY <2>2
  <2>9. SumOf(h) <= y
    BY <2>4, <2>5, <2>6, <2>7, <2>8
  <2> QED
    BY <2>9 DEF h, y
<1> QED
  BY <1>1 DEF SidesCover

\* Every step leaves the sides covered: a trade and a liquidation by what they
\* book, and the reset of an account because it only takes positions away.
LEMMA CoverStep ==
    ASSUME ExchangeInv, SidesCover, [Next]_vars
    PROVE  SidesCover'
<1>1. /\ Inv /\ InOrder /\ Inv' /\ positions \in [Users -> SlotsType]
      /\ user \in [Users -> UserType]
  BY EveryStep, StepInv, InvParts DEF ExchangeInv
<1>2. CASE Quiet
  <2>1. ASSUME NEW i \in Markets, NEW long \in BOOLEAN
        PROVE  /\ HeldByUsers(i, long)' = HeldByUsers(i, long)
               /\ SideOf(market'[i], long) = SideOf(market[i], long)
    BY <1>2 DEF Quiet, BooksKept, HeldByUsers, SideOf, SameSides
  <2> QED
    BY <2>1 DEF SidesCover
<1>3. ASSUME NEW u \in Users, NEW ps, Touches(u, ps), Booked(u) PROVE SidesCover'
  <2>1. \A v \in Users \ {u} : positions'[v] = positions[v]
    BY <1>1, <1>3 DEF Touches
  <2> QED
    BY <1>1, <1>3, <2>1, SparedCovers DEF Booked, Books
<1>4. ASSUME NEW u \in Users, Resets(u) PROVE SidesCover'
  <2>1. /\ positions'[u] = BlankPositions /\ \A v \in Users \ {u} : positions'[v] = positions[v]
        /\ UNCHANGED market
    BY <1>1, <1>4 DEF Resets
  <2>2. ASSUME NEW i \in Markets, NEW long \in BOOLEAN
        PROVE  Spare(market'[i], positions'[u], i, long) >= Spare(market[i], positions[u], i, long)
    <3>1. HeldIn(positions[u], i, long) \in Nat /\ HeldIn(positions'[u], i, long) = 0
      BY <1>1, <2>1, HeldType, HeldBlank
    <3>2. SideOf(market[i], long) \in Int
      BY <1>1 DEF Inv, TypeOK, MarketType, SideOf
    <3> QED
      BY <2>1, <3>1, <3>2 DEF Spare
  <2> QED
    BY <1>1, <2>1, <2>2, SparedCovers
<1> QED
  BY <1>1, <1>2, <1>3, <1>4, StepKinds DEF Settles, Trades, Liquidates

\* A side that gains exactly what the positions of one user gain still matches.
LEMMA BalancedMatch ==
    ASSUME Inv, Inv', SidesMatch, NEW u \in Users,
           \A i \in Markets : Balances(market[i], positions[u], market'[i], positions'[u], i),
           \A v \in Users \ {u} : positions'[v] = positions[v]
    PROVE  SidesMatch'
<1>1. ASSUME NEW i \in Markets, NEW long \in BOOLEAN
      PROVE  SumOf(HeldByUsers(i, long)') = SideOf(market'[i], long)
  <2> DEFINE f == HeldByUsers(i, long)
             h == HeldByUsers(i, long)'
             x == SideOf(market[i], long)
             y == SideOf(market'[i], long)
  <2>1. positions \in [Users -> SlotsType] /\ positions' \in [Users -> SlotsType]
    BY DEF Inv, TypeOK, SlotsType
  <2>2. f \in [Users -> Int] /\ h \in [Users -> Int]
    BY <2>1, HeldType DEF HeldByUsers
  <2>3. /\ f[u] = HeldIn(positions[u], i, long) /\ h[u] = HeldIn(positions'[u], i, long)
        /\ \A v \in Users \ {u} : h[v] = f[v]
    BY DEF HeldByUsers
  <2>4. SumOf(f) = x
    BY DEF SidesMatch
  <2>5. x \in Int /\ y \in Int
    BY DEF Inv, TypeOK, MarketType, SideOf
  <2>6. y - h[u] = x - f[u]
    BY <2>3 DEF Balances, Spare
  <2> HIDE DEF f, h, x, y
  <2>7. SumOf(h) = SumOf(f) + (h[u] - f[u])
    BY <2>2, <2>3, FiniteExchange, SumChange
  <2>8. f[u] \in Int /\ h[u] \in Int
    BY <2>2
  <2>9. SumOf(h) = y
    BY <2>4, <2>5, <2>6, <2>7, <2>8
  <2> QED
    BY <2>9 DEF h, y
<1> QED
  BY <1>1 DEF SidesMatch

\* Every step of a regular exchange books on the sides what it does to the
\* positions, unless it closes an account with one.
LEMMA MatchStep ==
    ASSUME ExchangeInv, SidesMatch, Regular, [Next]_vars, \A u \in Users : FlatToClose(u)
    PROVE  SidesMatch'
<1>1. /\ Inv /\ InOrder /\ Inv' /\ positions \in [Users -> SlotsType]
      /\ user \in [Users -> UserType]
  BY EveryStep, StepInv, InvParts DEF ExchangeInv
<1>2. CASE Quiet
  <2>1. ASSUME NEW i \in Markets, NEW long \in BOOLEAN
        PROVE  /\ HeldByUsers(i, long)' = HeldByUsers(i, long)
               /\ SideOf(market'[i], long) = SideOf(market[i], long)
    BY <1>2 DEF Quiet, BooksKept, HeldByUsers, SideOf, SameSides
  <2> QED
    BY <2>1 DEF SidesMatch
<1>3. ASSUME NEW u \in Users, NEW ps, Touches(u, ps), BookedExactly(u) PROVE SidesMatch'
  <2>1. \A v \in Users \ {u} : positions'[v] = positions[v]
    BY <1>1, <1>3 DEF Touches
  <2> QED
    BY <1>1, <1>3, <2>1, BalancedMatch DEF BookedExactly
<1>4. ASSUME NEW u \in Users, Resets(u) PROVE SidesMatch'
  <2>1. /\ \A v \in Users \ {u} : positions'[v] = positions[v]
        /\ UNCHANGED market
    BY <1>1, <1>4 DEF Resets
  <2>2. \A s \in Slots : ~is_open_position(positions[u][s]) /\ ~is_open_position(positions'[u][s])
    BY <1>4, FlatReset
  <2>3. \A i \in Markets, long \in BOOLEAN :
          HeldIn(positions'[u], i, long) = HeldIn(positions[u], i, long)
    BY <2>2, HeldFlat
  <2>4. \A i \in Markets : Balances(market[i], positions[u], market'[i], positions'[u], i)
    BY <2>1, <2>3 DEF Balances, Spare
  <2> QED
    BY <1>1, <2>1, <2>4, BalancedMatch
<1> QED
  BY <1>1, <1>2, <1>3, <1>4, StepKinds DEF Settles, Trades, Liquidates

\* A side that covers the positions of the users has its sign.
AllSigned == \A i \in Markets : Signed(market[i])

LEMMA CoveredSigned == ASSUME Inv, SidesCover PROVE AllSigned
<1> SUFFICES ASSUME NEW i \in Markets PROVE Signed(market[i])
  BY DEF AllSigned
<1>1. ASSUME NEW long \in BOOLEAN PROVE SideOf(market[i], long) >= 0
  <2>1. HeldByUsers(i, long) \in [Users -> Int] /\ \A u \in Users : HeldByUsers(i, long)[u] >= 0
    BY InvParts, HeldType DEF HeldByUsers
  <2>2. SumOf(HeldByUsers(i, long)) >= 0 /\ SumOf(HeldByUsers(i, long)) \in Int
    BY <2>1, FiniteExchange, SumNonneg, SumType
  <2>3. SumOf(HeldByUsers(i, long)) <= SideOf(market[i], long)
    BY DEF SidesCover
  <2>4. SideOf(market[i], long) \in Int
    BY DEF Inv, TypeOK, MarketType, SideOf
  <2> QED
    BY <2>2, <2>3, <2>4
<1>2. market[i].base_asset_amount_long \in Int /\ market[i].base_asset_amount_short \in Int
  BY DEF Inv, TypeOK, MarketType
<1>3. SideOf(market[i], TRUE) >= 0 /\ SideOf(market[i], FALSE) >= 0
  BY <1>1
<1> QED
  BY <1>2, <1>3 DEF Signed, SideOf

(***************************************************************************)
(* Fees                                                                    *)
(***************************************************************************)
\* The fees are sums of numbers.
LEMMA FeeTypes ==
    ASSUME user \in [Users -> UserType], market \in MarketsType
    PROVE  /\ FeesPaid \in [Users -> Int] /\ RewardsOfReferrers \in [Users -> Int]
           /\ FeesOfMarkets \in [Markets -> Int]
<1>1. ASSUME NEW u \in Users
      PROVE  user[u].total_fee_paid \in Int /\ user[u].total_referral_reward \in Int
  BY DEF UserType
<1>2. ASSUME NEW i \in Markets PROVE market[i].total_fee \in Int
  BY DEF MarketsType, MarketType
<1> QED
  BY <1>1, <1>2 DEF FeesPaid, RewardsOfReferrers, FeesOfMarkets

\* They are so after the step, too.
LEMMA FeeTypesNext ==
    ASSUME user' \in [Users -> UserType], market' \in MarketsType
    PROVE  /\ FeesPaid' \in [Users -> Int] /\ RewardsOfReferrers' \in [Users -> Int]
           /\ FeesOfMarkets' \in [Markets -> Int]
<1>1. ASSUME NEW u \in Users
      PROVE  user'[u].total_fee_paid \in Int /\ user'[u].total_referral_reward \in Int
  BY DEF UserType
<1>2. ASSUME NEW i \in Markets PROVE market'[i].total_fee \in Int
  BY DEF MarketsType, MarketType
<1> QED
  BY <1>1, <1>2 DEF FeesPaid, RewardsOfReferrers, FeesOfMarkets

\* A fee is added on both sides of the equation.
LEMMA ChargedAddUp ==
    ASSUME Inv, Inv', FeesAddUp, NEW u \in Users, FeesCharged(u)
    PROVE  FeesAddUp'
<1>1. PICK i \in Markets, w \in Users, fee \in FeeType :
        /\ fee.user_fee = fee.fee_to_market + fee.referrer_reward
        /\ \A j \in Markets :
              market'[j].total_fee
                = market[j].total_fee + (IF j = i THEN fee.fee_to_market ELSE 0)
        /\ \A v \in Users :
              /\ user'[v].total_fee_paid
                    = user[v].total_fee_paid + (IF v = u THEN fee.user_fee ELSE 0)
              /\ user'[v].total_referral_reward
                    = user[v].total_referral_reward + (IF v = w THEN fee.referrer_reward ELSE 0)
  BY DEF FeesCharged
<1>2. fee.user_fee \in Int /\ fee.fee_to_market \in Int /\ fee.referrer_reward \in Int
  BY DEF FeeType
<1> DEFINE p == FeesPaid
           q == FeesPaid'
           a == FeesOfMarkets
           b == FeesOfMarkets'
           x == RewardsOfReferrers
           y == RewardsOfReferrers'
<1>3. /\ p \in [Users -> Int] /\ x \in [Users -> Int] /\ a \in [Markets -> Int]
      /\ q \in [Users -> Int] /\ y \in [Users -> Int] /\ b \in [Markets -> Int]
  <2>1. user \in [Users -> UserType] /\ market \in MarketsType
    BY InvParts
  <2>2. user' \in [Users -> UserType] /\ market' \in MarketsType
    BY DEF Inv, TypeOK, MarketsType
  <2> QED
    BY <2>1, <2>2, FeeTypes, FeeTypesNext
<1>4. /\ p = [v \in Users |-> user[v].total_fee_paid]
      /\ q = [v \in Users |-> user'[v].total_fee_paid]
      /\ a = [j \in Markets |-> market[j].total_fee]
      /\ b = [j \in Markets |-> market'[j].total_fee]
      /\ x = [v \in Users |-> user[v].total_referral_reward]
      /\ y = [v \in Users |-> user'[v].total_referral_reward]
  BY DEF FeesPaid, FeesOfMarkets, RewardsOfReferrers
<1>5. SumOf(p) = SumOf(a) + SumOf(x)
  BY DEF FeesAddUp
<1>6. FeesAddUp' <=> SumOf(q) = SumOf(b) + SumOf(y)
  BY DEF FeesAddUp
<1> HIDE DEF p, q, a, b, x, y
<1>7. /\ q[u] = p[u] + fee.user_fee /\ \A v \in Users \ {u} : q[v] = p[v]
      /\ b[i] = a[i] + fee.fee_to_market /\ \A j \in Markets \ {i} : b[j] = a[j]
      /\ y[w] = x[w] + fee.referrer_reward /\ \A v \in Users \ {w} : y[v] = x[v]
  <2>1. ASSUME NEW v \in Users
        PROVE  /\ q[v] = p[v] + (IF v = u THEN fee.user_fee ELSE 0)
               /\ y[v] = x[v] + (IF v = w THEN fee.referrer_reward ELSE 0)
    BY <1>1, <1>4
  <2>2. ASSUME NEW j \in Markets
        PROVE  b[j] = a[j] + (IF j = i THEN fee.fee_to_market ELSE 0)
    BY <1>1, <1>4
  <2> QED
    BY <1>3, <2>1, <2>2
<1>8. SumOf(q) = SumOf(p) + (q[u] - p[u])
  BY <1>3, <1>7, FiniteExchange, SumChange
<1>9. SumOf(b) = SumOf(a) + (b[i] - a[i])
  BY <1>3, <1>7, FiniteExchange, SumChange
<1>10. SumOf(y) = SumOf(x) + (y[w] - x[w])
  BY <1>3, <1>7, FiniteExchange, SumChange
<1>11. SumOf(p) \in Int /\ SumOf(a) \in Int /\ SumOf(x) \in Int
  BY <1>3, FiniteExchange, SumType
<1>12. p[u] \in Int /\ a[i] \in Int /\ x[w] \in Int
  BY <1>3
<1> QED
  BY <1>1, <1>2, <1>5, <1>6, <1>7, <1>8, <1>9, <1>10, <1>11, <1>12

\* Fees that nobody pays need no adding up.
LEMMA KeptAddUp == ASSUME FeesAddUp, FeesKept PROVE FeesAddUp'
<1>1. /\ FeesPaid' = FeesPaid /\ FeesOfMarkets' = FeesOfMarkets
      /\ RewardsOfReferrers' = RewardsOfReferrers
  BY DEF FeesKept, SamePaid, SameFee, FeesPaid, FeesOfMarkets, RewardsOfReferrers
<1> QED
  BY <1>1 DEF FeesAddUp

\* Every step adds up, unless it closes an account, and its counters with it.
LEMMA AddUpStep ==
    ASSUME ExchangeInv, FeesAddUp, [Next]_vars, \A u \in Users : Account(u) => Account(u)'
    PROVE  FeesAddUp'
<1>1. /\ Inv /\ InOrder /\ Inv' /\ user \in [Users -> UserType]
  BY EveryStep, StepInv, InvParts DEF ExchangeInv
<1>2. CASE Quiet
  BY <1>2, KeptAddUp DEF Quiet, BooksKept, FeesKept, SamePaid
<1>3. ASSUME NEW u \in Users, Resets(u) PROVE FeesKept
  <2> DEFINE opened == [BlankUser EXCEPT !.initialized = TRUE]
  <2>1. /\ UNCHANGED market
        /\ user' = [user EXCEPT ![u] = BlankUser] \/ user' = [user EXCEPT ![u] = opened]
        /\ user' = [user EXCEPT ![u] = opened] => ~Account(u)
    BY <1>1, <1>3 DEF Resets, Account, BlankUser
  <2>2. ~BlankUser.initialized /\ SamePaid(BlankUser, opened) /\ SamePaid(BlankUser, BlankUser)
    BY DEF BlankUser, SamePaid
  <2> HIDE DEF opened
  <2>3. user'[u] \in {BlankUser, opened} /\ \A v \in Users \ {u} : user'[v] = user[v]
    BY <1>1, <2>1
  <2>4. ~Account(u)
    BY <1>1, <2>1, <2>2 DEF Account
  <2>5. user[u] = BlankUser
    BY <2>4, ExchangeParts DEF Account, AccountOK
  <2> QED
    BY <2>1, <2>2, <2>3, <2>5 DEF FeesKept, SameFee, SamePaid
<1> QED
  BY <1>1, <1>2, <1>3, StepKinds, KeptAddUp, ChargedAddUp DEF Settles, Trades, Liquidates

(***************************************************************************)
(* The theorems                                                            *)
(***************************************************************************)
\* No funds without an account: nobody holds collateral or a position before
\* the program, its histories and their account exist, or after it is closed.
THEOREM NoFundsWithoutAccount == Spec => []NoAccountNoFunds
<1>1. ASSUME ExchangeInv PROVE NoAccountNoFunds
  <2>1. ASSUME NEW u \in Users, user[u].collateral > 0 \/ positions[u] # BlankPositions
        PROVE  state.history_initialized /\ user[u].initialized
    <3>1. AccountOK(u) /\ user[u].collateral \in Nat
      BY <1>1, ExchangeParts, UserParts
    <3>2. BlankUser.collateral = 0
      BY DEF BlankUser
    <3> QED
      BY <2>1, <3>1, <3>2 DEF AccountOK
  <2> QED
    BY <2>1 DEF NoAccountNoFunds
<1> QED
  BY <1>1, ExchangeInvariance, PTL

\* One position in a market: the slot search of open_position finds the open
\* position in the market, whatever was opened and closed before.
THEOREM OneSlotPerMarket == Spec => []UniqueSlotPerMarket
<1>1. ASSUME ExchangeInv PROVE UniqueSlotPerMarket
  <2>1. ASSUME NEW u \in Users, NEW i \in Markets
        PROVE  Cardinality({s \in Slots : is_for(positions[u][s], i)}) <= 1
    <3> DEFINE S == {s \in Slots : is_for(positions[u][s], i)}
    <3>1. ASSUME NEW s \in S, NEW t \in S PROVE s = t
      <4>1. OpenFirst(positions[u])
        BY <1>1, ExchangeParts
      <4>2. s \in Slots /\ t \in Slots /\ ~(s < t) /\ ~(t < s)
        BY <3>1, <4>1 DEF OpenFirst, is_for
      <4> QED
        BY <4>2 DEF Slots
    <3> HIDE DEF S
    <3>2. Cardinality(S) <= 1
      <4>1. CASE S = {}
        BY <4>1, FS_EmptySet
      <4>2. CASE S # {}
        <5>1. PICK s \in S : TRUE
          BY <4>2
        <5>2. S = {s}
          BY <3>1, <5>1
        <5>3. Cardinality({s}) = 1
          BY FS_Singleton
        <5> QED
          BY <5>2, <5>3
      <4> QED
        BY <4>1, <4>2
    <3> QED
      BY <3>2 DEF S
  <2> QED
    BY <2>1 DEF UniqueSlotPerMarket
<1> QED
  BY <1>1, ExchangeInvariance, PTL

\* The client finds the position the program trades: getUserPosition takes the
\* first slot that names the market, open or not.
THEOREM ClientFinds == Spec => []ClientFindsThePosition
<1>1. ASSUME ExchangeInv PROVE ClientFindsThePosition
  <2>1. ASSUME NEW u \in Users, NEW i \in Markets, SlotsFor(positions[u], i) # {}
        PROVE  getUserPosition(u, i) = positions[u][First(SlotsFor(positions[u], i))]
    <3> DEFINE ps == positions[u]
               open == SlotsFor(ps, i)
               found == {s \in Slots : ps[s].market_index = i}
    <3>1. open \subseteq found /\ found \subseteq 1..5 /\ open # {}
      BY <2>1 DEF SlotsFor, is_for, Slots
    <3>2. /\ First(open) \in open /\ First(found) \in found
          /\ First(found) <= First(open)
      BY <3>1, FirstIn
    <3>3. ~(First(found) < First(open))
      <4>1. OpenFirst(ps)
        BY <1>1, ExchangeParts
      <4>2. /\ First(open) \in Slots /\ First(found) \in Slots
            /\ is_open_position(ps[First(open)])
            /\ ps[First(open)].market_index = i /\ ps[First(found)].market_index = i
        BY <3>2 DEF SlotsFor, is_for
      <4> QED
        BY <4>1, <4>2 DEF OpenFirst
    <3>4. getUserPosition(u, i) = ps[First(found)]
      BY <3>1 DEF getUserPosition
    <3> HIDE DEF open, found
    <3>5. First(found) \in Int /\ First(open) \in Int
      <4>1. First(found) \in 1..5 /\ First(open) \in 1..5
        BY <3>1, <3>2, Zenon
      <4> QED
        BY <4>1
    <3>6. First(found) = First(open)
      BY <3>2, <3>3, <3>5
    <3> QED
      BY <3>4, <3>6 DEF open
  <2> QED
    BY <2>1 DEF ClientFindsThePosition
<1> QED
  BY <1>1, ExchangeInvariance, PTL

\* While the exchange is paused a step changes no size and takes nothing out,
\* except from an account that is closed: deposit_collateral, which may go
\* on, settles the funding without touching the sizes.
LEMMA PausedStep ==
    ASSUME ExchangeInv, [Next]_vars, state.exchange_paused, NEW v \in Users, user'[v].initialized
    PROVE  /\ \A s \in Slots :
                positions'[v][s].base_asset_amount = positions[v][s].base_asset_amount
           /\ user'[v].cumulative_deposits >= user[v].cumulative_deposits
<1>1. /\ Inv /\ InOrder /\ user[v] \in UserType /\ user[v].cumulative_deposits \in Int
      /\ positions[v] \in SlotsType /\ user \in [Users -> UserType]
      /\ positions \in [Users -> SlotsType]
  BY ExchangeParts, UserParts, InvParts
<1>2. CASE Quiet
  BY <1>1, <1>2 DEF Quiet
<1>3. ASSUME NEW u \in Users, Settles(u)
      PROVE  /\ \A s \in Slots :
                  positions'[v][s].base_asset_amount = positions[v][s].base_asset_amount
             /\ user'[v].cumulative_deposits >= user[v].cumulative_deposits
  <2>1. positions' = [positions EXCEPT ![u] = settled_positions(positions[u], market)]
    BY <1>3 DEF Settles, Touches, Settled
  <2>2. user'[v].cumulative_deposits >= user[v].cumulative_deposits
    BY <1>3 DEF Settles
  <2>3. CASE v = u
    BY <1>1, <2>1, <2>2, <2>3, SettledSlots
  <2>4. CASE v # u
    BY <1>1, <2>1, <2>2, <2>4
  <2> QED
    BY <2>3, <2>4
<1>4. ASSUME NEW u \in Users, Resets(u)
      PROVE  /\ \A s \in Slots :
                  positions'[v][s].base_asset_amount = positions[v][s].base_asset_amount
             /\ user'[v].cumulative_deposits >= user[v].cumulative_deposits
  <2> DEFINE opened == [BlankUser EXCEPT !.initialized = TRUE]
  <2>1. /\ positions' = [positions EXCEPT ![u] = BlankPositions]
        /\ \/ user' = [user EXCEPT ![u] = BlankUser]
           \/ ~user[u].initialized /\ user' = [user EXCEPT ![u] = opened]
    BY <1>4 DEF Resets, Account
  <2>2. /\ ~BlankUser.initialized /\ BlankUser.cumulative_deposits = 0
        /\ opened.cumulative_deposits = 0
    BY DEF BlankUser
  <2> HIDE DEF opened
  <2>3. CASE v = u
    <3>1. ~user[u].initialized /\ user' = [user EXCEPT ![u] = opened]
      BY <1>1, <2>1, <2>2, <2>3
    <3>2. user[v] = BlankUser /\ positions[v] = BlankPositions
      BY <2>3, <3>1, ExchangeParts DEF AccountOK
    <3>3. user'[v] = opened /\ positions'[v] = BlankPositions
      BY <1>1, <2>1, <2>3, <3>1
    <3> QED
      BY <2>2, <3>2, <3>3
  <2>4. CASE v # u
    BY <1>1, <2>1, <2>4
  <2> QED
    BY <2>3, <2>4
<1>5. ~\E u \in Users : Trades(u) \/ Liquidates(u)
  BY DEF Trades, Liquidates
<1> QED
  BY <1>1, <1>2, <1>3, <1>4, <1>5, StepKinds

\* A pause freezes positions and withdrawals, in whatever order the admin, the
\* users, the keepers and the liquidators act.
THEOREM PauseFreezes == Spec => PausedMeansFrozen
<1>1. ExchangeInv /\ [Next]_vars =>
        [state.exchange_paused =>
            \A u \in {v \in Users : user'[v].initialized} :
                /\ \A s \in Slots :
                    positions'[u][s].base_asset_amount = positions[u][s].base_asset_amount
                /\ user'[u].cumulative_deposits >= user[u].cumulative_deposits]_vars
  BY PausedStep
<1> QED
  BY <1>1, ExchangeInvariance, PTL DEF Spec, PausedMeansFrozen

\* Only liquidate adds a liquidation record, and it changes the positions of
\* one user, who was at or below the partial margin ratio.
LEMMA LiquidationStep ==
    ASSUME ExchangeInv, [Next]_vars, IsLiquidation, NEW v \in Users, positions'[v] # positions[v]
    PROVE  Liquidatable(v)
<1>1. /\ Inv /\ InOrder /\ positions \in [Users -> SlotsType]
      /\ history.liquidation \in Nat /\ history'.liquidation \in Nat
  BY EveryStep, StepInv, InvParts DEF ExchangeInv, StepOK, TypeOK, HistoryType
<1>2. ~Quiet
  BY <1>1 DEF Quiet, IsLiquidation
<1>3. ASSUME NEW u \in Users PROVE ~Settles(u) /\ ~Trades(u) /\ ~Resets(u)
  <2>1. history'.liquidation # history.liquidation
    BY <1>1 DEF IsLiquidation
  <2>2. ~Settles(u) /\ ~Trades(u)
    BY <2>1 DEF Settles, Trades
  <2>3. ~Resets(u)
    BY <2>1 DEF Resets
  <2> QED
    BY <2>2, <2>3
<1>4. PICK u \in Users : Liquidates(u)
  BY <1>1, <1>2, <1>3, StepKinds
<1>5. PICK ps \in SlotsType : positions' = [positions EXCEPT ![u] = ps]
  BY <1>4 DEF Liquidates, Touches
<1>6. v = u
  BY <1>1, <1>5
<1> QED
  BY <1>4, <1>6 DEF Liquidates

\* Whoever is liquidated was unsafe, with the funding they owed settled.
THEOREM LiquidationsAreDue == Spec => OnlyTheUnsafeAreLiquidated
<1>1. ExchangeInv /\ [Next]_vars =>
        [IsLiquidation =>
            \A u \in Users : positions'[u] # positions[u] => Liquidatable(u)]_vars
  BY LiquidationStep
<1> QED
  BY <1>1, ExchangeInvariance, PTL DEF Spec, OnlyTheUnsafeAreLiquidated

\* As long as no account is closed with a position, the net position of every
\* market is the sum of its two sides and of the positions of all users in it,
\* for any number of users and markets.
THEOREM BooksAlwaysBalance ==
    Spec /\ [][\A u \in Users : FlatToClose(u)]_vars => []BooksBalance
<1>1. Init => Balanced
  <2>1. ASSUME Init, NEW i \in Markets PROVE market[i].base_asset_amount = SumOf(NetsOfUsers(i))
    <3>1. market[i].base_asset_amount = 0
      BY <2>1 DEF Init, initialized_market, BlankMarket
    <3>2. \A s \in Slots : ~is_open_position(BlankPositions[s])
      BY DEF BlankPositions, new_market_position, is_open_position
    <3>3. NetIn(BlankPositions, i) = 0
      BY <3>2, BlankAccounts, NetType
    <3>4. NetsOfUsers(i) \in [Users -> Int] /\ \A u \in Users : NetsOfUsers(i)[u] = 0
      BY <2>1, <3>3 DEF Init, NetsOfUsers
    <3> QED
      BY <3>1, <3>4, FiniteExchange, SumOfZeros
  <2> QED
    BY <2>1 DEF Balanced
<1>2. ExchangeInv /\ Balanced /\ [Next]_vars /\ [\A u \in Users : FlatToClose(u)]_vars
        => Balanced'
  <2>1. CASE UNCHANGED vars
    <3>1. Balanced <=> Balanced'
      BY <2>1 DEF vars, Balanced, NetsOfUsers
    <3> QED
      BY <3>1
  <2>2. CASE ~UNCHANGED vars
    BY <2>2, BalancedStep
  <2> QED
    BY <2>1, <2>2
<1>3. Inv /\ Balanced => BooksBalance
  BY DEF Inv, Balanced, BooksBalance
<1>4. ExchangeInv => Inv
  BY DEF ExchangeInv
<1> QED
  BY <1>1, <1>2, <1>3, <1>4, ExchangeInvariance, PTL DEF Spec

\* The long counter of a market is at least what the users hold long in it, and
\* the short counter what they hold short, even if accounts are closed with a
\* position: no closed or reversed position is taken off the wrong side.
THEOREM SidesAlwaysCover == Spec => []SidesCover
<1>1. Init => SidesCover
  <2>1. ASSUME Init, NEW i \in Markets, NEW long \in BOOLEAN
        PROVE  SumOf(HeldByUsers(i, long)) <= SideOf(market[i], long)
    <3>1. market[i].base_asset_amount_long = 0 /\ market[i].base_asset_amount_short = 0
      BY <2>1 DEF Init, initialized_market, BlankMarket
    <3>2. SideOf(market[i], long) >= 0
      BY <3>1 DEF SideOf
    <3>3. /\ HeldByUsers(i, long) \in [Users -> Int]
          /\ \A u \in Users : HeldByUsers(i, long)[u] = 0
      BY <2>1, HeldBlank DEF Init, HeldByUsers
    <3>4. SumOf(HeldByUsers(i, long)) = 0
      BY <3>3, FiniteExchange, SumOfZeros
    <3> QED
      BY <3>2, <3>4
  <2> QED
    BY <2>1 DEF SidesCover
<1>2. ExchangeInv /\ SidesCover /\ [Next]_vars => SidesCover'
  BY CoverStep
<1> QED
  BY <1>1, <1>2, ExchangeInvariance, PTL DEF Spec

\* The reserves stay on their curves, through every trade, liquidation, repeg
\* and funding rate, until the admin moves a price or resizes a curve: a market
\* starts on its curve, and a trade that leaves it with a price ends on it.
THEOREM RegularStays ==
    (state.initialized => ClosesLess) /\ Spec /\ [][~Reshapes]_vars => []Regular
<1>1. Init /\ (state.initialized => ClosesLess) => Regular
  <2>1. ASSUME Init, NEW i \in Markets, market[i].initialized PROVE Tame(market[i])
    <3>1. market[i] = initialized_market(GenesisMarketInit, GenesisOracle, 0)
      BY <2>1 DEF Init, BlankMarket
    <3> QED
      BY <3>1, GenesisAssumption, InitializedTame
  <2> QED
    BY <2>1 DEF Regular, AllTame
<1>2. ExchangeInv /\ Regular /\ [Next]_vars /\ [~Reshapes]_vars => Regular'
  <2>1. CASE UNCHANGED vars
    BY <2>1 DEF vars, Regular, AllTame, ClosesLess
  <2>2. CASE ~UNCHANGED vars
    BY <2>2, RegularStep DEF ExchangeInv
  <2> QED
    BY <2>1, <2>2
<1> QED
  BY <1>1, <1>2, ExchangeInvariance, PTL DEF Spec

\* On the curves, above a minimum trade size and with a share below the whole,
\* the two counters of a market are exactly what the users hold long and short
\* in it, through every increase, reversal, closing and liquidation, as long
\* as no account is closed with a position.
THEOREM SidesAlwaysMatch ==
    Spec /\ []Regular /\ [][\A u \in Users : FlatToClose(u)]_vars => []SidesMatch
<1>1. Init => SidesMatch
  <2>1. ASSUME Init, NEW i \in Markets, NEW long \in BOOLEAN
        PROVE  SumOf(HeldByUsers(i, long)) = SideOf(market[i], long)
    <3>1. market[i].base_asset_amount_long = 0 /\ market[i].base_asset_amount_short = 0
      BY <2>1 DEF Init, initialized_market, BlankMarket
    <3>2. SideOf(market[i], long) = 0
      <4>1. ASSUME NEW w \in Int, w <= 0, w >= 0 PROVE -w = 0
        BY <4>1, MinusZero
      <4> DEFINE w == market[i].base_asset_amount_short
      <4>2. w \in Int /\ w <= 0 /\ w >= 0
        BY <3>1
      <4> HIDE DEF w
      <4>3. -w = 0
        BY <4>1, <4>2
      <4> QED
        BY <3>1, <4>3 DEF SideOf, w
    <3>3. /\ HeldByUsers(i, long) \in [Users -> Int]
          /\ \A u \in Users : HeldByUsers(i, long)[u] = 0
      BY <2>1, HeldBlank DEF Init, HeldByUsers
    <3> QED
      BY <3>2, <3>3, FiniteExchange, SumOfZeros
  <2> QED
    BY <2>1 DEF SidesMatch
<1>2. ExchangeInv /\ SidesMatch /\ Regular /\ [Next]_vars /\ [\A u \in Users : FlatToClose(u)]_vars
        => SidesMatch'
  <2>1. CASE UNCHANGED vars
    <3>1. SidesMatch <=> SidesMatch'
      BY <2>1 DEF vars, SidesMatch, HeldByUsers
    <3> QED
      BY <3>1
  <2>2. CASE ~UNCHANGED vars
    BY <2>2, MatchStep
  <2> QED
    BY <2>1, <2>2
<1> QED
  BY <1>1, <1>2, ExchangeInvariance, PTL DEF Spec

\* A change of the funding rates pays out no more than it takes in from the
\* other side and from the fee pool, up to one unit of rounding, whatever the
\* sizes of the sides, the rates, the pool and the precisions.
THEOREM FundingAlwaysFunded == Spec => FundingIsFunded
<1>1. ExchangeInv /\ SidesCover => AllSigned
  BY CoveredSigned DEF ExchangeInv
<1>2. ASSUME ExchangeInv, AllSigned', [Next]_vars, NEW i \in Markets,
             market'[i].last_funding_rate_ts # market[i].last_funding_rate_ts
      PROVE  FundingReceived(market[i], market'[i]) <= 1
  <2>1. Steady(market[i], market'[i])
    BY <1>2, EveryStep DEF ExchangeInv, StepOK, MarketsSteady
  <2>2. Signed(market'[i])
    BY <1>2 DEF AllSigned, Signed
  <2> QED
    BY <1>2, <2>1, <2>2 DEF Steady
<1>3. ExchangeInv /\ AllSigned' /\ [Next]_vars =>
        [\A i \in Markets :
            market'[i].last_funding_rate_ts # market[i].last_funding_rate_ts =>
                FundingReceived(market[i], market'[i]) <= 1]_vars
  BY <1>2
<1> QED
  BY <1>1, <1>3, ExchangeInvariance, SidesAlwaysCover, PTL DEF Spec, FundingIsFunded

\* A position whose size changes was settled and is at the rate of its side.
LEMMA RateStep ==
    ASSUME ExchangeInv, Regular, [Next]_vars, NEW v \in Users, NEW s \in Slots,
           positions'[v][s].base_asset_amount \notin {0, positions[v][s].base_asset_amount}
    PROVE  LET q == positions'[v][s]
           IN  q.last_cumulative_funding_rate =
                    cumulative_funding_rate(market[q.market_index], q.base_asset_amount > 0)
<1>1. Inv /\ InOrder /\ positions \in [Users -> SlotsType] /\ positions[v] \in SlotsType
  BY InvParts DEF ExchangeInv
<1>2. ~Quiet
  BY DEF Quiet
<1>3. PICK u \in Users : Settles(u) \/ Trades(u) \/ Liquidates(u) \/ Resets(u)
  BY <1>1, <1>2, StepKinds
<1>4. PICK ps : positions' = [positions EXCEPT ![u] = ps]
  BY <1>3 DEF Settles, Trades, Liquidates, Resets, Touches
<1>5. v = u /\ positions'[v] = ps
  BY <1>1, <1>4
<1>6. ~Settles(u)
  <2>1. SUFFICES ASSUME Settles(u) PROVE FALSE
    OBVIOUS
  <2>2. positions'[v] = settled_positions(positions[v], market)
    BY <1>1, <1>5, <2>1 DEF Settles, Touches, Settled
  <2> QED
    BY <1>1, <2>2, SettledSlots
<1>7. ~Resets(u)
  <2>1. SUFFICES ASSUME Resets(u) PROVE FALSE
    OBVIOUS
  <2>2. positions'[v] = BlankPositions
    BY <1>1, <1>5, <2>1 DEF Resets
  <2> QED
    BY <2>2 DEF BlankPositions, new_market_position
<1>8. PaidUp(positions'[v], market)
  <2>1. CASE Trades(u)
    BY <1>5, <2>1 DEF Trades
  <2>2. CASE Liquidates(u)
    BY <1>1, <1>5, <2>2 DEF Liquidates, Touches
  <2> QED
    BY <1>3, <1>6, <1>7, <2>1, <2>2
<1> QED
  BY <1>8 DEF PaidUp, owes_funding, is_open_position

\* As long as the reserves of the markets are on their curves, every market has
\* a minimum trade size and a partial liquidation closes less than the whole, a
\* position that changes its size was settled first and carries the rate of the
\* side it is on: no funding is paid for a time before.
THEOREM NothingRetroactive == Spec /\ []Regular => NoRetroactiveFunding
<1>1. ExchangeInv /\ Regular /\ [Next]_vars =>
        [\A u \in Users, s \in Slots :
            LET p == positions[u][s]
                q == positions'[u][s]
            IN  q.base_asset_amount \notin {0, p.base_asset_amount} =>
                    q.last_cumulative_funding_rate =
                        cumulative_funding_rate(market[q.market_index],
                                                q.base_asset_amount > 0)]_vars
  BY RateStep
<1> QED
  BY <1>1, ExchangeInvariance, PTL DEF Spec, NoRetroactiveFunding

\* A liquidation enlarges and reverses no position, and moves those of one user.
LiquidationOnlyTakesAway ==
    [][IsLiquidation =>
        \E u \in Users : /\ \A v \in Users \ {u} : positions'[v] = positions[v]
                         /\ Shrinks(positions[u], positions'[u])]_vars

\* A step that adds a liquidation record is a liquidation of one user.
LEMMA ShrinkStep ==
    ASSUME ExchangeInv, Regular, [Next]_vars, IsLiquidation
    PROVE  \E u \in Users : /\ \A v \in Users \ {u} : positions'[v] = positions[v]
                            /\ Shrinks(positions[u], positions'[u])
<1>1. PICK u \in Users : Liquidates(u)
  <2>1. /\ Inv /\ InOrder /\ history.liquidation \in Nat /\ history'.liquidation \in Nat
    BY EveryStep, StepInv, InvParts DEF ExchangeInv, StepOK, TypeOK, HistoryType
  <2>2. history'.liquidation # history.liquidation /\ ~Quiet
    BY <2>1 DEF Quiet, IsLiquidation
  <2>3. ASSUME NEW u \in Users PROVE ~Settles(u) /\ ~Trades(u) /\ ~Resets(u)
    BY <2>2 DEF Settles, Trades, Resets
  <2> QED
    BY <2>1, <2>2, <2>3, StepKinds
<1>2. PICK ps \in SlotsType :
        positions' = [positions EXCEPT ![u] = ps] /\ Shrinks(Settled(u), ps)
  BY <1>1 DEF Liquidates, Touches
<1>3. positions \in [Users -> SlotsType] /\ positions[u] \in SlotsType
  BY InvParts DEF ExchangeInv
<1>4. positions'[u] = ps /\ \A v \in Users \ {u} : positions'[v] = positions[v]
  BY <1>2, <1>3
<1>5. ASSUME NEW s \in Slots PROVE Shrunk(positions[u][s], ps[s])
  <2>1. Settled(u)[s].base_asset_amount = positions[u][s].base_asset_amount
    BY <1>3, SettledSlots DEF Settled
  <2>2. Shrunk(Settled(u)[s], ps[s])
    BY <1>2 DEF Shrinks
  <2> QED
    BY <2>1, <2>2 DEF Shrunk
<1> QED
  BY <1>4, <1>5 DEF Shrinks

\* On the curves, above a minimum trade size and with a share below the whole, a
\* liquidation reverses and enlarges no position of its user and touches no
\* other user, however the valuations and the swaps of the walk over the slots
\* round.  (That a position also shrinks depends on the numbers: the part to
\* close may be worth less than one unit of base asset.)
THEOREM LiquidationsTakeAway == Spec /\ []Regular => LiquidationOnlyTakesAway
<1>1. ExchangeInv /\ Regular /\ [Next]_vars =>
        [IsLiquidation =>
            \E u \in Users : /\ \A v \in Users \ {u} : positions'[v] = positions[v]
                             /\ Shrinks(positions[u], positions'[u])]_vars
  BY ShrinkStep
<1> QED
  BY <1>1, ExchangeInvariance, PTL DEF Spec, LiquidationOnlyTakesAway

\* As long as no account is closed, with the counters it holds, the fees that
\* the users paid are the fees of the markets and the rewards of the referrers,
\* to the unit, for any number of users, markets, tiers and discounts.
THEOREM FeesAlwaysAddUp ==
    Spec /\ [][\A u \in Users : Account(u) => Account(u)']_vars => []FeesAddUp
<1>1. Init => FeesAddUp
  <2>1. SUFFICES ASSUME Init PROVE FeesAddUp
    OBVIOUS
  <2>2. user \in [Users -> UserType] /\ market \in MarketsType
    BY <2>1, Initially, InvParts
  <2>3. ASSUME NEW u \in Users
        PROVE  FeesPaid[u] = 0 /\ RewardsOfReferrers[u] = 0
    BY <2>1 DEF Init, BlankUser, FeesPaid, RewardsOfReferrers
  <2>4. ASSUME NEW i \in Markets PROVE FeesOfMarkets[i] = 0
    BY <2>1 DEF Init, BlankMarket, initialized_market, FeesOfMarkets
  <2>5. SumOf(FeesPaid) = 0 /\ SumOf(RewardsOfReferrers) = 0 /\ SumOf(FeesOfMarkets) = 0
    BY <2>2, <2>3, <2>4, FeeTypes, FiniteExchange, SumOfZeros
  <2> QED
    BY <2>5 DEF FeesAddUp
<1>2. ExchangeInv /\ FeesAddUp /\ [Next]_vars /\ [\A u \in Users : Account(u) => Account(u)']_vars
        => FeesAddUp'
  <2>1. CASE UNCHANGED vars
    BY <2>1, KeptAddUp DEF vars, FeesKept, SamePaid, SameFee
  <2>2. CASE ~UNCHANGED vars
    BY <2>2, AddUpStep
  <2> QED
    BY <2>1, <2>2
<1> QED
  BY <1>1, <1>2, ExchangeInvariance, PTL DEF Spec

(***************************************************************************)
(* What the client forecasts                                               *)
(***************************************************************************)
\* A truncated quotient, times its divisor, is not larger than the dividend.
LEMMA QuotTimes ==
    ASSUME NEW a \in Int, NEW b \in Int \ {0}
    PROVE  /\ unsigned_abs(Quot(a, b)) \in Nat
           /\ unsigned_abs(Quot(a, b)) = unsigned_abs(a) \div unsigned_abs(b)
           /\ unsigned_abs(Quot(a, b)) * unsigned_abs(b) <= unsigned_abs(a)
<1> DEFINE x == unsigned_abs(a)
           y == unsigned_abs(b)
           q == x \div y
<1>1. x \in Nat /\ y \in Nat \ {0}
  BY DEF unsigned_abs
<1> HIDE DEF x, y
<1>2. q \in Nat /\ q * y <= x
  BY <1>1, DivNat, DivBounds
<1>3. Quot(a, b) = q \/ Quot(a, b) = -q
  BY DEF Quot, x, y
<1> HIDE DEF q
<1>4. unsigned_abs(Quot(a, b)) = q
  BY <1>2, <1>3 DEF unsigned_abs
<1> QED
  BY <1>2, <1>4 DEF x, y, q

\* The size of a sum and of a product.
LEMMA AbsFacts ==
    ASSUME NEW a \in Int, NEW b \in Int
    PROVE  /\ unsigned_abs(a) \in Nat
           /\ unsigned_abs(a + b) <= unsigned_abs(a) + unsigned_abs(b)
           /\ a >= 0 => unsigned_abs(a * b) = a * unsigned_abs(b)
<1>1. unsigned_abs(a) \in Nat
  BY DEF unsigned_abs
<1>2. unsigned_abs(a + b) <= unsigned_abs(a) + unsigned_abs(b)
  BY DEF unsigned_abs
<1>3. ASSUME a >= 0 PROVE unsigned_abs(a * b) = a * unsigned_abs(b)
  <2>1. CASE b >= 0
    <3>1. a * b >= 0
      BY <1>3, <2>1
    <3> QED
      BY <2>1, <3>1 DEF unsigned_abs
  <2>2. CASE b < 0
    <3>1. -b \in Nat /\ a \in Nat
      BY <1>3, <2>2
    <3>2. a * (-b) \in Nat /\ a * (-b) = -(a * b)
      BY <3>1, TimesNat
    <3>3. a * b \in Int /\ a * b <= 0
      BY <3>2
    <3>4. unsigned_abs(a * b) = -(a * b)
      BY <3>3 DEF unsigned_abs
    <3> QED
      BY <2>2, <3>2, <3>4 DEF unsigned_abs
  <2> QED
    BY <2>1, <2>2
<1> QED
  BY <1>1, <1>2, <1>3

\* Larger factors make larger products.
LEMMA TimesMonotone ==
    ASSUME NEW a \in Nat, NEW b \in Nat, NEW c \in Nat, a <= b
    PROVE  a * c <= b * c
OBVIOUS

\* The client's fee pool is what the program lets the pool pay.
LEMMA FundingPool ==
    ASSUME NEW m \in MarketType
    PROVE  calculateFundingPool(m) \in Nat /\ calculateFundingPool(m) = -funding_rate_pnl_limit(m)
<1> DEFINE tf == m.total_fee
           low == total_fee_lower_bound(m)
           excess == m.total_fee_minus_distributions - low
<1>1. tf \in Nat /\ m.total_fee_minus_distributions \in Nat /\ low \in Nat
  BY LowerBound DEF MarketType
<1>2. Quot(tf, 2) = low
  <2>1. tf * 1 = tf /\ unsigned_abs(tf) = tf /\ unsigned_abs(2) = 2
    BY <1>1 DEF unsigned_abs
  <2> QED
    BY <1>1, <2>1 DEF Quot, total_fee_lower_bound,
          SHARE_OF_FEES_ALLOCATED_TO_CLEARING_HOUSE_NUMERATOR,
          SHARE_OF_FEES_ALLOCATED_TO_CLEARING_HOUSE_DENOMINATOR
<1>3. calculateFundingPool(m) = Larger(0, Quot(excess * 2, 3))
  BY <1>2 DEF calculateFundingPool
<1> HIDE DEF low
<1>4. CASE excess > 0
  <2>1. excess * 2 \in Nat /\ unsigned_abs(excess * 2) = excess * 2 /\ unsigned_abs(3) = 3
    BY <1>1, <1>4 DEF unsigned_abs
  <2>2. Quot(excess * 2, 3) = (excess * 2) \div 3
    BY <2>1 DEF Quot
  <2>3. (excess * 2) \div 3 \in Nat
    BY <2>1, DivNat
  <2>4. funding_rate_pnl_limit(m) = -((excess * 2) \div 3)
    BY <1>1, <1>4 DEF funding_rate_pnl_limit, low
  <2> QED
    BY <1>3, <2>2, <2>3, <2>4 DEF Larger
<1>5. CASE ~(excess > 0)
  <2>1. Quot(excess * 2, 3) <= 0 /\ Quot(excess * 2, 3) \in Int
    <3>1. excess * 2 \in Int /\ excess * 2 <= 0
      BY <1>1, <1>5
    <3>2. unsigned_abs(excess * 2) \in Nat /\ unsigned_abs(3) = 3
      BY <3>1 DEF unsigned_abs
    <3>3. unsigned_abs(excess * 2) \div 3 \in Nat
      BY <3>2, DivNat
    <3>4. CASE excess * 2 = 0
      BY <3>4 DEF Quot, unsigned_abs
    <3>5. CASE excess * 2 < 0
      <4>1. Quot(excess * 2, 3) = -(unsigned_abs(excess * 2) \div 3)
        BY <3>1, <3>2, <3>5 DEF Quot
      <4> QED
        BY <3>3, <4>1
    <3> QED
      BY <3>1, <3>4, <3>5
  <2>2. funding_rate_pnl_limit(m) = 0
    BY <1>1, <1>5 DEF funding_rate_pnl_limit, low
  <2>3. Larger(0, Quot(excess * 2, 3)) = 0
    <3> DEFINE q == Quot(excess * 2, 3)
    <3>1. q <= 0 /\ q \in Int
      BY <2>1
    <3> HIDE DEF q
    <3>2. Larger(0, q) = 0
      BY <3>1 DEF Larger
    <3> QED
      BY <3>2 DEF q
  <2> QED
    BY <1>3, <2>2, <2>3
<1> QED
  BY <1>4, <1>5

\* The capped estimate is within the budget.
LEMMA CappedEstimate ==
    ASSUME NEW m \in MarketType, Signed(m), NEW twap \in Int \ {0}, NEW interp \in Int,
           m.base_asset_amount_long # unsigned_abs(m.base_asset_amount_short)
    PROVE  LET longs  == m.base_asset_amount_long
               shorts == unsigned_abs(m.base_asset_amount_short)
               budget == Quot(Smaller(longs, shorts) * unsigned_abs(twapSpread(m)), HOURS_IN_DAY)
                            - funding_rate_pnl_limit(m) * PRICE_TO_QUOTE_PRECISION
                                                        * AMM_RESERVE_PRECISION
           IN  /\ unsigned_abs(cappedAltEst(m, twap, interp, 1)) * twap * Larger(longs, shorts)
                     <= budget * MARK_PRICE_PRECISION * 100
               /\ 0 <= budget * MARK_PRICE_PRECISION * 100
<1> DEFINE longs  == m.base_asset_amount_long
           shorts == unsigned_abs(m.base_asset_amount_short)
           small  == Smaller(longs, shorts)
           large  == Larger(longs, shorts)
           spread == twapSpread(m)
           fees   == calculateFundingPool(m)
           pool   == IF Quot(interp, PRICE_TO_QUOTE_PRECISION) < 0 THEN -fees ELSE fees
           top    == PRICE_TO_QUOTE_PRECISION * AMM_RESERVE_PRECISION
           flow   == Quot(small * spread, HOURS_IN_DAY)
           all    == flow + pool * PRICE_TO_QUOTE_PRECISION * AMM_RESERVE_PRECISION
           unit   == Quot(all, large)
           P      == MARK_PRICE_PRECISION * 100
           capped == Quot(unit * MARK_PRICE_PRECISION * 100, twap) * 1
           est    == cappedAltEst(m, twap, interp, 1)
           budget == Quot(small * unsigned_abs(spread), HOURS_IN_DAY)
                        - funding_rate_pnl_limit(m) * PRICE_TO_QUOTE_PRECISION
                                                    * AMM_RESERVE_PRECISION
<1>1. /\ longs \in Nat /\ shorts \in Nat /\ small \in Nat /\ large \in Nat \ {0}
      /\ spread \in Int
  BY DEF Signed, MarketType, unsigned_abs, Smaller, Larger, twapSpread
<1>2. /\ fees \in Nat /\ funding_rate_pnl_limit(m) = -fees
      /\ pool \in Int /\ unsigned_abs(pool) = fees
  BY FundingPool, LimitSign DEF unsigned_abs
<1>3. PRICE_TO_QUOTE_PRECISION \in Nat /\ AMM_RESERVE_PRECISION \in Nat /\ P \in Nat /\ top \in Nat
  <2>1. PRICE_TO_QUOTE_PRECISION \in Nat
    BY PrecisionAssumption, DivNat DEF PRICE_TO_QUOTE_PRECISION
  <2> QED
    BY <2>1, PrecisionAssumption, TimesNat
<1>4. (est = interp /\ unsigned_abs(interp) <= unsigned_abs(capped)) \/ est = capped
  <2>1. est = IF unsigned_abs(capped) >= unsigned_abs(interp) THEN interp ELSE capped
    BY DEF cappedAltEst
  <2> HIDE DEF est, capped
  <2> QED
    BY <2>1
<1> HIDE DEF longs, shorts, small, large, spread, fees, pool, est
<1>5. /\ flow \in Int /\ unsigned_abs(flow) \in Nat
      /\ unsigned_abs(flow) = Quot(small * unsigned_abs(spread), HOURS_IN_DAY)
  <2>1. small * spread \in Int /\ HOURS_IN_DAY \in Int \ {0} /\ unsigned_abs(HOURS_IN_DAY) = 24
    BY <1>1 DEF HOURS_IN_DAY, unsigned_abs
  <2>2. unsigned_abs(small * spread) = small * unsigned_abs(spread) /\ unsigned_abs(spread) \in Nat
    BY <1>1, AbsFacts
  <2>3. unsigned_abs(flow) = (small * unsigned_abs(spread)) \div 24
    BY <2>1, <2>2, QuotTimes
  <2>4. small * unsigned_abs(spread) \in Nat
    BY <1>1, <2>2, TimesNat
  <2>5. unsigned_abs(small * unsigned_abs(spread)) = small * unsigned_abs(spread)
    BY <2>4 DEF unsigned_abs
  <2>6. Quot(small * unsigned_abs(spread), HOURS_IN_DAY)
          = (small * unsigned_abs(spread)) \div 24
    BY <2>1, <2>4, <2>5 DEF Quot, HOURS_IN_DAY
  <2> QED
    BY <2>1, <2>3, <2>6, QuotType, QuotTimes
<1> HIDE DEF flow
<1>6. /\ all = flow + pool * top /\ all \in Int
      /\ budget = unsigned_abs(flow) + fees * top /\ budget \in Nat
  <2>1. pool * PRICE_TO_QUOTE_PRECISION * AMM_RESERVE_PRECISION = pool * top
    BY <1>2, <1>3
  <2>2. funding_rate_pnl_limit(m) * PRICE_TO_QUOTE_PRECISION * AMM_RESERVE_PRECISION = -(fees * top)
    BY <1>2, <1>3
  <2>3. fees * top \in Nat /\ pool * top \in Int
    BY <1>2, <1>3, TimesNat
  <2> HIDE DEF top
  <2> QED
    BY <1>5, <2>1, <2>2, <2>3
<1> HIDE DEF top, budget, all
<1>7. unsigned_abs(all) \in Nat /\ unsigned_abs(all) <= budget
  <2>1. unsigned_abs(top * pool) = top * unsigned_abs(pool)
    <3>1. top >= 0 /\ top \in Int /\ pool \in Int
      BY <1>2, <1>3
    <3> QED
      BY <3>1, AbsFacts
  <2>2. pool * top \in Int /\ pool * top = top * pool /\ top * fees = fees * top
    BY <1>2, <1>3
  <2>3. unsigned_abs(pool * top) = fees * top
    BY <1>2, <2>1, <2>2
  <2>4. unsigned_abs(flow + pool * top) <= unsigned_abs(flow) + unsigned_abs(pool * top)
    BY <1>5, <2>2, AbsFacts
  <2>5. unsigned_abs(all) \in Nat
    BY <1>6, AbsFacts
  <2> QED
    BY <1>6, <2>3, <2>4, <2>5
<1>8. /\ unit \in Int /\ unsigned_abs(unit) \in Nat
      /\ unsigned_abs(unit) * large <= unsigned_abs(all)
  <2>1. unsigned_abs(large) = large
    BY <1>1 DEF unsigned_abs
  <2>2. unsigned_abs(unit) * unsigned_abs(large) <= unsigned_abs(all)
    BY <1>1, <1>6, QuotTimes
  <2> QED
    BY <1>1, <1>6, <2>1, <2>2, QuotType, QuotTimes
<1> HIDE DEF unit
<1>9. /\ unsigned_abs(capped) \in Nat
      /\ unsigned_abs(capped) * unsigned_abs(twap) <= unsigned_abs(unit) * P
  <2>1. unit * MARK_PRICE_PRECISION * 100 = P * unit /\ P * unit \in Int
    BY <1>3, <1>8, PrecisionAssumption
  <2>2. unsigned_abs(P * unit) = P * unsigned_abs(unit)
    BY <1>3, <1>8, AbsFacts
  <2>3. Quot(P * unit, twap) \in Int
    BY <2>1, QuotType
  <2>4. capped = Quot(P * unit, twap)
    BY <2>1, <2>3
  <2>5. unsigned_abs(Quot(P * unit, twap)) * unsigned_abs(twap) <= unsigned_abs(P * unit)
    BY <2>1, QuotTimes
  <2>6. P * unsigned_abs(unit) = unsigned_abs(unit) * P
    BY <1>3, <1>8
  <2>7. unsigned_abs(capped) \in Nat
    BY <2>3, <2>4, AbsFacts
  <2> QED
    BY <2>2, <2>4, <2>5, <2>6, <2>7
<1> HIDE DEF capped
<1>10. unsigned_abs(est) \in Nat /\ unsigned_abs(est) <= unsigned_abs(capped)
  <2>1. unsigned_abs(interp) \in Nat
    BY AbsFacts
  <2> QED
    BY <1>4, <1>9, <2>1
<1>11. unsigned_abs(est) * unsigned_abs(twap) * large <= budget * P
  <2> DEFINE e == unsigned_abs(est)
             w == unsigned_abs(twap)
             c == unsigned_abs(capped)
             v == unsigned_abs(unit)
             g == unsigned_abs(all)
  <2>1. /\ e \in Nat /\ w \in Nat /\ c \in Nat /\ v \in Nat /\ g \in Nat /\ budget \in Nat
        /\ large \in Nat /\ P \in Nat
        /\ e <= c /\ c * w <= v * P /\ v * large <= g /\ g <= budget
    BY <1>1, <1>3, <1>6, <1>7, <1>8, <1>9, <1>10, AbsFacts
  <2> HIDE DEF e, w, c, v, g, P
  <2>2. e * w <= c * w /\ e * w \in Nat /\ c * w \in Nat /\ v * P \in Nat /\ v * large \in Nat
    BY <2>1, TimesMonotone, TimesNat
  <2>3. e * w <= v * P
    BY <2>1, <2>2
  <2>4. (e * w) * large <= (v * P) * large
    BY <2>1, <2>2, <2>3, TimesMonotone
  <2>5. (v * P) * large = (v * large) * P
    BY <2>1
  <2>6. (v * large) * P <= g * P /\ g * P <= budget * P
    BY <2>1, <2>2, TimesMonotone
  <2>7. (e * w) * large \in Nat /\ (v * large) * P \in Nat /\ g * P \in Nat /\ budget * P \in Nat
    BY <2>1, <2>2, TimesNat
  <2> QED
    BY <2>4, <2>5, <2>6, <2>7 DEF e, w
<1>12. unsigned_abs(est) * twap * large <= budget * P
  <2>1. CASE twap > 0
    <3>1. unsigned_abs(twap) = twap
      BY <2>1 DEF unsigned_abs
    <3> QED
      BY <1>11, <3>1
  <2>2. CASE twap < 0
    <3> DEFINE x == unsigned_abs(est) * large
    <3>1. x \in Nat /\ budget * P \in Nat
      BY <1>1, <1>3, <1>6, <1>10, TimesNat
    <3>2. unsigned_abs(est) * twap * large = x * twap
      BY <1>1, <1>10
    <3> HIDE DEF x, P
    <3>3. x * (-twap) \in Nat /\ x * twap = -(x * (-twap))
      BY <2>2, <3>1, TimesNat
    <3>4. x * twap <= 0
      BY <3>3
    <3> QED
      BY <3>1, <3>2, <3>3, <3>4
  <2> QED
    BY <2>1, <2>2
<1>13. budget * P = budget * MARK_PRICE_PRECISION * 100 /\ budget * P \in Nat
  BY <1>3, <1>6, PrecisionAssumption, TimesNat
<1> QED
  BY <1>12, <1>13 DEF est, large, longs, shorts, budget, small, spread

\* The twap that the client estimates is a number.
LEMMA LiveTwap ==
    ASSUME NEW m \in MarketType, NEW t \in Nat, NEW x \in Nat,
           m.last_oracle_price_twap # 0
    PROVE  oracleTwapLive(m, [price |-> x, previousPrice |-> x], t) \in Int
<1> DEFINE o     == [price |-> x, previousPrice |-> x]
           twap  == m.last_oracle_price_twap
           since == t - m.last_oracle_price_twap_ts
           kept  == timeSinceLastUpdate(since)
           live  == oracleStablePrice(o)
           apart == t - m.last_mark_price_twap_ts
<1>1. twap \in Int /\ since \in Int /\ apart \in Int
  BY DEF MarketType
<1>2. kept \in Int /\ since + kept \in Int \ {0}
  BY <1>1, PrecisionAssumption DEF timeSinceLastUpdate, Larger
<1>3. live \in Int
  <2>1. live = Quot(x + x, 2)
    BY DEF oracleStablePrice
  <2> QED
    BY <2>1, QuotType
<1> HIDE DEF kept, live
<1> DEFINE mixed == kept * twap + apart * live
<1>4. mixed \in Int
  BY <1>1, <1>2, <1>3
<1> HIDE DEF mixed
<1>5. Quot(mixed, since + kept) \in Int
  BY <1>2, <1>4, QuotType
<1> QED
  BY <1>1, <1>5 DEF oracleTwapLive, mixed, kept, live

\* What the client promises the larger side of a market.
LEMMA EstimateAffordable ==
    ASSUME NEW m \in MarketType, Signed(m), NEW t \in Nat
    PROVE  LET o      == [price |-> m.last_oracle_price, previousPrice |-> m.last_oracle_price]
               est    == calculateLongShortFundingRateAndLiveTwaps(m, o, t, 1)
               longs  == m.base_asset_amount_long
               shorts == unsigned_abs(m.base_asset_amount_short)
               promised == unsigned_abs(IF longs > shorts THEN est.long ELSE est.short)
               budget == Quot(Smaller(longs, shorts) * unsigned_abs(twapSpread(m)), HOURS_IN_DAY)
                            - funding_rate_pnl_limit(m) * PRICE_TO_QUOTE_PRECISION
                                                        * AMM_RESERVE_PRECISION
           IN  calculateAllEstimatedFundingRate_ok(m, o, t) /\ largerSideReceives(m) =>
                 promised * est.oracleTwap * Larger(longs, shorts)
                   <= budget * MARK_PRICE_PRECISION * 100
<1> DEFINE o      == [price |-> m.last_oracle_price, previousPrice |-> m.last_oracle_price]
           all    == calculateAllEstimatedFundingRate(m, o, t, 1)
           est    == calculateLongShortFundingRateAndLiveTwaps(m, o, t, 1)
           longs  == m.base_asset_amount_long
           shorts == unsigned_abs(m.base_asset_amount_short)
           promised == unsigned_abs(IF longs > shorts THEN est.long ELSE est.short)
           budget == Quot(Smaller(longs, shorts) * unsigned_abs(twapSpread(m)), HOURS_IN_DAY)
                        - funding_rate_pnl_limit(m) * PRICE_TO_QUOTE_PRECISION
                                                    * AMM_RESERVE_PRECISION
           most   == budget * MARK_PRICE_PRECISION * 100
<1> SUFFICES ASSUME calculateAllEstimatedFundingRate_ok(m, o, t), largerSideReceives(m)
             PROVE  promised * est.oracleTwap * Larger(longs, shorts) <= most
  OBVIOUS
<1>1. /\ longs \in Nat /\ shorts \in Nat /\ longs # shorts
      /\ longs > shorts \/ longs < shorts
      /\ twapSpread(m) \in Int
  BY DEF Signed, MarketType, unsigned_abs, largerSideReceives, twapSpread
<1>2. promised = unsigned_abs(all.capped) /\ est.oracleTwap = all.oracleTwap
  <2> HIDE DEF all
  <2>1. est = IF longs > shorts
              THEN [markTwap |-> all.markTwap, oracleTwap |-> all.oracleTwap,
                    long |-> all.capped, short |-> all.interp]
              ELSE [markTwap |-> all.markTwap, oracleTwap |-> all.oracleTwap,
                    long |-> all.interp,
                    short |-> IF longs < shorts THEN all.capped ELSE all.interp]
    BY DEF calculateLongShortFundingRateAndLiveTwaps, all
  <2> HIDE DEF est, longs, shorts
  <2> QED
    BY <1>1, <2>1
<1>3. CASE ~m.initialized
  <2>1. all.capped = 0 /\ all.oracleTwap = 0
    BY <1>3 DEF calculateAllEstimatedFundingRate
  <2>2. 0 <= most
    <3>1. 1 \in Int \ {0} /\ 0 \in Int
      OBVIOUS
    <3> QED
      BY <1>1, <3>1, CappedEstimate
  <2>3. unsigned_abs(0) = 0 /\ Larger(longs, shorts) \in Nat
    BY <1>1 DEF unsigned_abs, Larger
  <2> HIDE DEF most, est, all, promised
  <2>4. promised = 0 /\ est.oracleTwap = 0
    BY <1>2, <2>1, <2>3
  <2> QED
    BY <2>2, <2>3, <2>4
<1>4. CASE m.initialized
  <2> DEFINE twap   == oracleTwapLive(m, o, t)
             interp == Quot(Quot(twapSpread(m) * MARK_PRICE_PRECISION * 100, twap) * 1,
                            HOURS_IN_DAY)
  <2>1. m.last_oracle_price \in Nat /\ m.last_oracle_price_twap # 0 /\ twap # 0
    BY <1>4 DEF calculateAllEstimatedFundingRate_ok, MarketType
  <2>2. twap \in Int
    BY <2>1, LiveTwap
  <2>3. all.oracleTwap = twap /\ all.capped = cappedAltEst(m, twap, interp, 1)
    BY <1>4 DEF calculateAllEstimatedFundingRate
  <2> HIDE DEF twap
  <2>4. interp \in Int
    <3>1. twapSpread(m) * MARK_PRICE_PRECISION * 100 \in Int
      BY <1>1, PrecisionAssumption
    <3>2. Quot(twapSpread(m) * MARK_PRICE_PRECISION * 100, twap) \in Int
      BY <2>1, <2>2, <3>1, QuotType
    <3>3. HOURS_IN_DAY \in Int \ {0}
      BY DEF HOURS_IN_DAY
    <3> QED
      BY <3>2, <3>3, QuotType
  <2> HIDE DEF interp, all, est, promised
  <2>5. unsigned_abs(cappedAltEst(m, twap, interp, 1)) * twap * Larger(longs, shorts) <= most
    BY <1>1, <2>1, <2>2, <2>4, CappedEstimate
  <2> QED
    BY <1>2, <2>3, <2>5
<1> QED
  BY <1>3, <1>4

\* The client never promises the side of a market that receives more than the
\* other side pays and the program lets the fee pool add, whatever the prices,
\* the precisions and the number of users and markets.
THEOREM EstimateAlwaysAffordable == Spec => []FundingEstimateIsAffordable
<1>1. ASSUME ExchangeInv, SidesCover PROVE FundingEstimateIsAffordable
  <2>1. Inv /\ AllSigned
    BY <1>1, CoveredSigned DEF ExchangeInv
  <2>2. now \in Nat /\ \A i \in Markets : market[i] \in MarketType /\ Signed(market[i])
    BY <2>1, InvParts DEF MarketsType, AllSigned
  <2> QED
    BY <2>2, EstimateAffordable DEF FundingEstimateIsAffordable
<1>2. ExchangeInv /\ SidesCover => FundingEstimateIsAffordable
  BY <1>1
<1> QED
  BY <1>2, ExchangeInvariance, SidesAlwaysCover, PTL
=============================================================================
