--------------------------- MODULE ClearingHouseProps ---------------------------
(***************************************************************************)
(* What the clearing house promises: invariants relate the accounts to one *)
(* another, action properties say what no transaction may do.              *)
(***************************************************************************)
EXTENDS ClearingHouse, FiniteSetsExt

\* Type invariant: every account holds values of its type; in particular no
\* unsigned balance, reserve or pool has gone below zero.
TypeOK ==
    /\ state \in StateType
    /\ market \in [Markets -> MarketType]
    /\ user \in [Users -> UserType]
    /\ positions \in [Users -> [Slots -> PositionType]]
    /\ vault \in [collateral: Nat, insurance: Nat]
    /\ history \in [deposit: Nat, trade: Nat, funding_payment: Nat, funding_rate: Nat,
                    liquidation: Nat, curve: Nat]
    /\ now \in Nat

(***************************************************************************)
(* The books of a market                                                   *)
(***************************************************************************)
IsNet(m) == m.base_asset_amount = m.base_asset_amount_long + m.base_asset_amount_short

\* The net position of a market is its long side plus its short side, through
\* every increase, reduction, reversal, closing and liquidation, although the
\* program keeps the three counters separately (controller/position.rs).
NetPosition == \A i \in Markets : IsNet(market[i])

\* The sum of the values of a function whose domain is finite.
SumOf(f) == MapThenSumSet(LAMBDA x : f[x], DOMAIN f)

BaseIn(p, i) == IF p.market_index = i THEN p.base_asset_amount ELSE 0
NetIn(ps, i) == SumOverSlots([s \in Slots |-> BaseIn(ps[s], i)])
NetsOfUsers(i) == [u \in Users |-> NetIn(positions[u], i)]

\* The books balance: the net position of a market is its long side plus its
\* short side, and the sum of the positions of all users in it, so that what
\* the AMM holds against them is what they hold.  The program adds to each of
\* these on its own, in every increase, reduction, reversal, closing and step
\* of a liquidation.  (As long as nobody closes an account with a position.)
BooksBalance ==
    /\ NetPosition
    /\ \A i \in Markets : market[i].base_asset_amount = SumOf(NetsOfUsers(i))

\* The long or the short part of a position, that side of a market, and what
\* the users hold on it.
Part(b, long) == IF long THEN Larger(b, 0) ELSE Larger(-b, 0)
SideOf(m, long) == IF long THEN m.base_asset_amount_long ELSE -m.base_asset_amount_short
HeldIn(ps, i, long) == SumOverSlots([s \in Slots |-> Part(BaseIn(ps[s], i), long)])
HeldByUsers(i, long) == [u \in Users |-> HeldIn(positions[u], i, long)]

\* The long side of a market is the sum of the long positions in it, and the
\* short side that of the short ones.
SidesMatch ==
    \A i \in Markets, long \in BOOLEAN :
        SumOf(HeldByUsers(i, long)) = SideOf(market[i], long)

PositionsIn(i) == {x \in Users \X Slots : is_for(positions[x[1]][x[2]], i)}

\* The market's counters agree with the positions of the users: each of its
\* sides is the sum of the positions on it and its open interest the number of
\* open positions.
MarketAccounting ==
    /\ SidesMatch
    /\ \A i \in Markets : market[i].open_interest = Cardinality(PositionsIn(i))

\* A user has at most one position in a market: the slot search of
\* open_position never opens a second one, whatever slots were freed before.
UniqueSlotPerMarket ==
    \A u \in Users, i \in Markets :
        Cardinality({s \in Slots : is_for(positions[u][s], i)}) <= 1

Mirrors(m, n) ==
    /\ n.base_asset_reserve + n.base_asset_amount = m.base_asset_reserve + m.base_asset_amount
    /\ n.sqrt_k = m.sqrt_k
    /\ n.peg_multiplier = m.peg_multiplier

\* Whenever a trade changes the net position of a market, the base reserve of
\* its AMM moves by exactly the opposite amount, and neither k nor the peg moves.
ReserveMirrorsPosition ==
    [][\A i \in Markets :
        market'[i].base_asset_amount # market[i].base_asset_amount =>
            Mirrors(market[i], market'[i])]_vars

(***************************************************************************)
(* The curve                                                               *)
(***************************************************************************)
\* The reserves are on the curve, up to the rounding of one division.
OnCurve(m) ==
    LET k == m.sqrt_k * m.sqrt_k
    IN  /\ m.base_asset_reserve > 0
        /\ k \div (m.base_asset_reserve + 1) <= m.quote_asset_reserve
        /\ m.quote_asset_reserve <= k \div m.base_asset_reserve

\* A trade leaves the reserves on the curve, wherever an adjustment of k or a
\* moved price had left them.
TradesLandOnCurve ==
    [][\A i \in Markets :
        market'[i].base_asset_amount # market[i].base_asset_amount =>
            OnCurve(market'[i])]_vars

\* Every open position can be closed, and so valued: the division does not
\* fail and the quote reserve moves the right way.  (As long as nobody moves
\* the reserves off the curve.)
EveryPositionClosable ==
    \A u \in Users, s \in Slots :
        LET p == positions[u][s]
        IN  is_open_position(p) =>
                close_ok([m |-> market[p.market_index], p |-> p, c |-> user[u].collateral])
(***************************************************************************)
(* Money                                                                   *)
(***************************************************************************)
\* What the program owes: the collateral of the users and the fees that the
\* markets hold for funding, repegging and the admin.
Claims ==
    SumOf([u \in Users |-> user[u].collateral])
      + SumOf([i \in Markets |->
            market[i].total_fee_minus_distributions - market[i].total_fee_withdrawn])

NobodyHasAPosition ==
    \A u \in Users, s \in Slots : ~is_open_position(positions[u][s])

\* Once everybody has closed, the collateral vault covers every claim: along
\* the curve, through its adjustments and through funding, what the traders
\* gain others or the fee pool lose.  Each funding payment, funding rate and
\* adjustment of the curve may round by one unit.  (As long as nobody lost
\* more than their collateral and the admin does not move the price.)
RoundingSlack == history.funding_payment + history.funding_rate + history.curve
SolventWhenFlat == NobodyHasAPosition => Claims <= vault.collateral + RoundingSlack

\* The fees the traders paid are the fees of the markets and the rewards of
\* the referrers, to the unit, whatever discounts applied (math/fees.rs).
FeesPaid == [u \in Users |-> user[u].total_fee_paid]
FeesOfMarkets == [i \in Markets |-> market[i].total_fee]
RewardsOfReferrers == [u \in Users |-> user[u].total_referral_reward]
FeesAddUp == SumOf(FeesPaid) = SumOf(FeesOfMarkets) + SumOf(RewardsOfReferrers)

\* Nobody holds collateral or a position before the program, its histories
\* and their account exist, or after their account is closed.
NoAccountNoFunds ==
    \A u \in Users :
        user[u].collateral > 0 \/ positions[u] # BlankPositions =>
            state.history_initialized /\ user[u].initialized

\* While the exchange is paused no position changes its size and no user
\* takes collateral out, unless the account is closed as a whole.
PausedMeansFrozen ==
    [][state.exchange_paused =>
        \A u \in {v \in Users : user'[v].initialized} :
            /\ \A s \in Slots :
                positions'[u][s].base_asset_amount = positions[u][s].base_asset_amount
            /\ user'[u].cumulative_deposits >= user[u].cumulative_deposits]_vars

(***************************************************************************)
(* Funding                                                                 *)
(***************************************************************************)
\* What the fee pool of a market has paid out, on balance.
Distributed(m) == m.total_fee - m.total_fee_minus_distributions

\* What the two sides and the fee pool of a market receive together when its
\* cumulative rates move from those of m to those of n.
FundingReceived(m, n) ==
    calculate_funding_payment_in_quote_precision(
        n.cumulative_funding_rate_long - m.cumulative_funding_rate_long,
        n.base_asset_amount_long)
    + calculate_funding_payment_in_quote_precision(
        n.cumulative_funding_rate_short - m.cumulative_funding_rate_short,
        n.base_asset_amount_short)
    + (Distributed(m) - Distributed(n))

\* A change of the cumulative rates pays out no more than it takes in: what
\* one side receives is paid by the other and by the fee pool, up to the
\* rounding of three payments (calculate_funding_rate_long_short).
FundingIsFunded ==
    [][\A i \in Markets :
        market'[i].last_funding_rate_ts # market[i].last_funding_rate_ts =>
            FundingReceived(market[i], market'[i]) <= 1]_vars

\* A position pays funding for the time it was held at its size and for no
\* other: whenever its size changes it is settled up to the rate of that
\* moment, and the rate set at the end of the same transaction counts for
\* the new size.
NoRetroactiveFunding ==
    [][\A u \in Users, s \in Slots :
        LET p == positions[u][s]
            q == positions'[u][s]
        IN  q.base_asset_amount \notin {0, p.base_asset_amount} =>
                q.last_cumulative_funding_rate =
                    cumulative_funding_rate(market[q.market_index], q.base_asset_amount > 0)]_vars

\* A market's funding rate is set at most once in each of its periods,
\* however the keepers and the traders race to set it.
FundingOncePerPeriod ==
    [][\A i \in Markets :
        LET period == market[i].funding_period
        IN  market'[i].last_funding_rate_ts # market[i].last_funding_rate_ts
                /\ market[i].initialized /\ period > 0 =>
              market'[i].last_funding_rate_ts \div period
                  > market[i].last_funding_rate_ts \div period]_vars

(***************************************************************************)
(* Margin and liquidation                                                  *)
(***************************************************************************)
Liquidatable(u) ==
    LET ps == settled_positions(positions[u], market)
    IN  /\ margin_ok(ps, market)
        /\ margin_ratio_below(settled_collateral(user[u].collateral, positions[u], market), ps,
                              market, state.margin_ratio_partial + 1)

Enlarges(u) ==
    \E s \in Slots : unsigned_abs(positions'[u][s].base_asset_amount)
                        > unsigned_abs(positions[u][s].base_asset_amount)

\* A trade that enlarges a position does not leave its owner ready for
\* liquidation, although the fee is taken and the funding rate updated after
\* the check of the initial margin.
NoInstantLiquidation ==
    [][\A u \in Users : Enlarges(u) /\ ~Liquidatable(u) => ~Liquidatable(u)']_vars

IsLiquidation == history'.liquidation > history.liquidation

\* A liquidation only takes risk away: it enlarges and reverses no position,
\* and either closes every position of the user or shrinks every one.
LiquidationShrinks ==
    [][IsLiquidation =>
        \E u \in Users :
            /\ \A v \in Users \ {u} : positions'[v] = positions[v]
            /\ \A s \in Slots :
                LET before == positions[u][s].base_asset_amount
                    after  == positions'[u][s].base_asset_amount
                IN  /\ before > 0 => 0 <= after /\ after < before
                    /\ before < 0 => before < after /\ after <= 0
                    /\ before = 0 => after = 0
            /\ \/ \A s \in Slots : ~is_open_position(positions'[u][s])
               \/ \A s \in Slots : is_open_position(positions[u][s]) =>
                                    is_open_position(positions'[u][s])]_vars

\* Whoever is liquidated was at or below the partial margin ratio, with the
\* funding they owed taken into account.
OnlyTheUnsafeAreLiquidated ==
    [][IsLiquidation =>
        \A u \in Users : positions'[u] # positions[u] => Liquidatable(u)]_vars

\* The margin ratio of u once the funding it owes is settled.
MarginRatio(u) ==
    calculate_margin_ratio(settled_collateral(user[u].collateral, positions[u], market),
                           settled_positions(positions[u], market), market)

\* The penalty is at most half of the share of a position that is closed.
ModeratePenalty ==
    2 * state.partial_liquidation_penalty_percentage_numerator
        * state.partial_liquidation_close_percentage_denominator
      <= state.partial_liquidation_close_percentage_numerator
            * state.partial_liquidation_penalty_percentage_denominator

\* A partial liquidation leaves its owner with a margin ratio that is not
\* worse than what funding had left, the penalty it takes and the rounding of
\* the trades included, as
\* long as the admin keeps the penalty well below the share that is closed.
LiquidationRestoresMargin ==
    [][IsLiquidation /\ ModeratePenalty =>
        \A u \in Users :
            positions'[u] # positions[u] /\ total_base_asset_value(positions[u], market)' # 0
                => MarginRatio(u)' >= MarginRatio(u)]_vars
=============================================================================
