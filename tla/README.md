# Clearing house of protocol-v1: a TLA+ model, its checks and its proofs

This directory models the on-chain program of the repository,
`programs/clearing_house`: a perpetual futures exchange in which users trade
against a virtual automated market maker (vAMM), leave collateral in a shared
vault, pay and receive funding, and are liquidated when their margin is gone.
Of the TypeScript SDK it models the loader and the subscribers that keep the
clients' copies of the accounts, the client and the admin client that build and
send the transactions, and the formulas with which the client forecasts what the
program will do. The other parts of the repository (mock programs, command line,
stress tests) are inventoried below and not modelled.

## 1. Inventory

| Component | State | Operations | What makes it correct |
|---|---|---|---|
| Instruction handlers (`lib.rs`, `context.rs`) | all accounts below | 40 instructions of users, liquidators, keepers and the admin | each may come between any two others and leaves the accounts consistent |
| Virtual AMM (`math/amm.rs`, `controller/amm.rs`, `math/quote_asset.rs`) | reserves, `sqrt_k`, peg, mark twap of a market | swap of quote or base asset, price and twap updates | a trade lands on the curve; the base reserve mirrors the net position; every position can be closed |
| Oracle (`state/market.rs`, `math/oracle.rs`, parts of `math/amm.rs`) | last price and twap of the oracle | reading, validity, divergence checks, capped twap update | a stale reading changes nothing; an uninitialised or bad one blocks what it should block |
| Position controller (`controller/position.rs`, `math/position.rs`, `math/pnl.rs`) | five positions per user; long, short and net size and open interest per market | increase, reduce, close, reverse | the counters of the market agree with the positions |
| Funding (`controller/funding.rs`, `math/funding.rs`) | cumulative rates per market, last rate seen per position, fee pool | update of the rate, lazy settlement | each rate is paid for; set once a period; nobody pays for a time before their trade |
| Fees, withdrawals, collateral (`math/fees.rs`, `math/withdrawal.rs`, `math/collateral.rs`, `math/bn.rs`) | fee structure, fee pool, totals per user, vaults | fee with discount and referral, deposit, withdraw, fee and insurance withdrawal | fees split without loss; the vault covers the claims |
| Margin and liquidation (`math/margin.rs`, `math/liquidation.rs`, `liquidate`) | margin ratios, percentages | margin check, partial and full liquidation | only the unsafe are liquidated; it reduces risk and raises the margin ratio |
| Curve adjustment (`math/repeg.rs`, `update_k`, `repeg_amm_curve`, `move_amm_price`) | peg, `sqrt_k`, reserves | repeg, change of k, moved price | its cost is paid by the fee pool |
| Accounts and administration (`state/*.rs`, `user_initialization.rs`, `optional_accounts.rs`) | State, Markets, User, UserPositions | creation, deletion, pauses, parameters | no funds without an account; a paused exchange moves nobody's position |
| Histories (`state/history/*.rs`) | six ring buffers of records | append, `next_record_id` | records are in order and none disappears before it is overwritten |
| Bulk account loader (`sdk/src/accounts/bulkAccountLoader.ts`) | registered accounts and callbacks, cached data, promise of the load going on | `addAccount`, `removeAccount`, `load`, timer, answers of the RPC node | the cache never goes back in time; callbacks see what it holds; every call of `load()` returns |
| Account subscribers (`sdk/src/accounts`, `subscribe` of `clearingHouseUser.ts`) | flags of the subscription, callbacks at the loader or listeners at a node, copies of accounts | `subscribe`, `fetch`, `unsubscribe`, callbacks and notifications; five of them, polling and websocket | a subscription hears of each account once and leaves nothing behind; copies never go back; calls return |
| Clients `ClearingHouse` and `Admin` (`clearingHouse.ts`, `admin.ts`, `tx/defaultTxSender.ts`) | wallet, cached user account and its address | the 11 methods of users and keepers and all of the admin's that send a transaction, `updateWallet` | a transaction acts for the wallet of its caller and names the accounts the program expects |
| SDK math and queries (`sdk/src/math`, `clearingHouseUser.ts`) | none | prices, swaps, slippage, target price, costs of the curve, funding estimates; collateral, leverage, liquidation price, largest trade | they agree with the program |
| Mock programs, CLI, stress and test code | none of the system's own | drivers of the program | - |

**How they interact.** Every handler of `lib.rs` loads accounts, settles the
funding of the user, calls the position controller (which calls the AMM for the
swap), checks the margin, takes the fee, appends records and finally tries to
update the funding rate of the market. All users share the reserves and the fee
pool of a market, and all markets share the two vaults. The oracle is an
account that another program writes; it may hold anything at any time.

The clients of the SDK share one loader: subscribers register accounts with a
callback, the timer and the clients call `load()`, which sends one RPC request
per chunk of accounts, and an answer updates the cache and calls the callbacks.
A websocket subscriber fetches an account once and listens for its changes. The
clients take the accounts that an instruction names from the subscribers' copies,
from two caches of their own and from nodes, with an `await` between any two of
them, and the program compares them with what its accounts say.

**What is hard.** In the program there are no threads: a Solana transaction is atomic and
transactions that write the same account are serialised. What is hard is the
*order* of transactions of different parties, the state that is settled lazily
(funding), the values that are kept twice (counters of the market and positions
of the users; base reserve and net position; fee pool and vault), integer
rounding on every path, the limits (five slots, the caps of the funding and of
the pool), and checks that are made before the last change of the same
transaction. In the loader it is the interleaving of calls, timer and answers: a
promise shared by several callers, requests that outlive their load, answers out
of order, and exceptions on the way. In the clients it is what the application
does between two awaits of a method: other methods, and a change of wallet. The
formulas of the SDK are written anew, in another order of operations and with
other roundings than the program's. `PROJECT.json` lists these hazards at their lines, with the
properties that would notice them.

## 2. The modules

| Module | Models |
|---|---|
| `Precision` | `math/constants.rs`, `math/casting.rs`, `math/quote_asset.rs`: precisions as constants, truncating division, asset/reserve conversion |
| `AmmMath` | `math/amm.rs`, `controller/amm.rs`, `math/bn.rs`, `math/repeg.rs`: prices, twaps, swaps, adjustment costs |
| `OracleMath` | readings of an oracle, validity, divergence and the oracle twap |
| `FundingMath` | `math/funding.rs` and the market part of `controller/funding.rs` |
| `FeeMath` | `math/fees.rs`, `math/withdrawal.rs`, fee tiers |
| `PositionController` | `controller/position.rs`, settlement, margin, liquidation of one position |
| `ClearingHouse` | the accounts as variables, and one action for each handler of `lib.rs` |
| `ClearingHouseProps` | the properties of the program |
| `SdkMath` | `sdk/src/math/{amm,trade,position,market,utils}.ts`: the client's prices, swaps, values and costs |
| `SdkFunding` | `sdk/src/math/funding.ts`: the client's estimate of the next rate |
| `ClearingHouseUser` | the queries of `clearingHouseUser.ts` on the accounts of `ClearingHouse` |
| `ClientProps` | the properties that compare the SDK with the program |
| `DocumentedBehaviour` | what comments of the program claim and the code does not do |
| `MCClearingHouse` | constants of the TLC instances |
| `TradeProofs`, `AccountProofs`, `ClearingHouseProofs` | the proofs about trades, about funding, fees, slots and liquidations of one user, and about the handlers and the markets, each extending the one before |
| `ExchangeProofs` | the proofs about all users together (accounts, slots, sums over the users, funding, liquidations), on top of `ClearingHouseProofs` and `ClientProps` |
| `RecordLog` | abstract specification: a log with consecutive ids of which the newest records are kept |
| `History` | `state/history/*.rs` and `update_curve_history`: the ring buffers and their record ids |
| `HistoryProofs` | the proofs that a ring buffer implements the log and that ids of curve changes are new |
| `BulkAccountLoader` | `sdk/src/accounts/bulkAccountLoader.ts`, and of a subscriber its callback and `fetch()` |
| `Subscribers` | the five subscribers of `sdk/src/accounts`, `bulkUserSubscription.ts`, and `subscribe`/`unsubscribe` of the client in front |
| `ClearingHouseClient` | `clearingHouse.ts` and `admin.ts`: methods between their awaits, `updateWallet`, and the account constraints of `context.rs` |
| `LoaderProofs`, `SubscriberProofs`, `ClientProofs` | the proofs about the loader, the subscribers and the clients |
| `MCBulkAccountLoader`, `MCSubscribers`, `MCClearingHouseClient` | constants of their TLC instances |

`ClearingHouse` extends the arithmetic modules above it, the proofs extend
`ClearingHouseProps`, and `ClientProps` brings the program and the formulas of the
SDK together: the runs of the exchange check both. `History`,
`BulkAccountLoader`, `Subscribers` and `ClearingHouseClient` stand alone; each
states which facts of the others it takes for granted (what a load that ends
leaves in the cache; that copies are replaced by what is on the ledger; what a transaction does to balances). Names
are those of the source.

**Conventions.**

* *A handler is one action.* It contains everything the handler does, the
  settlement of funding at its start and the update of the funding rate at its
  end included.
* *An error is a guard.* A handler that returns an error or panics (failed
  checked arithmetic, `unwrap`) aborts its transaction. A pure function `f`
  that may fail comes with a predicate `f_ok` for the inputs on which it
  succeeds, and the caller's action has `f_ok` as a conjunct. Unsigned numbers
  that would become negative are such failures.
* *Access control* (`access_control`, `has_one` and the other constraints of
  `context.rs`) is a conjunct of the action: admin only, not paused, history
  initialised, market initialised.
* *An oracle is an input.* Each transaction that reads an oracle finds any of
  the `OracleReadings` in its account.
* *Accounts that appear twice.* When a user liquidates themselves, the two
  account arguments are the same account, deserialised twice; the model keeps
  the copy that is written back last.
* *`\E x \in {e}`* in an action names the value of `e`, as `LET` does, so that TLC
  computes it once.
* *History accounts* are counters of records in `ClearingHouse`. They also bound
  the runs. What is inside of them is the subject of `History`.
* *`History`.* A record is its id, 0 if never written. `log` is any one of the
  five histories with equal code. `curve_history` is the account of an earlier
  program, which the present one only copies from; the model lets that program
  append before the copy is made.
* *`BulkAccountLoader`.* JavaScript runs one event at a time, so an action is
  what happens between two of them: a call, a tick, or an answer together with
  the continuations of the promises it settles. A request holds the entries of
  the accounts as they were when it was sent; `live` says whether such an entry
  is still registered. `waiting` distinguishes the client that started a load
  (it gets back when the load ends) from those that joined its promise (they get
  back when somebody resolves that promise).
* *SDK formulas* are operators in the integers of the client (`BN` truncates
  towards zero, too), applied to the state of the program: the copies a client
  computes with are those of some moment, and the question is whether its
  formulas are right for them. `f_ok` is where the client does not throw.
* *`Subscribers`.* An action is a call up to the first `await` that waits for the
  network, or an answer and what follows. A behaviour is the life of one
  subscriber, of any of the five kinds. `raced` and `failed` remember that calls
  overlapped which nothing keeps apart, and that a `subscribe()` has thrown; the
  properties say what they exclude by them.
* *`ClearingHouseClient`.* An action runs a method from one `await` to the next,
  the ones that do not leave the process included, because `updateWallet` may run
  there; the table of steps in the module lists them. JavaScript evaluates
  `this.txSender` and `this.program` before the arguments, so the step at which
  the signing wallet is fixed differs between methods (`Now`, `Later`, `built`,
  `signed`). Accounts are references only. `clear` says that nothing has changed
  under a call, `raced` that a lookup was overtaken by `updateWallet`, `deleted`
  which wallets have deleted their user account.
* Signatures, token mints and rent are not modelled in `ClearingHouse`; the token
  balances of the vaults are. `ClearingHouseClient` has the signers and the
  `has_one` and `constraint` attributes of the accounts.

**State.** `state` (State), `market` (Markets, a record for each index with its
AMM), `user` (User), `positions` (UserPositions: five slots per user), `vault`
(token balances of the two vaults), `history` (records appended), `now` (clock).

## 3. The runs

All numbers are small: `AMM_RESERVE_PRECISION` 20, `MARK_PRICE_PRECISION` 100,
`QUOTE_PRECISION` 10, `FUNDING_PAYMENT_PRECISION` 10, `PEG_PRECISION` 2 (20 in
the curve run), `MARGIN_PRECISION` 10000 as in the code, a smallest trade of 4.
A market starts with 1000 units of both reserves and mark price 100, so a trade
of 40 moves the price by 17% and every division really rounds. The ratios of the
code (margins, penalties, caps, 5% twap cap, fee tiers) are kept.

| Run | Instance | What it shows |
|---|---|---|
| `Trading` | 2 users, 1 market, trades of 11 and 40, 5 trades | `BooksBalance`, `ReserveMirrorsPosition`, `EveryPositionClosable` through every order of opening, enlarging, reducing, reversing and closing; of the client `ClientForecastsTrades`, `MaxTradeIsWithinAStep`, `TargetTradeStopsAtTarget` |
| `Funding` | a market four times as deep, fees 4%, oracle 10% below the mark, 4 trades, clock steps of 16 hours over two funding periods of 24 | `FundingIsFunded`, `NoRetroactiveFunding`, `FundingOncePerPeriod`; `SolventWhenFlat` up to one unit for each payment and rate; `ClientKnowsTheCollateral` before it is settled, `FundingEstimateIsAffordable` |
| `Liquidation` | deposits of 20, trades of 60, a withdrawal, 2 liquidations, fees 4%, a clock that reaches the end of a funding period; the admin changes margin ratios and percentages in between | `TypeOK`, `OnlyTheUnsafeAreLiquidated`, `LiquidationRestoresMargin`, `NoInstantLiquidation`, `LiquidationShrinks`, `MarketAccounting`; self liquidation included; `ClientForeseesLiquidation` |
| `Curve` | peg 19 to 21 of 20, k of 980 or 1020, fee withdrawals, a fresh or a stale oracle; trades pay 20% with rewards of a quarter and discounts of a sixth, with and without discount tokens and referrers, until the admin makes both small | `SolventWhenFlat`: adjustments are paid by the fee pool; `TradesLandOnCurve`, `FeesAddUp`, `ClientForecastsCosts` |
| `Slots` | 1 user, 6 markets, 6 trades; the admin changes the liquidators' shares | `UniqueSlotPerMarket` with slots freed and reused and a sixth market refused, `ClientFindsThePosition` |
| `Lifecycle` | 1 user, from before `initialize`: histories, market, deposits, withdrawals, trades, moved reserves, pauses, the end of the admin's control of prices, transfer of the admin, deletion and recreation of the account, oracle twap updates, changes of oracle source, guard rails and trade size | `NoAccountNoFunds`, `PausedMeansFrozen` |
| `History` | rings of 5 records, an old curve history of 3, ids up to 13 | `ImplementsLog` (refinement of `RecordLog`), `CurveIdsAreNew` |
| `Loader` | 2 clients, 2 accounts of which one does not exist, one account per request, 3 calls, 2 loads at a time, 2 slots | `NoStuckPromise`, `SubscribersSeeTheCache`, `CacheNeverGoesBack`, `StartersReturn` |
| `Subscribers` | each of the five subscribers, 2 callers, up to 4 calls and 3 slots of the ledger and 6 of both together, contents that are in the third slot what they were in the first, one optional account, a user account that exists from the first slot or from the second | `ReleasedWhenUnsubscribed`, `SubscribedIsLive`, `OnlyLaterSlotsReplace`, `CallsReturn` |
| `Client` | 2 wallets, 2 interchangeable callers, 2 oracles, 3 calls, 2 changes of wallet, 3 generated keys; a house that does not exist yet or comes from the version with the first curve history | `ActsForTheCaller`, `UndisturbedCallsSucceed`, `HistoriesStay` |

*Bounds.* `MaxTrades`, `MaxDeposits`, `MaxLiquidations`, `MaxCurveChanges` bound
the lengths of the histories, `MaxNow` the clock; each is a guard of the action
that appends the record. Four trades are enough for two users to open on
opposite sides and both to close; five let both return to flat after one of them
reversed against the moved price. The clock of the funding run passes the end of
a period between its steps, so that a rate is set late and the next one is due
early, and a position can miss one and settle two at once. The clock of the
liquidation run reaches the end of one period, so that the trade that sets a
rate, or a keeper, can come before, after or as the trade that is judged. The rings of the
history run go round more than twice. In the loader, two loads at a time with
two requests each are enough for answers to overtake one another, for a load to
return while a request of it is out, and for an account to be given up and
registered again meanwhile; the timer is not bounded. Four calls on a subscriber
let a subscription be taken, given up and taken again while another caller
interferes; its polls and notifications are not bounded. Three slots are needed
for an account that returns to earlier contents; `MaxEvents` bounds calls and slots
together: three calls come with three slots, and four with two. Three calls of a client
create an account, use it and overlap with a third; two changes of wallet leave
the wallet and come back to it. Users and callers are
interchangeable model values where no referrer or deletion names them (symmetry).

*Deadlock* is not checked: when the transactions of a bounded run are used up
the exchange just stops, and a loader, a subscriber or a client without calls is
idle.

*Fairness.* The specifications of the program and of the client are
`Init /\ [][Next]_vars` and their properties are safety properties: nobody is
obliged to send a transaction. The loader has weak fairness for its requests, one
formula per load: each request is answered, rejected or times out, which
`Connection._rpcRequest` guarantees. The subscribers have it, for the same
reason, for each caller as long as the call waits for requests of the subscriber's
own. They do not have it where a call waits for another object (`Elsewhere`): a
`load()` that joined somebody else's may never resolve (`LoaderCallers` below), nor
may the `clearingHouse.subscribe()` that `ClearingHouseUser.subscribe` awaits
(`clearingHouseUser.ts:88`) once one of it has thrown. `CallsReturn` is therefore
conditional: if what the calls wait for elsewhere comes about, they return. Neither the timer nor the notifications nor the
clients nor the ledger are fair.

**Conditions of the properties.** `EveryPositionClosable` and `SolventWhenFlat`
are claims about the curve, so they are checked where the admin does not move
the reserves freely, and `SolventWhenFlat` where deposits are large enough that
nobody loses more than their collateral: beyond it the code pays the winners
from the insurance vault by design. `RoundingSlack` is a unit for each funding
payment, rate and change of the curve; trades alone get none.
`LiquidationRestoresMargin` asks for a penalty of at most half of the share that is
closed (`ModeratePenalty`), which an admin can undo. `CurveIdsAreNew` holds until
one of the curve rings has gone round: after that `ExtendedCurveHistory`, which
wraps at 1023 and reads record 1023 when its head is 0, starts again with id 1,
and an old ring that has gone round is copied in the order of the array.
`SubscribersSeeTheCache` leaves out accounts whose newest data came with the
answer to a registration that had been given up (`unheard`): the loader stores
such data and calls nobody, and since equal data is not announced again a new
subscriber sees it only through `fetch()`.
`PausedMeansFrozen` speaks of users who keep their account: `delete_user` is not
guarded by the pause. `ClientForeseesLiquidation` is checked while the State has
the ratios that the client has as constants, and its prices up to the two
divisions they lose a unit in; `ClientForecastsTrades` where nobody pays a fee.
`MaxTradeIsWithinAStep` is about the size before a millionth is taken off
(`maxPositionSize`), because the millionth is a tenth with the run's
`QUOTE_PRECISION` and would hide every rounding. It does not say that the program
accepts the trade (see the observations), but by how little it can be refused.
`FundingEstimateIsAffordable` bounds the size of the estimate and says nothing of
its sign, and `OnlyLaterSlotsReplace` is about slots and not about contents, for
reasons among the observations too.

### Where the code and its comments disagree

Two runs are expected to fail; each shows a comment that is not true of the code.

| Run | Comment | What the code does |
|---|---|---|
| `FeePool` | `lib.rs:1291` "A portion of fees must always remain in protocol" | withdrawals are bounded by half of the fees ever collected, other spending by other bounds; together they exceed what the pool holds |
| `LoaderCallers` | `bulkAccountLoader.ts:20` "to handle clients spamming load" | `addAccount` drops the promise of the load going on and the next `load()` overwrites its resolver: the end of the first load resolves the second promise, and who joined the first one waits for ever |

`StartersReturn` bounds the damage of the second: only callers that joined a load
can be left behind.

Further observations made while modelling, which the model reproduces. Of the
program:

* `open_position` takes the fee (`lib.rs:688`) after the check of the initial
  margin (`lib.rs:642`), so a risk increasing trade can end below it.
  `NoInstantLiquidation` bounds the damage: never at the liquidation threshold.
* A repeg that costs more than the fee pool holds sets the pool to zero
  (`controller/repeg.rs:101` `.or(Some(0))`), and is refused because that is less
  than half of the fees ever collected. In a market that has not collected any,
  half of them is zero as well: the repeg succeeds and nobody pays for it. The
  trades of the runs that check `SolventWhenFlat` and `ClientForecastsCosts` with
  repegs pay fees from the first one on.
* `delete_user` asks for zero collateral only, so an open position can disappear
  with its owner and the open interest of the market, the "number of users in a
  position" (`state/market.rs:36`), keeps counting it.
* `initialize_history` refuses only if *all* keys are set, one of which
  (`curve_history`) no handler sets any more: it succeeds again and replaces the
  histories. `HistoriesStay` shows that the SDK never asks for it, because
  `initialize` throws as soon as it finds a state account.
* `lib.rs:704` "Update the referrer's collateral with their reward": the reward
  is added to `total_referral_reward` only.

Of the formulas of the SDK:

* `calculateLongShortFundingRate` compares the longs with the *signed* amount of
  the shorts, so the longs are always the larger side;
  `calculateLongShortFundingRateAndLiveTwaps` takes the absolute value.
* `calculateAllEstimatedFundingRate` takes the sign of the fee pool from a rate
  that is already divided by `MARK_PRICE_PRECISION / QUOTE_PRECISION`
  (`funding.ts:119-127`). A rate between zero and minus that ratio counts as not
  negative, the pool is added instead of subtracted, and the capped estimate of
  the receiving side can have the sign of a payment. Its size stays within what
  there is (`EstimateAlwaysAffordable`).
* `getMaxTradeSizeUSDC` works with a leverage truncated to four decimals and takes
  a millionth off its result "to avoid rounding errors when taking max leverage"
  (`clearingHouseUser.ts:800`). The truncation can be worth up to a ten thousandth
  of the collateral, which is more: with a collateral of 1000 and 1234.56789 held
  on the same side, the largest trade ends with a margin ratio of 1999 and is
  refused. The ratio is never more than this one unit short.
* `needsToSettleFundingPayment` sees nothing to settle when the rate of the
  position happens to equal that of the *other* side.
* `canBeLiquidated` has the ratio 6.25% as a constant and ignores the State's.
* `liquidationPriceOld` takes the size of a negative margin ratio.
* `liquidationPriceAfterClose` adds the remainder of a division to its quotient
  (`clearingHouseUser.ts:671`), which can overstate the base amount of a partial
  close by far.
* `getUnrealizedPNL` filters by market with `===` on `BN` objects, which holds of
  the same object only.

Of the subscribers:

* Equal bytes are ignored and do not advance the recorded slot
  (`webSocketAccountSubscriber.ts:73-78`, `bulkAccountLoader.ts:175-180`). If an
  account holds A, then B and then A again (a pause flag, a balance), and the
  answer for the third slot comes before the one for the second, the first is
  ignored as equal and the late one is taken: the copy shows B until the next
  poll, notification or fetch. The recorded slots only grow, which is what
  `OnlyLaterSlotsReplace` and `CacheNeverGoesBack` say.
* Error callbacks emit an `'error'` event. Without a listener that throws, also
  out of `load()`, whose promise then stays for ever. The model assumes that
  clients listen.
* Two overlapping `subscribe()` of a user's subscriber register twice, and
  `unsubscribe()` removes one of them. Two overlapping `unsubscribe()` of the
  websocket subscriber of a clearing house, with a new `subscribe()` between
  them, take the new subscription's listeners away.
* A `subscribe()` of a clearing house that throws leaves `isSubscribing` set:
  every later one waits for a promise that nobody resolves. One of a websocket
  user leaves its first listener. A polling one succeeds though its load failed,
  and its getters return undefined.

Of the clients:

* `updateWallet` while the address or the account of a user is looked up leaves
  the old wallet's in the cache. Later transactions are rejected; after a change
  back they may act for another wallet than their caller's.
* `deleteUser` leaves `userAccount` in the cache. After the account is created
  again deposits and trades name the old positions account and are rejected;
  `withdrawCollateral` and `deleteUser` fetch it anew and succeed.
* `initialize`, `initializeMarket` and the admin's withdrawals take the wallet
  after an `await`: a change of wallet during the call makes them act for the new
  one.
* An `initialize` whose second transaction fails cannot be repeated: the first
  one's state account makes it throw, and nothing else creates the histories.
* `updateCurveHistory` can only succeed on a house of the older version, as
  nothing sets `curve_history` any more.

## 4. The proofs

Everything in this section is proved for every value of the constants that meets
the named assumptions. TLC evaluates the assumptions in the runs.

### Markets, trades and funding

`ClearingHouseProofs` proves, with any number of users and markets, any inputs
and any precisions:

* `TypeCorrect`: `Spec => []TypeOK`. The point is that no unsigned account field
  (collateral, reserves, fee pool, open interest) is negative or undefined:
  every failing subtraction on every path is covered by a guard.
* `NetPositionHolds`: `Spec => []NetPosition`.
* `ReserveMirrors`: `Spec => ReserveMirrorsPosition`: a step changes the net
  position of a market only together with the opposite change of its base
  reserve, and then neither k nor the peg.
* `TradesLand`: `Spec => TradesLandOnCurve`: a step that changes a net position
  leaves the reserves on the curve of the market's k, up to one rounding,
  wherever `update_k` or `move_amm_price` had left them, and for the several
  trades of a liquidation as well.
* `FundingIsPeriodic`: `Spec => FundingOncePerPeriod`: whichever trade or keeper
  sets the rate, it is the first in its period.

All follow from `Invariance`, `Spec => []Inv`, with

    Inv == TypeOK /\ NetPosition /\ (every market that is not initialised is Fresh)

*Why `Fresh` is needed.* The handlers of trades do not ask whether the market is
initialised, and `initialize_market` overwrites the market. Without more the
reset could change a net position with no trade. A `Fresh` market has no
position and no reserve; no trade succeeds in it, so it stays `Fresh` until
`initialize_market` writes it.

*Argument.* A step is `StepOK` if the accounts keep their types and every market
takes a `Steady` step: its books balance, the reserve mirrors the net position and
lands on the curve, and the time of the last funding moves at most into a later
period (`Paced`). `StepInv` derives `Inv'`. `EveryStep` shows that each action is
`StepOK`; there is one lemma per handler, or per family of handlers that only
set fields. Underneath:

* `TradeProofs`: division, prices, twaps, the three counters (`Book`,
  `CountInterest`) and the two swaps (`SwapQuote`, `SwapBase`, and `CurveBase` and
  `CurveQuote` for where they land); then `Increase`, `Reduce`, `Close`, `Trade`:
  each takes a `Sound` triple of market, position and collateral to a `Sound` one
  that `Follows` it. `Follows` is transitive (`FollowsTwice`), which a reversal (close
  and increase) and a liquidation need;
* `AccountProofs`: setting a rate changes no reserve and no position (`Kept`,
  `Funded`), the next funding is in a later period (`NextPeriod`), and the pool is
  never overdrawn; settlement keeps types; then slots, fees, withdrawals,
  adjustments of the curve (`Adjusted`) and the walk of a liquidation over the five
  slots (`Walk`).

### Accounts, slots and liquidations

`ExchangeProofs` proves, on top of this:

* `NoFundsWithoutAccount`: `Spec => []NoAccountNoFunds`;
* `OneSlotPerMarket`: `Spec => []UniqueSlotPerMarket`;
* `ClientFinds`: `Spec => []ClientFindsThePosition`: the SDK's search, which stops at
  the first slot that names the market, open or not, finds the position that the
  program trades;
* `PauseFreezes`: `Spec => PausedMeansFrozen`;
* `LiquidationsAreDue`: `Spec => OnlyTheUnsafeAreLiquidated`.

They follow from `ExchangeInvariance`, `Spec => []ExchangeInv`, with

    ExchangeInv == Inv /\ InOrder /\ \A u \in Users : AccountOK(u) /\ OpenFirst(positions[u])

*Why each part is needed.* `NoAccountNoFunds` speaks of collateral and positions;
`AccountOK` says that all of a missing account is blank, which the pause needs too
(an account may be opened during it). `InOrder` (histories only after the State) is
needed because `initialize` forgets the histories: it can run only once, before
there are any. `UniqueSlotPerMarket` is not inductive, because a slot that was freed
keeps naming its old market, and neither is what the client needs; both follow from
`OpenFirst`: an open position comes before every other slot that names its market.
A trade keeps `OpenFirst` because it takes the slot of the open position or else
the *first* free slot (`TradeOpenFirst`).

*Argument.* `StepKinds` sorts the steps: a step leaves users and positions alone
(`Quiet`), or it is a transaction on one account, which settles its funding
(`Settles`), trades (`Trades`), liquidates it (`Liquidates`), or opens or closes it
(`Resets`). The step lemmas of `ClearingHouseProofs` say which kind each handler
is. Each kind keeps the invariants, and only `Liquidates` adds a liquidation
record.

### Sums over the users

Three more theorems of `ExchangeProofs` relate what the program keeps twice:

* `BooksAlwaysBalance`: `Spec /\ [][\A u \in Users : FlatToClose(u)]_vars => []BooksBalance`:
  the net position of a market is its two sides and the sum of the positions of
  all users in it;
* `SidesAlwaysCover`: `Spec => []SidesCover`: the long side is at least what the users
  hold long, the short side what they hold short;
* `FeesAlwaysAddUp`: `Spec /\ [][\A u \in Users : Account(u) => Account(u)']_vars => []FeesAddUp`:
  what the users paid in fees is what the markets collected and the referrers
  were credited with, to the unit.

*The hypotheses* say what `delete_user` must not do: take away an account with an
open position (`FlatToClose`), or, for the fees, any account with the totals it
holds. The handler asks for neither (see the observations). The runs that check
`BooksBalance` and `FeesAddUp` delete no account; `SidesCover` needs no hypothesis,
as a side only keeps too much.

*Argument.* A transaction on user u changes the books by what it changes the
positions of u: `Against` (net position less what u holds) stays, and `Spare` (a
side less what u holds on it) does not fall. This is shown for one trade, for the
walk over the slots and for each handler (`Booked`); for the fees likewise
(`FeesKept`, `Charged`). The step from one user to the sum over all of them is an
induction over finite sets. The library's induction theorems take an operator,
which the provers cannot instantiate; `SumOf` is defined so that a first-order
induction is enough, with the *set* of the subsets for which the claim holds in
place of a predicate. `UsersAssumption` says that the users are finitely many.

### Funding and regular markets

* `FundingAlwaysFunded`: `Spec => FundingIsFunded`: a change of the rates of a market
  pays out no more than it takes in from the other side and from the fee pool, up
  to one unit of rounding. The signs of the two sides come from `SidesCover`. If
  the receivers get the full rate the pool pays the difference, and the code
  charges the pool with it; if the pool cannot, the rate is capped to what the
  payers give and two thirds of what the pool has above the protocol's share, and
  both divisions round down. The
  payments are compared in whole units of quote, with the precisions multiples of
  one another (`PrecisionAssumption`, powers of ten in the code).
* `EstimateAlwaysAffordable`: `Spec => []FundingEstimateIsAffordable`: what the client
  (`calculateLongShortFundingRateAndLiveTwaps`) promises the larger side while it
  receives, over all of that side, is at most what the smaller side pays and what
  the program lets the fee pool add, for every precision. The client's pool is the
  program's limit (`FundingPool`); every division on the way truncates
  (`QuotTimes`), so the bound survives the wrong sign of the pool.
* `RegularStays`: `(state.initialized => ClosesLess) /\ Spec /\ [][~Reshapes]_vars => []Regular`.
* `NothingRetroactive`: `Spec /\ []Regular => NoRetroactiveFunding`: a position whose
  size changes was settled first and carries the rate of the side it is on.
* `LiquidationsTakeAway`: `Spec /\ []Regular => LiquidationOnlyTakesAway`: a
  liquidation changes the positions of one user and enlarges or reverses none.
* `SidesAlwaysMatch`:
  `Spec /\ []Regular /\ [][\A u \in Users : FlatToClose(u)]_vars => []SidesMatch`: the two
  side counters of a market are exactly what its users hold long and short. It is
  the part of `MarketAccounting` about the sides; `Spare` then does not change at
  all (`BookedExactly`).

`Regular` says that the reserves of an initialised market are on its curve up to the
rounding of one division, that its minimum trade size is positive, and that a
partial liquidation closes less than all of a position. `RegularStays` says who can
end that: only the steps `Reshapes`, in which the admin resizes a curve (`update_k`),
moves a price (`move_amm_price`), sets a minimum trade size of zero or a share of
the whole or more. A new market is on its curve, a repeg moves neither the reserves
nor k, and a trade or liquidation that leaves a market with a price leaves it on
the curve. The program does not check the four. Off the
curve, or with a minimum of zero, a swap can round the wrong way (a close buys
where it should sell), and a position ends on the other side with the rate of the
side it left, booked on a side it is not on; a share above one reverses a position
outright.

*Assumptions of all of these*: `PrecisionAssumption` (the
precisions are positive, a unit of quote is at most a unit of reserve and divides
it), `MarketsAssumption` (`Markets` are indices of the array of 64, 0 included because a
zeroed slot names it), `UsersAssumption`, `InputsAssumption` (instruction arguments
have the types of the handlers' parameters), `GenesisAssumption` (the first state is
one the program can be in: all deposits are in the vault, markets exist only after
`initialize`, deposits and histories only after `initialize_history`; the minimum
trade size of a new market is positive, 10000000 in the code).

### The histories

`HistoryProofs` proves `HistoryImplementsLog`: `Spec => ImplementsLog`, for every
length of the array of at least 2 and any number of records. The invariant
`RingInv` says what is where: below the head are the records of the present
round, from the head on those of the round before, or nothing in the first
round (`RingOf(log, d)`, with `d` the number of records of the rounds that are
over). It is needed because the id of the next record is only read off one cell
of the array: that this cell holds the newest id is a fact about all of them.
`NextRecordId` and `KeptRecords` compute the two mapped variables, and
`AppendKeepsRing` shows that a record goes where the invariant wants it, the wrap
included.

`CurveIdsAlwaysNew`: `Spec => []CurveIdsAreNew`, for every length of both curve rings.
`CurveInv` says of the old ring what `RingInv` says of a history, and of the extended
one that its ids ascend in the order of the array (`InOrder`) as long as the old
ring was in its first round when it was copied. Then the cell before the head, from
which the next id is read, has the largest one. The copy is a fold over the old
records (`copy_record`); since the records land in their order the state after n of
them is known in closed form, and the fold is followed by a first-order induction
on n. The assumption of both theorems is `HistoryAssumption`.

### The loader

`LoaderProofs` proves for any number of clients, accounts, loads and slots, every
size of the chunks and every order of the answers:

* `PromiseNeverStuck`: `Spec => []NoStuckPromise`, and `LoadsInFlight`: a load that has
  not returned has a request in flight, so the shared promise ends with an answer;
* `PollsTheRegistered`: the loader polls exactly the accounts with a callback, each
  once, and its timer is set exactly as long as there is one;
* `SubscribersInSync`: `Spec => []SubscribersSeeTheCache`;
* `CacheMonotone`: `Spec => CacheNeverGoesBack`.

The invariant `LoaderInv` is the conjunction of these with two facts they need:
the ledger has a first slot, and nobody was told of an account that the cache has
no data for (`Untold`; without it the first answer for an account could pass over a
callback that was told something else). The answers of one chunk are applied one
account at a time; the lemmas about `chunks` and `without` say what the lists of
accounts are. `LoaderAssumption` says that the first state has a callback for each
account in its list of accounts, and that the list has no duplicates: it is the
key set of a `Map`.

### The subscribers

`SubscriberProofs` proves for all five subscribers, any number of callers, calls,
optional accounts and slots:

* `CopiesAreKept`: `Spec => OnlyLaterSlotsReplace`: while a subscription lasts a copy is
  only replaced by one of a later slot, whatever the contents, recurring ones included;
* `AlwaysReleased`: `Spec => []ReleasedWhenUnsubscribed`;
* `SubscribedAlwaysLive`: `Spec => []SubscribedIsLive`.

The first needs `Shape` (`ShapeHolds`) only: where a call may wait, that its requests
name objects that exist, and that what an object has is not ahead of the ledger.
The other two need `Orderly` (`OrderHolds`: `Spec => [](raced \/ Orderly)`). `Apart`: at
most one call is subscribing and at most one is removing. `PollingInv`: the loader
has a callback for all of the accounts of the subscription or for none.
`SocketInv`: the listeners are those that `subscribe` has reached in its list of
accounts, or that `unsubscribe` has not. The disjunct `raced` cannot go: the code does
not keep those calls apart (see the observations), and once they have overlapped
the flags no longer say what is registered. The assumption is
`SubscribersAssumption`: the optional accounts are finitely many and not the ones
every client has.

### The clients

`ClientProofs` proves for any number of wallets, concurrent calls and changes of
wallet:

* `TransactionsActForTheCaller`: `Spec => []ActsForTheCaller`;
* `HistoriesAreKept`: `Spec => HistoriesStay`;
* `UndisturbedCallsAlwaysSucceed`: `Spec => []UndisturbedCallsSucceed`.

`ClientInv` describes a call in progress by the steps it still has to take.
`WalletsInv`: a method that acts on the user's own account either knows the account
of its caller or has just asked for it and will not ask again; the cached key is
the wallet's, unless a change of wallet has overtaken a lookup. `HousesInv`: at most
one caller is between the two transactions of `initialize`, and the house has no
histories then. That is what replaces the guard that `initialize_history` lacks:
the second transaction is only sent after the first, which can succeed once.
`UndisturbedInv`, for the third: a call that is still undisturbed (`clear`) knows what
is on the ledger, step by step (`Right`), as does the cache of the user account
unless its wallet has deleted the account; and a method that needs a house has one.
`ClientAssumption`: the wallets are not the two values that stand for none, a
house that does not exist names no accounts, and one that exists has a markets
account, which `initialize` creates with it.

### What is only model-checked

* The open interest in `MarketAccounting` (its sides are `SidesAlwaysMatch`): a trade
  whose base amount rounds to zero is counted, and whether that happens depends on
  the numbers.
* `SolventWhenFlat` sums the rounding of whole histories of trades, and
  `EveryPositionClosable` bounds the shorts by the reserve that trades leave: both
  are properties of a curve with its sizes, not of single steps.
* `LiquidationShrinks` (strictly), `NoInstantLiquidation`, `LiquidationRestoresMargin`:
  they hold for the parameters and sizes of the runs and not for all that the types
  allow. A partial liquidation of a dust position may close nothing, and an admin
  may set a penalty above what is closed.
* The comparisons of the SDK's formulas with the program's (`ClientProps`, except
  `ClientFindsThePosition` and `FundingEstimateIsAffordable`): they hold to the unit for the numbers of the runs, and in
  general up to the difference of two chains of truncated divisions.
  `ClientKnowsTheCollateral`, for instance, is exact for a user of one market: with
  more the client truncates each position's funding and the program their sum.
* What recursion over data of unbounded depth computes in general: the provers
  do not instantiate the library's induction theorems. Where a first-order
  induction is enough (sums over users, the copy of a ring) it is used.
* Liveness and `ENABLED`, which the prover does not handle.

## 5. What is not modelled

* Overflow: the program uses checked arithmetic on 64 and 128 bit integers, so an
  overflow aborts the transaction. The model's integers do not overflow, it
  allows these transactions as well.
* The contents of the history records.
* Rent, the derivation of addresses, and the layout of accounts.
* `move_to_price` of `controller/amm.rs`, which no handler calls.
* Of the SDK: sums over fetched balances (`math/collateral.ts`,
  `math/insuranceFund.ts`), conversions to floating point (`math/conversion.ts`),
  constructors, configuration and addresses, the Pyth client, the faucet client,
  `util/`. They have no state and no control of their own.
* Error callbacks that throw (see the observations).
* Mock programs (an oracle anyone may set, a faucet): the model's oracle readings
  and deposits stand for them. Command line, stress tests and the tests: drivers
  of the client.

## 6. Plan

1. (done) The arithmetic modules, `ClearingHouse`, its runs, findings and the
   first invariant with its proof; `History` with its refinement and proof;
   `BulkAccountLoader`.
2. (done) The SDK: `Subscribers`, `ClearingHouseClient`, and `SdkMath`,
   `SdkFunding`, `ClearingHouseUser` compared with the program.
3. (done) The theorems of section 4.
4. An abstract exchange (positions, collateral, one price) implemented by
   `ClearingHouse`.
