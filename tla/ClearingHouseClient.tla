------------------------- MODULE ClearingHouseClient -------------------------
(***************************************************************************)
(* The transactions of the SDK: ClearingHouse (sdk/src/clearingHouse.ts)   *)
(* and its subclass Admin (sdk/src/admin.ts).  A method looks up the       *)
(* accounts its instruction names, in its caches, in the subscriber's      *)
(* copies or at a node, and sends a transaction signed by a wallet.  The   *)
(* program checks that the named accounts are the ones its state and the   *)
(* user account name (programs/clearing_house/src/context.rs).             *)
(*                                                                         *)
(* What an instruction does to balances is ClearingHouse's concern; here   *)
(* an account is only a reference: the key it was made with.  The user     *)
(* account of a wallet has an address derived from the wallet, and is      *)
(* named by it; the state account and the vaults have fixed addresses.     *)
(*                                                                         *)
(* An action runs one method from one await to the next.  Any code of the  *)
(* application may run in between: other methods, and updateWallet.        *)
(***************************************************************************)
EXTENDS Integers, Sequences, FiniteSets

CONSTANTS
    Wallets,        \* the wallets the application switches between
    FirstWallet,    \* the one the client is made with
    Oracles,        \* the oracles a market can have
    Houses,         \* the states the clearing house may start in
    Callers,        \* who may have a call in progress
    MaxCalls,       \* bound on the calls
    MaxSwitches,    \* bound on the calls of updateWallet
    MaxKeys         \* bound on the keys that are generated

Histories == {"depositHistory", "tradeHistory", "fundingPaymentHistory",
              "fundingRateHistory", "liquidationHistory"}
\* The accounts the state account names, besides the vaults.
Fields == Histories \cup {"markets", "curveHistory", "extendedCurveHistory"}

NotCached == "not cached"
NoOracle == "no oracle"
Nobody == "nobody"

\* Nobody administers the house that does not exist.
NoHouse == [admin |-> Nobody, refs |-> [f \in Fields |-> 0]]
Exists(h) == h.admin # Nobody

ASSUME ClientAssumption ==
    /\ FirstWallet \in Wallets
    /\ {Nobody, NotCached} \cap Wallets = {}
    /\ \A h \in Houses : /\ h = [admin |-> h.admin, refs |-> h.refs]
                         /\ h.refs \in [Fields -> Nat]
                         /\ IF Exists(h) THEN h.refs["markets"] # 0 ELSE h = NoHouse
    /\ {MaxCalls, MaxSwitches, MaxKeys} \subseteq Nat

VARIABLES
    house,          \* the state account: the admin and the accounts it names
    oracle,         \* the oracle of the market, NoOracle until it is initialized
    users,          \* per wallet the positions account of its user account, 0 without
    wallet,         \* this.wallet, and the wallet of program, provider and txSender
    userAccountPublicKey,
    userAccount,    \* the cached user account: its positions account, 0 without
    state,          \* the subscriber's copy of the state account
    market,         \* the subscriber's copy of the market
    calls,          \* per caller the call in progress
    raced,          \* updateWallet has been called while an account was looked up
    deleted,        \* the wallets whose user account has been deleted
    keys,           \* the number of keys generated
    count,          \* the number of calls
    switches        \* the number of calls of updateWallet

ledger == <<house, oracle, users, deleted>>
caches == <<userAccountPublicKey, userAccount>>
copies == <<state, market>>
bounds == <<keys, count, switches>>
vars == <<ledger, wallet, caches, copies, calls, raced, bounds>>

Idle == [ix |-> "none", todo |-> <<>>, caller |-> Nobody, sender |-> Nobody, user |-> Nobody,
         positions |-> 0, authority |-> Nobody, created |-> Nobody, creator |-> Nobody,
         key |-> 0, arg |-> Nobody, accounts |-> [f \in {} |-> 0], oracle |-> NoOracle,
         asked |-> Nobody, answer |-> 0, clear |-> FALSE]

Init ==
    /\ house \in Houses
    /\ oracle \in IF Exists(house) THEN Oracles ELSE {NoOracle}
    /\ users = [w \in Wallets |-> 0]
    /\ wallet = FirstWallet
    /\ userAccountPublicKey = NotCached
    /\ userAccount = 0
    /\ state = house /\ market = oracle
    /\ calls = [c \in Callers |-> Idle]
    /\ raced = FALSE
    /\ deleted = {}
    /\ keys = 1 /\ count = 0 /\ switches = 0

(***************************************************************************)
(* The accounts of an instruction: per account the field of the copied     *)
(* state that the client takes it from, and per account the field of the   *)
(* ledger's state that the program compares it with.                       *)
(***************************************************************************)
same(S) == [f \in S |-> f]

deposit_accounts == same({"markets", "fundingPaymentHistory", "depositHistory"})
trade_accounts == same({"markets", "tradeHistory", "fundingPaymentHistory", "fundingRateHistory"})
liquidate_accounts ==
    same({"markets", "tradeHistory", "liquidationHistory", "fundingPaymentHistory"})
curve_accounts == [markets |-> "markets", curveHistory |-> "extendedCurveHistory"]

Bug_named ==
    [Collateral |-> deposit_accounts, Trade |-> trade_accounts, Liquidate |-> liquidate_accounts,
     SettleFunding |-> same({"markets", "fundingPaymentHistory"}),
     UpdateFundingRate |-> same({"markets", "fundingRateHistory"}),
     NewUserDeposit |-> deposit_accounts, AdjustCurve |-> same({"markets", "curveHistory"}),
     UpdateCurveHistory |-> same({"curveHistory"}),
     InitializeMarket |-> same({"markets"}), UpdateMarket |-> same({"markets"}),
     UpdateMarketOracle |-> same({"markets"})]
\* The fields a method takes the accounts of its instruction from.
named ==
    [Collateral |-> deposit_accounts, Trade |-> trade_accounts, Liquidate |-> liquidate_accounts,
     SettleFunding |-> same({"markets", "fundingPaymentHistory"}),
     UpdateFundingRate |-> same({"markets", "fundingRateHistory"}),
     NewUserDeposit |-> deposit_accounts, AdjustCurve |-> curve_accounts,
     UpdateCurveHistory |-> same({"curveHistory"}),
     InitializeMarket |-> same({"markets"}), UpdateMarket |-> same({"markets"}),
     UpdateMarketOracle |-> same({"markets"})]

\* The accounts of the copied state for an instruction.
accounts_of(ix) ==
    [a \in IF ix \in DOMAIN named THEN DOMAIN named[ix] ELSE {} |-> state.refs[named[ix][a]]]

\* The fields the program requires the accounts of an instruction to equal.
constraint(ix, a) ==
    IF ix = "AdjustCurve" /\ a = "curveHistory" THEN "extendedCurveHistory" ELSE a

Creating == {"NewUser", "NewUserDeposit"}
OwnUser == {"Collateral", "Trade", "DeleteUser"}
NeedsOracle == {"Trade", "Liquidate", "UpdateFundingRate", "AdjustCurve"}
NeedsMarket == NeedsOracle \cup {"UpdateMarket", "UpdateMarketOracle"}
NeedsAdmin == {"InitializeHistory", "InitializeMarket", "UpdateMarket", "UpdateMarketOracle",
               "AdjustCurve", "UpdateCurveHistory", "UpdateState", "UpdateAdmin"}

(***************************************************************************)
(* The steps of a method.  A step is what the method awaits:               *)
(*   key, derive     getUserAccountPublicKey, when cached and when not     *)
(*   userAccount, ownKey, ownDerive, ownFetch                              *)
(*                   getUserAccount: cached, the key it asks for, fetched  *)
(*   fetch, victim, victimPositions                                        *)
(*                   an account asked for at a node                        *)
(*   faucet          the tokens of a devnet user                           *)
(*   pda             the address of the wallet's user account              *)
(*   whitelist       the address of the wallet's whitelist token           *)
(*   new             the instruction that creates a user account           *)
(*   read            getStateAccount, awaited                              *)
(*   state, adminState, anyState                                           *)
(*                   getStatePublicKey, among the accounts: followed by    *)
(*                   the wallet, after the wallet, or without a wallet     *)
(*   adminKey        as adminState, with the state already read            *)
(*   built, signed   the transaction; signed begins by naming the wallet   *)
(*   check           whether the state account exists                      *)
(*   send            the transaction, until it is confirmed                *)
(***************************************************************************)
Asking == {"ownFetch", "fetch", "victim", "victimPositions", "check"}
Unanswered == -1

\* The address getUserAccountPublicKey returns.
getUserAccountPublicKey(pk) == IF pk # NotCached THEN pk ELSE wallet

\* getUserAccount, up to its first await.
getUserAccount(k, rest, pk, ua) ==
    IF ua # 0 THEN [k EXCEPT !.todo = <<"userAccount">> \o rest, !.answer = ua]
    ELSE [k EXCEPT !.todo = <<IF pk # NotCached THEN "ownKey" ELSE "ownDerive", "ownFetch">> \o rest,
                   !.asked = getUserAccountPublicKey(pk)]

\* The accounts and the oracle of the subscriber's copies, as they are now.
named_by_copies(k) ==
    [k EXCEPT !.accounts = accounts_of(k.ix),
              !.oracle = IF k.ix \in NeedsOracle \ {"UpdateFundingRate"} THEN market ELSE @]

\* A call that goes on to the next of its steps, up to the await.
begin(k, todo, pk, ua) ==
    LET s == Head(todo)
        on == [k EXCEPT !.todo = todo]
    IN  CASE s = "key" ->
               [k EXCEPT !.todo = <<IF pk # NotCached THEN "key" ELSE "derive">> \o Tail(todo),
                         !.asked = getUserAccountPublicKey(pk)]
          [] s = "userAccount" -> getUserAccount(k, Tail(todo), pk, ua)
          [] s = "fetch" -> [on EXCEPT !.asked = k.user, !.answer = Unanswered]
          [] s = "victim" -> [on EXCEPT !.asked = k.arg, !.answer = Unanswered]
          [] s \in Asking \ {"fetch", "victim"} -> [on EXCEPT !.answer = Unanswered]
          [] s = "pda" -> [on EXCEPT !.asked = wallet]
          [] s = "new" -> [on EXCEPT !.creator = wallet]
          [] s \in {"read", "state", "anyState"} -> named_by_copies(on)
          [] s = "adminState" -> [named_by_copies(on) EXCEPT !.authority = wallet]
          [] s \in {"adminKey", "signed"} -> [on EXCEPT !.authority = wallet]
          [] OTHER -> on

\* What a call keeps of the answer to its step.
resumed(k) ==
    LET s == Head(k.todo)
    IN  CASE s \in {"key", "derive"} -> [k EXCEPT !.user = k.asked]
          [] s \in {"userAccount", "ownFetch", "fetch", "victim"} -> [k EXCEPT !.positions = k.answer]
          [] s = "pda" -> [k EXCEPT !.created = k.asked]
          [] s = "state" -> [k EXCEPT !.authority = wallet]
          [] s \in {"read", "built", "signed"} -> [k EXCEPT !.sender = wallet]
          [] OTHER -> k

\* The method returns or throws.
end(c) == calls' = [calls EXCEPT ![c] = Idle]

\* The step's answer is there: the method goes on, unless the account asked
\* for is missing or initialize finds a state account.
Resume(c) ==
    LET k == calls[c]
        s == Head(k.todo)
    IN  /\ k.todo # <<>> /\ s # "send"
        /\ s \in Asking => k.answer # Unanswered
        /\ userAccountPublicKey' =
              IF s \in {"derive", "ownDerive"} THEN k.asked ELSE userAccountPublicKey
        /\ userAccount' = IF s = "ownFetch" /\ k.answer # 0 THEN k.answer ELSE userAccount
        /\ IF s \in Asking /\ (k.answer = 0) # (s = "check") THEN end(c)
           ELSE calls' = [calls EXCEPT ![c] = begin(resumed(k), Tail(k.todo),
                                                    userAccountPublicKey', userAccount')]
        /\ UNCHANGED <<ledger, wallet, copies, raced, bounds>>

\* A node answers with what the ledger holds now, or the request fails.
Answer(c) ==
    LET k == calls[c]
    IN  /\ k.todo # <<>> /\ Head(k.todo) \in Asking /\ k.answer = Unanswered
        /\ \/ calls' = [calls EXCEPT ![c].answer =
                 CASE Head(k.todo) = "check" -> IF Exists(house) THEN 1 ELSE 0
                   [] Head(k.todo) = "victimPositions" ->
                        IF users[k.arg] = k.positions THEN 1 ELSE 0
                   [] OTHER -> users[k.asked]]
           \/ end(c)
        /\ UNCHANGED <<ledger, wallet, caches, copies, raced, bounds>>

(***************************************************************************)
(* The program                                                             *)
(***************************************************************************)
\* The transaction is signed by those it names as signers, and its accounts
\* are the ones that the state, the market and the user account name.
valid(k) ==
    /\ {k.authority, k.creator} \subseteq {k.sender, Nobody}
    /\ \A a \in DOMAIN k.accounts :
          LET f == constraint(k.ix, a) IN house.refs[f] # 0 /\ k.accounts[a] = house.refs[f]
    /\ k.ix \in Creating => /\ Exists(house)
                            /\ k.created = k.creator /\ users[k.created] = 0
    /\ k.ix = "NewUserDeposit" => /\ k.user = k.created /\ k.user = k.authority
                                  /\ k.arg \in {Nobody, k.authority}
    /\ k.ix \in OwnUser => k.user = k.authority /\ users[k.user] = k.positions
    /\ k.ix = "Liquidate" => k.user = k.authority /\ users[k.user] # 0
    /\ k.ix \in {"Liquidate", "SettleFunding"} => users[k.arg] = k.positions
    /\ k.ix \in NeedsMarket => oracle # NoOracle
    /\ k.ix \in NeedsOracle => k.oracle = oracle
    /\ k.ix \in NeedsAdmin => k.authority = house.admin
    /\ k.ix = "Initialize" => ~Exists(house)
    /\ k.ix = "InitializeHistory" =>
          \E f \in Histories \cup {"curveHistory"} : house.refs[f] = 0
    /\ k.ix = "InitializeMarket" => oracle = NoOracle

\* The house after an instruction.
house_after(k) ==
    CASE k.ix = "Initialize" -> [NoHouse EXCEPT !.admin = k.authority, !.refs["markets"] = k.key]
      [] k.ix = "InitializeHistory" ->
           [house EXCEPT !.refs = [f \in Fields |-> IF f \in Histories \cup {"extendedCurveHistory"}
                                                    THEN k.key ELSE house.refs[f]]]
      [] k.ix = "UpdateCurveHistory" -> [house EXCEPT !.refs["extendedCurveHistory"] = k.key]
      [] k.ix = "UpdateAdmin" -> [house EXCEPT !.admin = k.arg]
      [] OTHER -> house

\* The market's oracle after an instruction.
oracle_after(k) == IF k.ix \in {"InitializeMarket", "UpdateMarketOracle"} THEN k.arg ELSE oracle

\* The user accounts after an instruction: created with new positions, or closed.
users_after(k) ==
    CASE k.ix \in Creating -> [users EXCEPT ![k.created] = k.key]
      [] k.ix = "DeleteUser" -> [users EXCEPT ![k.user] = 0]
      [] OTHER -> users

\* A change under the feet of the other calls.
disturbed(cs, c) == [d \in Callers |-> IF d = c THEN cs[d] ELSE [cs[d] EXCEPT !.clear = FALSE]]

\* A call ends with a change of the ledger, or without.
ended(c) ==
    calls' = IF <<house, oracle, users>>' # <<house, oracle, users>>
             THEN disturbed([calls EXCEPT ![c] = Idle], c) ELSE [calls EXCEPT ![c] = Idle]

\* initialize goes on to its second transaction once the first is confirmed.
confirmed(c) ==
    IF calls[c].ix = "Initialize"
    THEN calls' = disturbed([calls EXCEPT ![c] =
               begin([calls[c] EXCEPT !.ix = "InitializeHistory"], <<"signed", "send">>,
                     userAccountPublicKey, userAccount)], c)
    ELSE ended(c)

\* The program runs a valid transaction, and its confirmation arrives or not;
\* an invalid one fails, and a valid one may be lost, or refused for what it
\* asks (see ClearingHouse).
Send(c) ==
    LET k == calls[c]
    IN  /\ k.todo # <<>> /\ Head(k.todo) = "send"
        /\ \/ /\ valid(k)
              /\ house' = house_after(k) /\ oracle' = oracle_after(k) /\ users' = users_after(k)
              /\ deleted' = IF k.ix = "DeleteUser" THEN deleted \cup {k.user} ELSE deleted
              /\ confirmed(c) \/ ended(c)
           \/ end(c) /\ UNCHANGED ledger
        /\ UNCHANGED <<wallet, caches, copies, raced, bounds>>

(***************************************************************************)
(* The methods                                                             *)
(***************************************************************************)
Generating == Creating \cup {"Initialize", "UpdateCurveHistory"}

\* A call: the method's instruction, its steps, and what is known of it before
\* its first await: arguments, and the signing wallet if the method evaluates
\* this.txSender or this.program by then.  getStateAccount needs a copy.
Call(c, ix, steps, known) ==
    LET new == [known EXCEPT !.ix = ix, !.caller = wallet,
                             !.key = IF ix \in Generating THEN keys + 1 ELSE @,
                             !.clear = /\ ~raced /\ wallet \notin deleted
                                       /\ state = house /\ market = oracle]
    IN  /\ calls[c].todo = <<>>
        /\ count < MaxCalls
        /\ ix # "Initialize" => Exists(state)
        /\ ix \in Generating => keys < MaxKeys
        /\ keys' = IF ix \in Generating THEN keys + 1 ELSE keys
        /\ calls' = [calls EXCEPT ![c] =
              begin(new, steps \o <<"send">>, userAccountPublicKey, userAccount)]
        /\ count' = count + 1
        /\ UNCHANGED <<ledger, wallet, caches, copies, raced, switches>>

Later == Idle                           \* nothing is evaluated early
Now == [Idle EXCEPT !.sender = wallet]  \* this.txSender or this.program is

getInitializeUserInstructions == <<"pda", "whitelist", "new">>
initializeUserAccount(c) ==
    Call(c, "NewUser", getInitializeUserInstructions \o <<"built">>, Later)

getDepositCollateralInstruction == <<"key", "userAccount", "state">>
depositCollateral(c) ==
    Call(c, "Collateral", getDepositCollateralInstruction \o <<"built">>, Later)

\* The deposit names the positions account that the first instruction creates.
initializeUserAccountAndDepositCollateral(c) ==
    Call(c, "NewUserDeposit",
         getInitializeUserInstructions \o <<"key", "state", "built">>, Later)
\* On devnet the deposit comes from tokens the faucet mints for the wallet.
initializeUserAccountForDevnet(c) ==
    Call(c, "NewUserDeposit",
         <<"faucet">> \o getInitializeUserInstructions \o <<"key", "state", "built">>,
         [Later EXCEPT !.arg = wallet])

deleteUser(c) == Call(c, "DeleteUser", <<"key", "fetch", "signed">>, Later)

getWithdrawCollateralIx == <<"key", "fetch", "state">>
withdrawCollateral(c) == Call(c, "Collateral", getWithdrawCollateralIx, Now)

getOpenPositionIx == <<"key", "userAccount", "state">>
openPosition(c) == Call(c, "Trade", getOpenPositionIx, Now)
getClosePositionIx == <<"key", "userAccount", "state">>
closePosition(c) == Call(c, "Trade", getClosePositionIx, Now)

getLiquidateIx == <<"key", "victim", "victimPositions", "state">>
liquidate(c) == \E w \in Wallets : Call(c, "Liquidate", getLiquidateIx, [Now EXCEPT !.arg = w])

updateFundingRate(c) ==
    \E o \in Oracles : Call(c, "UpdateFundingRate", <<"anyState">>, [Now EXCEPT !.oracle = o])
\* The application passes a user account and the positions it knows it by.
settleFundingPayment(c) ==
    \E w \in Wallets :
        /\ users[w] # 0
        /\ Call(c, "SettleFunding", <<"anyState">>, [Now EXCEPT !.arg = w, !.positions = users[w]])

Bug_initialize(c) ==
    IF Exists(state) THEN Call(c, "InitializeHistory", <<"signed">>, [Later EXCEPT !.key = MaxKeys])
    ELSE Call(c, "Initialize", <<"check", "signed">>, Later)
\* initialize throws when it finds a state account, with or without histories.
initialize(c) == Call(c, "Initialize", <<"check", "signed">>, Later)
\* initializeMarket throws at once when the copied market is initialized.
initializeMarket(c) ==
    /\ market = NoOracle
    /\ \E o \in Oracles : Call(c, "InitializeMarket", <<"state", "built">>, [Later EXCEPT !.arg = o])
moveAmmPrice(c) == Call(c, "UpdateMarket", <<"state">>, Now)
moveAmmToPrice(c) == Call(c, "UpdateMarket", <<"state">>, Now)
updateK(c) == Call(c, "AdjustCurve", <<"state">>, Now)
repegAmmCurve(c) == Call(c, "AdjustCurve", <<"state">>, Now)
updateAmmOracleTwap(c) == Call(c, "AdjustCurve", <<"state">>, Now)
resetAmmOracleTwap(c) == Call(c, "AdjustCurve", <<"state">>, Now)
updateCurveHistory(c) == Call(c, "UpdateCurveHistory", <<"state">>, Now)
withdrawFromInsuranceVault(c) == Call(c, "UpdateState", <<"read", "adminKey">>, Later)
withdrawFees(c) == Call(c, "UpdateMarket", <<"read", "adminKey">>, Later)
withdrawFromInsuranceVaultToMarket(c) == Call(c, "UpdateMarket", <<"read", "adminKey">>, Later)
updateAdmin(c) == \E w \in Wallets : Call(c, "UpdateAdmin", <<"adminState">>, [Now EXCEPT !.arg = w])
updateMarketOracle(c) ==
    \E o \in Oracles : Call(c, "UpdateMarketOracle", <<"adminState">>, [Now EXCEPT !.arg = o])
updateMarketMinimumTradeSize(c) == Call(c, "UpdateMarket", <<"adminState">>, Now)
\* updateMarginRatio and the setters of the fees, the liquidations and the oracles.
updateParameters(c) == Call(c, "UpdateState", <<"adminState">>, Now)
\* The setters of the mints, the deposit limit and the pauses.
updateSwitches(c) == Call(c, "UpdateState", <<"adminState">>, Now)

Bug_updateWallet(w) ==
    /\ wallet' = w
    /\ userAccount' = 0
    /\ UNCHANGED userAccountPublicKey
\* The wallet, its provider, program and txSender change at once, and the
\* linked accounts are forgotten.
updateWallet(w) ==
    /\ wallet' = w
    /\ userAccountPublicKey' = NotCached
    /\ userAccount' = 0

LookingUp(k) ==
    k.todo # <<>> /\ Head(k.todo) \in {"derive", "ownKey", "ownDerive", "ownFetch"}

SwitchWallet ==
    /\ switches < MaxSwitches
    /\ switches' = switches + 1
    /\ \E w \in Wallets \ {wallet} : updateWallet(w)
    /\ raced' = (raced \/ \E c \in Callers : LookingUp(calls[c]))
    /\ calls' = [c \in Callers |-> [calls[c] EXCEPT !.clear = FALSE]]
    /\ UNCHANGED <<ledger, copies, keys, count>>

\* The subscriber replaces one of its copies by what is on the ledger.  It may
\* do so at any time or never: a late answer, for an older slot, leaves the copy
\* that a refresh at that slot would have left (see Subscribers for the slots).
Refresh ==
    /\ \/ state' = house /\ UNCHANGED market
       \/ market' = oracle /\ UNCHANGED state
    /\ UNCHANGED <<ledger, wallet, caches, calls, raced, bounds>>

UserMethod(c) ==
    \/ initializeUserAccount(c) \/ depositCollateral(c)
    \/ initializeUserAccountAndDepositCollateral(c) \/ initializeUserAccountForDevnet(c)
    \/ deleteUser(c) \/ withdrawCollateral(c) \/ openPosition(c) \/ closePosition(c)
    \/ liquidate(c) \/ updateFundingRate(c) \/ settleFundingPayment(c)

AdminMethod(c) ==
    \/ initialize(c) \/ initializeMarket(c) \/ moveAmmPrice(c) \/ moveAmmToPrice(c)
    \/ updateK(c) \/ repegAmmCurve(c) \/ updateAmmOracleTwap(c) \/ resetAmmOracleTwap(c)
    \/ updateCurveHistory(c) \/ withdrawFromInsuranceVault(c) \/ withdrawFees(c)
    \/ withdrawFromInsuranceVaultToMarket(c) \/ updateAdmin(c) \/ updateMarketOracle(c)
    \/ updateMarketMinimumTradeSize(c) \/ updateParameters(c) \/ updateSwitches(c)

Next ==
    \/ SwitchWallet \/ Refresh
    \/ \E c \in Callers :
          UserMethod(c) \/ AdminMethod(c) \/ Answer(c) \/ Resume(c) \/ Send(c)

Spec == Init /\ [][Next]_vars

(***************************************************************************)
(* Properties                                                              *)
(***************************************************************************)

\* Unless updateWallet has overtaken a lookup, a transaction on user accounts
\* that the program accepts is signed by the wallet the client had when the
\* method was called, and acts on that wallet's account, however calls and
\* changes of wallet interleave.
ActsForTheCaller ==
    \A c \in Callers : LET k == calls[c] IN
        (k.todo = <<"send">> /\ ~raced /\ valid(k)) =>
            /\ k.ix \in OwnUser \cup {"Liquidate", "NewUserDeposit"} =>
                  k.user = k.caller /\ k.sender = k.caller
            /\ k.ix \in Creating => k.created = k.caller /\ k.sender = k.caller

\* What an instruction needs, whatever accounts the client names.
Possible(k) ==
    LET own == users[k.caller]
        histories == \A f \in Histories : house.refs[f] # 0
    IN  /\ k.ix \in {"Collateral", "Trade", "DeleteUser", "Liquidate"} => own # 0
        /\ k.ix \in {"Collateral", "Trade", "Liquidate", "SettleFunding", "UpdateFundingRate",
                     "NewUserDeposit"} => histories
        /\ k.ix \in Creating => own = 0
        /\ k.ix = "Liquidate" => users[k.arg] # 0
        /\ k.ix \in NeedsMarket => oracle # NoOracle
        /\ k.ix = "UpdateFundingRate" => k.oracle = oracle
        /\ k.ix = "AdjustCurve" => house.refs["extendedCurveHistory"] # 0
        /\ k.ix = "UpdateCurveHistory" => house.refs["curveHistory"] # 0
        /\ k.ix \in NeedsAdmin => k.caller = house.admin
        /\ k.ix = "Initialize" => ~Exists(house)
        /\ k.ix = "InitializeMarket" => oracle = NoOracle

\* A call that is made with current copies, by a wallet whose user account has
\* not been deleted, and during which neither the ledger nor the wallet
\* changes, names the right accounts: it fails only for want of something.
UndisturbedCallsSucceed ==
    \A c \in Callers : LET k == calls[c] IN
        (k.todo # <<>> /\ k.clear /\ Possible(k)) =>
            /\ Head(k.todo) = "send" => valid(k)
            /\ Head(k.todo) \in Asking /\ k.answer # Unanswered =>
                  (k.answer = 0) = (Head(k.todo) = "check")

\* The clients never replace the histories of a house that has them, although
\* initialize_history's own guard does not prevent it.
HistoriesStay ==
    [][\A f \in Histories : house.refs[f] # 0 => house'.refs[f] = house.refs[f]]_vars
=============================================================================
