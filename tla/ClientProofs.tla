---------------------------- MODULE ClientProofs -----------------------------
(***************************************************************************)
(* What the SDK's clients never do, for any number of wallets, callers and *)
(* calls, and every interleaving of their awaits with changes of wallet.   *)
(***************************************************************************)
EXTENDS ClearingHouseClient, SequenceTheorems, TLAPS

Keys == {"key", "derive"}

\* The steps a method has before it, and those it can be in as well.
LaterSteps == {"key", "userAccount", "ownFetch", "fetch", "victim", "victimPositions", "faucet",
               "pda", "whitelist", "new", "read", "state", "adminState", "anyState",
               "adminKey", "built", "signed", "check", "send"}
Steps == LaterSteps \cup {"derive", "ownKey", "ownDerive"}

CallFields == {"ix", "todo", "caller", "sender", "user", "positions", "authority", "created",
               "creator", "key", "arg", "accounts", "oracle", "asked", "answer", "clear"}

\* A call in progress ends with a transaction.
Planned(todo) ==
    /\ todo \in Seq(Steps) /\ todo # <<>>
    /\ Tail(todo) \in Seq(LaterSteps)
    /\ todo[Len(todo)] = "send"

CallOK(k) ==
    /\ DOMAIN k = CallFields
    /\ k.key \in Nat
    /\ k.todo # <<>> => Planned(k.todo) /\ k.caller \in Wallets

(***************************************************************************)
(* For the houses: a house that does not exist has no histories, and the   *)
(* second transaction of initialize is sent by one caller at most, for a   *)
(* house that has none yet.                                                *)
(***************************************************************************)
HouseOK ==
    /\ house = [admin |-> house.admin, refs |-> house.refs]
    /\ house.refs \in [Fields -> Nat]

NoHistories == \A f \in Histories : house.refs[f] = 0

Initializing(k) == k.todo # <<>> /\ k.ix = "InitializeHistory"

\* What the calls that change the house are about to do to it.
AdminCall(k) ==
    k.todo # <<>> =>
        /\ k.ix = "Initialize" => k.authority \in Wallets \/ k.todo = <<"check", "signed", "send">>
        /\ k.ix = "UpdateAdmin" => k.arg \in Wallets

HousesInv ==
    /\ ~Exists(house) => NoHistories
    /\ \A c \in Callers : AdminCall(calls[c])
    /\ \A c \in Callers : Initializing(calls[c]) => Exists(house) /\ NoHistories
    /\ \A c, d \in Callers : Initializing(calls[c]) /\ Initializing(calls[d]) => c = d

(***************************************************************************)
(* For the wallets: as long as no lookup was overtaken, the cached key is  *)
(* that of the wallet, and so is the one that a lookup is about to cache.  *)
(* A method asks for its own user account in its first step, and so for    *)
(* its caller's; it never asks again.                                      *)
(***************************************************************************)
OwnLookup(k) == k.todo # <<>> /\ Head(k.todo) \in {"derive", "ownDerive"} => k.asked = wallet

\* The account of the caller is known or has just been asked for.
OwnAccount(k) ==
    \/ Head(k.todo) \in Keys /\ k.asked = k.caller /\ Tail(k.todo) \in Seq(Steps \ Keys)
    \/ k.user = k.caller /\ k.todo \in Seq(Steps \ Keys)

\* So is the address of the account that is created for it.
OwnAddress(k) ==
    \/ Head(k.todo) = "pda" /\ k.asked = k.caller /\ Tail(k.todo) \in Seq(Steps \ {"pda"})
    \/ k.created = k.caller /\ k.todo \in Seq(Steps \ {"pda"})

ForTheCaller(k) ==
    k.todo # <<>> =>
        /\ k.ix \in OwnUser \cup {"Liquidate"} => OwnAccount(k)
        /\ k.ix = "NewUser" => k.arg = Nobody
        /\ k.ix = "NewUserDeposit" => k.arg \in {Nobody, k.caller}
        /\ k.ix \in Creating /\ k.arg = Nobody => OwnAddress(k)

WalletsInv ==
    ~raced => /\ userAccountPublicKey \in {NotCached, wallet}
              /\ \A c \in Callers : OwnLookup(calls[c]) /\ ForTheCaller(calls[c])

ClientInv ==
    /\ wallet \in Wallets
    /\ raced \in BOOLEAN
    /\ keys \in Nat
    /\ HouseOK
    /\ calls = [c \in Callers |-> calls[c]]
    /\ \A c \in Callers : CallOK(calls[c])
    /\ HousesInv
    /\ WalletsInv

------------------------------------------------------------------------------
(* What a call looks like when it goes on.                                 *)

\* Two calls of the same method by the same caller, with the same answers.
SameCall(k, m) ==
    /\ DOMAIN m = CallFields
    /\ m.ix = k.ix /\ m.caller = k.caller /\ m.key = k.key /\ m.arg = k.arg
    /\ m.user = k.user /\ m.created = k.created

\* A step in front of others.
before(e, t) == <<e>> \o t

LEMMA Before ==
    ASSUME NEW S, NEW e \in S, NEW t \in Seq(S)
    PROVE  /\ before(e, t) \in Seq(S) /\ before(e, t) # <<>>
           /\ Head(before(e, t)) = e /\ Tail(before(e, t)) = t
           /\ t # <<>> => before(e, t)[Len(before(e, t))] = t[Len(t)]
  <1> DEFINE w == before(e, t)
  <1>1. w \in Seq(S) /\ Len(w) = Len(t) + 1 /\ w[1] = e
        /\ \A i \in 1..Len(t) : w[i + 1] = t[i]
    BY DEF before
  <1>2. Tail(w) = t
    <2>1. Tail(w) \in Seq(S) /\ Len(Tail(w)) = Len(t)
      BY <1>1
    <2>2. \A i \in 1..Len(t) : Tail(w)[i] = t[i]
      BY <1>1
    <2> HIDE DEF w
    <2>3. QED BY <2>1, <2>2, SeqEqual
  <1>3. t # <<>> => w[Len(w)] = t[Len(t)]
    BY <1>1
  <1>4. w # <<>> /\ Head(w) = e
    BY <1>1
  <1>5. QED BY <1>1, <1>2, <1>3, <1>4

\* A step that is not the transaction is followed by one.
LEMMA NextStep ==
    ASSUME NEW S, NEW t \in Seq(S), t # <<>>, t[Len(t)] = "send", Head(t) # "send"
    PROVE  Tail(t) \in Seq(S) /\ Tail(t) # <<>> /\ Tail(t)[Len(Tail(t))] = "send"
  <1>1. Len(t) \in Nat /\ Len(t) >= 1 /\ t[1] = Head(t)
    OBVIOUS
  <1>2. Len(t) >= 2
    BY <1>1
  <1>3. Tail(t) \in Seq(S) /\ Len(Tail(t)) = Len(t) - 1
    OBVIOUS
  <1>4. Tail(t)[Len(t) - 1] = t[Len(t)]
    BY <1>2
  <1>5. Len(Tail(t)) >= 1
    BY <1>1, <1>2, <1>3
  <1>6. Tail(t)[Len(Tail(t))] = "send"
    BY <1>3, <1>4
  <1> DEFINE rest == Tail(t)
  <1> HIDE DEF rest
  <1>7. rest \in Seq(S) /\ Len(rest) >= 1 => rest # <<>>
    OBVIOUS
  <1>8. QED BY <1>3, <1>5, <1>6, <1>7 DEF rest

\* Going on to the next step leaves what the method knows of its user.
LEMMA BeginCall ==
    ASSUME NEW k, DOMAIN k = CallFields, NEW todo \in Seq(LaterSteps), todo # <<>>,
           todo[Len(todo)] = "send", NEW pk, NEW ua, NEW m, m = begin(k, todo, pk, ua)
    PROVE  /\ SameCall(k, m)
           /\ Planned(m.todo)
           /\ Head(m.todo) \in Keys => Head(todo) = "key" /\ m.asked = getUserAccountPublicKey(pk)
           /\ Head(m.todo) = "pda" => Head(todo) = "pda"
           /\ Head(todo) = "pda" => m.asked = wallet /\ Head(m.todo) = "pda"
           /\ Head(todo) = "key" => Head(m.todo) \in Keys
           /\ Head(m.todo) \in {"derive", "ownDerive"} =>
                 pk = NotCached /\ m.asked = getUserAccountPublicKey(pk)
           /\ \A S \in {Steps \ Keys, Steps \ {"pda"}} :
                 /\ todo \in Seq(S) => m.todo \in Seq(S)
                 /\ Tail(todo) \in Seq(S) => Tail(m.todo) \in Seq(S)
           /\ m.authority \in {k.authority, wallet}
           /\ Head(todo) = "signed" => m.authority = wallet
           /\ Head(todo) = "check" => m.todo = todo
  <1> DEFINE s == Head(todo)
             on == [k EXCEPT !.todo = todo]
             Result ==
               /\ SameCall(k, m)
               /\ m.todo = todo
               /\ Head(m.todo) \notin {"key", "derive", "ownDerive"}
               /\ Head(todo) = "pda" => m.asked = wallet
               /\ m.authority \in {k.authority, wallet}
               /\ Head(todo) = "signed" => m.authority = wallet
  <1>1. s \in LaterSteps /\ Tail(todo) \in Seq(LaterSteps) /\ Planned(todo)
    BY DEF Planned, Steps
  <1>2. DOMAIN on = CallFields
    OBVIOUS
  <1>3. ASSUME s \notin {"key", "userAccount"} PROVE Result
    <2>1. CASE s \in {"fetch", "victim"}
      BY <2>1, <1>1, <1>3 DEF begin, SameCall, CallFields
    <2>2. CASE s \in Asking \ {"fetch", "victim"}
      BY <2>2, <1>1, <1>3 DEF begin, SameCall, CallFields, Asking
    <2>3. CASE s \in {"pda", "new"}
      BY <2>3, <1>1, <1>3 DEF begin, SameCall, CallFields, Asking
    <2>4. CASE s \in {"read", "state", "anyState", "adminState"}
      BY <2>4, <1>1, <1>3 DEF begin, SameCall, CallFields, Asking, named_by_copies
    <2>5. CASE s \in {"adminKey", "signed"}
      BY <2>5, <1>1, <1>3 DEF begin, SameCall, CallFields, Asking
    <2>6. CASE s \in {"faucet", "whitelist", "built", "send"}
      BY <2>6, <1>1, <1>3 DEF begin, SameCall, CallFields, Asking
    <2>7. QED BY <2>1, <2>2, <2>3, <2>4, <2>5, <2>6, <1>1, <1>3 DEF LaterSteps, Asking
  <1>4. CASE s \notin {"key", "userAccount"}
    <2>1. Result
      BY <1>3, <1>4
    <2>2. QED BY <2>1, <1>1, <1>4 DEF Keys
  <1>5. CASE s = "key"
    <2> DEFINE first == IF pk # NotCached THEN "key" ELSE "derive"
               rest == Tail(todo)
               next == m.todo
    <2>1. rest # <<>> /\ rest[Len(rest)] = "send"
      BY <1>5, NextStep
    <2>2. /\ SameCall(k, m)
          /\ m.asked = getUserAccountPublicKey(pk)
          /\ m.authority = k.authority
      BY <1>5 DEF begin, Asking, SameCall, CallFields
    <2>3. next = before(first, rest)
      BY <1>5 DEF begin, Asking, CallFields, before
    <2>4. first \in Keys /\ first \in Steps /\ first # "pda" /\ (first = "derive" => pk = NotCached)
      BY DEF Keys, Steps, LaterSteps
    <2>5. rest \in Seq(Steps) /\ rest \in Seq(LaterSteps)
      BY <1>1 DEF Steps
    <2>6. ASSUME NEW S \in {Steps \ Keys, Steps \ {"pda"}}, todo \in Seq(S)
          PROVE  first \in S /\ rest \in Seq(S)
      <3>1. s \in S /\ rest \in Seq(S)
        BY <2>6
      <3>2. S = Steps \ {"pda"}
        BY <3>1, <1>5 DEF Keys
      <3>3. QED BY <3>1, <3>2, <2>4
    <2> HIDE DEF first, rest, next
    <2>7. Head(next) = first /\ Tail(next) = rest /\ next # <<>>
      BY <2>3, <2>4, <2>5, Before
    <2>8. next \in Seq(Steps) /\ next[Len(next)] = "send"
      BY <2>1, <2>3, <2>4, <2>5, Before
    <2>9. Planned(next)
      BY <2>5, <2>7, <2>8 DEF Planned
    <2>10. ASSUME NEW S \in {Steps \ Keys, Steps \ {"pda"}}, todo \in Seq(S)
           PROVE  next \in Seq(S)
      BY <2>3, <2>6, <2>10, Before
    <2>11. QED BY <2>2, <2>4, <2>7, <2>9, <2>10, <1>5 DEF Keys, rest, next
  <1>6. CASE s = "userAccount"
    <2> DEFINE ask == IF pk # NotCached THEN "ownKey" ELSE "ownDerive"
               rest == Tail(todo)
               next == m.todo
               fetch == before("ownFetch", rest)
    <2>1. rest # <<>> /\ rest[Len(rest)] = "send"
      BY <1>6, NextStep
    <2>2. SameCall(k, m) /\ m.authority = k.authority
      BY <1>6 DEF begin, Asking, getUserAccount, SameCall, CallFields
    <2>3. \/ next = before("userAccount", rest)
          \/ next = before(ask, fetch) /\ m.asked = getUserAccountPublicKey(pk)
      <3>1. \/ next = <<"userAccount">> \o rest
            \/ next = <<ask, "ownFetch">> \o rest /\ m.asked = getUserAccountPublicKey(pk)
        BY <1>6 DEF begin, Asking, getUserAccount, CallFields
      <3>2. <<ask, "ownFetch">> \o rest = <<ask>> \o (<<"ownFetch">> \o rest)
        BY <1>1
      <3>3. QED BY <3>1, <3>2 DEF before
    <2>4. ask \in {"ownKey", "ownDerive"} /\ (ask = "ownDerive" => pk = NotCached)
      OBVIOUS
    <2>5. /\ rest \in Seq(Steps) /\ rest \in Seq(LaterSteps)
          /\ \A S : todo \in Seq(S) => rest \in Seq(S)
      BY <1>1 DEF Steps
    <2> HIDE DEF ask, rest, fetch, next
    <2>6. ASSUME NEW S, {"userAccount", "ownKey", "ownDerive", "ownFetch"} \subseteq S,
                 rest \in Seq(S)
          PROVE  /\ next \in Seq(S) /\ next # <<>>
                 /\ next[Len(next)] = "send"
                 /\ \/ Head(next) = "userAccount" /\ Tail(next) = rest
                    \/ /\ Head(next) = ask /\ Tail(next) = fetch
                       /\ m.asked = getUserAccountPublicKey(pk)
                 /\ Tail(next) \in Seq(S)
      <3> DEFINE cached == "userAccount"
                 asks == "ownFetch"
      <3>1. cached \in S /\ asks \in S /\ ask \in S
        BY <2>4, <2>6
      <3>2. fetch = before(asks, rest)
        BY DEF fetch
      <3> HIDE DEF cached, asks
      <3>3. fetch \in Seq(S) /\ fetch # <<>> /\ fetch[Len(fetch)] = rest[Len(rest)]
        BY <3>1, <3>2, <2>1, <2>6, Before
      <3>4. CASE next = before("userAccount", rest)
        <4>1. next = before(cached, rest)
          BY <3>4 DEF cached
        <4>2. /\ next \in Seq(S) /\ next # <<>> /\ next[Len(next)] = "send"
              /\ Head(next) = cached /\ Tail(next) = rest
          BY <3>1, <4>1, <2>1, <2>6, Before
        <4>3. QED BY <4>2, <2>6 DEF cached
      <3>5. CASE next = before(ask, fetch) /\ m.asked = getUserAccountPublicKey(pk)
        BY <3>1, <3>3, <3>5, <2>1, Before
      <3>6. QED BY <3>4, <3>5, <2>3
    <2>7. {"userAccount", "ownKey", "ownDerive", "ownFetch"} \subseteq Steps
      BY DEF Steps, LaterSteps
    <2>8. Planned(next)
      <3>1. fetch \in Seq(LaterSteps)
        BY <2>5, Before DEF fetch, LaterSteps
      <3>2. Tail(next) \in Seq(LaterSteps)
        BY <3>1, <2>5, <2>6, <2>7
      <3>3. QED BY <3>2, <2>5, <2>6, <2>7 DEF Planned
    <2>9. ASSUME NEW S \in {Steps \ Keys, Steps \ {"pda"}}
          PROVE  /\ todo \in Seq(S) => next \in Seq(S)
                 /\ rest \in Seq(S) => Tail(next) \in Seq(S)
      <3>1. {"userAccount", "ownKey", "ownDerive", "ownFetch"} \subseteq S
        BY <2>7 DEF Keys
      <3>2. QED BY <3>1, <2>5, <2>6
    <2>10. Head(next) \in {"userAccount", ask}
           /\ (Head(next) = ask => m.asked = getUserAccountPublicKey(pk))
      BY <2>4, <2>5, <2>6, <2>7
    <2>11. QED BY <2>2, <2>4, <2>8, <2>9, <2>10, <1>6 DEF Keys, rest, next
  <1>7. QED BY <1>4, <1>5, <1>6

\* What a step brings: the account asked for, and perhaps the signing wallet.
LEMMA ResumedCall ==
    ASSUME NEW k, DOMAIN k = CallFields, NEW m, m = resumed(k)
    PROVE  /\ DOMAIN m = CallFields
           /\ m.ix = k.ix /\ m.caller = k.caller /\ m.key = k.key /\ m.arg = k.arg
           /\ m.asked = k.asked /\ m.todo = k.todo
           /\ m.user = IF Head(k.todo) \in Keys THEN k.asked ELSE k.user
           /\ m.created = IF Head(k.todo) = "pda" THEN k.asked ELSE k.created
           /\ m.authority \in {k.authority, wallet}
  BY DEF resumed, CallFields, Keys

------------------------------------------------------------------------------
(* Every action preserves the invariant.                                   *)

LEMMA IdleCall ==
    /\ CallOK(Idle) /\ AdminCall(Idle) /\ ~Initializing(Idle)
    /\ OwnLookup(Idle) /\ ForTheCaller(Idle)
  BY DEF Idle, CallOK, CallFields, AdminCall, Initializing, OwnLookup, ForTheCaller

LEMMA Initially == Init => ClientInv
  <1> SUFFICES ASSUME Init PROVE ClientInv
    OBVIOUS
  <1>1. HouseOK /\ (~Exists(house) => NoHistories)
    BY ClientAssumption DEF Init, HouseOK, NoHistories, NoHouse, Fields
  <1>2. \A c \in Callers : calls[c] = Idle
    BY DEF Init
  <1>3. HousesInv
    BY <1>1, <1>2, IdleCall DEF HousesInv
  <1>4. WalletsInv
    BY <1>2, IdleCall DEF Init, WalletsInv
  <1>5. \A c \in Callers : CallOK(calls[c])
    BY <1>2, IdleCall
  <1>6. wallet \in Wallets /\ raced \in BOOLEAN /\ keys \in Nat /\ calls = [c \in Callers |-> calls[c]]
    BY ClientAssumption DEF Init
  <1>7. QED BY <1>1, <1>3, <1>4, <1>5, <1>6 DEF ClientInv

\* A step of one call that leaves the ledger and the wallet alone.
LEMMA OneCall ==
    ASSUME ClientInv, NEW c \in Callers, NEW m, calls' = [calls EXCEPT ![c] = m],
           UNCHANGED <<house, wallet, raced>>, keys' \in Nat,
           CallOK(m), AdminCall(m), Initializing(m) => Initializing(calls[c]),
           ~raced => /\ userAccountPublicKey' \in {NotCached, wallet}
                     /\ OwnLookup(m) /\ ForTheCaller(m)
    PROVE  ClientInv'
  <1>1. /\ calls' = [d \in Callers |-> calls'[d]]
        /\ \A d \in Callers : calls'[d] = IF d = c THEN m ELSE calls[d]
    BY DEF ClientInv
  <1>2. HouseOK'
    BY DEF ClientInv, HouseOK
  <1>3. \A d \in Callers : CallOK(calls'[d])
    BY <1>1 DEF ClientInv
  <1>4. HousesInv'
    <2>1. \A d \in Callers : AdminCall(calls'[d])
      BY <1>1 DEF ClientInv, HousesInv
    <2>2. \A d \in Callers : Initializing(calls'[d]) => Initializing(calls[d])
      BY <1>1
    <2>3. Exists(house)' = Exists(house) /\ NoHistories' = NoHistories
      BY DEF Exists, NoHistories
    <2>4. QED BY <2>1, <2>2, <2>3 DEF ClientInv, HousesInv, AdminCall, Initializing, Exists
  <1>5. WalletsInv'
    <2>1. SUFFICES ASSUME ~raced
                   PROVE  /\ userAccountPublicKey' \in {NotCached, wallet}
                          /\ \A d \in Callers : OwnLookup(calls'[d]) /\ ForTheCaller(calls'[d])
      BY DEF WalletsInv, OwnLookup, ForTheCaller, OwnAccount, OwnAddress
    <2>2. QED BY <1>1, <2>1 DEF ClientInv, WalletsInv
  <1>6. QED BY <1>1, <1>2, <1>3, <1>4, <1>5 DEF ClientInv, CallOK, Planned

\* A method that returns or throws.
LEMMA EndStep ==
    ASSUME ClientInv, NEW c \in Callers, end(c), UNCHANGED <<house, wallet, raced, keys>>,
           ~raced => userAccountPublicKey' \in {NotCached, wallet}
    PROVE  ClientInv'
  <1>1. calls' = [calls EXCEPT ![c] = Idle]
    BY DEF end
  <1>2. keys' \in Nat
    BY DEF ClientInv
  <1>3. QED BY <1>1, <1>2, IdleCall, OneCall

\* The key that a lookup has found is that of the wallet.
LEMMA CachedKey ==
    ASSUME ClientInv, NEW c \in Callers, ~raced, calls[c].todo # <<>>,
           userAccountPublicKey' = IF Head(calls[c].todo) \in {"derive", "ownDerive"}
                                   THEN calls[c].asked ELSE userAccountPublicKey
    PROVE  userAccountPublicKey' \in {NotCached, wallet}
  BY DEF ClientInv, WalletsInv, OwnLookup

\* What goes on belongs to the caller still.
LEMMA StillForTheCaller ==
    ASSUME NEW k, NEW j, NEW m, CallOK(k), k.todo # <<>>, ForTheCaller(k),
           m.todo # <<>>, m.ix = k.ix, m.caller = k.caller, m.arg = k.arg,
           m.user = IF Head(k.todo) \in Keys THEN k.asked ELSE k.user,
           m.created = IF Head(k.todo) = "pda" THEN k.asked ELSE k.created,
           \A S \in {Steps \ Keys, Steps \ {"pda"}} :
              Tail(k.todo) \in Seq(S) => m.todo \in Seq(S)
    PROVE  ForTheCaller(m)
  <1>1. \A S : k.todo \in Seq(S) => Head(k.todo) \in S /\ Tail(k.todo) \in Seq(S)
    OBVIOUS
  <1>2. OwnAccount(k) => OwnAccount(m)
    <2>1. CASE Head(k.todo) \in Keys /\ k.asked = k.caller /\ Tail(k.todo) \in Seq(Steps \ Keys)
      BY <2>1 DEF OwnAccount
    <2>2. CASE k.user = k.caller /\ k.todo \in Seq(Steps \ Keys)
      BY <2>2, <1>1 DEF OwnAccount
    <2>3. QED BY <2>1, <2>2 DEF OwnAccount
  <1>3. OwnAddress(k) => OwnAddress(m)
    <2>1. CASE Head(k.todo) = "pda" /\ k.asked = k.caller /\ Tail(k.todo) \in Seq(Steps \ {"pda"})
      BY <2>1 DEF OwnAddress
    <2>2. CASE k.created = k.caller /\ k.todo \in Seq(Steps \ {"pda"})
      BY <2>2, <1>1 DEF OwnAddress
    <2>3. QED BY <2>1, <2>2 DEF OwnAddress
  <1>4. QED BY <1>2, <1>3 DEF ForTheCaller

LEMMA ResumeStep ==
    ASSUME ClientInv, NEW c \in Callers, Resume(c)
    PROVE  ClientInv'
  <1> DEFINE k == calls[c]
             rest == Tail(k.todo)
             j == resumed(k)
             m == begin(j, rest, userAccountPublicKey', userAccount')
  <1>1. /\ k.todo # <<>> /\ Head(k.todo) # "send"
        /\ UNCHANGED <<house, wallet, raced, keys>>
        /\ userAccountPublicKey' = IF Head(k.todo) \in {"derive", "ownDerive"}
                                   THEN k.asked ELSE userAccountPublicKey
        /\ end(c) \/ calls' = [calls EXCEPT ![c] = m]
    BY DEF Resume, ledger, bounds
  <1>2. ~raced => userAccountPublicKey' \in {NotCached, wallet}
    BY <1>1, CachedKey
  <1>3. CASE end(c)
    BY <1>1, <1>2, <1>3, EndStep
  <1>4. CASE calls' = [calls EXCEPT ![c] = m]
    <2>1. CallOK(k) /\ AdminCall(k) /\ wallet \in Wallets /\ keys \in Nat
      BY DEF ClientInv, HousesInv
    <2>2. DOMAIN k = CallFields /\ Planned(k.todo) /\ k.caller \in Wallets /\ k.key \in Nat
      BY <2>1, <1>1 DEF CallOK
    <2>3. rest \in Seq(LaterSteps) /\ rest # <<>> /\ rest[Len(rest)] = "send"
      BY <1>1, <2>2, NextStep DEF Planned
    <2>4. /\ DOMAIN j = CallFields
          /\ j.ix = k.ix /\ j.caller = k.caller /\ j.key = k.key /\ j.arg = k.arg
          /\ j.user = IF Head(k.todo) \in Keys THEN k.asked ELSE k.user
          /\ j.created = IF Head(k.todo) = "pda" THEN k.asked ELSE k.created
          /\ j.authority \in {k.authority, wallet}
      BY <2>2, ResumedCall
    <2> HIDE DEF j, m, rest, k
    <2>5. /\ SameCall(j, m)
          /\ Planned(m.todo)
          /\ Head(m.todo) \in {"derive", "ownDerive"} =>
                /\ userAccountPublicKey' = NotCached
                /\ m.asked = getUserAccountPublicKey(userAccountPublicKey')
          /\ \A S \in {Steps \ Keys, Steps \ {"pda"}} : rest \in Seq(S) => m.todo \in Seq(S)
          /\ m.authority \in {j.authority, wallet}
          /\ Head(rest) = "signed" => m.authority = wallet
      <3> DEFINE pk == userAccountPublicKey'
                 ua == userAccount'
      <3>1. m = begin(j, rest, pk, ua)
        BY DEF m
      <3>2. DOMAIN j = CallFields
        BY <2>4
      <3> HIDE DEF pk, ua
      <3>3. /\ SameCall(j, m)
            /\ Planned(m.todo)
            /\ Head(m.todo) \in {"derive", "ownDerive"} =>
                  pk = NotCached /\ m.asked = getUserAccountPublicKey(pk)
            /\ \A S \in {Steps \ Keys, Steps \ {"pda"}} : rest \in Seq(S) => m.todo \in Seq(S)
            /\ m.authority \in {j.authority, wallet}
            /\ Head(rest) = "signed" => m.authority = wallet
        BY <3>1, <3>2, <2>3, BeginCall
      <3>4. QED BY <3>3 DEF pk
    <2>6. CallOK(m)
      BY <2>2, <2>4, <2>5 DEF CallOK, SameCall
    <2>7. AdminCall(m)
      <3>1. ASSUME m.ix = "Initialize" PROVE m.authority \in Wallets
        <4>1. CASE k.authority \in Wallets
          BY <4>1, <2>1, <2>4, <2>5
        <4>2. CASE k.todo = <<"check", "signed", "send">>
          <5>1. Head(rest) = "signed"
            BY <4>2 DEF rest
          <5>2. QED BY <5>1, <2>1, <2>5
        <4>3. QED BY <3>1, <4>1, <4>2, <2>1, <2>4, <2>5, <1>1 DEF AdminCall, SameCall, k
      <3>2. m.ix = "UpdateAdmin" => m.arg \in Wallets
        BY <2>1, <2>4, <2>5, <1>1 DEF AdminCall, SameCall, k
      <3>3. QED BY <3>1, <3>2 DEF AdminCall
    <2>8. Initializing(m) => Initializing(calls[c])
      BY <2>4, <2>5, <1>1 DEF Initializing, SameCall, k
    <2>9. ~raced => OwnLookup(m)
      BY <2>5 DEF OwnLookup, getUserAccountPublicKey
    <2>10. ~raced => ForTheCaller(m)
      <3>1. SUFFICES ASSUME ~raced PROVE ForTheCaller(m)
        OBVIOUS
      <3>2. ForTheCaller(k)
        BY <3>1 DEF ClientInv, WalletsInv, k
      <3>3. /\ m.ix = k.ix /\ m.caller = k.caller /\ m.arg = k.arg
            /\ m.user = IF Head(k.todo) \in Keys THEN k.asked ELSE k.user
            /\ m.created = IF Head(k.todo) = "pda" THEN k.asked ELSE k.created
            /\ m.todo # <<>>
        BY <2>4, <2>5 DEF SameCall, Planned
      <3>4. \A S \in {Steps \ Keys, Steps \ {"pda"}} : Tail(k.todo) \in Seq(S) => m.todo \in Seq(S)
        BY <2>5 DEF rest
      <3>5. CallOK(k) /\ k.todo # <<>>
        BY <2>1, <1>1 DEF k
      <3>6. QED BY <3>2, <3>3, <3>4, <3>5, StillForTheCaller
    <2>11. keys' \in Nat
      BY <2>1, <1>1
    <2>12. QED BY <2>6, <2>7, <2>8, <2>9, <2>10, <2>11, <1>1, <1>2, <1>4, OneCall
  <1>5. QED BY <1>1, <1>3, <1>4

\* Two calls that differ in what the program and the caller do not see.
Alike(k, m) ==
    /\ SameCall(k, m)
    /\ m.todo = k.todo /\ m.asked = k.asked /\ m.authority = k.authority

LEMMA AlikeCall ==
    ASSUME NEW k, NEW m, CallOK(k), Alike(k, m)
    PROVE  /\ CallOK(m)
           /\ AdminCall(k) => AdminCall(m)
           /\ Initializing(m) => Initializing(k)
           /\ OwnLookup(k) => OwnLookup(m)
           /\ ForTheCaller(k) => ForTheCaller(m)
  <1>1. CallOK(m)
    BY DEF CallOK, Alike, SameCall
  <1>2. AdminCall(k) => AdminCall(m)
    BY DEF AdminCall, Alike, SameCall
  <1>3. Initializing(m) => Initializing(k)
    BY DEF Initializing, Alike, SameCall
  <1>4. OwnLookup(k) => OwnLookup(m)
    BY DEF OwnLookup, Alike
  <1>5. ForTheCaller(k) => ForTheCaller(m)
    BY DEF ForTheCaller, OwnAccount, OwnAddress, Alike, SameCall
  <1>6. QED BY <1>1, <1>2, <1>3, <1>4, <1>5

LEMMA AnswerStep ==
    ASSUME ClientInv, NEW c \in Callers, Answer(c)
    PROVE  ClientInv'
  <1> DEFINE k == calls[c]
  <1>1. UNCHANGED <<house, wallet, userAccountPublicKey, raced, keys>>
    BY DEF Answer, ledger, caches, bounds
  <1>2. ~raced => userAccountPublicKey' \in {NotCached, wallet}
    BY <1>1 DEF ClientInv, WalletsInv
  <1>3. end(c) \/ \E a : calls' = [calls EXCEPT ![c].answer = a]
    BY DEF Answer
  <1>4. CASE end(c)
    BY <1>1, <1>2, <1>4, EndStep
  <1>5. CASE \E a : calls' = [calls EXCEPT ![c].answer = a]
    <2>1. PICK a : calls' = [calls EXCEPT ![c].answer = a]
      BY <1>5
    <2> DEFINE m == [k EXCEPT !.answer = a]
    <2>2. calls' = [calls EXCEPT ![c] = m]
      BY <2>1
    <2>3. CallOK(k) /\ AdminCall(k)
      BY DEF ClientInv, HousesInv
    <2>4. Alike(k, m)
      BY <2>3 DEF Alike, SameCall, CallOK, CallFields
    <2>5. ~raced => OwnLookup(k) /\ ForTheCaller(k)
      BY DEF ClientInv, WalletsInv
    <2> HIDE DEF m, k
    <2>6. /\ CallOK(m) /\ AdminCall(m)
          /\ Initializing(m) => Initializing(k)
          /\ ~raced => OwnLookup(m) /\ ForTheCaller(m)
      BY <2>3, <2>4, <2>5, AlikeCall
    <2>7. keys' \in Nat
      BY <1>1 DEF ClientInv
    <2>8. QED BY <2>2, <2>6, <2>7, <1>1, <1>2, OneCall DEF k
  <1>6. QED BY <1>3, <1>4, <1>5

LEMMA DisturbedCall ==
    ASSUME NEW k, CallOK(k)
    PROVE  Alike(k, k) /\ Alike(k, [k EXCEPT !.clear = FALSE])
  BY DEF Alike, SameCall, CallOK, CallFields

\* A change of wallet takes no lookup with it, unless it is noted in raced.
LEMMA SwitchStep ==
    ASSUME ClientInv, SwitchWallet
    PROVE  ClientInv'
  <1>1. /\ wallet' \in Wallets
        /\ userAccountPublicKey' = NotCached
        /\ raced' = (raced \/ \E c \in Callers : LookingUp(calls[c]))
        /\ calls' = [c \in Callers |-> [calls[c] EXCEPT !.clear = FALSE]]
        /\ UNCHANGED <<house, keys>>
    BY DEF SwitchWallet, updateWallet, ledger
  <1>2. \A c \in Callers : CallOK(calls[c]) /\ Alike(calls[c], calls'[c])
    BY <1>1, DisturbedCall DEF ClientInv
  <1>3. \A c \in Callers : /\ CallOK(calls'[c]) /\ AdminCall(calls'[c])
                           /\ Initializing(calls'[c]) => Initializing(calls[c])
                           /\ ForTheCaller(calls[c]) => ForTheCaller(calls'[c])
    BY <1>2, AlikeCall DEF ClientInv, HousesInv
  <1>4. HouseOK' /\ Exists(house)' = Exists(house) /\ NoHistories' = NoHistories
    BY <1>1 DEF ClientInv, HouseOK, Exists, NoHistories
  <1>5. HousesInv'
    BY <1>3, <1>4 DEF ClientInv, HousesInv, AdminCall, Initializing, Exists
  <1>6. WalletsInv'
    <2>1. SUFFICES ASSUME ~raced'
                   PROVE  \A c \in Callers : OwnLookup(calls[c])' /\ ForTheCaller(calls'[c])
      BY <1>1 DEF WalletsInv, ForTheCaller, OwnAccount, OwnAddress
    <2>2. ~raced /\ \A c \in Callers : ~LookingUp(calls[c])
      BY <2>1, <1>1
    <2>3. \A c \in Callers : ForTheCaller(calls'[c])
      BY <2>2, <1>3 DEF ClientInv, WalletsInv
    <2>4. \A c \in Callers : OwnLookup(calls[c])'
      BY <2>2, <1>2 DEF OwnLookup, LookingUp, Alike
    <2>5. QED BY <2>3, <2>4
  <1>7. raced' \in BOOLEAN
    BY <1>1
  <1>8. calls' = [c \in Callers |-> calls'[c]] /\ keys' \in Nat
    BY <1>1 DEF ClientInv
  <1>9. QED BY <1>1, <1>3, <1>4, <1>5, <1>6, <1>7, <1>8 DEF ClientInv, CallOK, Planned

(***************************************************************************)
(* What a valid transaction does to the house.  The guard of               *)
(* initialize_history does not protect the histories of a house, but the   *)
(* only call that sends it has just created the house.                     *)
(***************************************************************************)
LEMMA HouseStep ==
    ASSUME ClientInv, NEW c \in Callers, NEW k, k = calls[c],
           k.todo # <<>>, Head(k.todo) = "send", valid(k), house' = house_after(k)
    PROVE  /\ HouseOK'
           /\ k.ix = "Initialize" => ~Exists(house) /\ Exists(house') /\ NoHistories'
           /\ k.ix = "InitializeHistory" => Exists(house) /\ Exists(house') /\ NoHistories
           /\ k.ix \notin {"Initialize", "InitializeHistory"} =>
                 /\ Exists(house) => Exists(house')
                 /\ \A f \in Histories : house'.refs[f] = house.refs[f]
  <1>1. /\ HouseOK /\ CallOK(k) /\ AdminCall(k) /\ k.key \in Nat
        /\ Initializing(k) => Exists(house) /\ NoHistories
    BY DEF ClientInv, HousesInv, CallOK
  <1>2. /\ house = [admin |-> house.admin, refs |-> house.refs]
        /\ house.refs \in [Fields -> Nat]
    BY <1>1 DEF HouseOK
  <1>3. Histories \subseteq Fields /\ "markets" \in Fields \ Histories
        /\ "extendedCurveHistory" \in Fields \ Histories
    BY DEF Histories, Fields
  <1>4. CASE k.ix = "Initialize"
    <2>1. house' = [NoHouse EXCEPT !.admin = k.authority, !.refs["markets"] = k.key]
      BY <1>4 DEF house_after
    <2>2. house' = [admin |-> k.authority,
                    refs |-> [f \in Fields |-> IF f = "markets" THEN k.key ELSE 0]]
      BY <2>1, <1>3 DEF NoHouse
    <2>3. k.authority \in Wallets
      <3>1. k.todo # <<"check", "signed", "send">>
        OBVIOUS
      <3>2. QED BY <3>1, <1>1, <1>4 DEF AdminCall
    <2>4. ~Exists(house)
      BY <1>4 DEF valid
    <2>5. Exists(house')
      BY <2>2, <2>3, ClientAssumption DEF Exists
    <2>6. HouseOK'
      BY <2>2, <1>1 DEF HouseOK
    <2>7. NoHistories'
      BY <2>2, <1>3 DEF NoHistories
    <2>8. QED BY <2>4, <2>5, <2>6, <2>7, <1>4
  <1>5. CASE k.ix = "InitializeHistory"
    <2> DEFINE refs == [f \in Fields |-> IF f \in Histories \cup {"extendedCurveHistory"}
                                          THEN k.key ELSE house.refs[f]]
    <2>1. house' = [house EXCEPT !.refs = refs] /\ refs \in [Fields -> Nat]
      BY <1>1, <1>2, <1>5 DEF house_after
    <2> HIDE DEF refs
    <2>2. house' = [admin |-> house.admin, refs |-> refs]
      BY <2>1, <1>2
    <2>3. HouseOK' /\ house'.admin = house.admin
      BY <2>1, <2>2 DEF HouseOK
    <2>4. QED BY <2>3, <1>1, <1>5 DEF Initializing, Exists
  <1>6. CASE k.ix = "UpdateCurveHistory"
    <2>1. house' = [house EXCEPT !.refs["extendedCurveHistory"] = k.key]
      BY <1>6 DEF house_after
    <2>2. /\ house' = [admin |-> house.admin,
                       refs |-> [house.refs EXCEPT !["extendedCurveHistory"] = k.key]]
      BY <2>1, <1>2
    <2>3. HouseOK' /\ house'.admin = house.admin
          /\ \A f \in Histories : house'.refs[f] = house.refs[f]
      BY <2>2, <1>1, <1>2, <1>3 DEF HouseOK
    <2>4. QED BY <2>3, <1>6 DEF Exists
  <1>7. CASE k.ix = "UpdateAdmin"
    <2>1. house' = [house EXCEPT !.admin = k.arg]
      BY <1>7 DEF house_after
    <2>2. house' = [admin |-> k.arg, refs |-> house.refs]
      BY <2>1, <1>2
    <2>3. k.arg \in Wallets
      BY <1>1, <1>7 DEF AdminCall
    <2>4. HouseOK' /\ Exists(house') /\ \A f \in Histories : house'.refs[f] = house.refs[f]
      BY <2>2, <2>3, <1>2, ClientAssumption DEF HouseOK, Exists
    <2>5. QED BY <2>4, <1>7
  <1>8. CASE k.ix \notin {"Initialize", "InitializeHistory", "UpdateCurveHistory", "UpdateAdmin"}
    <2>1. house' = house
      BY <1>8 DEF house_after
    <2>2. QED BY <2>1, <1>1, <1>8 DEF HouseOK
  <1>9. QED BY <1>4, <1>5, <1>6, <1>7, <1>8

HistoriesKept == \A f \in Histories : house.refs[f] # 0 => house'.refs[f] = house.refs[f]

LEMMA SendStep ==
    ASSUME ClientInv, NEW c \in Callers, Send(c)
    PROVE  ClientInv' /\ HistoriesKept
  <1> DEFINE k == calls[c]
             m == begin([k EXCEPT !.ix = "InitializeHistory"], <<"signed", "send">>,
                        userAccountPublicKey, userAccount)
  <1>1. /\ k.todo # <<>> /\ Head(k.todo) = "send"
        /\ UNCHANGED <<wallet, userAccountPublicKey, raced, keys>>
    BY DEF Send, caches, bounds
  <1>2. ~raced => userAccountPublicKey' \in {NotCached, wallet}
    BY <1>1 DEF ClientInv, WalletsInv
  <1>3. CASE end(c) /\ UNCHANGED ledger
    BY <1>1, <1>2, <1>3, EndStep DEF ledger, HistoriesKept
  <1>4. CASE valid(k) /\ house' = house_after(k) /\ (confirmed(c) \/ ended(c))
    <2>1. /\ HouseOK'
          /\ k.ix = "Initialize" => ~Exists(house) /\ Exists(house') /\ NoHistories'
          /\ k.ix = "InitializeHistory" => Exists(house) /\ Exists(house') /\ NoHistories
          /\ k.ix \notin {"Initialize", "InitializeHistory"} =>
                /\ Exists(house) => Exists(house')
                /\ \A f \in Histories : house'.refs[f] = house.refs[f]
      <3> HIDE DEF k
      <3>1. k = calls[c]
        BY DEF k
      <3>2. QED BY <1>1, <1>4, <3>1, HouseStep
    <2>2. \A d \in Callers : CallOK(calls[d]) /\ AdminCall(calls[d])
      BY DEF ClientInv, HousesInv
    <2>3. \E n : /\ n = Idle \/ (k.ix = "Initialize" /\ n = m)
                 /\ calls' = [d \in Callers |-> calls'[d]]
                 /\ calls'[c] = n
                 /\ \A d \in Callers \ {c} : calls'[d] = calls[d] \/ calls'[d] = [calls[d] EXCEPT !.clear = FALSE]
      <3>1. calls = [d \in Callers |-> calls[d]]
        BY DEF ClientInv
      <3>2. CASE ended(c)
        BY <3>1, <3>2 DEF ended, disturbed
      <3>3. CASE confirmed(c) /\ ~ended(c)
        <4>1. k.ix = "Initialize" /\ calls' = disturbed([calls EXCEPT ![c] = m], c)
          BY <3>3 DEF confirmed
        <4> HIDE DEF m
        <4>2. QED BY <3>1, <4>1 DEF disturbed
      <3>4. QED BY <3>2, <3>3, <1>4
    <2>4. PICK n : /\ n = Idle \/ (k.ix = "Initialize" /\ n = m)
                   /\ calls' = [d \in Callers |-> calls'[d]]
                   /\ calls'[c] = n
                   /\ \A d \in Callers \ {c} : calls'[d] = calls[d] \/ calls'[d] = [calls[d] EXCEPT !.clear = FALSE]
      BY <2>3
    <2>5. \A d \in Callers \ {c} : Alike(calls[d], calls'[d])
      BY <2>2, <2>4, DisturbedCall
    <2>6. \A d \in Callers \ {c} : /\ CallOK(calls'[d]) /\ AdminCall(calls'[d])
                                   /\ Initializing(calls'[d]) => Initializing(calls[d])
                                   /\ OwnLookup(calls[d]) => OwnLookup(calls'[d])
                                   /\ ForTheCaller(calls[d]) => ForTheCaller(calls'[d])
      BY <2>2, <2>5, AlikeCall
    <2>7. /\ CallOK(n) /\ AdminCall(n) /\ OwnLookup(n) /\ ForTheCaller(n)
          /\ Initializing(n) => k.ix = "Initialize"
      <3>1. CASE n = Idle
        BY <3>1, IdleCall
      <3>2. CASE k.ix = "Initialize" /\ n = m
        <4> DEFINE j == [k EXCEPT !.ix = "InitializeHistory"]
                   todo == <<"signed", "send">>
        <4>1. CallOK(k) /\ k.caller \in Wallets /\ k.key \in Nat
          BY <2>2, <1>1 DEF CallOK
        <4>2. /\ DOMAIN j = CallFields /\ j.ix = "InitializeHistory"
              /\ j.caller = k.caller /\ j.key = k.key
          BY <4>1 DEF CallOK, CallFields
        <4>3. todo \in Seq(LaterSteps) /\ todo # <<>> /\ todo[Len(todo)] = "send"
              /\ Head(todo) = "signed"
          BY DEF LaterSteps
        <4>4. n = begin(j, todo, userAccountPublicKey, userAccount)
          BY <3>2
        <4> HIDE DEF j, todo
        <4>5. /\ SameCall(j, n) /\ Planned(n.todo)
              /\ Head(n.todo) \in {"derive", "ownDerive"} =>
                    /\ userAccountPublicKey = NotCached
                    /\ n.asked = getUserAccountPublicKey(userAccountPublicKey)
          BY <4>2, <4>3, <4>4, BeginCall
        <4>6. n.ix = "InitializeHistory"
          BY <4>2, <4>5 DEF SameCall
        <4>7. CallOK(n)
          BY <4>1, <4>2, <4>5 DEF CallOK, SameCall
        <4>8. AdminCall(n) /\ ForTheCaller(n)
          BY <4>6 DEF AdminCall, ForTheCaller, OwnUser, Creating
        <4>9. OwnLookup(n)
          BY <4>5 DEF OwnLookup, getUserAccountPublicKey
        <4>10. QED BY <4>7, <4>8, <4>9, <3>2
      <3>3. QED BY <3>1, <3>2, <2>4
    <2> HIDE DEF m, k
    <2>8. \A d \in Callers : CallOK(calls'[d]) /\ AdminCall(calls'[d])
      BY <2>4, <2>6, <2>7
    <2>9. ASSUME k.ix = "InitializeHistory" PROVE \A d \in Callers : ~Initializing(calls'[d])
      <3>1. Initializing(calls[c])
        BY <1>1, <2>9 DEF Initializing, k
      <3>2. \A d \in Callers \ {c} : ~Initializing(calls[d])
        BY <3>1 DEF ClientInv, HousesInv
      <3>3. ~Initializing(n)
        BY <2>7, <2>9
      <3>4. QED BY <3>2, <3>3, <2>4, <2>6
    <2>10. ASSUME k.ix = "Initialize" PROVE \A d \in Callers : Initializing(calls'[d]) => d = c
      <3>1. \A d \in Callers : ~Initializing(calls[d])
        BY <2>1, <2>10 DEF ClientInv, HousesInv
      <3>2. QED BY <3>1, <2>6
    <2>11. ASSUME k.ix \notin {"Initialize", "InitializeHistory"}
           PROVE  /\ \A d \in Callers : Initializing(calls'[d]) => Initializing(calls[d])
                  /\ NoHistories' = NoHistories
      <3>1. ~Initializing(n)
        BY <2>7, <2>11
      <3>2. NoHistories' = NoHistories
        BY <2>1, <2>11 DEF NoHistories
      <3>3. QED BY <3>1, <3>2, <2>4, <2>6
    <2>12. /\ ~Exists(house') => NoHistories'
           /\ \A d \in Callers : Initializing(calls'[d]) => Exists(house') /\ NoHistories'
           /\ \A d, e \in Callers : Initializing(calls'[d]) /\ Initializing(calls'[e]) => d = e
      <3>1. CASE k.ix = "Initialize"
        BY <3>1, <2>1, <2>10
      <3>2. CASE k.ix = "InitializeHistory"
        BY <3>2, <2>1, <2>9
      <3>3. CASE k.ix \notin {"Initialize", "InitializeHistory"}
        BY <3>3, <2>1, <2>11 DEF ClientInv, HousesInv
      <3>4. QED BY <3>1, <3>2, <3>3
    <2>13. HousesInv'
      BY <2>8, <2>12 DEF HousesInv, AdminCall, Initializing, Exists
    <2>14. WalletsInv'
      <3>1. SUFFICES ASSUME ~raced
                     PROVE  \A d \in Callers : OwnLookup(calls'[d]) /\ ForTheCaller(calls'[d])
        BY <1>1, <1>2 DEF WalletsInv, OwnLookup, ForTheCaller, OwnAccount, OwnAddress
      <3>2. QED BY <3>1, <2>4, <2>6, <2>7 DEF ClientInv, WalletsInv
    <2>15. ClientInv'
      BY <2>1, <2>4, <2>8, <2>13, <2>14, <1>1 DEF ClientInv, CallOK, Planned
    <2>16. HistoriesKept
      <3>1. CASE k.ix = "Initialize"
        BY <3>1, <2>1 DEF ClientInv, HousesInv, NoHistories, HistoriesKept
      <3>2. CASE k.ix = "InitializeHistory"
        BY <3>2, <2>1 DEF NoHistories, HistoriesKept
      <3>3. CASE k.ix \notin {"Initialize", "InitializeHistory"}
        BY <3>3, <2>1 DEF HistoriesKept
      <3>4. QED BY <3>1, <3>2, <3>3
    <2>17. QED BY <2>15, <2>16
  <1>5. QED BY <1>3, <1>4 DEF Send

(***************************************************************************)
(* The start of a method.  A method on the caller's user account asks for  *)
(* its key first, one that creates it for its address.                     *)
(***************************************************************************)
Method(ix, steps, known) ==
    /\ DOMAIN known = CallFields /\ known.key \in Nat
    /\ steps \in Seq(LaterSteps \ {"send"}) /\ steps # <<>>
    /\ ix # "InitializeHistory"
    /\ ix = "Initialize" => steps = <<"check", "signed">>
    /\ ix = "UpdateAdmin" => known.arg \in Wallets
    /\ ix \in OwnUser \cup {"Liquidate"} =>
          steps[1] = "key" /\ \A i \in 2..Len(steps) : steps[i] # "key"
    /\ ix = "NewUser" => known.arg = Nobody
    /\ ix = "NewUserDeposit" => known.arg \in {Nobody, wallet}
    /\ ix \in Creating /\ known.arg = Nobody =>
          steps[1] = "pda" /\ \A i \in 2..Len(steps) : steps[i] # "pda"

\* After a first step that does not come again.
LEMMA RestWithout ==
    ASSUME NEW S, NEW t \in Seq(S), t # <<>>, \A i \in 2..Len(t) : t[i] # t[1]
    PROVE  Head(t) = t[1] /\ Tail(t) \in Seq(S \ {t[1]})
  <1>1. /\ Len(t) \in Nat /\ Len(t) >= 1
        /\ Tail(t) \in Seq(S) /\ Len(Tail(t)) = Len(t) - 1 /\ Head(t) = t[1]
    OBVIOUS
  <1>2. ASSUME NEW i \in 1..(Len(t) - 1) PROVE Tail(t)[i] \in S \ {t[1]}
    <2>1. Tail(t)[i] = t[i + 1] /\ i + 1 \in 2..Len(t) /\ t[i + 1] \in S
      BY <1>1
    <2>2. QED BY <2>1
  <1> DEFINE rest == Tail(t)
  <1> HIDE DEF rest
  <1>3. rest \in [1..Len(rest) -> S] /\ Len(rest) \in Nat /\ Len(rest) = Len(t) - 1
    BY <1>1, LenProperties DEF rest
  <1>4. rest \in Seq(S \ {t[1]})
    <2>1. rest \in [1..Len(rest) -> S \ {t[1]}]
      BY <1>2, <1>3 DEF rest
    <2>2. QED BY <2>1, <1>3, SeqDef
  <1>5. QED BY <1>1, <1>4 DEF rest

LEMMA CallStep ==
    ASSUME ClientInv, NEW c \in Callers, NEW ix, NEW steps, NEW known,
           Call(c, ix, steps, known), Method(ix, steps, known)
    PROVE  ClientInv' /\ UNCHANGED house
  <1> DEFINE new == [known EXCEPT !.ix = ix, !.caller = wallet,
                                  !.key = IF ix \in Generating THEN keys + 1 ELSE @,
                                  !.clear = /\ ~raced /\ wallet \notin deleted
                                            /\ state = house /\ market = oracle]
             todo == steps \o <<"send">>
             m == begin(new, todo, userAccountPublicKey, userAccount)
  <1>1. /\ calls' = [calls EXCEPT ![c] = m]
        /\ keys' = IF ix \in Generating THEN keys + 1 ELSE keys
        /\ UNCHANGED <<house, wallet, userAccountPublicKey, raced>>
    BY DEF Call, ledger, caches
  <1>2. wallet \in Wallets /\ keys \in Nat
    BY DEF ClientInv
  <1>3. /\ DOMAIN new = CallFields /\ new.ix = ix /\ new.caller = wallet /\ new.key \in Nat
        /\ new.arg = known.arg
    BY <1>2 DEF Method, CallFields
  <1>4. /\ todo \in Seq(LaterSteps) /\ todo # <<>> /\ todo[Len(todo)] = "send"
        /\ Head(todo) = Head(steps)
    BY DEF Method, LaterSteps
  <1>5. \A S : Tail(steps) \in Seq(S) /\ "send" \in S => Tail(todo) \in Seq(S)
    <2>1. SUFFICES ASSUME NEW S, Tail(steps) \in Seq(S), "send" \in S
                   PROVE  Tail(todo) \in Seq(S)
      OBVIOUS
    <2>2. Tail(todo) = Tail(steps) \o <<"send">>
      BY DEF Method
    <2>3. QED BY <2>1, <2>2
  <1> HIDE DEF new, todo, m
  <1>6. /\ SameCall(new, m)
        /\ Planned(m.todo)
        /\ Head(m.todo) \in Keys => m.asked = getUserAccountPublicKey(userAccountPublicKey)
        /\ Head(todo) = "pda" => m.asked = wallet /\ Head(m.todo) = "pda"
        /\ Head(todo) = "key" => Head(m.todo) \in Keys
        /\ Head(m.todo) \in {"derive", "ownDerive"} =>
              /\ userAccountPublicKey = NotCached
              /\ m.asked = getUserAccountPublicKey(userAccountPublicKey)
        /\ \A S \in {Steps \ Keys, Steps \ {"pda"}} :
              Tail(todo) \in Seq(S) => Tail(m.todo) \in Seq(S)
        /\ Head(todo) = "check" => m.todo = todo
    BY <1>3, <1>4, BeginCall DEF m
  <1>7. CallOK(m)
    BY <1>2, <1>3, <1>6 DEF CallOK, SameCall
  <1>8. AdminCall(m)
    <2>1. ASSUME ix = "Initialize" PROVE m.todo = <<"check", "signed", "send">>
      <3>1. steps = <<"check", "signed">>
        BY <2>1 DEF Method
      <3> DEFINE plan == <<"check", "signed", "send">>
      <3>a. /\ todo \in Seq(LaterSteps) /\ Len(todo) = 3
            /\ todo[1] = "check" /\ todo[2] = "signed" /\ todo[3] = "send"
        BY <3>1, <1>4 DEF todo
      <3>b. /\ plan \in Seq(LaterSteps) /\ Len(plan) = 3
            /\ plan[1] = "check" /\ plan[2] = "signed" /\ plan[3] = "send"
        BY DEF LaterSteps
      <3> HIDE DEF plan
      <3>c. todo = plan
        BY <3>a, <3>b, SeqEqual
      <3>2. Head(todo) = "check" /\ todo = <<"check", "signed", "send">>
        BY <3>a, <3>c DEF plan
      <3>3. QED BY <3>2, <1>6
    <2>2. ix = "UpdateAdmin" => m.arg \in Wallets
      BY <1>3, <1>6 DEF SameCall, Method
    <2>3. m.ix = ix
      BY <1>3, <1>6 DEF SameCall
    <2>4. QED BY <2>1, <2>2, <2>3 DEF AdminCall
  <1>9. ~Initializing(m)
    BY <1>3, <1>6 DEF Initializing, SameCall, Method
  <1>10. ASSUME ~raced PROVE userAccountPublicKey \in {NotCached, wallet}
    BY <1>10 DEF ClientInv, WalletsInv
  <1>11. ~raced => getUserAccountPublicKey(userAccountPublicKey) = wallet
    BY <1>10 DEF getUserAccountPublicKey
  <1>12. ~raced => OwnLookup(m)
    BY <1>6, <1>11 DEF OwnLookup
  <1>13. ASSUME ~raced PROVE ForTheCaller(m)
    <2>1. m.ix = ix /\ m.caller = wallet /\ m.arg = known.arg
      BY <1>3, <1>6 DEF SameCall
    <2>2. ASSUME ix \in OwnUser \cup {"Liquidate"} PROVE OwnAccount(m)
      <3>a. /\ steps \in Seq(LaterSteps) /\ steps # <<>> /\ steps[1] = "key"
            /\ \A i \in 2..Len(steps) : steps[i] # "key"
        BY <2>2 DEF Method
      <3>b. Head(steps) = "key" /\ Tail(steps) \in Seq(LaterSteps \ {"key"})
        BY <3>a, RestWithout
      <3>c. LaterSteps \ {"key"} = LaterSteps \ Keys
        BY DEF LaterSteps, Keys
      <3>1. Head(todo) = "key" /\ Tail(steps) \in Seq(LaterSteps \ Keys)
        BY <3>b, <3>c, <1>4
      <3>2. Tail(steps) \in Seq(Steps \ Keys) /\ "send" \in Steps \ Keys
        BY <3>1 DEF Steps, LaterSteps, Keys
      <3>3. Tail(todo) \in Seq(Steps \ Keys)
        BY <3>2, <1>5
      <3>4. Head(m.todo) \in Keys /\ m.asked = m.caller /\ Tail(m.todo) \in Seq(Steps \ Keys)
        BY <3>1, <3>3, <2>1, <1>6, <1>11, <1>13
      <3>5. QED BY <3>4 DEF OwnAccount
    <2>3. ASSUME ix \in Creating, known.arg = Nobody PROVE OwnAddress(m)
      <3>a. /\ steps \in Seq(LaterSteps) /\ steps # <<>> /\ steps[1] = "pda"
            /\ \A i \in 2..Len(steps) : steps[i] # "pda"
        BY <2>3 DEF Method
      <3>1. Head(todo) = "pda" /\ Tail(steps) \in Seq(LaterSteps \ {"pda"})
        BY <3>a, RestWithout, <1>4
      <3>2. Tail(steps) \in Seq(Steps \ {"pda"}) /\ "send" \in Steps \ {"pda"}
        BY <3>1 DEF Steps, LaterSteps
      <3>3. Tail(todo) \in Seq(Steps \ {"pda"})
        BY <3>2, <1>5
      <3>4. Head(m.todo) = "pda" /\ m.asked = m.caller /\ Tail(m.todo) \in Seq(Steps \ {"pda"})
        BY <3>1, <3>3, <2>1, <1>6
      <3>5. QED BY <3>4 DEF OwnAddress
    <2>4. QED BY <2>1, <2>2, <2>3 DEF ForTheCaller, Method
  <1>14. keys' \in Nat
    BY <1>1, <1>2
  <1>15. QED BY <1>1, <1>7, <1>8, <1>9, <1>10, <1>12, <1>13, <1>14, OneCall

(***************************************************************************)
(* The methods.  Each of them is a call as Method describes.               *)
(***************************************************************************)
LEMMA CreateSteps ==
    ASSUME ClientInv, NEW c \in Callers,
           \/ initializeUserAccount(c)
           \/ initializeUserAccountAndDepositCollateral(c)
           \/ initializeUserAccountForDevnet(c)
    PROVE  ClientInv' /\ UNCHANGED house
  <1> DEFINE built == getInitializeUserInstructions \o <<"built">>
             deposit == getInitializeUserInstructions \o <<"key", "state", "built">>
             minted == <<"faucet">> \o getInitializeUserInstructions
                          \o <<"key", "state", "built">>
  <1>1. CASE initializeUserAccount(c)
    <2>1. built \in Seq(LaterSteps \ {"send"}) /\ built # <<>> /\ built[1] = "pda"
          /\ \A i \in 2..Len(built) : built[i] # "pda"
      BY DEF getInitializeUserInstructions, LaterSteps
    <2>2. DOMAIN Later = CallFields /\ Later.key = 0 /\ Later.arg = Nobody
      BY DEF Later, Idle, CallFields
    <2> HIDE DEF built
    <2>3. Method("NewUser", built, Later)
      BY <2>1, <2>2 DEF Method, Creating, OwnUser
    <2>4. Call(c, "NewUser", built, Later)
      BY <1>1 DEF initializeUserAccount, built
    <2>5. QED BY <2>3, <2>4, CallStep
  <1>2. CASE initializeUserAccountAndDepositCollateral(c)
    <2>1. deposit \in Seq(LaterSteps \ {"send"}) /\ deposit # <<>> /\ deposit[1] = "pda"
          /\ \A i \in 2..Len(deposit) : deposit[i] # "pda"
      BY DEF getInitializeUserInstructions, LaterSteps
    <2>2. DOMAIN Later = CallFields /\ Later.key = 0 /\ Later.arg = Nobody
      BY DEF Later, Idle, CallFields
    <2> HIDE DEF deposit
    <2>3. Method("NewUserDeposit", deposit, Later)
      BY <2>1, <2>2 DEF Method, Creating, OwnUser
    <2>4. Call(c, "NewUserDeposit", deposit, Later)
      BY <1>2 DEF initializeUserAccountAndDepositCollateral, deposit
    <2>5. QED BY <2>3, <2>4, CallStep
  <1>3. CASE initializeUserAccountForDevnet(c)
    <2> DEFINE known == [Later EXCEPT !.arg = wallet]
    <2>1. minted \in Seq(LaterSteps \ {"send"}) /\ minted # <<>>
      BY DEF getInitializeUserInstructions, LaterSteps
    <2>2. DOMAIN known = CallFields /\ known.key = 0 /\ known.arg = wallet
      BY DEF Later, Idle, CallFields
    <2>3. wallet # Nobody
      BY ClientAssumption DEF ClientInv
    <2>4. Call(c, "NewUserDeposit", minted, known)
      BY <1>3 DEF initializeUserAccountForDevnet
    <2> HIDE DEF minted, known
    <2>5. Method("NewUserDeposit", minted, known)
      BY <2>1, <2>2, <2>3 DEF Method, Creating, OwnUser
    <2>6. QED BY <2>4, <2>5, CallStep
  <1>4. QED BY <1>1, <1>2, <1>3

\* What is known before the first await.
LEMMA KnownFields ==
    /\ DOMAIN Now = CallFields /\ Now.key = 0
    /\ DOMAIN Later = CallFields /\ Later.key = 0
    /\ \A w : /\ DOMAIN [Now EXCEPT !.arg = w] = CallFields
              /\ [Now EXCEPT !.arg = w].key = 0 /\ [Now EXCEPT !.arg = w].arg = w
    /\ \A w : /\ DOMAIN [Later EXCEPT !.arg = w] = CallFields
              /\ [Later EXCEPT !.arg = w].key = 0 /\ [Later EXCEPT !.arg = w].arg = w
    /\ \A o : /\ DOMAIN [Now EXCEPT !.oracle = o] = CallFields
              /\ [Now EXCEPT !.oracle = o].key = 0
    /\ \A w, p : /\ DOMAIN [Now EXCEPT !.arg = w, !.positions = p] = CallFields
                 /\ [Now EXCEPT !.arg = w, !.positions = p].key = 0
  BY DEF Now, Later, Idle, CallFields

\* The methods on the user account of the caller, the liquidator's included.
LEMMA OwnMethod ==
    ASSUME ClientInv, NEW c \in Callers, NEW ix \in OwnUser \cup {"Liquidate"}, NEW steps, NEW known,
           Call(c, ix, steps, known), DOMAIN known = CallFields, known.key = 0,
           steps \in Seq(LaterSteps \ {"send"}), steps # <<>>, steps[1] = "key",
           \A i \in 2..Len(steps) : steps[i] # "key"
    PROVE  ClientInv' /\ UNCHANGED house
  <1>1. Method(ix, steps, known)
    BY DEF Method, OwnUser, Creating
  <1>2. QED BY <1>1, CallStep

PlainInstructions ==
    {"UpdateFundingRate", "SettleFunding", "InitializeMarket", "UpdateMarket", "AdjustCurve",
     "UpdateCurveHistory", "UpdateState", "UpdateMarketOracle"}

\* A method whose instruction does not act for the user account of the caller.
LEMMA PlainMethod ==
    ASSUME ClientInv, NEW c \in Callers, NEW ix \in PlainInstructions, NEW steps, NEW known,
           Call(c, ix, steps, known), DOMAIN known = CallFields, known.key = 0,
           steps \in Seq(LaterSteps \ {"send"}), steps # <<>>
    PROVE  ClientInv' /\ UNCHANGED house
  <1>1. Method(ix, steps, known)
    BY DEF Method, OwnUser, Creating, PlainInstructions
  <1>2. QED BY <1>1, CallStep

LEMMA OwnSteps ==
    ASSUME ClientInv, NEW c \in Callers,
           \/ depositCollateral(c) \/ deleteUser(c) \/ withdrawCollateral(c)
           \/ openPosition(c) \/ closePosition(c) \/ liquidate(c)
    PROVE  ClientInv' /\ UNCHANGED house
  <1> DEFINE Own(steps) == /\ steps \in Seq(LaterSteps \ {"send"}) /\ steps # <<>>
                           /\ steps[1] = "key"
                           /\ \A i \in 2..Len(steps) : steps[i] # "key"
             deposit == getDepositCollateralInstruction \o <<"built">>
  <1>1. /\ Own(deposit) /\ Own(<<"key", "fetch", "signed">>) /\ Own(getWithdrawCollateralIx)
        /\ Own(getOpenPositionIx) /\ Own(getClosePositionIx) /\ Own(getLiquidateIx)
    BY DEF getDepositCollateralInstruction, getWithdrawCollateralIx, getOpenPositionIx,
           getClosePositionIx, getLiquidateIx, LaterSteps
  <1>2. CASE depositCollateral(c)
    BY <1>1, <1>2, KnownFields, OwnMethod DEF depositCollateral, OwnUser
  <1>3. CASE deleteUser(c)
    BY <1>1, <1>3, KnownFields, OwnMethod DEF deleteUser, OwnUser
  <1>4. CASE withdrawCollateral(c)
    BY <1>1, <1>4, KnownFields, OwnMethod DEF withdrawCollateral, OwnUser
  <1>5. CASE openPosition(c) \/ closePosition(c)
    BY <1>1, <1>5, KnownFields, OwnMethod DEF openPosition, closePosition, OwnUser
  <1>6. CASE liquidate(c)
    <2>1. PICK w \in Wallets : Call(c, "Liquidate", getLiquidateIx, [Now EXCEPT !.arg = w])
      BY <1>6 DEF liquidate
    <2> DEFINE known == [Now EXCEPT !.arg = w]
               steps == getLiquidateIx
    <2>2. DOMAIN known = CallFields /\ known.key = 0 /\ Own(steps)
      BY <1>1, KnownFields
    <2>3. Call(c, "Liquidate", steps, known)
      BY <2>1
    <2> HIDE DEF known, steps
    <2>4. QED BY <2>2, <2>3, OwnMethod
  <1>7. QED BY <1>2, <1>3, <1>4, <1>5, <1>6

LEMMA InitializeSteps ==
    ASSUME ClientInv, NEW c \in Callers, initialize(c) \/ updateAdmin(c)
    PROVE  ClientInv' /\ UNCHANGED house
  <1>1. CASE initialize(c)
    <2> DEFINE steps == <<"check", "signed">>
    <2>1. steps \in Seq(LaterSteps \ {"send"}) /\ steps # <<>>
      BY DEF LaterSteps
    <2>2. Method("Initialize", steps, Later)
      BY <2>1, KnownFields DEF Method, OwnUser, Creating
    <2>3. QED BY <1>1, <2>2, CallStep DEF initialize
  <1>2. CASE updateAdmin(c)
    <2>1. <<"adminState">> \in Seq(LaterSteps \ {"send"}) /\ <<"adminState">> # <<>>
      BY DEF LaterSteps
    <2>2. PICK w \in Wallets : Call(c, "UpdateAdmin", <<"adminState">>, [Now EXCEPT !.arg = w])
      BY <1>2 DEF updateAdmin
    <2>3. Method("UpdateAdmin", <<"adminState">>, [Now EXCEPT !.arg = w])
      BY <2>1, KnownFields DEF Method, OwnUser, Creating
    <2>4. QED BY <2>2, <2>3, CallStep
  <1>3. QED BY <1>1, <1>2

LEMMA PlainSteps ==
    ASSUME ClientInv, NEW c \in Callers,
           \/ updateFundingRate(c) \/ settleFundingPayment(c) \/ initializeMarket(c)
           \/ moveAmmPrice(c) \/ moveAmmToPrice(c) \/ updateK(c) \/ repegAmmCurve(c)
           \/ updateAmmOracleTwap(c) \/ resetAmmOracleTwap(c) \/ updateCurveHistory(c)
           \/ withdrawFromInsuranceVault(c) \/ withdrawFees(c)
           \/ withdrawFromInsuranceVaultToMarket(c) \/ updateMarketOracle(c)
           \/ updateMarketMinimumTradeSize(c) \/ updateParameters(c) \/ updateSwitches(c)
    PROVE  ClientInv' /\ UNCHANGED house
  <1> DEFINE Plain(steps) == steps \in Seq(LaterSteps \ {"send"}) /\ steps # <<>>
  <1>1. /\ Plain(<<"anyState">>) /\ Plain(<<"state", "built">>) /\ Plain(<<"state">>)
        /\ Plain(<<"read", "adminKey">>) /\ Plain(<<"adminState">>)
    BY DEF LaterSteps
  <1> HIDE DEF Plain
  <1>2. ASSUME NEW ix \in PlainInstructions, NEW steps, Plain(steps),
               NEW known, DOMAIN known = CallFields, known.key = 0, Call(c, ix, steps, known)
        PROVE  ClientInv' /\ UNCHANGED house
    BY <1>2, PlainMethod DEF Plain
  <1>3. CASE updateFundingRate(c)
    <2>1. PICK o \in Oracles :
                 Call(c, "UpdateFundingRate", <<"anyState">>, [Now EXCEPT !.oracle = o])
      BY <1>3 DEF updateFundingRate
    <2>2. QED BY <2>1, <1>1, <1>2, KnownFields DEF PlainInstructions
  <1>4. CASE settleFundingPayment(c)
    <2>1. PICK w \in Wallets :
                 /\ users[w] # 0
                 /\ Call(c, "SettleFunding", <<"anyState">>,
                         [Now EXCEPT !.arg = w, !.positions = users[w]])
      BY <1>4, Zenon DEF settleFundingPayment
    <2> DEFINE known == [Now EXCEPT !.arg = w, !.positions = users[w]]
    <2>2. DOMAIN known = CallFields /\ known.key = 0
      BY KnownFields
    <2>3. QED BY <2>1, <2>2, <1>1, <1>2 DEF PlainInstructions
  <1>5. CASE initializeMarket(c)
    <2>1. PICK o \in Oracles :
                 Call(c, "InitializeMarket", <<"state", "built">>, [Later EXCEPT !.arg = o])
      BY <1>5 DEF initializeMarket
    <2>2. QED BY <2>1, <1>1, <1>2, KnownFields DEF PlainInstructions
  <1>6. CASE updateMarketOracle(c)
    <2>1. PICK o \in Oracles :
                 Call(c, "UpdateMarketOracle", <<"adminState">>, [Now EXCEPT !.arg = o])
      BY <1>6 DEF updateMarketOracle
    <2>2. QED BY <2>1, <1>1, <1>2, KnownFields DEF PlainInstructions
  <1>7. CASE moveAmmPrice(c) \/ moveAmmToPrice(c)
    BY <1>7, <1>1, <1>2, KnownFields DEF moveAmmPrice, moveAmmToPrice, PlainInstructions
  <1>8. CASE updateK(c) \/ repegAmmCurve(c) \/ updateAmmOracleTwap(c) \/ resetAmmOracleTwap(c)
    BY <1>8, <1>1, <1>2, KnownFields
       DEF updateK, repegAmmCurve, updateAmmOracleTwap, resetAmmOracleTwap, PlainInstructions
  <1>9. CASE updateCurveHistory(c)
    BY <1>9, <1>1, <1>2, KnownFields DEF updateCurveHistory, PlainInstructions
  <1>10. CASE \/ withdrawFromInsuranceVault(c) \/ withdrawFees(c)
              \/ withdrawFromInsuranceVaultToMarket(c)
    BY <1>10, <1>1, <1>2, KnownFields
       DEF withdrawFromInsuranceVault, withdrawFees, withdrawFromInsuranceVaultToMarket,
           PlainInstructions
  <1>11. CASE updateMarketMinimumTradeSize(c) \/ updateParameters(c) \/ updateSwitches(c)
    BY <1>11, <1>1, <1>2, KnownFields
       DEF updateMarketMinimumTradeSize, updateParameters, updateSwitches, PlainInstructions
  <1>12. QED BY <1>3, <1>4, <1>5, <1>6, <1>7, <1>8, <1>9, <1>10, <1>11

------------------------------------------------------------------------------
LEMMA ClientStep == ClientInv /\ [Next]_vars => ClientInv' /\ HistoriesKept
  <1> SUFFICES ASSUME ClientInv, [Next]_vars
               PROVE  ClientInv' /\ HistoriesKept
    OBVIOUS
  <1>1. ASSUME UNCHANGED house PROVE HistoriesKept
    BY <1>1 DEF HistoriesKept
  <1>2. CASE UNCHANGED vars \/ Refresh
    <2>1. UNCHANGED <<wallet, raced, keys, house, calls, userAccountPublicKey>>
      BY <1>2 DEF vars, Refresh, ledger, caches, bounds
    <2>2. ClientInv'
      BY <2>1 DEF ClientInv, HouseOK, CallOK, HousesInv, WalletsInv, AdminCall, NoHistories,
                  OwnLookup, ForTheCaller, OwnAccount, OwnAddress, Initializing, Exists
    <2>3. QED BY <2>1, <2>2, <1>1
  <1>3. CASE SwitchWallet
    BY <1>1, <1>3, SwitchStep DEF SwitchWallet, ledger
  <1>4. ASSUME NEW c \in Callers, UserMethod(c) PROVE ClientInv' /\ HistoriesKept
    BY <1>1, <1>4, CreateSteps, OwnSteps, PlainSteps DEF UserMethod
  <1>5. ASSUME NEW c \in Callers, AdminMethod(c) PROVE ClientInv' /\ HistoriesKept
    BY <1>1, <1>5, InitializeSteps, PlainSteps DEF AdminMethod
  <1>6. ASSUME NEW c \in Callers, Answer(c) PROVE ClientInv' /\ HistoriesKept
    BY <1>1, <1>6, AnswerStep DEF Answer, ledger
  <1>7. ASSUME NEW c \in Callers, Resume(c) PROVE ClientInv' /\ HistoriesKept
    BY <1>1, <1>7, ResumeStep DEF Resume, ledger
  <1>8. ASSUME NEW c \in Callers, Send(c) PROVE ClientInv' /\ HistoriesKept
    BY <1>8, SendStep
  <1>9. QED BY <1>2, <1>3, <1>4, <1>5, <1>6, <1>7, <1>8 DEF Next

\* The inductive invariant of the client.
LEMMA ClientInvariance == Spec => []ClientInv
  BY Initially, ClientStep, PTL DEF Spec

\* When its transaction is all that a call has left, the lookups are behind it.
LEMMA LookupsDone ==
    ASSUME NEW k, k.todo = <<"send">>
    PROVE  Head(k.todo) \notin Keys /\ Head(k.todo) # "pda" /\ k.todo # <<>>
  BY DEF Keys

LEMMA CallersAccount ==
    ASSUME ClientInv, NEW c \in Callers, NEW k, k = calls[c], k.todo = <<"send">>, ~raced, valid(k)
    PROVE  /\ k.ix \in OwnUser \cup {"Liquidate", "NewUserDeposit"} =>
                 k.user = k.caller /\ k.sender = k.caller
           /\ k.ix \in Creating => k.created = k.caller /\ k.sender = k.caller
  <1>1. ForTheCaller(k) /\ k.caller \in Wallets /\ k.todo # <<>>
    BY LookupsDone DEF ClientInv, WalletsInv, CallOK
  <1>2. k.caller # Nobody
    BY <1>1, ClientAssumption
  <1>3. {k.authority, k.creator} \subseteq {k.sender, Nobody}
    BY DEF valid
  <1>4. CASE k.ix \in OwnUser \cup {"Liquidate"}
    <2>1. k.user = k.caller
      BY <1>1, <1>4, LookupsDone DEF ForTheCaller, OwnAccount
    <2>2. k.user = k.authority
      BY <1>4 DEF valid
    <2>3. k.ix \notin Creating
      BY <1>4 DEF OwnUser, Creating
    <2>4. QED BY <2>1, <2>2, <2>3, <1>2, <1>3
  <1>5. CASE k.ix \in Creating
    <2>1. k.created = k.creator
      BY <1>5 DEF valid
    <2>2. k.created = k.caller
      <3>1. CASE k.arg = Nobody
        BY <3>1, <1>1, <1>5, LookupsDone DEF ForTheCaller, OwnAddress
      <3>2. CASE k.arg # Nobody
        <4>1. k.ix = "NewUserDeposit" /\ k.arg = k.caller
          BY <3>2, <1>1, <1>5 DEF ForTheCaller, Creating
        <4>2. k.user = k.created /\ k.user = k.authority /\ k.arg \in {Nobody, k.authority}
          BY <4>1 DEF valid
        <4>3. QED BY <4>1, <4>2, <3>2
      <3>3. QED BY <3>1, <3>2
    <2>3. k.sender = k.caller
      BY <2>1, <2>2, <1>2, <1>3
    <2>4. k.ix = "NewUserDeposit" => k.user = k.created
      BY DEF valid
    <2>5. k.ix \in OwnUser \cup {"Liquidate", "NewUserDeposit"} => k.ix = "NewUserDeposit"
      BY <1>5 DEF OwnUser, Creating
    <2>6. QED BY <2>2, <2>3, <2>4, <2>5
  <1>6. QED BY <1>4, <1>5 DEF Creating

\* A transaction of the SDK on user accounts that the program accepts is signed
\* by the wallet the client had when the method was called and acts on that
\* wallet's account, for any number of wallets, concurrent calls and changes of
\* wallet (unless a change has overtaken a lookup of the account).
THEOREM TransactionsActForTheCaller == Spec => []ActsForTheCaller
  <1>1. ClientInv => ActsForTheCaller
    BY CallersAccount DEF ActsForTheCaller
  <1>2. QED BY <1>1, ClientInvariance, PTL

\* No sequence of calls of the SDK replaces the histories of a house that has
\* them, with any number of initialize calls in flight at once, although
\* initialize_history's own guard does not prevent it.
THEOREM HistoriesAreKept == Spec => HistoriesStay
  <1>1. ClientInv /\ [Next]_vars =>
           [\A f \in Histories : house.refs[f] # 0 => house'.refs[f] = house.refs[f]]_vars
    BY ClientStep DEF HistoriesKept
  <1>2. QED BY <1>1, ClientInvariance, PTL DEF Spec, HistoriesStay

(***************************************************************************)
(* A call that nothing disturbs.  Its fields are right as far as its steps *)
(* have brought them, and the account that the client has cached, or is    *)
(* about to cache, is the one that the wallet has.                         *)
(***************************************************************************)

\* A step of a set is among those of a sequence.
Has(t, S) == \E i \in 1..Len(t) : t[i] \in S

\* The steps that bring the positions of the caller's own account.
OwnPositions == {"userAccount", "ownFetch", "fetch"}
\* The steps that begin by reading the subscriber's copies, or the wallet.
Copying == {"read", "state", "anyState", "adminState"}
Naming == {"adminState", "adminKey", "signed"}
\* The steps after which the sender of the transaction is known.
Sending == {"read", "built", "signed"}
\* getUserAccount asks for the key of the account, then for the account.
Lookup == {"ownKey", "ownDerive"}

\* The order of the steps: an account that a step asks for is known by then.
Sound(t) ==
    /\ \A i \in 1..Len(t) : t[i] = "send" => i = Len(t)
    /\ \A i \in 1..Len(t) :
          t[i] = "ownFetch" => i = 1 \/ (i = 2 /\ t[1] \in Lookup)
    /\ \A i, j \in 1..Len(t) :
          i <= j => /\ t[i] = "victimPositions" => t[j] # "victim"
                    /\ t[i] = "fetch" => t[j] \notin Keys

\* The steps of an instruction.
Suited(ix, t) ==
    /\ Has(t, OwnPositions) => ix \in OwnUser
    /\ Has(t, {"victim", "victimPositions"}) => ix = "Liquidate"
    /\ Has(t, {"check"}) => ix = "Initialize"

\* What is known of an undisturbed call: every field is right, unless the
\* answer that brings it is still to come (in t) or the step that reads it is
\* still to begin (in u).
Known(k, t, u) ==
    /\ k.ix \in OwnUser \cup {"Liquidate", "NewUserDeposit"} => k.user = k.caller \/ Has(t, Keys)
    /\ k.ix \in OwnUser => k.positions = users[k.caller] \/ Has(t, OwnPositions)
    /\ k.ix \in {"Liquidate", "SettleFunding"} =>
          k.positions = users[k.arg] \/ Has(t, {"victim"})
    /\ k.ix \in Creating => k.created = k.caller \/ Has(t, {"pda"})
    /\ k.ix \in Creating => k.creator = k.caller \/ Has(u, {"new"})
    /\ k.sender = k.caller \/ Has(t, Sending)
    /\ \/ k.authority = k.caller \/ Has(t, {"state"}) \/ Has(u, Naming)
       \/ k.ix \in {"NewUser", "UpdateFundingRate", "SettleFunding"}
    /\ {k.authority, k.creator} \subseteq {k.caller, Nobody}
    /\ IF k.ix \in DOMAIN named THEN k.accounts = accounts_of(k.ix) \/ Has(u, Copying)
       ELSE DOMAIN k.accounts = {}
    /\ k.ix \in NeedsOracle \ {"UpdateFundingRate"} => k.oracle = market \/ Has(u, Copying)

\* What an undisturbed call has asked for, and the answers it may have got.
Pending(k) ==
    LET s == Head(k.todo)
    IN  /\ s \in Keys \cup {"pda", "ownKey", "ownDerive", "ownFetch", "fetch"} => k.asked = k.caller
        /\ s = "userAccount" => k.answer = users[k.caller]
        /\ s \in {"ownFetch", "fetch"} => k.answer \in {Unanswered, users[k.caller]}
        /\ s = "victim" => k.asked = k.arg /\ k.answer \in {Unanswered, users[k.arg]}
        /\ s = "victimPositions" => k.answer \in {Unanswered, 1}
        /\ s = "check" => k.answer \in {Unanswered, IF Exists(house) THEN 1 ELSE 0}

\* A lookup of the wallet's user account, and the answer that will be cached.
OwnFetch(k) ==
    k.todo # <<>> =>
        /\ Head(k.todo) \in Lookup \cup {"ownFetch"} => k.asked = wallet
        /\ Head(k.todo) = "ownFetch" => k.answer \in {Unanswered, 0, users[wallet]}

CacheRight ==
    /\ userAccount \in {0, users[wallet]}
    /\ \A c \in Callers : OwnFetch(calls[c])

\* A call that is as good as just made: its wallet is the client's, and the
\* copies are those of the ledger (until initialize goes on with a new house).
Right(k) ==
    /\ k.caller = wallet
    /\ k.ix # "InitializeHistory" => state = house /\ market = oracle
    /\ Known(k, k.todo, Tail(k.todo))
    /\ Pending(k)

StepsOK(k) ==
    k.todo # <<>> => Sound(k.todo) /\ Suited(k.ix, k.todo) /\ (k.ix = "Initialize" => k.key # 0)

\* Every method but initialize needs a copy of the state.
NeedsHouse(k) == k.todo # <<>> /\ k.ix # "Initialize"

UndisturbedInv ==
    /\ users = [w \in Wallets |-> users[w]]
    /\ Exists(house) => house.refs["markets"] # 0
    /\ \A c \in Callers : StepsOK(calls[c])
    /\ Exists(state) => Exists(house)
    /\ \A c \in Callers : NeedsHouse(calls[c]) => Exists(house)
    /\ ~raced /\ wallet \notin deleted => CacheRight
    /\ \A c \in Callers :
          calls[c].todo # <<>> /\ calls[c].clear => ~raced /\ CacheRight /\ Right(calls[c])

------------------------------------------------------------------------------
(* Sequences of steps.                                                     *)

LEMMA HasTail ==
    ASSUME NEW X, NEW t \in Seq(X), t # <<>>, NEW S
    PROVE  Has(t, S) <=> Head(t) \in S \/ Has(Tail(t), S)
  <1>1. /\ Len(t) \in Nat /\ Len(t) >= 1 /\ Head(t) = t[1]
        /\ Tail(t) \in Seq(X) /\ Len(Tail(t)) = Len(t) - 1
        /\ \A i \in 1..(Len(t) - 1) : Tail(t)[i] = t[i + 1]
    OBVIOUS
  <1> DEFINE rest == Tail(t)
             n == Len(t)
  <1>2. /\ n \in Nat /\ n >= 1 /\ Head(t) = t[1] /\ Len(rest) = n - 1
        /\ \A i \in 1..(n - 1) : rest[i] = t[i + 1]
    BY <1>1
  <1> HIDE DEF rest, n
  <1>3. ASSUME NEW i \in 1..n, t[i] \in S PROVE Head(t) \in S \/ Has(rest, S)
    <2>1. CASE i = 1
      BY <2>1, <1>2, <1>3
    <2>2. CASE i # 1
      <3>1. i - 1 \in 1..(n - 1) /\ rest[i - 1] = t[i]
        BY <2>2, <1>2
      <3>2. QED BY <3>1, <1>2, <1>3 DEF Has
    <2>3. QED BY <2>1, <2>2
  <1>4. ASSUME NEW i \in 1..(n - 1), rest[i] \in S PROVE \E j \in 1..n : t[j] \in S
    <2>1. i + 1 \in 1..n /\ t[i + 1] \in S
      BY <1>2, <1>4
    <2>2. QED BY <2>1
  <1>5. Head(t) \in S => \E j \in 1..n : t[j] \in S
    BY <1>2
  <1>6. QED BY <1>2, <1>3, <1>4, <1>5 DEF Has, rest, n

LEMMA HasBefore ==
    ASSUME NEW X, NEW e \in X, NEW t \in Seq(X), NEW S
    PROVE  Has(before(e, t), S) <=> e \in S \/ Has(t, S)
  <1> DEFINE w == before(e, t)
  <1>1. w \in Seq(X) /\ w # <<>> /\ Head(w) = e /\ Tail(w) = t
    BY Before
  <1> HIDE DEF w
  <1>2. Has(w, S) <=> Head(w) \in S \/ Has(Tail(w), S)
    BY <1>1, HasTail
  <1>3. QED BY <1>1, <1>2 DEF w

\* The order of the steps holds for those that remain.
LEMMA SoundTail ==
    ASSUME NEW X, NEW t \in Seq(X), t # <<>>, Sound(t)
    PROVE  /\ Sound(Tail(t))
           /\ Head(t) \notin Lookup => ~Has(Tail(t), {"ownFetch"})
           /\ Head(t) = "victimPositions" => ~Has(t, {"victim"})
           /\ Head(t) = "fetch" => ~Has(t, Keys)
           /\ Head(t) = "send" => \A S : "send" \notin S => ~Has(t, S)
  <1> DEFINE rest == Tail(t)
             n == Len(t)
  <1>1. /\ n \in Nat /\ n >= 1 /\ Head(t) = t[1] /\ Len(rest) = n - 1
        /\ \A i \in 1..(n - 1) : rest[i] = t[i + 1]
    OBVIOUS
  <1>2. /\ \A i \in 1..n : t[i] = "send" => i = n
        /\ \A i \in 1..n : t[i] = "ownFetch" => i = 1 \/ (i = 2 /\ t[1] \in Lookup)
        /\ \A i, j \in 1..n :
              i <= j => /\ t[i] = "victimPositions" => t[j] # "victim"
                        /\ t[i] = "fetch" => t[j] \notin Keys
    BY DEF Sound
  <1> HIDE DEF rest, n
  <1>3. \A i \in 1..(n - 1) : i + 1 \in 1..n
    BY <1>1
  <1>4. Sound(rest)
    <2>1. \A i \in 1..(n - 1) : rest[i] = "send" => i = n - 1
      <3> TAKE i \in 1..(n - 1)
      <3>1. rest[i] = "send" => i + 1 = n
        BY <1>1, <1>2, <1>3
      <3>2. QED BY <3>1, <1>1
    <2>2. \A i \in 1..(n - 1) : rest[i] = "ownFetch" => i = 1
      BY <1>1, <1>2, <1>3
    <2>3. \A i, j \in 1..(n - 1) :
             i <= j => /\ rest[i] = "victimPositions" => rest[j] # "victim"
                       /\ rest[i] = "fetch" => rest[j] \notin Keys
      <3> TAKE i, j \in 1..(n - 1)
      <3>1. i + 1 \in 1..n /\ j + 1 \in 1..n /\ (i <= j => i + 1 <= j + 1)
        BY <1>3
      <3>2. QED BY <3>1, <1>1, <1>2
    <2>4. QED BY <2>1, <2>2, <2>3, <1>1 DEF Sound
  <1>5. Head(t) \notin Lookup => ~Has(rest, {"ownFetch"})
    <2>1. \A i \in 1..(n - 1) : rest[i] = "ownFetch" => t[1] \in Lookup
      BY <1>1, <1>2, <1>3
    <2>2. QED BY <2>1, <1>1 DEF Has
  <1>6. /\ Head(t) = "victimPositions" => ~Has(t, {"victim"})
        /\ Head(t) = "fetch" => ~Has(t, Keys)
    <2>1. 1 \in 1..n /\ \A j \in 1..n : 1 <= j
      BY <1>1
    <2>2. QED BY <2>1, <1>1, <1>2 DEF Has, n
  <1>7. Head(t) = "send" => \A S : "send" \notin S => ~Has(t, S)
    <2>1. Head(t) = "send" => n = 1
      BY <1>1, <1>2
    <2>2. QED BY <2>1, <1>1 DEF Has, n
  <1>8. QED BY <1>4, <1>5, <1>6, <1>7 DEF rest

LEMMA SoundBefore ==
    ASSUME NEW X, NEW e \in X, NEW t \in Seq(X), t # <<>>, Sound(t), ~Has(t, {"ownFetch"}),
           e \notin {"send", "ownFetch", "victimPositions", "fetch"}
    PROVE  Sound(before(e, t))
  <1> DEFINE w == before(e, t)
             n == Len(t)
  <1>1. /\ n \in Nat /\ n >= 1 /\ Len(w) = n + 1 /\ w[1] = e
        /\ \A i \in 1..n : w[i + 1] = t[i]
    BY DEF before
  <1>2. /\ \A i \in 1..n : t[i] = "send" => i = n
        /\ \A i \in 1..n : t[i] # "ownFetch"
        /\ \A i, j \in 1..n :
              i <= j => /\ t[i] = "victimPositions" => t[j] # "victim"
                        /\ t[i] = "fetch" => t[j] \notin Keys
    BY DEF Sound, Has
  <1> HIDE DEF w, n
  <1>3. \A i \in 1..(n + 1) : i = 1 \/ (i - 1 \in 1..n /\ w[i] = t[i - 1])
    <2> TAKE i \in 1..(n + 1)
    <2>1. i # 1 => i - 1 \in 1..n /\ (i - 1) + 1 = i
      BY <1>1
    <2>2. QED BY <2>1, <1>1
  <1>4. \A i \in 1..(n + 1) : w[i] = "send" => i = n + 1
    BY <1>1, <1>2, <1>3
  <1>5. \A i \in 1..(n + 1) : w[i] # "ownFetch"
    BY <1>1, <1>2, <1>3
  <1>6. \A i, j \in 1..(n + 1) :
           i <= j => /\ w[i] = "victimPositions" => w[j] # "victim"
                     /\ w[i] = "fetch" => w[j] \notin Keys
    <2> TAKE i, j \in 1..(n + 1)
    <2>1. CASE i = 1
      BY <2>1, <1>1
    <2>2. CASE i # 1 /\ i <= j
      <3>1. i - 1 \in 1..n /\ j - 1 \in 1..n /\ i - 1 <= j - 1
            /\ w[i] = t[i - 1] /\ w[j] = t[j - 1]
        BY <2>2, <1>1, <1>3
      <3>2. QED BY <3>1, <1>2
    <2>3. QED BY <2>1, <2>2
  <1>7. QED BY <1>1, <1>4, <1>5, <1>6 DEF Sound, w

LEMMA SoundLookup ==
    ASSUME NEW X, NEW e \in X, NEW f \in X, NEW t \in Seq(X), t # <<>>, Sound(t),
           ~Has(t, {"ownFetch"}), e \in Lookup, f = "ownFetch"
    PROVE  Sound(before(e, before(f, t)))
  <1> DEFINE v == before(f, t)
             w == before(e, v)
             n == Len(t)
  <1>1. /\ n \in Nat /\ n >= 1 /\ Len(v) = n + 1 /\ v[1] = f /\ v \in Seq(X)
        /\ \A i \in 1..n : v[i + 1] = t[i]
    BY DEF before
  <1> HIDE DEF v
  <1>2. /\ Len(w) = (n + 1) + 1 /\ w[1] = e
        /\ \A i \in 1..(n + 1) : w[i + 1] = v[i]
    BY <1>1 DEF before
  <1>3. /\ \A i \in 1..n : t[i] = "send" => i = n
        /\ \A i \in 1..n : t[i] # "ownFetch"
        /\ \A i, j \in 1..n :
              i <= j => /\ t[i] = "victimPositions" => t[j] # "victim"
                        /\ t[i] = "fetch" => t[j] \notin Keys
    BY DEF Sound, Has
  <1> HIDE DEF w, n
  <1>4. w[2] = f
    <2>1. 1 \in 1..(n + 1) /\ 1 + 1 = 2
      BY <1>1
    <2>2. QED BY <2>1, <1>1, <1>2
  <1>5. \A i \in 1..(n + 2) : i \in {1, 2} \/ (i - 2 \in 1..n /\ w[i] = t[i - 2])
    <2> TAKE i \in 1..(n + 2)
    <2>1. ASSUME i \notin {1, 2} PROVE i - 2 \in 1..n /\ w[i] = t[i - 2]
      <3>1. i - 2 \in 1..n /\ (i - 2) + 1 \in 1..(n + 1) /\ ((i - 2) + 1) + 1 = i
        BY <2>1, <1>1
      <3>2. w[((i - 2) + 1) + 1] = v[(i - 2) + 1] /\ v[(i - 2) + 1] = t[i - 2]
        BY <3>1, <1>1, <1>2
      <3>3. QED BY <3>1, <3>2
    <2>2. QED BY <2>1
  <1>6. e \in {"ownKey", "ownDerive"} /\ f = "ownFetch"
    BY DEF Lookup
  <1>7. \A i \in 1..(n + 2) : w[i] = "send" => i = n + 2
    <2> TAKE i \in 1..(n + 2)
    <2>1. i \in {1, 2} => w[i] # "send"
      BY <1>2, <1>4, <1>6
    <2>2. i \notin {1, 2} /\ w[i] = "send" => i - 2 = n
      BY <1>3, <1>5
    <2>3. QED BY <2>1, <2>2, <1>1
  <1>8. \A i \in 1..(n + 2) : w[i] = "ownFetch" => i = 1 \/ (i = 2 /\ w[1] \in Lookup)
    BY <1>1, <1>2, <1>3, <1>4, <1>5, <1>6
  <1>9. \A i, j \in 1..(n + 2) :
           i <= j => /\ w[i] = "victimPositions" => w[j] # "victim"
                     /\ w[i] = "fetch" => w[j] \notin Keys
    <2> TAKE i, j \in 1..(n + 2)
    <2>1. CASE i \in {1, 2}
      BY <2>1, <1>2, <1>4, <1>6
    <2>2. CASE i \notin {1, 2} /\ i <= j
      <3>1. i - 2 \in 1..n /\ j - 2 \in 1..n /\ i - 2 <= j - 2
            /\ w[i] = t[i - 2] /\ w[j] = t[j - 2]
        BY <2>2, <1>1, <1>5
      <3>2. QED BY <3>1, <1>3
    <2>3. QED BY <2>1, <2>2
  <1>10. Len(w) = n + 2
    BY <1>1, <1>2
  <1>11. QED BY <1>7, <1>8, <1>9, <1>10 DEF Sound, w, v

------------------------------------------------------------------------------
(* What a call looks like when it goes on, as far as the program sees it.  *)

LEMMA BeginTodo ==
    ASSUME NEW k, DOMAIN k = CallFields, NEW todo \in Seq(LaterSteps), todo # <<>>,
           NEW pk, NEW ua, NEW m, m = begin(k, todo, pk, ua)
    PROVE  /\ Head(todo) \notin {"key", "userAccount"} => m.todo = todo
           /\ Head(todo) = "key" => \E e \in Keys : m.todo = before(e, Tail(todo))
           /\ Head(todo) = "userAccount" =>
                 \/ ua # 0 /\ m.todo = before("userAccount", Tail(todo)) /\ m.answer = ua
                 \/ /\ ua = 0 /\ m.asked = getUserAccountPublicKey(pk)
                    /\ \E e \in Lookup : m.todo = before(e, before("ownFetch", Tail(todo)))
  <1> DEFINE s == Head(todo)
             rest == Tail(todo)
  <1>1. s \in LaterSteps /\ rest \in Seq(LaterSteps)
    OBVIOUS
  <1>2. ASSUME s \notin {"key", "userAccount"} PROVE m.todo = todo
    <2>1. CASE s \in {"fetch", "victim", "pda", "new", "read", "state", "anyState", "adminState"}
      BY <2>1, <1>2 DEF begin, CallFields, Asking, named_by_copies
    <2>2. CASE s \notin {"fetch", "victim", "pda", "new", "read", "state", "anyState", "adminState"}
      BY <2>2, <1>1, <1>2 DEF begin, CallFields, Asking, named_by_copies, LaterSteps
    <2>3. QED BY <2>1, <2>2
  <1>3. ASSUME s = "key" PROVE \E e \in Keys : m.todo = before(e, rest)
    <2> DEFINE e == IF pk # NotCached THEN "key" ELSE "derive"
    <2>1. m.todo = before(e, rest) /\ e \in Keys
      BY <1>3 DEF begin, Asking, CallFields, before, Keys
    <2>2. QED BY <2>1
  <1>4. ASSUME s = "userAccount"
        PROVE  \/ ua # 0 /\ m.todo = before("userAccount", rest) /\ m.answer = ua
               \/ /\ ua = 0 /\ m.asked = getUserAccountPublicKey(pk)
                  /\ \E e \in Lookup : m.todo = before(e, before("ownFetch", rest))
    <2> DEFINE e == IF pk # NotCached THEN "ownKey" ELSE "ownDerive"
    <2>1. \/ ua # 0 /\ m.todo = <<"userAccount">> \o rest /\ m.answer = ua
          \/ /\ ua = 0 /\ m.asked = getUserAccountPublicKey(pk)
             /\ m.todo = <<e, "ownFetch">> \o rest
      BY <1>4 DEF begin, Asking, getUserAccount, CallFields
    <2>2. <<e, "ownFetch">> \o rest = <<e>> \o (<<"ownFetch">> \o rest)
      BY <1>1
    <2>3. e \in Lookup
      BY DEF Lookup
    <2>4. CASE ua # 0
      BY <2>1, <2>4 DEF before
    <2>5. CASE ua = 0
      <3>1. m.asked = getUserAccountPublicKey(pk) /\ m.todo = before(e, before("ownFetch", rest))
        BY <2>1, <2>2, <2>5 DEF before
      <3>2. QED BY <3>1, <2>3, <2>5
    <2>6. QED BY <2>4, <2>5
  <1>5. QED BY <1>2, <1>3, <1>4

LEMMA BeginFields ==
    ASSUME NEW k, DOMAIN k = CallFields, NEW todo \in Seq(LaterSteps), todo # <<>>,
           NEW pk, NEW ua, NEW m, m = begin(k, todo, pk, ua), NEW s, s = Head(todo)
    PROVE  /\ SameCall(k, m) /\ m.positions = k.positions /\ m.sender = k.sender
           /\ m.clear = k.clear
           /\ m.creator = IF s = "new" THEN wallet ELSE k.creator
           /\ m.authority = IF s \in Naming THEN wallet ELSE k.authority
           /\ m.accounts = IF s \in Copying THEN accounts_of(k.ix) ELSE k.accounts
           /\ m.oracle = IF s \in Copying /\ k.ix \in NeedsOracle \ {"UpdateFundingRate"}
                         THEN market ELSE k.oracle
           /\ s = "key" => m.asked = getUserAccountPublicKey(pk)
           /\ s = "pda" => m.asked = wallet
           /\ s = "fetch" => m.asked = k.user
           /\ s = "victim" => m.asked = k.arg
           /\ s = "ownFetch" => m.asked = k.asked
           /\ s \in Asking => m.answer = Unanswered
  <1>1. s \in LaterSteps
    OBVIOUS
  <1>2. CASE s = "key"
    BY <1>2 DEF begin, CallFields, SameCall, Asking, Naming, Copying
  <1>3. CASE s = "userAccount"
    BY <1>3 DEF begin, getUserAccount, CallFields, SameCall, Asking, Naming, Copying
  <1>4. CASE s \in Asking
    BY <1>4, <1>1 DEF begin, CallFields, SameCall, Asking, Naming, Copying
  <1>5. CASE s \in {"pda", "new"}
    BY <1>5 DEF begin, CallFields, SameCall, Asking, Naming, Copying
  <1>6. CASE s \in Copying
    <2> HIDE DEF accounts_of
    <2>1. CASE s = "adminState"
      BY <2>1 DEF begin, named_by_copies, CallFields, SameCall, Asking, Naming, Copying
    <2>2. CASE s # "adminState"
      BY <2>2, <1>6 DEF begin, named_by_copies, CallFields, SameCall, Asking, Naming, Copying
    <2>3. QED BY <2>1, <2>2
  <1>7. CASE s \in {"adminKey", "signed"}
    BY <1>7 DEF begin, CallFields, SameCall, Asking, Naming, Copying
  <1>8. CASE s \in {"faucet", "whitelist", "built", "send"}
    BY <1>8 DEF begin, CallFields, SameCall, Asking, Naming, Copying
  <1>9. QED BY <1>1, <1>2, <1>3, <1>4, <1>5, <1>6, <1>7, <1>8 DEF LaterSteps, Asking, Copying

SameClear(k, m) == m.clear = k.clear

LEMMA BeginSame ==
    ASSUME NEW k, DOMAIN k = CallFields, NEW todo \in Seq(LaterSteps), todo # <<>>,
           NEW pk, NEW ua, NEW m, m = begin(k, todo, pk, ua)
    PROVE  SameCall(k, m) /\ SameClear(k, m)
  <1>1. PICK s : s = Head(todo)
    OBVIOUS
  <1>2. QED BY <1>1, BeginFields DEF SameClear

\* A set of steps that bring the same field.
Setter(S) ==
    /\ "key" \in S <=> "derive" \in S
    /\ "userAccount" \in S <=> "ownFetch" \in S
    /\ "ownKey" \notin S /\ "ownDerive" \notin S

LEMMA BeginSteps ==
    ASSUME NEW k, DOMAIN k = CallFields, NEW todo \in Seq(LaterSteps), todo # <<>>,
           todo[Len(todo)] = "send", Sound(todo), NEW pk, NEW ua, NEW m, m = begin(k, todo, pk, ua)
    PROVE  /\ Sound(m.todo)
           /\ \A S : Setter(S) => (Has(m.todo, S) <=> Has(todo, S))
           /\ \A S : "ownFetch" \notin S => (Has(Tail(m.todo), S) <=> Has(Tail(todo), S))
           /\ Head(m.todo) = "userAccount" => Head(todo) = "userAccount" /\ ua # 0 /\ m.answer = ua
           /\ Head(m.todo) \in Lookup => m.asked = getUserAccountPublicKey(pk)
           /\ Head(m.todo) \in Keys => Head(todo) = "key"
           /\ Head(m.todo) \notin Keys \cup Lookup => Head(m.todo) = Head(todo)
  <1> DEFINE s == Head(todo)
             rest == Tail(todo)
  <1>1. s \in LaterSteps /\ rest \in Seq(LaterSteps) /\ rest \in Seq(Steps)
    BY DEF Steps
  <1>2. \A S : Has(todo, S) <=> s \in S \/ Has(rest, S)
    BY HasTail
  <1>3. ASSUME s \in {"key", "userAccount"}
        PROVE  Sound(rest) /\ ~Has(rest, {"ownFetch"}) /\ rest # <<>>
    <2>1. Sound(rest) /\ ~Has(rest, {"ownFetch"})
      BY <1>3, SoundTail DEF Lookup
    <2>2. rest # <<>>
      BY <1>3, NextStep
    <2>3. QED BY <2>1, <2>2
  <1> HIDE DEF s, rest
  <1>4. CASE s \notin {"key", "userAccount"}
    <2>1. m.todo = todo
      BY <1>4, BeginTodo DEF s
    <2>2. s \notin Keys \cup Lookup \cup {"userAccount"}
      BY <1>1, <1>4 DEF LaterSteps, Keys, Lookup
    <2>3. QED BY <2>1, <2>2 DEF s
  <1>5. CASE s = "key"
    <2>1. PICK e \in Keys : m.todo = before(e, rest)
      BY <1>5, BeginTodo DEF s, rest
    <2>2. e \in Steps /\ e \notin {"send", "ownFetch", "victimPositions", "fetch", "userAccount"}
          /\ e \notin Lookup
      BY DEF Keys, Steps, LaterSteps, Lookup
    <2>3. /\ Head(m.todo) = e /\ Tail(m.todo) = rest
      BY <2>1, <2>2, <1>1, Before
    <2>4. Sound(m.todo)
      BY <2>1, <2>2, <1>1, <1>3, <1>5, SoundBefore
    <2>5. \A S : Has(m.todo, S) <=> e \in S \/ Has(rest, S)
      BY <2>1, <2>2, <1>1, HasBefore
    <2>6. \A S : Setter(S) => (Has(m.todo, S) <=> Has(todo, S))
      <3> TAKE S
      <3>1. Setter(S) => (e \in S <=> s \in S)
        BY <1>5 DEF Setter, Keys
      <3>2. QED BY <3>1, <2>5, <1>2
    <2>7. QED BY <2>2, <2>3, <2>4, <2>6, <1>5 DEF s, rest
  <1>6. CASE s = "userAccount" /\ ua # 0
    <2> DEFINE e == "userAccount"
    <2>1. m.todo = before(e, rest) /\ m.answer = ua
      BY <1>6, BeginTodo DEF s, rest
    <2>2. e \in Steps /\ e \notin {"send", "ownFetch", "victimPositions", "fetch"}
          /\ e \notin Lookup /\ e \notin Keys /\ e = s
      BY <1>6 DEF Keys, Steps, LaterSteps, Lookup
    <2> HIDE DEF e
    <2>3. Head(m.todo) = e /\ Tail(m.todo) = rest
      <3>1. e \in Steps /\ rest \in Seq(Steps)
        BY <2>2, <1>1
      <3>2. Head(before(e, rest)) = e /\ Tail(before(e, rest)) = rest
        BY <3>1, Before
      <3>3. QED BY <3>2, <2>1
    <2>4. Sound(m.todo)
      BY <2>1, <2>2, <1>1, <1>3, <1>6, SoundBefore
    <2>5. \A S : Has(m.todo, S) <=> e \in S \/ Has(rest, S)
      BY <2>1, <2>2, <1>1, HasBefore
    <2>6. QED BY <2>1, <2>2, <2>3, <2>4, <2>5, <1>2, <1>6 DEF s, rest
  <1>7. CASE s = "userAccount" /\ ua = 0
    <2> DEFINE f == "ownFetch"
               v == before(f, rest)
    <2>1. m.asked = getUserAccountPublicKey(pk) /\ \E e \in Lookup : m.todo = before(e, v)
      BY <1>7, BeginTodo DEF s, rest
    <2>2. PICK e \in Lookup : m.todo = before(e, v)
      BY <2>1
    <2>3. e \in Steps /\ e \notin Keys /\ e # "userAccount" /\ f \in Steps /\ f = "ownFetch"
      BY DEF Keys, Steps, LaterSteps, Lookup
    <2> HIDE DEF f
    <2>4. v \in Seq(Steps)
      BY <2>3, <1>1, Before
    <2>5. Sound(m.todo)
      BY <2>2, <2>3, <1>1, <1>3, <1>7, SoundLookup
    <2>6. \A S : Has(v, S) <=> f \in S \/ Has(rest, S)
      BY <2>3, <1>1, HasBefore
    <2> HIDE DEF v
    <2>7. Head(m.todo) = e /\ Tail(m.todo) = v
      BY <2>2, <2>3, <2>4, Before
    <2>8. \A S : Has(m.todo, S) <=> e \in S \/ Has(v, S)
      BY <2>2, <2>3, <2>4, HasBefore
    <2>9. \A S : Setter(S) => (Has(m.todo, S) <=> Has(todo, S))
      <3> TAKE S
      <3>1. Setter(S) => e \notin S /\ (f \in S <=> s \in S)
        BY <2>3, <1>7 DEF Setter, Lookup
      <3>2. QED BY <3>1, <2>6, <2>8, <1>2
    <2>10. \A S : "ownFetch" \notin S => (Has(Tail(m.todo), S) <=> Has(rest, S))
      BY <2>3, <2>6, <2>7
    <2>11. QED BY <2>1, <2>3, <2>5, <2>7, <2>9, <2>10 DEF rest
  <1>8. QED BY <1>4, <1>5, <1>6, <1>7

LEMMA ResumedFields ==
    ASSUME NEW k, DOMAIN k = CallFields, NEW j, j = resumed(k), NEW s, s = Head(k.todo)
    PROVE  /\ j.positions = IF s \in OwnPositions \cup {"victim"} THEN k.answer ELSE k.positions
           /\ j.authority = IF s = "state" THEN wallet ELSE k.authority
           /\ j.sender = IF s \in Sending THEN wallet ELSE k.sender
           /\ j.creator = k.creator /\ j.accounts = k.accounts /\ j.oracle = k.oracle
           /\ j.clear = k.clear
  BY DEF resumed, CallFields, OwnPositions, Sending

LEMMA Setters ==
    /\ Setter(Keys) /\ Setter(OwnPositions) /\ Setter({"victim"}) /\ Setter({"pda"})
    /\ Setter(Sending) /\ Setter({"state"}) /\ Setter({"victim", "victimPositions"})
    /\ Setter({"check"})
  BY DEF Setter, Keys, OwnPositions, Sending

\* The steps that remain suit the instruction as well.
LEMMA SuitedTail ==
    ASSUME NEW X, NEW t \in Seq(X), t # <<>>, NEW ix, Suited(ix, t)
    PROVE  Suited(ix, Tail(t))
  BY HasTail DEF Suited

LEMMA SuitedBegun ==
    ASSUME NEW k, DOMAIN k = CallFields, NEW todo \in Seq(LaterSteps), todo # <<>>,
           todo[Len(todo)] = "send", Sound(todo), NEW pk, NEW ua, NEW m, m = begin(k, todo, pk, ua),
           NEW ix, Suited(ix, todo)
    PROVE  Sound(m.todo) /\ Suited(ix, m.todo)
  <1>1. Sound(m.todo) /\ \A S : Setter(S) => (Has(m.todo, S) <=> Has(todo, S))
    BY BeginSteps
  <1>2. QED BY <1>1, Setters DEF Suited

\* The answer to the step of an undisturbed call is the right one.
LEMMA KnownResumed ==
    ASSUME NEW k, DOMAIN k = CallFields, NEW t \in Seq(Steps), t = k.todo, t # <<>>,
           NEW rest, rest = Tail(t), k.caller = wallet, Suited(k.ix, t), Known(k, t, rest),
           Pending(k), Head(t) \in Asking => k.answer # Unanswered, NEW j, j = resumed(k)
    PROVE  Known(j, rest, rest)
  <1> DEFINE s == Head(t)
  <1>1. /\ j.ix = k.ix /\ j.caller = k.caller /\ j.arg = k.arg
        /\ j.user = IF s \in Keys THEN k.asked ELSE k.user
        /\ j.created = IF s = "pda" THEN k.asked ELSE k.created
    BY ResumedCall
  <1>2. /\ j.positions = IF s \in OwnPositions \cup {"victim"} THEN k.answer ELSE k.positions
        /\ j.authority = IF s = "state" THEN wallet ELSE k.authority
        /\ j.sender = IF s \in Sending THEN wallet ELSE k.sender
        /\ j.creator = k.creator /\ j.accounts = k.accounts /\ j.oracle = k.oracle
    BY ResumedFields
  <1>3. \A S : Has(t, S) <=> s \in S \/ Has(rest, S)
    BY HasTail
  <1>4. /\ s \in Keys \cup {"pda"} => k.asked = k.caller
        /\ s \in OwnPositions => k.answer = users[k.caller]
        /\ s = "victim" => k.answer = users[k.arg]
    BY DEF Pending, OwnPositions, Asking
  <1>5. /\ s \in OwnPositions => k.ix \in OwnUser
        /\ s = "victim" => k.ix = "Liquidate"
    <2>1. /\ Has(t, OwnPositions) => k.ix \in OwnUser
          /\ Has(t, {"victim", "victimPositions"}) => k.ix = "Liquidate"
      BY DEF Suited
    <2>2. QED BY <2>1, <1>3
  <1> HIDE DEF s
  <1>6. k.ix \in OwnUser \cup {"Liquidate", "NewUserDeposit"} => j.user = j.caller \/ Has(rest, Keys)
    BY <1>1, <1>3, <1>4 DEF Known
  <1>7. k.ix \in OwnUser => j.positions = users[j.caller] \/ Has(rest, OwnPositions)
    <2>1. k.ix \in OwnUser => k.positions = users[k.caller] \/ Has(t, OwnPositions)
      BY DEF Known
    <2>2. k.ix \in OwnUser => s # "victim"
      BY <1>5 DEF OwnUser
    <2>3. QED BY <2>1, <2>2, <1>1, <1>2, <1>3, <1>4
  <1>8. k.ix \in {"Liquidate", "SettleFunding"} =>
           j.positions = users[j.arg] \/ Has(rest, {"victim"})
    <2>1. k.ix \in {"Liquidate", "SettleFunding"} =>
             k.positions = users[k.arg] \/ Has(t, {"victim"})
      BY DEF Known
    <2>2. k.ix \in {"Liquidate", "SettleFunding"} => s \notin OwnPositions
      BY <1>5 DEF OwnUser
    <2>3. QED BY <2>1, <2>2, <1>1, <1>2, <1>3, <1>4
  <1>9. k.ix \in Creating => j.created = j.caller \/ Has(rest, {"pda"})
    BY <1>1, <1>3, <1>4 DEF Known
  <1>10. k.ix \in Creating => j.creator = j.caller \/ Has(rest, {"new"})
    BY <1>1, <1>2 DEF Known
  <1>11. j.sender = j.caller \/ Has(rest, Sending)
    BY <1>1, <1>2, <1>3 DEF Known
  <1>12. \/ j.authority = j.caller \/ Has(rest, {"state"}) \/ Has(rest, Naming)
         \/ k.ix \in {"NewUser", "UpdateFundingRate", "SettleFunding"}
    BY <1>1, <1>2, <1>3 DEF Known
  <1>13. {j.authority, j.creator} \subseteq {j.caller, Nobody}
    BY <1>1, <1>2 DEF Known
  <1>14. IF k.ix \in DOMAIN named THEN j.accounts = accounts_of(k.ix) \/ Has(rest, Copying)
         ELSE DOMAIN j.accounts = {}
    BY <1>2 DEF Known
  <1>15. k.ix \in NeedsOracle \ {"UpdateFundingRate"} => j.oracle = market \/ Has(rest, Copying)
    BY <1>2 DEF Known
  <1>16. QED BY <1>1, <1>6, <1>7, <1>8, <1>9, <1>10, <1>11, <1>12, <1>13, <1>14, <1>15 DEF Known

\* A step that an undisturbed call begins reads what is there, and asks for
\* the right account.
LEMMA KnownBegun ==
    ASSUME NEW j, DOMAIN j = CallFields, NEW t \in Seq(LaterSteps), t # <<>>, t[Len(t)] = "send",
           Sound(t), Suited(j.ix, t), Known(j, t, t), j.caller = wallet,
           NEW pk \in {NotCached, wallet}, NEW ua \in {0, users[wallet]},
           Head(t) = "ownFetch" => j.asked = wallet, NEW m, m = begin(j, t, pk, ua)
    PROVE  /\ Known(m, m.todo, Tail(m.todo)) /\ Pending(m)
           /\ Head(m.todo) \in Lookup \cup {"ownFetch"} => m.asked = wallet
           /\ Head(m.todo) = "ownFetch" => m.answer = Unanswered
  <1> DEFINE s == Head(t)
  <1>1. /\ SameCall(j, m) /\ m.positions = j.positions /\ m.sender = j.sender
        /\ m.creator = IF s = "new" THEN wallet ELSE j.creator
        /\ m.authority = IF s \in Naming THEN wallet ELSE j.authority
        /\ m.accounts = IF s \in Copying THEN accounts_of(j.ix) ELSE j.accounts
        /\ m.oracle = IF s \in Copying /\ j.ix \in NeedsOracle \ {"UpdateFundingRate"}
                      THEN market ELSE j.oracle
        /\ s = "key" => m.asked = getUserAccountPublicKey(pk)
        /\ s = "pda" => m.asked = wallet
        /\ s = "fetch" => m.asked = j.user
        /\ s = "victim" => m.asked = j.arg
        /\ s = "ownFetch" => m.asked = j.asked
        /\ s \in Asking => m.answer = Unanswered
    BY BeginFields
  <1>2. /\ \A S : Setter(S) => (Has(m.todo, S) <=> Has(t, S))
        /\ \A S : "ownFetch" \notin S => (Has(Tail(m.todo), S) <=> Has(Tail(t), S))
        /\ Head(m.todo) = "userAccount" => Head(t) = "userAccount" /\ ua # 0 /\ m.answer = ua
        /\ Head(m.todo) \in Lookup => m.asked = getUserAccountPublicKey(pk)
        /\ Head(m.todo) \in Keys => Head(t) = "key"
        /\ Head(m.todo) \notin Keys \cup Lookup => Head(m.todo) = Head(t)
    BY BeginSteps
  <1>3. /\ Has(m.todo, Keys) <=> Has(t, Keys)
        /\ Has(m.todo, OwnPositions) <=> Has(t, OwnPositions)
        /\ Has(m.todo, {"victim"}) <=> Has(t, {"victim"})
        /\ Has(m.todo, {"pda"}) <=> Has(t, {"pda"})
        /\ Has(m.todo, Sending) <=> Has(t, Sending)
        /\ Has(m.todo, {"state"}) <=> Has(t, {"state"})
    BY <1>2, Setters
  <1>4. /\ s = "new" \/ (Has(Tail(m.todo), {"new"}) <=> Has(t, {"new"}))
        /\ s \in Naming \/ (Has(Tail(m.todo), Naming) <=> Has(t, Naming))
        /\ s \in Copying \/ (Has(Tail(m.todo), Copying) <=> Has(t, Copying))
    <2>1. \A S : Has(t, S) <=> s \in S \/ Has(Tail(t), S)
      BY HasTail
    <2>2. "ownFetch" \notin {"new"} /\ "ownFetch" \notin Naming /\ "ownFetch" \notin Copying
      BY DEF Naming, Copying
    <2>3. QED BY <2>1, <2>2, <1>2
  <1>5. /\ m.ix = j.ix /\ m.caller = j.caller /\ m.arg = j.arg /\ m.user = j.user
        /\ m.created = j.created
    BY <1>1 DEF SameCall
  <1>6. getUserAccountPublicKey(pk) = wallet
    BY DEF getUserAccountPublicKey
  <1>7. s = "fetch" => m.asked = m.caller
    <2>1. SUFFICES ASSUME s = "fetch" PROVE j.user = j.caller
      BY <1>1, <1>5
    <2>2. ~Has(t, Keys)
      BY <2>1, SoundTail
    <2>3. Has(t, OwnPositions)
      BY <2>1, HasTail DEF OwnPositions
    <2>4. j.ix \in OwnUser
      BY <2>3 DEF Suited
    <2>5. QED BY <2>2, <2>4 DEF Known
  <1> HIDE DEF s
  <1>8. Known(m, m.todo, Tail(m.todo))
    <2>1. /\ m.ix \in OwnUser \cup {"Liquidate", "NewUserDeposit"} =>
                m.user = m.caller \/ Has(m.todo, Keys)
          /\ m.ix \in OwnUser => m.positions = users[m.caller] \/ Has(m.todo, OwnPositions)
          /\ m.ix \in {"Liquidate", "SettleFunding"} =>
                m.positions = users[m.arg] \/ Has(m.todo, {"victim"})
          /\ m.ix \in Creating => m.created = m.caller \/ Has(m.todo, {"pda"})
          /\ m.sender = m.caller \/ Has(m.todo, Sending)
      BY <1>1, <1>3, <1>5 DEF Known
    <2>2. m.ix \in Creating => m.creator = m.caller \/ Has(Tail(m.todo), {"new"})
      BY <1>1, <1>4, <1>5 DEF Known
    <2>3. \/ m.authority = m.caller \/ Has(m.todo, {"state"}) \/ Has(Tail(m.todo), Naming)
          \/ m.ix \in {"NewUser", "UpdateFundingRate", "SettleFunding"}
      BY <1>1, <1>3, <1>4, <1>5 DEF Known
    <2>4. {m.authority, m.creator} \subseteq {m.caller, Nobody}
      BY <1>1, <1>5 DEF Known
    <2>5. IF m.ix \in DOMAIN named
          THEN m.accounts = accounts_of(m.ix) \/ Has(Tail(m.todo), Copying)
          ELSE DOMAIN m.accounts = {}
      <3>1. CASE j.ix \in DOMAIN named
        BY <3>1, <1>1, <1>4, <1>5 DEF Known
      <3>2. CASE j.ix \notin DOMAIN named
        <4>1. DOMAIN accounts_of(j.ix) = {} /\ DOMAIN j.accounts = {}
          BY <3>2 DEF accounts_of, Known
        <4>2. QED BY <4>1, <3>2, <1>1, <1>5
      <3>3. QED BY <3>1, <3>2
    <2>6. m.ix \in NeedsOracle \ {"UpdateFundingRate"} =>
             m.oracle = market \/ Has(Tail(m.todo), Copying)
      BY <1>1, <1>4, <1>5 DEF Known
    <2>7. QED BY <2>1, <2>2, <2>3, <2>4, <2>5, <2>6 DEF Known
  <1>9. /\ Head(m.todo) \in Lookup \cup {"ownFetch"} => m.asked = wallet
        /\ Head(m.todo) = "ownFetch" => m.answer = Unanswered
    BY <1>1, <1>2, <1>6 DEF s, Keys, Lookup, Asking
  <1>10. Pending(m)
    <2> DEFINE h == Head(m.todo)
    <2>1. h \in Keys \cup {"pda", "ownKey", "ownDerive", "ownFetch", "fetch"} => m.asked = m.caller
      BY <1>1, <1>2, <1>5, <1>6, <1>7, <1>9 DEF s, Keys, Lookup
    <2>2. h = "userAccount" => m.answer = users[m.caller]
      BY <1>2, <1>5
    <2>3. h \in {"ownFetch", "fetch", "victim", "victimPositions", "check"} =>
             h = s /\ m.answer = Unanswered
      BY <1>1, <1>2 DEF s, Keys, Lookup, Asking
    <2>4. h = "victim" => m.asked = m.arg
      BY <2>3, <1>1, <1>5
    <2>5. QED BY <2>1, <2>2, <2>3, <2>4 DEF Pending
  <1>11. QED BY <1>8, <1>9, <1>10

\* A lookup that begins asks for the account of the wallet.
LEMMA FetchBegun ==
    ASSUME NEW j, DOMAIN j = CallFields, NEW t \in Seq(LaterSteps), t # <<>>, t[Len(t)] = "send",
           Sound(t), NEW pk \in {NotCached, wallet}, NEW ua,
           Head(t) = "ownFetch" => j.asked = wallet, NEW m, m = begin(j, t, pk, ua)
    PROVE  OwnFetch(m)
  <1>1. /\ Head(m.todo) \in Lookup => m.asked = getUserAccountPublicKey(pk)
        /\ Head(m.todo) \notin Keys \cup Lookup => Head(m.todo) = Head(t)
    BY BeginSteps
  <1>2. /\ Head(t) = "ownFetch" => m.asked = j.asked
        /\ Head(t) \in Asking => m.answer = Unanswered
    BY BeginFields
  <1>3. getUserAccountPublicKey(pk) = wallet
    BY DEF getUserAccountPublicKey
  <1>4. QED BY <1>1, <1>2, <1>3 DEF OwnFetch, Keys, Lookup, Asking

------------------------------------------------------------------------------
(* Every action preserves the invariant of the undisturbed calls.          *)

LEMMA RightNext ==
    ASSUME NEW c \in Callers, NEW m, calls'[c] = m, UNCHANGED <<house, oracle, users, wallet>>,
           m.ix # "InitializeHistory" => UNCHANGED <<state, market>>, Right(m)
    PROVE  Right(calls[c])'
  <1>1. Pending(calls[c])'
    BY DEF Right, Pending, Exists
  <1>2. Known(calls[c], calls[c].todo, Tail(calls[c].todo))'
    <2>1. Known(m, m.todo, Tail(m.todo))
      BY DEF Right
    <2>2. CASE m.ix # "InitializeHistory"
      <3>1. accounts_of(m.ix)' = accounts_of(m.ix)
        BY <2>2 DEF accounts_of
      <3>2. QED BY <2>1, <2>2, <3>1 DEF Known, accounts_of
    <2>3. CASE m.ix = "InitializeHistory"
      <3>1. m.ix \notin DOMAIN named /\ m.ix \notin NeedsOracle
        BY <2>3 DEF named, NeedsOracle
      <3>2. QED BY <2>1, <3>1 DEF Known
    <2>4. QED BY <2>2, <2>3
  <1>3. QED BY <1>1, <1>2 DEF Right, Exists

LEMMA OwnFetchNext ==
    ASSUME NEW c \in Callers, NEW m, calls'[c] = m, wallet' = wallet, OwnFetch(m),
           users'[wallet] = users[wallet] \/ users[wallet] = 0
    PROVE  OwnFetch(calls[c])'
  BY DEF OwnFetch

\* A step of one call that leaves the ledger, the wallet and the copies alone.
LEMMA OneUndisturbed ==
    ASSUME ClientInv, UndisturbedInv, NEW c \in Callers, NEW m, calls' = [calls EXCEPT ![c] = m],
           UNCHANGED <<ledger, wallet, copies, raced>>, StepsOK(m), NeedsHouse(m) => Exists(house),
           ~raced /\ CacheRight => userAccount' \in {0, users[wallet]} /\ OwnFetch(m),
           m.todo # <<>> /\ m.clear => ~raced /\ CacheRight /\ Right(m)
    PROVE  UndisturbedInv'
  <1>1. \A d \in Callers : calls'[d] = IF d = c THEN m ELSE calls[d]
    BY DEF ClientInv
  <1>2. UNCHANGED <<house, oracle, users, deleted, wallet, state, market, raced>>
    BY DEF ledger, copies
  <1>3. ASSUME ~raced, CacheRight PROVE CacheRight'
    <2>1. \A d \in Callers : OwnFetch(calls[d])'
      <3> TAKE d \in Callers
      <3>1. PICK k : k = calls'[d]
        OBVIOUS
      <3>2. OwnFetch(k)
        BY <3>1, <1>1, <1>3 DEF CacheRight
      <3>3. QED BY <3>1, <3>2, <1>2, OwnFetchNext
    <2>2. QED BY <2>1, <1>2, <1>3 DEF CacheRight
  <1>4. ASSUME NEW d \in Callers, calls'[d].todo # <<>>, calls'[d].clear
        PROVE  ~raced /\ CacheRight' /\ Right(calls[d])'
    <2>1. PICK k : k = calls'[d]
      OBVIOUS
    <2>2. ~raced /\ CacheRight /\ Right(k)
      <3>1. CASE d = c
        BY <3>1, <2>1, <1>1, <1>4
      <3>2. CASE d # c
        BY <3>2, <2>1, <1>1, <1>4 DEF UndisturbedInv
      <3>3. QED BY <3>1, <3>2
    <2>3. Right(calls[d])'
      BY <2>1, <2>2, <1>2, RightNext
    <2>4. QED BY <2>2, <2>3, <1>3
  <1>5. \A d \in Callers : StepsOK(calls[d])'
    <2> TAKE d \in Callers
    <2>1. PICK k : k = calls'[d]
      OBVIOUS
    <2>2. StepsOK(k)
      BY <2>1, <1>1 DEF UndisturbedInv
    <2>3. QED BY <2>1, <2>2 DEF StepsOK
  <1>6. ~raced' /\ wallet' \notin deleted' => CacheRight'
    BY <1>2, <1>3 DEF UndisturbedInv
  <1>7. /\ (users = [w \in Wallets |-> users[w]])' /\ (Exists(house) => house.refs["markets"] # 0)'
        /\ (Exists(state) => Exists(house))'
    BY <1>2 DEF UndisturbedInv, Exists
  <1>8. \A d \in Callers : (NeedsHouse(calls[d]) => Exists(house))'
    BY <1>1, <1>2 DEF UndisturbedInv, NeedsHouse, Exists
  <1>9. QED BY <1>2, <1>4, <1>5, <1>6, <1>7, <1>8 DEF UndisturbedInv

LEMMA IdleUndisturbed ==
    StepsOK(Idle) /\ OwnFetch(Idle) /\ Idle.todo = <<>> /\ ~NeedsHouse(Idle)
  BY DEF Idle, StepsOK, OwnFetch, NeedsHouse

\* A method that returns or throws.
LEMMA EndUndisturbed ==
    ASSUME ClientInv, UndisturbedInv, NEW c \in Callers, end(c),
           UNCHANGED <<ledger, wallet, copies, raced>>,
           ~raced /\ CacheRight => userAccount' \in {0, users[wallet]}
    PROVE  UndisturbedInv'
  <1>1. calls' = [calls EXCEPT ![c] = Idle]
    BY DEF end
  <1> DEFINE m == Idle
  <1>2. calls' = [calls EXCEPT ![c] = m] /\ StepsOK(m) /\ OwnFetch(m) /\ m.todo = <<>>
        /\ ~NeedsHouse(m)
    BY <1>1, IdleUndisturbed
  <1> HIDE DEF m
  <1>3. QED BY <1>2, OneUndisturbed

\* A lookup caches the account of the wallet.
LEMMA CachedAccount ==
    ASSUME ClientInv, NEW c \in Callers, CacheRight, calls[c].todo # <<>>,
           Head(calls[c].todo) \in Asking => calls[c].answer # Unanswered,
           userAccount' = IF Head(calls[c].todo) = "ownFetch" /\ calls[c].answer # 0
                          THEN calls[c].answer ELSE userAccount
    PROVE  userAccount' \in {0, users[wallet]}
  BY DEF CacheRight, OwnFetch, Asking

LEMMA ResumeUndisturbed ==
    ASSUME ClientInv, UndisturbedInv, NEW c \in Callers, Resume(c)
    PROVE  UndisturbedInv'
  <1> DEFINE k == calls[c]
             s == Head(k.todo)
             rest == Tail(k.todo)
             pk == userAccountPublicKey'
             ua == userAccount'
             j == resumed(k)
             m == begin(j, rest, pk, ua)
  <1>1. /\ k.todo # <<>> /\ s # "send"
        /\ s \in Asking => k.answer # Unanswered
        /\ UNCHANGED <<ledger, wallet, copies, raced>>
        /\ pk = IF s \in {"derive", "ownDerive"} THEN k.asked ELSE userAccountPublicKey
        /\ ua = IF s = "ownFetch" /\ k.answer # 0 THEN k.answer ELSE userAccount
        /\ end(c) \/ calls' = [calls EXCEPT ![c] = m]
    BY DEF Resume
  <1>2. ~raced => pk \in {NotCached, wallet}
    BY <1>1, CachedKey
  <1>3. CacheRight => ua \in {0, users[wallet]}
    BY <1>1, CachedAccount
  <1>4. CASE end(c)
    BY <1>1, <1>3, <1>4, EndUndisturbed
  <1>5. CASE calls' = [calls EXCEPT ![c] = m]
    <2>1. CallOK(k) /\ StepsOK(k) /\ (CacheRight => OwnFetch(k))
      BY DEF ClientInv, UndisturbedInv, CacheRight
    <2>2. DOMAIN k = CallFields /\ Planned(k.todo) /\ k.todo \in Seq(Steps)
      BY <2>1, <1>1 DEF CallOK, Planned
    <2>3. rest \in Seq(LaterSteps) /\ rest # <<>> /\ rest[Len(rest)] = "send"
      BY <1>1, <2>2, NextStep DEF Planned
    <2>4. /\ DOMAIN j = CallFields /\ j.ix = k.ix /\ j.caller = k.caller /\ j.key = k.key
          /\ j.asked = k.asked
      BY <2>2, ResumedCall
    <2>5. j.clear = k.clear
      BY <2>2, ResumedFields
    <2>6. /\ Sound(rest) /\ Suited(k.ix, rest)
          /\ Head(rest) = "ownFetch" => s \in Lookup
      <3>1. /\ Sound(rest)
            /\ Head(k.todo) \notin Lookup => ~Has(Tail(k.todo), {"ownFetch"})
        BY <1>1, <2>1, <2>2, SoundTail DEF StepsOK
      <3>2. Suited(k.ix, rest)
        BY <1>1, <2>1, <2>2, SuitedTail DEF StepsOK
      <3>3. Head(rest) = "ownFetch" => Has(rest, {"ownFetch"})
        BY <2>3, HasTail
      <3>4. QED BY <3>1, <3>2, <3>3
    <2>7. pk = userAccountPublicKey' /\ ua = userAccount' /\ k = calls[c] /\ rest = Tail(k.todo)
          /\ s = Head(k.todo) /\ j = resumed(k) /\ m = begin(j, rest, pk, ua)
      OBVIOUS
    <2> HIDE DEF pk, ua, k, s, rest, j, m
    <2>8. Sound(m.todo) /\ Suited(k.ix, m.todo)
      BY <2>3, <2>4, <2>6, <2>7, SuitedBegun
    <2>9. m.ix = k.ix /\ m.key = k.key /\ m.caller = k.caller /\ m.clear = k.clear
      <3>1. m = begin(j, rest, pk, ua) /\ DOMAIN j = CallFields
        BY <2>4, <2>7
      <3>2. SameCall(j, m) /\ SameClear(j, m)
        BY <3>1, <2>3, BeginSame
      <3>3. QED BY <3>2, <2>4, <2>5 DEF SameCall, SameClear
    <2>10. StepsOK(m)
      BY <2>1, <2>8, <2>9, <1>1 DEF StepsOK
    <2>11. CacheRight => (Head(rest) = "ownFetch" => j.asked = wallet)
      BY <2>1, <2>4, <2>6, <2>7, <1>1 DEF OwnFetch
    <2>12. ASSUME ~raced, CacheRight PROVE OwnFetch(m)
      BY <2>3, <2>4, <2>6, <2>7, <2>11, <2>12, <1>2, FetchBegun
    <2>13. ASSUME m.clear PROVE ~raced /\ CacheRight /\ Right(m)
      <3>1. ~raced /\ CacheRight /\ Right(k)
        BY <2>7, <2>9, <2>13, <1>1 DEF UndisturbedInv
      <3>2. Known(j, rest, rest)
        <4> DEFINE t == k.todo
        <4>1. /\ t \in Seq(Steps) /\ t # <<>> /\ rest = Tail(t) /\ k.caller = wallet
              /\ Suited(k.ix, t) /\ Known(k, t, rest) /\ Pending(k)
              /\ (Head(t) \in Asking => k.answer # Unanswered)
          BY <3>1, <2>1, <2>2, <2>7, <1>1 DEF StepsOK, Right
        <4> HIDE DEF t
        <4>2. t = k.todo
          BY DEF t
        <4>3. QED BY <4>1, <4>2, <2>2, <2>7, KnownResumed
      <3>3. Known(m, m.todo, Tail(m.todo)) /\ Pending(m)
        <4>1. j.caller = wallet /\ Suited(j.ix, rest)
          BY <3>1, <2>4, <2>6 DEF Right
        <4>2. pk \in {NotCached, wallet} /\ ua \in {0, users[wallet]}
          BY <3>1, <1>2, <1>3
        <4>3. /\ DOMAIN j = CallFields /\ Sound(rest)
              /\ Head(rest) = "ownFetch" => j.asked = wallet
              /\ m = begin(j, rest, pk, ua)
          BY <3>1, <2>4, <2>6, <2>7, <2>11
        <4>4. QED BY <4>1, <4>2, <4>3, <3>2, <2>3, KnownBegun
      <3>4. QED BY <3>1, <3>3, <2>9 DEF Right
    <2>14. NeedsHouse(m) => Exists(house)
      BY <2>7, <2>9, <1>1 DEF UndisturbedInv, NeedsHouse
    <2>15. QED BY <2>7, <2>10, <2>12, <2>13, <2>14, <1>1, <1>3, <1>5, OneUndisturbed
  <1>6. QED BY <1>1, <1>4, <1>5

\* An undisturbed call gets the answers that its transaction needs.
LEMMA AnswerUndisturbed ==
    ASSUME ClientInv, UndisturbedInv, NEW c \in Callers, Answer(c)
    PROVE  UndisturbedInv'
  <1> DEFINE k == calls[c]
             s == Head(k.todo)
             a == CASE s = "check" -> IF Exists(house) THEN 1 ELSE 0
                    [] s = "victimPositions" -> IF users[k.arg] = k.positions THEN 1 ELSE 0
                    [] OTHER -> users[k.asked]
             m == [k EXCEPT !.answer = a]
  <1>1. /\ k.todo # <<>> /\ s \in Asking
        /\ UNCHANGED <<ledger, wallet, userAccount, copies, raced>>
        /\ calls' = [calls EXCEPT ![c].answer = a] \/ end(c)
    BY DEF Answer, caches
  <1>2. CacheRight => userAccount' \in {0, users[wallet]}
    BY <1>1 DEF CacheRight
  <1>3. CASE end(c)
    BY <1>1, <1>2, <1>3, EndUndisturbed
  <1>4. CASE calls' = [calls EXCEPT ![c].answer = a]
    <2>1. CallOK(k) /\ StepsOK(k) /\ (CacheRight => OwnFetch(k)) /\ DOMAIN k = CallFields
      BY DEF ClientInv, UndisturbedInv, CacheRight, CallOK
    <2>2. /\ m.todo = k.todo /\ m.ix = k.ix /\ m.key = k.key /\ m.caller = k.caller
          /\ m.user = k.user /\ m.positions = k.positions /\ m.arg = k.arg
          /\ m.created = k.created /\ m.creator = k.creator /\ m.sender = k.sender
          /\ m.authority = k.authority /\ m.accounts = k.accounts /\ m.oracle = k.oracle
          /\ m.asked = k.asked /\ m.clear = k.clear /\ m.answer = a
      BY <2>1 DEF CallFields
    <2>3. calls' = [calls EXCEPT ![c] = m]
      BY <1>4
    <2>4. /\ s = "check" => a = IF Exists(house) THEN 1 ELSE 0
          /\ s = "victimPositions" => a = IF users[k.arg] = k.positions THEN 1 ELSE 0
          /\ s \notin {"check", "victimPositions"} => a = users[k.asked]
      OBVIOUS
    <2>5. k = calls[c] /\ s = Head(k.todo)
      OBVIOUS
    <2> HIDE DEF k, s, a, m
    <2>6. StepsOK(m)
      BY <2>1, <2>2 DEF StepsOK
    <2>7. CacheRight => OwnFetch(m)
      BY <2>1, <2>2, <2>4, <2>5 DEF OwnFetch
    <2>8. ASSUME m.clear PROVE ~raced /\ CacheRight /\ Right(m)
      <3>1. ~raced /\ CacheRight /\ Right(k)
        BY <2>2, <2>5, <2>8, <1>1 DEF UndisturbedInv
      <3>2. Known(k, k.todo, Tail(k.todo)) /\ Pending(k)
        BY <3>1 DEF Right
      <3>3. Known(m, m.todo, Tail(m.todo))
        BY <3>2, <2>2 DEF Known
      <3>4. s = "victimPositions" => k.positions = users[k.arg]
        <4>1. SUFFICES ASSUME s = "victimPositions" PROVE k.positions = users[k.arg]
          OBVIOUS
        <4>2. k.todo \in Seq(Steps) /\ Sound(k.todo) /\ Suited(k.ix, k.todo)
          BY <2>1, <1>1 DEF CallOK, Planned, StepsOK
        <4>3. ~Has(k.todo, {"victim"})
          BY <4>1, <4>2, <2>5, <1>1, SoundTail
        <4>4. Has(k.todo, {"victim", "victimPositions"})
          BY <4>1, <4>2, <2>5, <1>1, HasTail
        <4>5. k.ix = "Liquidate"
          BY <4>2, <4>4 DEF Suited
        <4>6. QED BY <4>3, <4>5, <3>2 DEF Known
      <3>5. Pending(m)
        <4>1. s # "userAccount"
          BY <1>1 DEF Asking
        <4>2. QED BY <4>1, <3>2, <3>4, <2>2, <2>4, <2>5 DEF Pending
      <3>6. QED BY <3>1, <3>3, <3>5, <2>2 DEF Right
    <2>9. NeedsHouse(m) => Exists(house)
      BY <2>2, <2>5 DEF UndisturbedInv, NeedsHouse
    <2>10. QED BY <2>3, <2>6, <2>7, <2>8, <2>9, <1>1, <1>2, OneUndisturbed
  <1>5. QED BY <1>1, <1>3, <1>4

\* A change of wallet disturbs every call, and takes no lookup with it unless
\* it is noted in raced.
LEMMA SwitchUndisturbed ==
    ASSUME ClientInv, UndisturbedInv, SwitchWallet
    PROVE  UndisturbedInv'
  <1>1. /\ userAccount' = 0
        /\ raced' = (raced \/ \E c \in Callers : LookingUp(calls[c]))
        /\ calls' = [c \in Callers |-> [calls[c] EXCEPT !.clear = FALSE]]
        /\ UNCHANGED <<house, users, deleted, state>>
    BY DEF SwitchWallet, updateWallet, ledger, copies
  <1>2. \A c \in Callers : /\ calls'[c].todo = calls[c].todo /\ calls'[c].ix = calls[c].ix
                           /\ calls'[c].key = calls[c].key
                           /\ ~calls'[c].clear
    <2> TAKE c \in Callers
    <2>1. DOMAIN calls[c] = CallFields
      BY DEF ClientInv, CallOK
    <2>2. calls'[c] = [calls[c] EXCEPT !.clear = FALSE]
      BY <1>1
    <2>3. QED BY <2>1, <2>2 DEF CallFields
  <1>3. \A c \in Callers : StepsOK(calls[c])'
    BY <1>2 DEF UndisturbedInv, StepsOK
  <1>4. ASSUME ~raced' PROVE CacheRight'
    <2>1. \A c \in Callers : ~LookingUp(calls[c])
      BY <1>1, <1>4
    <2>2. \A c \in Callers : OwnFetch(calls[c])'
      BY <2>1, <1>2 DEF OwnFetch, LookingUp, Lookup
    <2>3. QED BY <2>2, <1>1 DEF CacheRight
  <1>5. /\ (users = [w \in Wallets |-> users[w]])' /\ (Exists(house) => house.refs["markets"] # 0)'
        /\ (Exists(state) => Exists(house))'
        /\ \A c \in Callers : (NeedsHouse(calls[c]) => Exists(house))'
    BY <1>1, <1>2 DEF UndisturbedInv, Exists, NeedsHouse
  <1>6. QED BY <1>2, <1>3, <1>4, <1>5 DEF UndisturbedInv

\* The copies catch up with the ledger, or nothing happens.
LEMMA RefreshUndisturbed ==
    ASSUME ClientInv, UndisturbedInv, Refresh \/ UNCHANGED vars
    PROVE  UndisturbedInv'
  <1>1. /\ UNCHANGED <<house, oracle, users, deleted, wallet, raced, calls, userAccount>>
        /\ state' \in {state, house} /\ market' \in {market, oracle}
    BY DEF Refresh, vars, ledger, caches, copies
  <1>2. CacheRight => CacheRight'
    BY <1>1 DEF CacheRight, OwnFetch
  <1>3. ASSUME NEW c \in Callers, calls'[c].todo # <<>>, calls'[c].clear
        PROVE  ~raced' /\ CacheRight' /\ Right(calls[c])'
    <2>1. PICK k : k = calls'[c]
      OBVIOUS
    <2>2. ~raced /\ CacheRight /\ Right(k)
      BY <2>1, <1>1, <1>3 DEF UndisturbedInv
    <2>3. k.ix # "InitializeHistory" => UNCHANGED <<state, market>>
      BY <2>2, <1>1 DEF Right
    <2>4. Right(calls[c])'
      BY <2>1, <2>2, <2>3, <1>1, RightNext
    <2>5. QED BY <2>2, <2>4, <1>1, <1>2
  <1>4. \A c \in Callers : StepsOK(calls[c])'
    BY <1>1 DEF UndisturbedInv, StepsOK
  <1>5. /\ (users = [w \in Wallets |-> users[w]])' /\ (Exists(house) => house.refs["markets"] # 0)'
        /\ (Exists(state) => Exists(house))'
        /\ \A c \in Callers : (NeedsHouse(calls[c]) => Exists(house))'
    BY <1>1 DEF UndisturbedInv, Exists, NeedsHouse
  <1>6. ~raced' /\ wallet' \notin deleted' => CacheRight'
    BY <1>1, <1>2 DEF UndisturbedInv
  <1>7. QED BY <1>3, <1>4, <1>5, <1>6 DEF UndisturbedInv

\* A user account is created where there is none, and deleted on record.
LEMMA UsersStep ==
    ASSUME ClientInv, UndisturbedInv, NEW k, valid(k), users' = users_after(k),
           deleted' = IF k.ix = "DeleteUser" THEN deleted \cup {k.user} ELSE deleted
    PROVE  /\ users' = [w \in Wallets |-> users'[w]]
           /\ deleted \subseteq deleted'
           /\ users'[wallet] = users[wallet] \/ users[wallet] = 0 \/ wallet \in deleted'
  <1>1. wallet \in Wallets /\ users = [w \in Wallets |-> users[w]]
    BY DEF ClientInv, UndisturbedInv
  <1>2. CASE k.ix \in Creating
    <2>1. users' = [users EXCEPT ![k.created] = k.key]
      BY <1>2 DEF users_after, Creating
    <2>2. users[k.created] = 0
      BY <1>2 DEF valid
    <2>3. QED BY <2>1, <2>2, <1>1, <1>2 DEF Creating
  <1>3. CASE k.ix = "DeleteUser"
    <2>1. users' = [users EXCEPT ![k.user] = 0] /\ deleted' = deleted \cup {k.user}
      BY <1>3 DEF users_after, Creating
    <2>2. QED BY <2>1, <1>1
  <1>4. CASE k.ix \notin Creating \cup {"DeleteUser"}
    <2>1. users' = users /\ deleted' = deleted
      BY <1>4 DEF users_after
    <2>2. QED BY <2>1, <1>1
  <1>5. QED BY <1>2, <1>3, <1>4

\* A house keeps its markets account.
LEMMA MarketsStep ==
    ASSUME ClientInv, UndisturbedInv, NEW c \in Callers, NEW k, k = calls[c],
           k.todo # <<>>, Head(k.todo) = "send", valid(k), house' = house_after(k)
    PROVE  (Exists(house) => house.refs["markets"] # 0)'
  <1>1. HouseOK /\ (Exists(house) => house.refs["markets"] # 0) /\ StepsOK(k)
    BY DEF ClientInv, UndisturbedInv
  <1>2. house = [admin |-> house.admin, refs |-> house.refs] /\ house.refs \in [Fields -> Nat]
    BY <1>1 DEF HouseOK
  <1>3. "markets" \in Fields /\ "markets" \notin Histories \cup {"extendedCurveHistory"}
    BY DEF Fields, Histories
  <1>4. CASE k.ix = "Initialize"
    <2>1. house' = [NoHouse EXCEPT !.admin = k.authority, !.refs["markets"] = k.key]
      BY <1>4 DEF house_after
    <2>2. house'.refs["markets"] = k.key
      BY <2>1, <1>3 DEF NoHouse
    <2>3. QED BY <2>2, <1>1, <1>4 DEF StepsOK
  <1>5. CASE k.ix \notin {"Initialize", "UpdateAdmin"}
    <2>1. house'.admin = house.admin /\ house'.refs["markets"] = house.refs["markets"]
      <3>1. CASE k.ix = "InitializeHistory"
        <4>1. house' = [house EXCEPT !.refs = [f \in Fields |->
                           IF f \in Histories \cup {"extendedCurveHistory"}
                           THEN k.key ELSE house.refs[f]]]
          BY <3>1 DEF house_after
        <4>2. QED BY <4>1, <1>2, <1>3
      <3>2. CASE k.ix = "UpdateCurveHistory"
        <4>1. house' = [house EXCEPT !.refs["extendedCurveHistory"] = k.key]
          BY <3>2 DEF house_after
        <4>2. QED BY <4>1, <1>2, <1>3
      <3>3. CASE k.ix \notin {"InitializeHistory", "UpdateCurveHistory"}
        BY <3>3, <1>5 DEF house_after
      <3>4. QED BY <3>1, <3>2, <3>3
    <2>2. QED BY <2>1, <1>1 DEF Exists
  <1>6. CASE k.ix = "UpdateAdmin"
    <2>1. house' = [house EXCEPT !.admin = k.arg]
      BY <1>6 DEF house_after
    <2>2. house'.refs = house.refs
      BY <2>1, <1>2
    <2>3. Exists(house)
      BY <1>6 DEF UndisturbedInv, NeedsHouse
    <2>4. QED BY <2>2, <2>3, <1>1
  <1>7. QED BY <1>4, <1>5, <1>6

\* initialize goes on to its second transaction.
LEMMA InitializedCall ==
    ASSUME NEW k, CallOK(k), NEW pk, NEW ua, NEW m,
           m = begin([k EXCEPT !.ix = "InitializeHistory"], <<"signed", "send">>, pk, ua)
    PROVE  /\ m.ix = "InitializeHistory" /\ m.caller = k.caller /\ m.clear = k.clear
           /\ m.authority = wallet /\ m.creator = k.creator /\ m.accounts = k.accounts
           /\ m.todo = <<"signed", "send">>
           /\ StepsOK(m) /\ OwnFetch(m) /\ Has(m.todo, Sending)
  <1> DEFINE j == [k EXCEPT !.ix = "InitializeHistory"]
             t == <<"signed", "send">>
  <1>1. /\ DOMAIN j = CallFields /\ j.ix = "InitializeHistory" /\ j.caller = k.caller
        /\ j.clear = k.clear /\ j.creator = k.creator /\ j.accounts = k.accounts
    BY DEF CallOK, CallFields
  <1>2. t \in Seq(LaterSteps) /\ t # <<>> /\ Head(t) = "signed"
    BY DEF LaterSteps
  <1>3. /\ Sound(t) /\ Has(t, Sending)
        /\ ~Has(t, OwnPositions) /\ ~Has(t, {"victim", "victimPositions"}) /\ ~Has(t, {"check"})
    <2>1. Len(t) = 2 /\ t[1] = "signed" /\ t[2] = "send"
      OBVIOUS
    <2> HIDE DEF t
    <2>2. QED BY <2>1 DEF Sound, Has, Sending, OwnPositions
  <1>4. m = begin(j, t, pk, ua)
    OBVIOUS
  <1> HIDE DEF j, t
  <1>5. PICK s : s = Head(t)
    OBVIOUS
  <1>6. /\ SameCall(j, m) /\ m.clear = j.clear
        /\ m.creator = IF s = "new" THEN wallet ELSE j.creator
        /\ m.authority = IF s \in Naming THEN wallet ELSE j.authority
        /\ m.accounts = IF s \in Copying THEN accounts_of(j.ix) ELSE j.accounts
    BY <1>1, <1>2, <1>4, <1>5, BeginFields
  <1>7. m.todo = t
    BY <1>1, <1>2, <1>4, BeginTodo
  <1>8. m.ix = "InitializeHistory" /\ m.caller = k.caller
    BY <1>1, <1>6 DEF SameCall
  <1>9. StepsOK(m)
    BY <1>3, <1>7, <1>8 DEF StepsOK, Suited
  <1>10. OwnFetch(m)
    BY <1>2, <1>7 DEF OwnFetch, Lookup
  <1>11. /\ m.creator = k.creator /\ m.authority = wallet /\ m.accounts = k.accounts
         /\ m.clear = k.clear
    BY <1>1, <1>2, <1>5, <1>6 DEF Naming, Copying
  <1>12. QED BY <1>3, <1>7, <1>8, <1>9, <1>10, <1>11 DEF t

\* What a transaction leaves of the calls: the other calls are disturbed when
\* it changes the ledger.
LEMMA CallsAfter ==
    ASSUME ClientInv, NEW c \in Callers, confirmed(c) \/ ended(c)
    PROVE  /\ \/ calls'[c] = Idle
              \/ /\ calls[c].ix = "Initialize"
                 /\ calls'[c] = begin([calls[c] EXCEPT !.ix = "InitializeHistory"],
                                      <<"signed", "send">>, userAccountPublicKey, userAccount)
           /\ \A d \in Callers \ {c} :
                 \/ calls'[d] = [calls[d] EXCEPT !.clear = FALSE]
                 \/ calls'[d] = calls[d] /\ UNCHANGED <<house, oracle, users>>
  <1>1. calls = [d \in Callers |-> calls[d]]
    BY DEF ClientInv
  <1>2. CASE ended(c)
    <2>1. CASE UNCHANGED <<house, oracle, users>>
      <3>1. calls' = [calls EXCEPT ![c] = Idle]
        BY <1>2, <2>1 DEF ended
      <3>2. QED BY <3>1, <2>1, <1>1
    <2>2. CASE ~ UNCHANGED <<house, oracle, users>>
      <3>1. calls' = disturbed([calls EXCEPT ![c] = Idle], c)
        BY <1>2, <2>2 DEF ended
      <3>2. QED BY <3>1, <1>1 DEF disturbed
    <2>3. QED BY <2>1, <2>2
  <1>3. CASE confirmed(c) /\ ~ended(c)
    <2> DEFINE m == begin([calls[c] EXCEPT !.ix = "InitializeHistory"],
                          <<"signed", "send">>, userAccountPublicKey, userAccount)
    <2>1. calls[c].ix = "Initialize" /\ calls' = disturbed([calls EXCEPT ![c] = m], c)
      BY <1>3 DEF confirmed
    <2> HIDE DEF m
    <2>2. calls'[c] = m /\ \A d \in Callers \ {c} : calls'[d] = [calls[d] EXCEPT !.clear = FALSE]
      BY <2>1, <1>1 DEF disturbed
    <2>3. QED BY <2>1, <2>2 DEF m
  <1>4. QED BY <1>2, <1>3

LEMMA SendUndisturbed ==
    ASSUME ClientInv, UndisturbedInv, NEW c \in Callers, Send(c)
    PROVE  UndisturbedInv'
  <1> DEFINE k == calls[c]
  <1>1. /\ k.todo # <<>> /\ Head(k.todo) = "send"
        /\ UNCHANGED <<wallet, userAccountPublicKey, userAccount, copies, raced>>
    BY DEF Send, caches
  <1>2. CASE end(c) /\ UNCHANGED ledger
    <2>1. CacheRight => userAccount' \in {0, users[wallet]}
      BY <1>1 DEF CacheRight
    <2>2. QED BY <2>1, <1>1, <1>2, EndUndisturbed
  <1>3. CASE /\ valid(k)
             /\ house' = house_after(k) /\ oracle' = oracle_after(k) /\ users' = users_after(k)
             /\ deleted' = IF k.ix = "DeleteUser" THEN deleted \cup {k.user} ELSE deleted
             /\ confirmed(c) \/ ended(c)
    <2>1. PICK n : n = calls'[c]
      OBVIOUS
    <2>2. k = calls[c] /\ CallOK(k)
      BY DEF ClientInv
    <2> HIDE DEF k
    <2>3. /\ users' = [w \in Wallets |-> users'[w]]
          /\ deleted \subseteq deleted'
          /\ users'[wallet] = users[wallet] \/ users[wallet] = 0 \/ wallet \in deleted'
      BY <1>3, UsersStep
    <2>4. (Exists(house) => house.refs["markets"] # 0)'
      BY <1>1, <1>3, <2>2, MarketsStep
    <2>5. Exists(house) => Exists(house')
      <3>1. /\ k.ix \in {"Initialize", "InitializeHistory"} => Exists(house')
            /\ k.ix \notin {"Initialize", "InitializeHistory"} => (Exists(house) => Exists(house'))
        BY <1>1, <1>3, <2>2, HouseStep
      <3>2. QED BY <3>1
    <2>6. /\ n = Idle \/ (k.ix = "Initialize" /\ n = begin([k EXCEPT !.ix = "InitializeHistory"],
                              <<"signed", "send">>, userAccountPublicKey, userAccount))
          /\ \A d \in Callers \ {c} :
                \/ calls'[d] = [calls[d] EXCEPT !.clear = FALSE]
                \/ calls'[d] = calls[d] /\ UNCHANGED <<house, oracle, users>>
      BY <1>3, <2>1, <2>2, CallsAfter
    <2>7. /\ StepsOK(n) /\ OwnFetch(n)
          /\ n.todo # <<>> => /\ k.ix = "Initialize" /\ n.ix = "InitializeHistory"
                              /\ n.caller = k.caller /\ n.clear = k.clear
                              /\ n.authority = wallet /\ n.creator = k.creator
                              /\ n.accounts = k.accounts /\ n.todo = <<"signed", "send">>
                              /\ Has(n.todo, Sending)
      <3>1. CASE n = Idle
        BY <3>1, IdleUndisturbed
      <3>2. CASE n # Idle
        BY <3>2, <2>2, <2>6, InitializedCall
      <3>3. QED BY <3>1, <3>2
    <2>8. \A d \in Callers \ {c} :
             /\ calls'[d].todo = calls[d].todo /\ calls'[d].ix = calls[d].ix
             /\ calls'[d].key = calls[d].key /\ calls'[d].asked = calls[d].asked
             /\ calls'[d].answer = calls[d].answer
             /\ calls'[d].clear => calls'[d] = calls[d] /\ UNCHANGED <<house, oracle, users>>
      <3> TAKE d \in Callers \ {c}
      <3>1. DOMAIN calls[d] = CallFields
        BY DEF ClientInv, CallOK
      <3>2. QED BY <3>1, <2>6 DEF CallFields
    <2>9. \A d \in Callers : StepsOK(calls[d])'
      <3> TAKE d \in Callers
      <3>1. CASE d = c
        BY <3>1, <2>1, <2>7 DEF StepsOK
      <3>2. CASE d # c
        BY <3>2, <2>8 DEF StepsOK, UndisturbedInv
      <3>3. QED BY <3>1, <3>2
    <2>10. (Exists(state) => Exists(house))'
      BY <2>5, <1>1 DEF UndisturbedInv, Exists, copies
    <2>11. \A d \in Callers : (NeedsHouse(calls[d]) => Exists(house))'
      <3> TAKE d \in Callers
      <3>1. CASE d = c
        <4>1. k.ix = "Initialize" => Exists(house')
          BY <1>1, <1>3, <2>2, HouseStep
        <4>2. NeedsHouse(n) => k.ix = "Initialize"
          BY <2>7 DEF NeedsHouse
        <4>3. QED BY <3>1, <4>1, <4>2, <2>1 DEF NeedsHouse, Exists
      <3>2. CASE d # c
        BY <3>2, <2>5, <2>8 DEF UndisturbedInv, NeedsHouse, Exists
      <3>3. QED BY <3>1, <3>2
    <2>12. ASSUME CacheRight, users'[wallet] = users[wallet] \/ users[wallet] = 0
           PROVE  CacheRight'
      <3>1. \A d \in Callers : OwnFetch(calls[d])'
        <4> TAKE d \in Callers
        <4>1. CASE d = c
          BY <4>1, <2>1, <2>7, <2>12, <1>1, OwnFetchNext
        <4>2. CASE d # c
          BY <4>2, <2>8, <2>12, <1>1 DEF CacheRight, OwnFetch
        <4>3. QED BY <4>1, <4>2
      <3>2. QED BY <3>1, <2>12, <1>1 DEF CacheRight
    <2>13. ~raced' /\ wallet' \notin deleted' => CacheRight'
      BY <2>3, <2>12, <1>1 DEF UndisturbedInv
    <2>14. ASSUME NEW d \in Callers, calls'[d].todo # <<>>, calls'[d].clear
           PROVE  ~raced' /\ CacheRight' /\ Right(calls[d])'
      <3>1. CASE d # c
        <4>1. calls'[d] = calls[d] /\ UNCHANGED <<house, oracle, users>>
          BY <3>1, <2>8, <2>14
        <4>2. PICK e : e = calls'[d]
          OBVIOUS
        <4>3. ~raced /\ CacheRight /\ Right(e)
          BY <4>1, <4>2, <2>14 DEF UndisturbedInv
        <4>4. Right(calls[d])'
          BY <4>1, <4>2, <4>3, <1>1, RightNext DEF copies
        <4>5. QED BY <4>1, <4>3, <4>4, <2>12, <1>1
      <3>2. CASE d = c
        <4>1. /\ k.ix = "Initialize" /\ n.ix = "InitializeHistory"
              /\ n.caller = k.caller /\ n.clear = k.clear
              /\ n.authority = wallet /\ n.creator = k.creator
              /\ n.accounts = k.accounts /\ n.todo = <<"signed", "send">>
              /\ Has(n.todo, Sending)
          BY <3>2, <2>1, <2>7, <2>14
        <4>2. ~raced /\ CacheRight /\ Right(k)
          BY <3>2, <4>1, <2>1, <2>2, <2>14, <1>1 DEF UndisturbedInv
        <4>3. users' = users
          BY <4>1, <1>3 DEF users_after, Creating
        <4>4. /\ "Initialize" \notin DOMAIN named
              /\ "InitializeHistory" \notin DOMAIN named \cup NeedsOracle \cup Creating \cup OwnUser
          BY DEF named, NeedsOracle, Creating, OwnUser
        <4>5. /\ k.caller = wallet /\ DOMAIN k.accounts = {} /\ k.creator \in {k.caller, Nobody}
          BY <4>1, <4>2, <4>4 DEF Right, Known
        <4>6. Known(calls[c], calls[c].todo, Tail(calls[c].todo))'
          BY <4>1, <4>4, <4>5, <2>1 DEF Known
        <4>7. Pending(calls[c])'
          <5>1. Head(n.todo) = "signed"
            BY <4>1
          <5>2. QED BY <5>1, <2>1 DEF Pending, Keys
        <4>8. Right(calls[c])'
          BY <4>1, <4>5, <4>6, <4>7, <2>1, <1>1 DEF Right
        <4>9. QED BY <3>2, <4>2, <4>3, <4>8, <2>12, <1>1
      <3>3. QED BY <3>1, <3>2
    <2>15. QED BY <2>3, <2>4, <2>9, <2>10, <2>11, <2>13, <2>14 DEF UndisturbedInv
  <1>4. QED BY <1>2, <1>3 DEF Send

(***************************************************************************)
(* The start of a method: its steps bring everything that is not known,    *)
(* and in order.                                                           *)
(***************************************************************************)
Prepared(ix, t, known) ==
    /\ t \in Seq(LaterSteps) /\ t # <<>> /\ t[Len(t)] = "send"
    /\ Sound(t) /\ Suited(ix, t) /\ ~Has(t, {"ownFetch"})
    /\ DOMAIN known = CallFields
    /\ ix \in OwnUser \cup {"Liquidate", "NewUserDeposit"} => Has(t, Keys)
    /\ ix \in OwnUser => Has(t, OwnPositions)
    /\ ix = "Liquidate" => Has(t, {"victim"})
    /\ ix = "SettleFunding" => known.positions = users[known.arg]
    /\ ix \in Creating => Has(t, {"pda"}) /\ Has(t, {"new"})
    /\ known.sender = wallet \/ Has(t, Sending)
    /\ \/ Has(t, {"state"}) \/ Has(t, Naming)
       \/ ix \in {"NewUser", "UpdateFundingRate", "SettleFunding"}
    /\ known.authority = Nobody /\ known.creator = Nobody
    /\ ix \in DOMAIN named => Has(t, Copying)
    /\ DOMAIN known.accounts = {}
    /\ ix \in NeedsOracle \ {"UpdateFundingRate"} => Has(t, Copying)

LEMMA CallUndisturbed ==
    ASSUME ClientInv, UndisturbedInv, NEW c \in Callers, NEW ix, NEW steps, NEW known,
           Call(c, ix, steps, known), NEW t, t = steps \o <<"send">>, Prepared(ix, t, known)
    PROVE  UndisturbedInv'
  <1> DEFINE new == [known EXCEPT !.ix = ix, !.caller = wallet,
                                  !.key = IF ix \in Generating THEN keys + 1 ELSE @,
                                  !.clear = /\ ~raced /\ wallet \notin deleted
                                            /\ state = house /\ market = oracle]
             pk == userAccountPublicKey
             ua == userAccount
             m == begin(new, t, pk, ua)
  <1>1. /\ calls' = [calls EXCEPT ![c] = m]
        /\ ix # "Initialize" => Exists(state)
        /\ UNCHANGED <<ledger, wallet, userAccount, copies, raced>>
    BY DEF Call, caches
  <1>2. wallet \in Wallets /\ keys \in Nat /\ (~raced => pk \in {NotCached, wallet})
    BY DEF ClientInv, WalletsInv
  <1>3. DOMAIN known = CallFields
    BY DEF Prepared
  <1>4. /\ DOMAIN new = CallFields /\ new.ix = ix /\ new.caller = wallet
        /\ new.arg = known.arg /\ new.positions = known.positions /\ new.sender = known.sender
        /\ new.authority = known.authority /\ new.creator = known.creator
        /\ new.accounts = known.accounts
    BY <1>3 DEF CallFields
  <1>5. new.clear => ~raced /\ wallet \notin deleted /\ state = house /\ market = oracle
    BY <1>3 DEF CallFields
  <1>6. ix = "Initialize" => new.key # 0
    BY <1>2, <1>3 DEF CallFields, Generating
  <1>7. /\ t \in Seq(LaterSteps) /\ t # <<>> /\ t[Len(t)] = "send"
        /\ Sound(t) /\ Suited(ix, t) /\ Head(t) # "ownFetch"
    <2>1. /\ t \in Seq(LaterSteps) /\ t # <<>> /\ t[Len(t)] = "send"
          /\ Sound(t) /\ Suited(ix, t) /\ ~Has(t, {"ownFetch"})
      BY DEF Prepared
    <2>2. Has(t, {"ownFetch"}) <=> Head(t) \in {"ownFetch"} \/ Has(Tail(t), {"ownFetch"})
      BY <2>1, HasTail
    <2>3. QED BY <2>1, <2>2
  <1>8. Known(new, t, t)
    <2> HIDE DEF new
    <2>1. /\ ix \in OwnUser \cup {"Liquidate", "NewUserDeposit"} => Has(t, Keys)
          /\ ix \in OwnUser => Has(t, OwnPositions)
          /\ ix \in {"Liquidate", "SettleFunding"} =>
                new.positions = users[new.arg] \/ Has(t, {"victim"})
          /\ ix \in Creating => Has(t, {"pda"}) /\ Has(t, {"new"})
          /\ new.sender = new.caller \/ Has(t, Sending)
      BY <1>4 DEF Prepared
    <2>2. /\ \/ Has(t, {"state"}) \/ Has(t, Naming)
             \/ ix \in {"NewUser", "UpdateFundingRate", "SettleFunding"}
          /\ {new.authority, new.creator} \subseteq {new.caller, Nobody}
          /\ ix \in DOMAIN named => Has(t, Copying)
          /\ DOMAIN new.accounts = {}
          /\ ix \in NeedsOracle \ {"UpdateFundingRate"} => Has(t, Copying)
      BY <1>4 DEF Prepared
    <2>3. QED BY <2>1, <2>2, <1>4 DEF Known
  <1>9. m = begin(new, t, pk, ua) /\ pk = userAccountPublicKey /\ ua = userAccount
    OBVIOUS
  <1> HIDE DEF new, pk, ua, m
  <1>10. DOMAIN new = CallFields /\ m = begin(new, t, pk, ua)
    BY <1>4, <1>9
  <1>11. SameCall(new, m) /\ m.clear = new.clear
    <2>1. SameCall(new, m) /\ SameClear(new, m)
      BY <1>7, <1>10, BeginSame
    <2>2. QED BY <2>1 DEF SameClear
  <1>12. m.ix = ix /\ m.caller = wallet /\ m.key = new.key
    BY <1>4, <1>11 DEF SameCall
  <1>13. StepsOK(m)
    <2>1. Sound(m.todo) /\ Suited(ix, m.todo)
      BY <1>4, <1>7, <1>9, SuitedBegun
    <2>2. QED BY <2>1, <1>6, <1>12 DEF StepsOK
  <1>14. NeedsHouse(m) => Exists(house)
    BY <1>1, <1>12 DEF NeedsHouse, UndisturbedInv
  <1>15. ASSUME ~raced, CacheRight PROVE userAccount' \in {0, users[wallet]} /\ OwnFetch(m)
    <2>1. OwnFetch(m)
      BY <1>2, <1>4, <1>7, <1>9, <1>15, FetchBegun
    <2>2. QED BY <2>1, <1>1, <1>15 DEF CacheRight
  <1>16. ASSUME m.clear PROVE ~raced /\ CacheRight /\ Right(m)
    <2>1. ~raced /\ wallet \notin deleted /\ state = house /\ market = oracle
      BY <1>5, <1>11, <1>16
    <2>2. CacheRight
      BY <2>1 DEF UndisturbedInv
    <2>3. pk \in {NotCached, wallet} /\ ua \in {0, users[wallet]}
      BY <2>1, <2>2, <1>2, <1>9 DEF CacheRight
    <2>4. Suited(new.ix, t) /\ m = begin(new, t, pk, ua) /\ new.caller = wallet
      BY <1>4, <1>7, <1>9
    <2>5. Known(m, m.todo, Tail(m.todo)) /\ Pending(m)
      BY <2>3, <2>4, <1>4, <1>7, <1>8, KnownBegun
    <2>6. QED BY <2>1, <2>2, <2>5, <1>12 DEF Right
  <1>17. QED BY <1>1, <1>13, <1>14, <1>15, <1>16, OneUndisturbed

\* What is known before the first await, apart from the steps.
Fresh(known) ==
    /\ DOMAIN known = CallFields
    /\ known.authority = Nobody /\ known.creator = Nobody /\ DOMAIN known.accounts = {}

LEMMA FreshCalls ==
    /\ Fresh(Later) /\ Fresh(Now) /\ Now.sender = wallet
    /\ \A w : /\ Fresh([Later EXCEPT !.arg = w])
              /\ Fresh([Now EXCEPT !.arg = w]) /\ [Now EXCEPT !.arg = w].sender = wallet
    /\ \A o : Fresh([Now EXCEPT !.oracle = o]) /\ [Now EXCEPT !.oracle = o].sender = wallet
    /\ \A w, p : /\ Fresh([Now EXCEPT !.arg = w, !.positions = p])
                 /\ [Now EXCEPT !.arg = w, !.positions = p].sender = wallet
                 /\ [Now EXCEPT !.arg = w, !.positions = p].arg = w
                 /\ [Now EXCEPT !.arg = w, !.positions = p].positions = p
  BY DEF Fresh, Now, Later, Idle, CallFields

\* The methods that create a user account.
LEMMA CreateUndisturbed ==
    ASSUME ClientInv, UndisturbedInv, NEW c \in Callers,
           \/ initializeUserAccount(c)
           \/ initializeUserAccountAndDepositCollateral(c)
           \/ initializeUserAccountForDevnet(c)
    PROVE  UndisturbedInv'
  <1>1. CASE initializeUserAccount(c)
    <2> DEFINE steps == getInitializeUserInstructions \o <<"built">>
               t == steps \o <<"send">>
    <2>1. /\ t \in Seq(LaterSteps) /\ t # <<>> /\ Len(t) = 5 /\ t[1] = "pda" /\ t[2] = "whitelist"
          /\ t[3] = "new" /\ t[4] = "built" /\ t[5] = "send"
      BY DEF getInitializeUserInstructions, LaterSteps
    <2>2. Call(c, "NewUser", steps, Later) /\ t = steps \o <<"send">>
      BY <1>1 DEF initializeUserAccount
    <2> HIDE DEF t, steps
    <2>3. Sound(t)
      BY <2>1 DEF Sound
    <2>4. /\ Suited("NewUser", t) /\ ~Has(t, {"ownFetch"}) /\ Has(t, {"pda"}) /\ Has(t, {"new"})
          /\ Has(t, Sending)
      BY <2>1 DEF Suited, Has, OwnPositions, Sending
    <2>5. "NewUser" \notin OwnUser \cup NeedsOracle \cup DOMAIN named
      BY DEF OwnUser, NeedsOracle, named
    <2>6. Prepared("NewUser", t, Later)
      BY <2>1, <2>3, <2>4, <2>5, FreshCalls DEF Prepared, Fresh
    <2>7. QED BY <2>2, <2>6, CallUndisturbed
  <1>2. ASSUME NEW steps, NEW t, NEW known, Call(c, "NewUserDeposit", steps, known),
               t = steps \o <<"send">>, t \in Seq(LaterSteps), t # <<>>, t[Len(t)] = "send",
               Sound(t), ~Has(t, {"ownFetch"}), ~Has(t, OwnPositions), ~Has(t, {"check"}),
               ~Has(t, {"victim", "victimPositions"}), Has(t, Keys),
               Has(t, {"pda"}), Has(t, {"new"}), Has(t, {"state"}), Has(t, Sending), Fresh(known)
        PROVE  UndisturbedInv'
    <2>1. "NewUserDeposit" \notin OwnUser \cup NeedsOracle
      BY DEF OwnUser, NeedsOracle
    <2>2. Has(t, Copying)
      BY <1>2 DEF Has, Copying
    <2>3. Prepared("NewUserDeposit", t, known)
      BY <1>2, <2>1, <2>2 DEF Prepared, Suited, Fresh
    <2>4. QED BY <1>2, <2>3, CallUndisturbed
  <1>3. CASE initializeUserAccountAndDepositCollateral(c)
    <2> DEFINE steps == getInitializeUserInstructions \o <<"key", "state", "built">>
               t == steps \o <<"send">>
    <2>1. /\ t \in Seq(LaterSteps) /\ t # <<>> /\ Len(t) = 7 /\ t[1] = "pda" /\ t[2] = "whitelist"
          /\ t[3] = "new" /\ t[4] = "key" /\ t[5] = "state" /\ t[6] = "built" /\ t[7] = "send"
      BY DEF getInitializeUserInstructions, LaterSteps
    <2>2. Call(c, "NewUserDeposit", steps, Later) /\ t = steps \o <<"send">>
      BY <1>3 DEF initializeUserAccountAndDepositCollateral
    <2> HIDE DEF t, steps
    <2>3. Sound(t)
      BY <2>1 DEF Sound
    <2>4. /\ ~Has(t, {"ownFetch"}) /\ ~Has(t, OwnPositions) /\ ~Has(t, {"check"})
          /\ ~Has(t, {"victim", "victimPositions"})
      BY <2>1 DEF Has, OwnPositions
    <2>5. /\ Has(t, Keys) /\ Has(t, {"pda"}) /\ Has(t, {"new"}) /\ Has(t, {"state"})
          /\ Has(t, Sending) /\ t[Len(t)] = "send"
      BY <2>1 DEF Has, Keys, Sending
    <2>6. QED BY <2>1, <2>2, <2>3, <2>4, <2>5, <1>2, FreshCalls
  <1>4. CASE initializeUserAccountForDevnet(c)
    <2> DEFINE steps == <<"faucet">> \o getInitializeUserInstructions
                           \o <<"key", "state", "built">>
               t == steps \o <<"send">>
               known == [Later EXCEPT !.arg = wallet]
    <2>1. /\ t \in Seq(LaterSteps) /\ t # <<>> /\ Len(t) = 8 /\ t[1] = "faucet" /\ t[2] = "pda"
          /\ t[3] = "whitelist" /\ t[4] = "new" /\ t[5] = "key" /\ t[6] = "state"
          /\ t[7] = "built" /\ t[8] = "send"
      BY DEF getInitializeUserInstructions, LaterSteps
    <2>2. Call(c, "NewUserDeposit", steps, known) /\ t = steps \o <<"send">> /\ Fresh(known)
      BY <1>4, FreshCalls DEF initializeUserAccountForDevnet
    <2> HIDE DEF t, steps, known
    <2>3. Sound(t)
      BY <2>1 DEF Sound
    <2>4. /\ ~Has(t, {"ownFetch"}) /\ ~Has(t, OwnPositions) /\ ~Has(t, {"check"})
          /\ ~Has(t, {"victim", "victimPositions"})
      BY <2>1 DEF Has, OwnPositions
    <2>5. /\ Has(t, Keys) /\ Has(t, {"pda"}) /\ Has(t, {"new"}) /\ Has(t, {"state"})
          /\ Has(t, Sending) /\ t[Len(t)] = "send"
      BY <2>1 DEF Has, Keys, Sending
    <2>6. QED BY <2>1, <2>2, <2>3, <2>4, <2>5, <1>2
  <1>5. QED BY <1>1, <1>3, <1>4

\* The methods on the user account of the caller, and the liquidator's.
LEMMA OwnUndisturbed ==
    ASSUME ClientInv, UndisturbedInv, NEW c \in Callers,
           \/ depositCollateral(c) \/ deleteUser(c) \/ withdrawCollateral(c)
           \/ openPosition(c) \/ closePosition(c) \/ liquidate(c)
    PROVE  UndisturbedInv'
  <1>1. ASSUME NEW ix \in OwnUser, NEW steps, NEW t, NEW known, Call(c, ix, steps, known),
               t = steps \o <<"send">>, t \in Seq(LaterSteps), t # <<>>, t[Len(t)] = "send",
               Sound(t), ~Has(t, {"ownFetch"}), ~Has(t, {"check"}),
               ~Has(t, {"victim", "victimPositions"}), Has(t, Keys), Has(t, OwnPositions),
               known.sender = wallet \/ Has(t, Sending),
               Has(t, {"state"}) \/ (Has(t, Naming) /\ ix = "DeleteUser"), Fresh(known)
        PROVE  UndisturbedInv'
    <2>1. /\ ix \notin Creating \cup {"Liquidate", "SettleFunding"}
          /\ "DeleteUser" \notin DOMAIN named \cup NeedsOracle
      BY DEF OwnUser, Creating, NeedsOracle, named
    <2>2. Has(t, {"state"}) => Has(t, Copying)
      BY DEF Has, Copying
    <2>3. Prepared(ix, t, known)
      BY <1>1, <2>1, <2>2 DEF Prepared, Suited, Fresh
    <2>4. QED BY <1>1, <2>3, CallUndisturbed
  <1>2. CASE depositCollateral(c)
    <2> DEFINE steps == getDepositCollateralInstruction \o <<"built">>
               t == steps \o <<"send">>
    <2>1. /\ t \in Seq(LaterSteps) /\ t # <<>> /\ Len(t) = 5 /\ t[1] = "key"
          /\ t[2] = "userAccount" /\ t[3] = "state" /\ t[4] = "built" /\ t[5] = "send"
      BY DEF getDepositCollateralInstruction, LaterSteps
    <2>2. Call(c, "Collateral", steps, Later) /\ t = steps \o <<"send">>
      BY <1>2 DEF depositCollateral
    <2> HIDE DEF t, steps
    <2>3. Sound(t)
      BY <2>1 DEF Sound
    <2>4. ~Has(t, {"ownFetch"}) /\ ~Has(t, {"check"}) /\ ~Has(t, {"victim", "victimPositions"})
      BY <2>1 DEF Has
    <2>5. /\ Has(t, Keys) /\ Has(t, OwnPositions) /\ Has(t, {"state"}) /\ Has(t, Sending)
          /\ t[Len(t)] = "send"
      BY <2>1 DEF Has, Keys, OwnPositions, Sending
    <2>6. "Collateral" \in OwnUser
      BY DEF OwnUser
    <2>7. QED BY <2>1, <2>2, <2>3, <2>4, <2>5, <2>6, <1>1, FreshCalls
  <1>3. CASE deleteUser(c)
    <2> DEFINE steps == <<"key", "fetch", "signed">>
               t == steps \o <<"send">>
    <2>1. /\ t \in Seq(LaterSteps) /\ t # <<>> /\ Len(t) = 4 /\ t[1] = "key"
          /\ t[2] = "fetch" /\ t[3] = "signed" /\ t[4] = "send"
      BY DEF LaterSteps
    <2>2. Call(c, "DeleteUser", steps, Later) /\ t = steps \o <<"send">>
      BY <1>3 DEF deleteUser
    <2> HIDE DEF t, steps
    <2>3. Sound(t)
      BY <2>1 DEF Sound, Keys
    <2>4. ~Has(t, {"ownFetch"}) /\ ~Has(t, {"check"}) /\ ~Has(t, {"victim", "victimPositions"})
      BY <2>1 DEF Has
    <2>5. /\ Has(t, Keys) /\ Has(t, OwnPositions) /\ Has(t, Naming) /\ Has(t, Sending)
          /\ t[Len(t)] = "send"
      BY <2>1 DEF Has, Keys, OwnPositions, Sending, Naming
    <2>6. "DeleteUser" \in OwnUser
      BY DEF OwnUser
    <2>7. QED BY <2>1, <2>2, <2>3, <2>4, <2>5, <2>6, <1>1, FreshCalls
  <1>4. CASE withdrawCollateral(c)
    <2> DEFINE steps == getWithdrawCollateralIx
               t == steps \o <<"send">>
    <2>1. /\ t \in Seq(LaterSteps) /\ t # <<>> /\ Len(t) = 4 /\ t[1] = "key"
          /\ t[2] = "fetch" /\ t[3] = "state" /\ t[4] = "send"
      BY DEF getWithdrawCollateralIx, LaterSteps
    <2>2. Call(c, "Collateral", steps, Now) /\ t = steps \o <<"send">>
      BY <1>4 DEF withdrawCollateral
    <2> HIDE DEF t, steps
    <2>3. Sound(t)
      BY <2>1 DEF Sound, Keys
    <2>4. ~Has(t, {"ownFetch"}) /\ ~Has(t, {"check"}) /\ ~Has(t, {"victim", "victimPositions"})
      BY <2>1 DEF Has
    <2>5. Has(t, Keys) /\ Has(t, OwnPositions) /\ Has(t, {"state"}) /\ t[Len(t)] = "send"
      BY <2>1 DEF Has, Keys, OwnPositions
    <2>6. "Collateral" \in OwnUser
      BY DEF OwnUser
    <2>7. QED BY <2>1, <2>2, <2>3, <2>4, <2>5, <2>6, <1>1, FreshCalls
  <1>5. CASE openPosition(c) \/ closePosition(c)
    <2> DEFINE steps == <<"key", "userAccount", "state">>
               t == steps \o <<"send">>
    <2>1. /\ t \in Seq(LaterSteps) /\ t # <<>> /\ Len(t) = 4 /\ t[1] = "key"
          /\ t[2] = "userAccount" /\ t[3] = "state" /\ t[4] = "send"
      BY DEF LaterSteps
    <2>2. Call(c, "Trade", steps, Now) /\ t = steps \o <<"send">>
      BY <1>5 DEF openPosition, closePosition, getOpenPositionIx, getClosePositionIx
    <2> HIDE DEF t, steps
    <2>3. Sound(t)
      BY <2>1 DEF Sound
    <2>4. ~Has(t, {"ownFetch"}) /\ ~Has(t, {"check"}) /\ ~Has(t, {"victim", "victimPositions"})
      BY <2>1 DEF Has
    <2>5. Has(t, Keys) /\ Has(t, OwnPositions) /\ Has(t, {"state"}) /\ t[Len(t)] = "send"
      BY <2>1 DEF Has, Keys, OwnPositions
    <2>6. "Trade" \in OwnUser
      BY DEF OwnUser
    <2>7. QED BY <2>1, <2>2, <2>3, <2>4, <2>5, <2>6, <1>1, FreshCalls
  <1>6. CASE liquidate(c)
    <2>1. PICK w \in Wallets : Call(c, "Liquidate", getLiquidateIx, [Now EXCEPT !.arg = w])
      BY <1>6 DEF liquidate
    <2> DEFINE known == [Now EXCEPT !.arg = w]
               steps == getLiquidateIx
               t == steps \o <<"send">>
    <2>2. Fresh(known) /\ known.sender = wallet
      BY FreshCalls
    <2>3. Call(c, "Liquidate", steps, known) /\ t = steps \o <<"send">>
      BY <2>1
    <2>4. /\ t \in Seq(LaterSteps) /\ t # <<>> /\ Len(t) = 5 /\ t[1] = "key" /\ t[2] = "victim"
          /\ t[3] = "victimPositions" /\ t[4] = "state" /\ t[5] = "send"
      BY DEF getLiquidateIx, LaterSteps
    <2> HIDE DEF known, steps, t
    <2>5. Sound(t)
      BY <2>4 DEF Sound
    <2>6. ~Has(t, {"ownFetch"}) /\ ~Has(t, {"check"}) /\ ~Has(t, OwnPositions)
      BY <2>4 DEF Has, OwnPositions
    <2>7. /\ Has(t, Keys) /\ Has(t, {"victim"}) /\ Has(t, {"state"}) /\ Has(t, Copying)
          /\ t[Len(t)] = "send"
      BY <2>4 DEF Has, Keys, Copying
    <2>8. "Liquidate" \notin OwnUser \cup Creating
      BY DEF OwnUser, Creating
    <2>9. Prepared("Liquidate", t, known)
      BY <2>2, <2>4, <2>5, <2>6, <2>7, <2>8 DEF Prepared, Suited, Fresh
    <2>10. QED BY <2>3, <2>9, CallUndisturbed
  <1>7. QED BY <1>2, <1>3, <1>4, <1>5, <1>6

\* The other methods: none of their instructions acts for the user account of
\* the caller.
LEMMA PlainUndisturbed ==
    ASSUME ClientInv, UndisturbedInv, NEW c \in Callers,
           \/ updateFundingRate(c) \/ settleFundingPayment(c) \/ initialize(c)
           \/ initializeMarket(c) \/ moveAmmPrice(c) \/ moveAmmToPrice(c) \/ updateK(c)
           \/ repegAmmCurve(c) \/ updateAmmOracleTwap(c) \/ resetAmmOracleTwap(c)
           \/ updateCurveHistory(c) \/ withdrawFromInsuranceVault(c) \/ withdrawFees(c)
           \/ withdrawFromInsuranceVaultToMarket(c) \/ updateAdmin(c) \/ updateMarketOracle(c)
           \/ updateMarketMinimumTradeSize(c) \/ updateParameters(c) \/ updateSwitches(c)
    PROVE  UndisturbedInv'
  <1> DEFINE Plain == {"UpdateFundingRate", "SettleFunding", "InitializeMarket", "UpdateMarket",
                       "AdjustCurve", "UpdateCurveHistory", "UpdateState", "UpdateMarketOracle",
                       "UpdateAdmin"}
             Simple(t) == /\ t \in Seq(LaterSteps) /\ t # <<>> /\ t[Len(t)] = "send" /\ Sound(t)
                          /\ ~Has(t, {"ownFetch"}) /\ ~Has(t, OwnPositions)
                          /\ ~Has(t, {"victim", "victimPositions"}) /\ ~Has(t, {"check"})
                          /\ Has(t, Copying)
  <1>1. ASSUME NEW ix \in Plain, NEW steps, NEW t, NEW known, Call(c, ix, steps, known),
               t = steps \o <<"send">>, Simple(t), Fresh(known),
               known.sender = wallet \/ Has(t, Sending),
               \/ Has(t, {"state"}) \/ Has(t, Naming) \/ ix \in {"UpdateFundingRate", "SettleFunding"},
               ix = "SettleFunding" => known.positions = users[known.arg]
        PROVE  UndisturbedInv'
    <2>1. ix \notin OwnUser \cup Creating \cup {"Liquidate"}
      BY DEF OwnUser, Creating
    <2>2. Prepared(ix, t, known)
      BY <1>1, <2>1 DEF Prepared, Suited, Fresh, Creating
    <2>3. QED BY <1>1, <2>2, CallUndisturbed
  <1> DEFINE anyState == <<"anyState">> \o <<"send">>
             built == <<"state", "built">> \o <<"send">>
             plain == <<"state">> \o <<"send">>
             admin == <<"adminState">> \o <<"send">>
             read == <<"read", "adminKey">> \o <<"send">>
  <1>2. Simple(anyState)
    <2>1. /\ anyState \in Seq(LaterSteps) /\ anyState # <<>> /\ Len(anyState) = 2
          /\ anyState[1] = "anyState" /\ anyState[2] = "send"
      BY DEF LaterSteps
    <2> HIDE DEF anyState
    <2>2. QED BY <2>1 DEF Sound, Has, OwnPositions, Copying
  <1>3. Simple(built) /\ Has(built, {"state"}) /\ Has(built, Sending)
    <2>1. /\ built \in Seq(LaterSteps) /\ built # <<>> /\ Len(built) = 3
          /\ built[1] = "state" /\ built[2] = "built" /\ built[3] = "send"
      BY DEF LaterSteps
    <2> HIDE DEF built
    <2>2. QED BY <2>1 DEF Sound, Has, OwnPositions, Copying, Sending
  <1>4. Simple(plain) /\ Has(plain, {"state"})
    <2>1. /\ plain \in Seq(LaterSteps) /\ plain # <<>> /\ Len(plain) = 2
          /\ plain[1] = "state" /\ plain[2] = "send"
      BY DEF LaterSteps
    <2> HIDE DEF plain
    <2>2. QED BY <2>1 DEF Sound, Has, OwnPositions, Copying
  <1>5. Simple(admin) /\ Has(admin, Naming)
    <2>1. /\ admin \in Seq(LaterSteps) /\ admin # <<>> /\ Len(admin) = 2
          /\ admin[1] = "adminState" /\ admin[2] = "send"
      BY DEF LaterSteps
    <2> HIDE DEF admin
    <2>2. QED BY <2>1 DEF Sound, Has, OwnPositions, Copying, Naming
  <1>6. Simple(read) /\ Has(read, Naming) /\ Has(read, Sending)
    <2>1. /\ read \in Seq(LaterSteps) /\ read # <<>> /\ Len(read) = 3
          /\ read[1] = "read" /\ read[2] = "adminKey" /\ read[3] = "send"
      BY DEF LaterSteps
    <2> HIDE DEF read
    <2>2. QED BY <2>1 DEF Sound, Has, OwnPositions, Copying, Naming, Sending
  <1> HIDE DEF Simple
  <1>7. CASE updateFundingRate(c)
    <2>1. PICK o \in Oracles :
                 Call(c, "UpdateFundingRate", <<"anyState">>, [Now EXCEPT !.oracle = o])
      BY <1>7 DEF updateFundingRate
    <2> DEFINE known == [Now EXCEPT !.oracle = o]
               t == anyState
    <2>2. Fresh(known) /\ known.sender = wallet /\ Simple(t) /\ t = <<"anyState">> \o <<"send">>
      BY FreshCalls, <1>2
    <2>3. Call(c, "UpdateFundingRate", <<"anyState">>, known)
      BY <2>1
    <2> HIDE DEF known, t
    <2>4. QED BY <2>2, <2>3, <1>1
  <1>8. CASE settleFundingPayment(c)
    <2>1. PICK w \in Wallets :
                 /\ users[w] # 0
                 /\ Call(c, "SettleFunding", <<"anyState">>,
                         [Now EXCEPT !.arg = w, !.positions = users[w]])
      BY <1>8, Zenon DEF settleFundingPayment
    <2> DEFINE known == [Now EXCEPT !.arg = w, !.positions = users[w]]
               t == anyState
    <2>2. /\ Fresh(known) /\ known.sender = wallet /\ known.positions = users[known.arg]
      BY FreshCalls
    <2>3. Simple(t) /\ t = <<"anyState">> \o <<"send">>
      BY <1>2
    <2>4. Call(c, "SettleFunding", <<"anyState">>, known)
      BY <2>1
    <2> HIDE DEF known, t
    <2>5. QED BY <2>2, <2>3, <2>4, <1>1
  <1>9. CASE initializeMarket(c)
    <2>1. PICK o \in Oracles :
                 Call(c, "InitializeMarket", <<"state", "built">>, [Later EXCEPT !.arg = o])
      BY <1>9 DEF initializeMarket
    <2> DEFINE known == [Later EXCEPT !.arg = o]
               t == built
    <2>2. /\ Fresh(known) /\ Simple(t) /\ t = <<"state", "built">> \o <<"send">>
          /\ Has(t, {"state"}) /\ Has(t, Sending)
      BY FreshCalls, <1>3
    <2>3. Call(c, "InitializeMarket", <<"state", "built">>, known)
      BY <2>1
    <2> HIDE DEF known, t
    <2>4. QED BY <2>2, <2>3, <1>1
  <1>10. CASE \/ moveAmmPrice(c) \/ moveAmmToPrice(c) \/ updateK(c) \/ repegAmmCurve(c)
              \/ updateAmmOracleTwap(c) \/ resetAmmOracleTwap(c) \/ updateCurveHistory(c)
    <2>1. PICK ix \in {"UpdateMarket", "AdjustCurve", "UpdateCurveHistory"} :
             Call(c, ix, <<"state">>, Now)
      BY <1>10 DEF moveAmmPrice, moveAmmToPrice, updateK, repegAmmCurve, updateAmmOracleTwap,
                   resetAmmOracleTwap, updateCurveHistory
    <2> DEFINE t == plain
    <2>2. Simple(t) /\ t = <<"state">> \o <<"send">> /\ Has(t, {"state"})
      BY <1>4
    <2> HIDE DEF t
    <2>3. QED BY <2>1, <2>2, <1>1, FreshCalls
  <1>11. CASE \/ withdrawFromInsuranceVault(c) \/ withdrawFees(c)
              \/ withdrawFromInsuranceVaultToMarket(c)
    <2>1. PICK ix \in {"UpdateState", "UpdateMarket"} : Call(c, ix, <<"read", "adminKey">>, Later)
      BY <1>11 DEF withdrawFromInsuranceVault, withdrawFees, withdrawFromInsuranceVaultToMarket
    <2> DEFINE t == read
    <2>2. /\ Simple(t) /\ t = <<"read", "adminKey">> \o <<"send">>
          /\ Has(t, Naming) /\ Has(t, Sending)
      BY <1>6
    <2> HIDE DEF t
    <2>3. QED BY <2>1, <2>2, <1>1, FreshCalls
  <1>12. CASE \/ updateMarketMinimumTradeSize(c) \/ updateParameters(c) \/ updateSwitches(c)
    <2>1. PICK ix \in {"UpdateState", "UpdateMarket"} : Call(c, ix, <<"adminState">>, Now)
      BY <1>12 DEF updateMarketMinimumTradeSize, updateParameters, updateSwitches
    <2> DEFINE t == admin
    <2>2. Simple(t) /\ t = <<"adminState">> \o <<"send">> /\ Has(t, Naming)
      BY <1>5
    <2> HIDE DEF t
    <2>3. QED BY <2>1, <2>2, <1>1, FreshCalls
  <1>13. CASE updateAdmin(c) \/ updateMarketOracle(c)
    <2>1. PICK ix \in {"UpdateAdmin", "UpdateMarketOracle"}, a \in Wallets \cup Oracles :
             Call(c, ix, <<"adminState">>, [Now EXCEPT !.arg = a])
      BY <1>13 DEF updateAdmin, updateMarketOracle
    <2> DEFINE t == admin
               known == [Now EXCEPT !.arg = a]
    <2>2. /\ Simple(t) /\ t = <<"adminState">> \o <<"send">> /\ Has(t, Naming)
          /\ Fresh(known) /\ known.sender = wallet
      BY <1>5, FreshCalls
    <2>3. Call(c, ix, <<"adminState">>, known)
      BY <2>1
    <2> HIDE DEF t, known
    <2>4. QED BY <2>1, <2>2, <2>3, <1>1
  <1>14. CASE initialize(c)
    <2> DEFINE steps == <<"check", "signed">>
               t == steps \o <<"send">>
    <2>1. /\ t \in Seq(LaterSteps) /\ t # <<>> /\ Len(t) = 3
          /\ t[1] = "check" /\ t[2] = "signed" /\ t[3] = "send"
      BY DEF LaterSteps
    <2>2. Call(c, "Initialize", steps, Later) /\ t = steps \o <<"send">>
      BY <1>14 DEF initialize
    <2> HIDE DEF t, steps
    <2>3. Sound(t)
      BY <2>1 DEF Sound
    <2>4. /\ ~Has(t, {"ownFetch"}) /\ ~Has(t, OwnPositions)
          /\ ~Has(t, {"victim", "victimPositions"})
          /\ Has(t, Naming) /\ Has(t, Sending) /\ t[Len(t)] = "send"
      BY <2>1 DEF Has, OwnPositions, Naming, Sending
    <2>5. "Initialize" \notin OwnUser \cup Creating \cup NeedsOracle \cup DOMAIN named
      BY DEF OwnUser, Creating, NeedsOracle, named
    <2>6. Prepared("Initialize", t, Later)
      BY <2>1, <2>3, <2>4, <2>5, FreshCalls DEF Prepared, Suited, Fresh
    <2>7. QED BY <2>2, <2>6, CallUndisturbed
  <1>15. QED BY <1>7, <1>8, <1>9, <1>10, <1>11, <1>12, <1>13, <1>14

------------------------------------------------------------------------------
LEMMA UndisturbedInitially == Init => UndisturbedInv
  <1> SUFFICES ASSUME Init PROVE UndisturbedInv
    OBVIOUS
  <1>1. \A c \in Callers : calls[c] = Idle
    BY DEF Init
  <1>2. Exists(house) => house.refs["markets"] # 0
    BY ClientAssumption DEF Init
  <1>3. \A c \in Callers : StepsOK(calls[c]) /\ ~NeedsHouse(calls[c]) /\ calls[c].todo = <<>>
    BY <1>1, IdleUndisturbed
  <1>4. CacheRight
    BY <1>1, IdleUndisturbed DEF Init, CacheRight
  <1>5. users = [w \in Wallets |-> users[w]] /\ (Exists(state) => Exists(house))
    BY DEF Init
  <1>6. QED BY <1>2, <1>3, <1>4, <1>5 DEF UndisturbedInv

LEMMA UndisturbedStep == ClientInv /\ UndisturbedInv /\ [Next]_vars => UndisturbedInv'
  <1> SUFFICES ASSUME ClientInv, UndisturbedInv, [Next]_vars PROVE UndisturbedInv'
    OBVIOUS
  <1>1. CASE UNCHANGED vars \/ Refresh
    BY <1>1, RefreshUndisturbed
  <1>2. CASE SwitchWallet
    BY <1>2, SwitchUndisturbed
  <1>3. ASSUME NEW c \in Callers, UserMethod(c) PROVE UndisturbedInv'
    BY <1>3, CreateUndisturbed, OwnUndisturbed, PlainUndisturbed DEF UserMethod
  <1>4. ASSUME NEW c \in Callers, AdminMethod(c) PROVE UndisturbedInv'
    BY <1>4, PlainUndisturbed DEF AdminMethod
  <1>5. ASSUME NEW c \in Callers, Answer(c) PROVE UndisturbedInv'
    BY <1>5, AnswerUndisturbed
  <1>6. ASSUME NEW c \in Callers, Resume(c) PROVE UndisturbedInv'
    BY <1>6, ResumeUndisturbed
  <1>7. ASSUME NEW c \in Callers, Send(c) PROVE UndisturbedInv'
    BY <1>7, SendUndisturbed
  <1>8. QED BY <1>1, <1>2, <1>3, <1>4, <1>5, <1>6, <1>7 DEF Next

\* The fields a method takes its accounts from are the ones the program
\* compares them with; which of them an instruction needs.
LEMMA NamedAccounts ==
    ASSUME NEW ix \in DOMAIN named, NEW a \in DOMAIN named[ix]
    PROVE  /\ named[ix][a] = constraint(ix, a)
           /\ \/ constraint(ix, a) = "markets"
              \/ /\ constraint(ix, a) \in Histories
                 /\ ix \in {"Collateral", "Trade", "Liquidate", "SettleFunding",
                            "UpdateFundingRate", "NewUserDeposit"}
              \/ ix = "AdjustCurve" /\ constraint(ix, a) = "extendedCurveHistory"
              \/ ix = "UpdateCurveHistory" /\ constraint(ix, a) = "curveHistory"
           /\ ix \notin {"Initialize", "InitializeHistory"}
  <1>1. ix \in {"Collateral", "Trade", "Liquidate", "SettleFunding", "UpdateFundingRate",
                "NewUserDeposit", "AdjustCurve", "UpdateCurveHistory", "InitializeMarket",
                "UpdateMarket", "UpdateMarketOracle"}
    BY DEF named
  <1>2. CASE ix \in {"Collateral", "NewUserDeposit"}
    <2>1. named[ix] = deposit_accounts
      BY <1>2 DEF named
    <2>2. QED BY <2>1, <1>2 DEF deposit_accounts, same, constraint, Histories
  <1>3. CASE ix = "Trade"
    <2>1. named[ix] = trade_accounts
      BY <1>3 DEF named
    <2>2. QED BY <2>1, <1>3 DEF trade_accounts, same, constraint, Histories
  <1>4. CASE ix = "Liquidate"
    <2>1. named[ix] = liquidate_accounts
      BY <1>4 DEF named
    <2>2. QED BY <2>1, <1>4 DEF liquidate_accounts, same, constraint, Histories
  <1>5. CASE ix = "AdjustCurve"
    <2>1. named[ix] = curve_accounts
      BY <1>5 DEF named
    <2>2. QED BY <2>1, <1>5 DEF curve_accounts, constraint
  <1>6. CASE ix \in {"SettleFunding", "UpdateFundingRate", "UpdateCurveHistory",
                     "InitializeMarket", "UpdateMarket", "UpdateMarketOracle"}
    <2>1. \/ ix = "SettleFunding" /\ named[ix] = same({"markets", "fundingPaymentHistory"})
          \/ ix = "UpdateFundingRate" /\ named[ix] = same({"markets", "fundingRateHistory"})
          \/ ix = "UpdateCurveHistory" /\ named[ix] = same({"curveHistory"})
          \/ /\ ix \in {"InitializeMarket", "UpdateMarket", "UpdateMarketOracle"}
             /\ named[ix] = same({"markets"})
      BY <1>6 DEF named
    <2>2. QED BY <2>1 DEF same, constraint, Histories
  <1>7. QED BY <1>1, <1>2, <1>3, <1>4, <1>5, <1>6

\* The transaction of an undisturbed call, if what it asks is possible.
LEMMA UndisturbedValid ==
    ASSUME ClientInv, UndisturbedInv, NEW c \in Callers, NEW k, k = calls[c],
           k.todo # <<>>, k.clear, Possible(k), Head(k.todo) = "send"
    PROVE  valid(k)
  <1>1. /\ ~raced /\ Right(k) /\ StepsOK(k) /\ CallOK(k) /\ ForTheCaller(k)
        /\ NeedsHouse(k) => Exists(house)
        /\ Exists(house) => house.refs["markets"] # 0
        /\ Initializing(k) => NoHistories
    BY DEF UndisturbedInv, ClientInv, WalletsInv, HousesInv
  <1>2. k.todo \in Seq(Steps) /\ Sound(k.todo)
    BY <1>1 DEF CallOK, Planned, StepsOK
  <1>3. \A S : "send" \notin S => ~Has(k.todo, S) /\ ~Has(Tail(k.todo), S)
    <2>1. \A S : "send" \notin S => ~Has(k.todo, S)
      BY <1>2, SoundTail
    <2>2. \A S : Has(Tail(k.todo), S) => Has(k.todo, S)
      BY <1>2, HasTail
    <2>3. QED BY <2>1, <2>2
  <1>4. "send" \notin Keys \cup OwnPositions \cup Sending \cup Naming \cup Copying
    BY DEF Keys, OwnPositions, Sending, Naming, Copying
  <1>5. Known(k, k.todo, Tail(k.todo)) /\ k.caller = wallet
        /\ (k.ix # "InitializeHistory" => state = house /\ market = oracle)
    BY <1>1 DEF Right
  <1>6. /\ k.ix \in OwnUser \cup {"Liquidate", "NewUserDeposit"} => k.user = k.caller
        /\ k.ix \in OwnUser => k.positions = users[k.caller]
        /\ k.ix \in {"Liquidate", "SettleFunding"} => k.positions = users[k.arg]
        /\ k.ix \in Creating => k.created = k.caller /\ k.creator = k.caller
        /\ k.sender = k.caller
        /\ k.ix \notin {"NewUser", "UpdateFundingRate", "SettleFunding"} => k.authority = k.caller
    BY <1>3, <1>4, <1>5 DEF Known
  <1>7. /\ {k.authority, k.creator} \subseteq {k.caller, Nobody}
        /\ IF k.ix \in DOMAIN named THEN k.accounts = accounts_of(k.ix)
           ELSE DOMAIN k.accounts = {}
        /\ k.ix \in NeedsOracle \ {"UpdateFundingRate"} => k.oracle = market
    BY <1>3, <1>4, <1>5 DEF Known
  <1>8. {k.authority, k.creator} \subseteq {k.sender, Nobody}
    BY <1>6, <1>7
  <1>9. ASSUME NEW a \in DOMAIN k.accounts
        PROVE  /\ house.refs[constraint(k.ix, a)] # 0
               /\ k.accounts[a] = house.refs[constraint(k.ix, a)]
    <2>1. k.ix \in DOMAIN named /\ k.accounts = accounts_of(k.ix)
      BY <1>7, <1>9
    <2>2. a \in DOMAIN named[k.ix] /\ k.accounts[a] = state.refs[named[k.ix][a]]
      BY <2>1, <1>9 DEF accounts_of
    <2> DEFINE f == constraint(k.ix, a)
    <2>3. /\ named[k.ix][a] = f
          /\ \/ f = "markets"
             \/ /\ f \in Histories
                /\ k.ix \in {"Collateral", "Trade", "Liquidate", "SettleFunding",
                             "UpdateFundingRate", "NewUserDeposit"}
             \/ k.ix = "AdjustCurve" /\ f = "extendedCurveHistory"
             \/ k.ix = "UpdateCurveHistory" /\ f = "curveHistory"
          /\ k.ix \notin {"Initialize", "InitializeHistory"}
      BY <2>1, <2>2, NamedAccounts
    <2> HIDE DEF f
    <2>4. state = house /\ Exists(house)
      BY <2>3, <1>1, <1>5 DEF NeedsHouse
    <2>5. house.refs[f] # 0
      BY <2>3, <2>4, <1>1 DEF Possible
    <2>6. QED BY <2>2, <2>3, <2>4, <2>5 DEF f
  <1>10. k.ix \in Creating => Exists(house) /\ k.created = k.creator /\ users[k.created] = 0
    <2>1. k.ix \in Creating => k.ix # "Initialize"
      BY DEF Creating
    <2>2. k.ix \in Creating => users[k.caller] = 0
      BY DEF Possible
    <2>3. QED BY <2>1, <2>2, <1>1, <1>6 DEF NeedsHouse
  <1>11. k.ix = "NewUserDeposit" => /\ k.user = k.created /\ k.user = k.authority
                                    /\ k.arg \in {Nobody, k.authority}
    BY <1>1, <1>6 DEF ForTheCaller, Creating
  <1>12. /\ k.ix \in OwnUser => k.user = k.authority /\ users[k.user] = k.positions
         /\ k.ix = "Liquidate" => k.user = k.authority /\ users[k.user] # 0
    <2>1. k.ix = "Liquidate" => users[k.caller] # 0
      BY DEF Possible
    <2>2. QED BY <2>1, <1>6 DEF OwnUser
  <1>13. k.ix \in NeedsOracle => k.oracle = oracle
    <2>1. k.ix = "UpdateFundingRate" => k.oracle = oracle
      BY DEF Possible
    <2>2. k.ix \in NeedsOracle => k.ix # "InitializeHistory"
      BY DEF NeedsOracle
    <2>3. QED BY <2>1, <2>2, <1>5, <1>7
  <1>14. k.ix \in NeedsAdmin => k.authority = house.admin
    <2>1. k.ix \in NeedsAdmin => k.caller = house.admin
      BY DEF Possible
    <2>2. k.ix \in NeedsAdmin => k.ix \notin {"NewUser", "UpdateFundingRate", "SettleFunding"}
      BY DEF NeedsAdmin
    <2>3. QED BY <2>1, <2>2, <1>6
  <1>15. k.ix = "InitializeHistory" => \E f \in Histories \cup {"curveHistory"} : house.refs[f] = 0
    <2>1. "depositHistory" \in Histories
      BY DEF Histories
    <2>2. QED BY <2>1, <1>1 DEF Initializing, NoHistories
  <1>16. /\ k.ix \in NeedsMarket => oracle # NoOracle
         /\ k.ix = "Initialize" => ~Exists(house)
         /\ k.ix = "InitializeMarket" => oracle = NoOracle
    BY DEF Possible
  <1>17. k.ix \in {"Liquidate", "SettleFunding"} => users[k.arg] = k.positions
    BY <1>6
  <1>18. QED BY <1>8, <1>9, <1>10, <1>11, <1>12, <1>13, <1>14, <1>15, <1>16, <1>17 DEF valid

\* The answers to an undisturbed call, if what it asks is possible.
LEMMA UndisturbedAnswer ==
    ASSUME ClientInv, UndisturbedInv, NEW c \in Callers, NEW k, k = calls[c],
           k.todo # <<>>, k.clear, Possible(k), NEW s, s = Head(k.todo),
           s \in Asking, k.answer # Unanswered
    PROVE  k.answer = 0 <=> s = "check"
  <1>1. Pending(k) /\ StepsOK(k) /\ CallOK(k)
    BY DEF UndisturbedInv, Right, ClientInv
  <1>2. Suited(k.ix, k.todo) /\ k.todo \in Seq(Steps)
    BY <1>1 DEF StepsOK, CallOK, Planned
  <1>3. \A S : s \in S => Has(k.todo, S)
    BY <1>2, HasTail
  <1>4. CASE s \in {"ownFetch", "fetch"}
    <2>1. k.ix \in OwnUser
      BY <1>2, <1>3, <1>4 DEF Suited, OwnPositions
    <2>2. users[k.caller] # 0
      BY <2>1 DEF Possible, OwnUser
    <2>3. QED BY <2>2, <1>1, <1>4 DEF Pending
  <1>5. CASE s = "victim"
    <2>1. k.ix = "Liquidate"
      BY <1>2, <1>3, <1>5 DEF Suited
    <2>2. users[k.arg] # 0
      BY <2>1 DEF Possible
    <2>3. QED BY <2>2, <1>1, <1>5 DEF Pending
  <1>6. CASE s = "victimPositions"
    BY <1>1, <1>6 DEF Pending
  <1>7. CASE s = "check"
    <2>1. k.ix = "Initialize"
      BY <1>2, <1>3, <1>7 DEF Suited
    <2>2. ~Exists(house)
      BY <2>1 DEF Possible
    <2>3. QED BY <2>2, <1>1, <1>7 DEF Pending
  <1>8. QED BY <1>4, <1>5, <1>6, <1>7 DEF Asking

\* A call of any method of the SDK, made with current copies and left alone by
\* the ledger and the wallet until it ends, never fails for the accounts it
\* names: the keys it asks for are answered, and its transaction satisfies every
\* constraint of the program that the call can be blamed for, whatever the
\* other calls in flight do to the cached accounts.
THEOREM UndisturbedCallsAlwaysSucceed == Spec => []UndisturbedCallsSucceed
  <1>1. ClientInv /\ UndisturbedInv => UndisturbedCallsSucceed
    <2> SUFFICES ASSUME ClientInv, UndisturbedInv, NEW c \in Callers, NEW k, k = calls[c],
                        k.todo # <<>>, k.clear, Possible(k)
                 PROVE  /\ Head(k.todo) = "send" => valid(k)
                        /\ Head(k.todo) \in Asking /\ k.answer # Unanswered =>
                              (k.answer = 0) = (Head(k.todo) = "check")
      BY DEF UndisturbedCallsSucceed
    <2>1. Head(k.todo) = "send" => valid(k)
      BY UndisturbedValid
    <2>2. ASSUME Head(k.todo) \in Asking, k.answer # Unanswered
          PROVE  k.answer = 0 <=> Head(k.todo) = "check"
      <3>1. PICK s : s = Head(k.todo)
        OBVIOUS
      <3>2. QED BY <3>1, <2>2, UndisturbedAnswer
    <2>3. QED BY <2>1, <2>2
  <1>2. QED BY <1>1, ClientInvariance, UndisturbedInitially, UndisturbedStep, PTL DEF Spec
=============================================================================
