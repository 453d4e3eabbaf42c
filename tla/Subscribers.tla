----------------------------- MODULE Subscribers -----------------------------
(***************************************************************************)
(* The account subscribers of the SDK (sdk/src/accounts): an object that   *)
(* keeps copies of ledger accounts up to date, for the clearing house      *)
(* ("clearingHouse": the state, the markets and optional histories), for a *)
(* user ("user": the user and the positions account it names) or for a     *)
(* token account ("token"), by polling through the BulkAccountLoader or by *)
(* websocket.  A behaviour is the life of one of them and of the           *)
(* ClearingHouse or ClearingHouseUser in front of it.                      *)
(*                                                                         *)
(* JavaScript runs one event at a time: an action is a call of a method up *)
(* to its first await that waits for the network, or an answer and what    *)
(* follows up to the next one.  Callers may overlap.  Nodes lag: an answer *)
(* or a notification is for any slot so far, and any request may fail.     *)
(* The loader is abstracted to what BulkAccountLoader shows of it: its     *)
(* cache takes newer slots only, it tells the registered callbacks, and a  *)
(* load() may end or not, as one that joined another's may wait for ever.  *)
(***************************************************************************)
EXTENDS Integers, Sequences, FiniteSets, SequencesExt

CONSTANTS
    Subjects,       \* the kinds of subscribers, as pairs of type and kind
    Callers,        \* who calls methods of the subscriber
    Extras,         \* the optional accounts of a clearing house
    Contents(_, _), \* the contents of an account at a slot, which may return to earlier ones
    MaxCalls,       \* bound on the calls
    MaxSlot,        \* bound on the slots of the ledger
    MaxEvents       \* bound on the two together

ASSUME SubscribersAssumption ==
    /\ Subjects \subseteq ({"polling"} \X {"clearingHouse", "user", "token"})
                            \cup ({"websocket"} \X {"clearingHouse", "user"})
    /\ MaxCalls \in Nat /\ MaxSlot \in Nat \ {0} /\ MaxEvents \in Nat
    /\ "nobody" \notin Callers
    /\ IsFiniteSet(Extras)
    /\ {"state", "markets", "user", "userPositions", "token", "errorCallback"} \cap Extras = {}

VARIABLES
    who,            \* the type and kind of the subscriber
    head,           \* the newest slot of the ledger
    born,           \* the slot that creates the user's accounts
    front,          \* _isSubscribed of the ClearingHouse or ClearingHouseUser
    isSubscribed,
    isSubscribing,  \* of a clearing house's subscriber
    extras,         \* optionalExtraSubscriptions
    objs,           \* the callbacks at the loader, or the WebSocketAccountSubscribers
    current,        \* per account the one in use, or None
    loaded,         \* per account the slot of the loader's data, 0 without
    data,           \* per account the slot of a polling subscriber's copy, 0 without
    calls,          \* per caller the call in progress
    rpcs,           \* the requests in flight of WebSocketAccountSubscribers
    failed,         \* a subscribe() has thrown
    raced,          \* calls have overlapped that the subscriber does not keep apart
    count           \* the number of calls

vars == <<who, head, born, front, isSubscribed, isSubscribing, extras, objs, current, loaded,
          data, calls, rpcs, failed, raced, count>>
ledger == <<who, head, born>>
flags == <<front, isSubscribed, isSubscribing, extras, failed>>
objects == <<objs, current, rpcs>>
copies == <<loaded, data>>

Polling == who[1] = "polling"
House == who[2] = "clearingHouse"
None == 0
Nobody == "nobody"
ErrorCallback == "errorCallback"

\* The account that is read first, and the one it names.
RootAccount == IF House THEN "state" ELSE who[2]
Linked == IF House THEN "markets" ELSE "userPositions"
BaseAccounts == IF who[2] = "token" THEN {"token"} ELSE {RootAccount, Linked}
Accounts == {"state", "markets", "user", "userPositions", "token", ErrorCallback} \cup Extras

Idle == [pc |-> "idle", optional |-> {}, todo |-> <<>>]

Init ==
    /\ who \in Subjects
    /\ head = 1
    /\ born \in IF who[2] = "user" THEN 1..2 ELSE {1}
    /\ front = FALSE /\ isSubscribed = FALSE /\ isSubscribing = FALSE
    /\ extras = {}
    /\ objs = <<>>
    /\ current = [k \in Accounts |-> None]
    /\ loaded = [k \in Accounts |-> 0]
    /\ data = [k \in Accounts |-> 0]
    /\ calls = [c \in Callers |-> Idle]
    /\ rpcs = {}
    /\ failed = FALSE /\ raced = FALSE
    /\ count = 0

Exists(s) == s >= born

Wait(c, pc) == calls' = [calls EXCEPT ![c].pc = pc]
Return(c) == calls' = [calls EXCEPT ![c] = Idle]
Throw(c) == Return(c) /\ failed' = TRUE /\ UNCHANGED <<front, isSubscribed, isSubscribing, extras>>

Bug_Subscribed(c) ==
    /\ front' = TRUE /\ isSubscribed' = TRUE /\ isSubscribing' = FALSE
    /\ Return(c)
    /\ UNCHANGED failed
\* The end of subscribe(): the callers that wait for its promise return too,
\* and the object in front notes the success.
Subscribed(c) ==
    /\ front' = TRUE /\ isSubscribed' = TRUE /\ isSubscribing' = FALSE
    /\ calls' = [d \in Callers |-> IF d = c \/ calls[d].pc = "promise" THEN Idle ELSE calls[d]]
    /\ UNCHANGED failed

(***************************************************************************)
(* Polling                                                                 *)
(***************************************************************************)
\* The objects after one more is made for each account of a set.
more(accounts, live) ==
    LET new == SetToSeq(accounts)
    IN  /\ objs' = objs \o [i \in DOMAIN new |->
                              [account |-> new[i], slot |-> 0, data |-> 0, live |-> live]]
        /\ current' = [k \in Accounts |->
              IF k \in accounts THEN Len(objs) + (CHOOSE i \in DOMAIN new : new[i] = k)
                                ELSE current[k]]

\* A callback for every account, and one for the errors of the loader.
addToAccountLoader == more(BaseAccounts \cup extras \cup {ErrorCallback}, TRUE)
accountsToPoll == {k \in Accounts \ {ErrorCallback} : current[k] # None}

fetchIfUnloaded(c) ==
    IF \E k \in BaseAccounts : data[k] = 0 THEN Wait(c, "load") /\ UNCHANGED flags
    ELSE Subscribed(c) /\ UNCHANGED extras

\* The answer to the request for the root account, which names the others.
keys_answered(c, s) ==
    /\ calls[c].pc \in {"keys", "bulkKeys"}
    /\ IF ~Exists(s) THEN Throw(c) /\ UNCHANGED objects
       ELSE /\ addToAccountLoader /\ UNCHANGED rpcs
            /\ IF calls[c].pc = "bulkKeys" THEN Wait(c, "bulkLoad") /\ UNCHANGED flags
               ELSE IF House THEN Wait(c, "load") /\ UNCHANGED flags
               ELSE fetchIfUnloaded(c)
    /\ UNCHANGED <<ledger, copies, raced>>

\* The loader's data after the node answered for slot s, 0 if the request failed.
fresh(s) ==
    [k \in Accounts |->
        IF /\ s # 0 /\ \E o \in DOMAIN objs : objs[o].live /\ objs[o].account = k
           /\ loaded[k] = 0 \/ (s > loaded[k] /\ Contents(k, s) # Contents(k, loaded[k]))
        THEN s ELSE loaded[k]]

\* The callbacks copy what is new; fetch copies all that there is.
copied(s, fetches) ==
    [k \in Accounts |->
        IF fresh(s)[k] # loaded[k] \/ (fetches /\ k \in accountsToPoll /\ fresh(s)[k] # 0)
        THEN fresh(s)[k] ELSE data[k]]

\* The load() that c waits for resolves, if it does, in subscribe(), in fetch()
\* or in bulkPollingUserSubscribe, which then calls subscribe().
load_over(c, s) ==
    /\ Polling /\ calls[c].pc \in {"load", "bulkLoad", "fetching"}
    /\ loaded' = fresh(s)
    /\ data' = copied(s, calls[c].pc # "bulkLoad")
    /\ IF calls[c].pc = "fetching" THEN Return(c) /\ UNCHANGED flags
       ELSE IF calls[c].pc = "bulkLoad" THEN Wait(c, "house") /\ UNCHANGED flags
       ELSE IF who[2] = "token" /\ fresh(s)["token"] = 0 THEN Throw(c)
       ELSE Subscribed(c) /\ UNCHANGED extras
    /\ UNCHANGED <<ledger, objects, raced>>

\* A load of the loader's own timer, or of another client.
poll(s) ==
    /\ Polling
    /\ loaded' = fresh(s) /\ data' = copied(s, FALSE)
    /\ UNCHANGED <<ledger, flags, objects, calls, raced>>

(***************************************************************************)
(* Websocket                                                               *)
(***************************************************************************)
requests(c, ids, listen) == {[obj |-> o, listen |-> listen, by |-> c] : o \in ids}

Bug_handleRpcResponse(x, s) ==
    IF Exists(s) /\ (x.data = 0 \/ Contents(x.account, s) # Contents(x.account, x.data))
    THEN [x EXCEPT !.slot = s, !.data = s] ELSE x
handleRpcResponse(x, s) ==
    IF x.slot = 0 THEN [x EXCEPT !.slot = s, !.data = IF Exists(s) THEN s ELSE 0]
    ELSE IF /\ s > x.slot /\ Exists(s)
            /\ x.data = 0 \/ Contents(x.account, s) # Contents(x.account, x.data)
    THEN [x EXCEPT !.slot = s, !.data = s] ELSE x

\* fetch() of a WebSocketAccountSubscriber returns; subscribe() then listens.
answered(r, s) ==
    LET x == handleRpcResponse(objs[r.obj], s)
    IN  [objs EXCEPT ![r.obj] = [x EXCEPT !.live = x.live \/ r.listen]]

\* What a caller does with its last answer: the objects are x, with the new one.
RootAnswered(c, x) ==
    IF x[current[RootAccount]].data = 0
    THEN Throw(c) /\ objs' = x /\ UNCHANGED current
    ELSE /\ Wait(c, "linked") /\ UNCHANGED flags
         /\ objs' = Append(x, [account |-> Linked, slot |-> 0, data |-> 0, live |-> FALSE])
         /\ current' = [current EXCEPT ![Linked] = Len(x) + 1]

LinkedAnswered(c, x) ==
    LET new == SetToSeq(Extras)
        id(k) == Len(x) + (CHOOSE i \in DOMAIN new : new[i] = k)
    IN  IF ~House THEN Subscribed(c) /\ objs' = x /\ UNCHANGED <<current, extras>>
        ELSE /\ objs' = x \o [i \in DOMAIN new |-> [account |-> new[i], slot |-> 0, data |-> 0,
                                                   live |-> FALSE]]
             /\ current' = [k \in Accounts |-> IF k \in Extras THEN id(k) ELSE current[k]]
             /\ extras' = calls[c].optional
             /\ IF calls[c].optional = {} THEN Subscribed(c)
                ELSE Wait(c, "extras") /\ UNCHANGED <<front, isSubscribed, isSubscribing, failed>>

\* The requests that follow the answer r.
NextRequests(c) ==
    IF calls'[c].pc = "linked" /\ calls[c].pc # "linked"
    THEN requests(c, {current'[Linked]}, TRUE)
    ELSE IF calls'[c].pc = "extras" /\ calls[c].pc # "extras"
    THEN requests(c, {current'[k] : k \in calls[c].optional}, TRUE) ELSE {}

rpc_answered(r, s) ==
    LET c == r.by
        last == c \in Callers /\ \A q \in rpcs \ {r} : q.by # c
    IN  /\ IF ~last THEN objs' = answered(r, s) /\ UNCHANGED <<current, calls, flags>>
           ELSE IF calls[c].pc = "root" THEN RootAnswered(c, answered(r, s))
           ELSE IF calls[c].pc = "linked" THEN LinkedAnswered(c, answered(r, s))
           ELSE /\ objs' = answered(r, s) /\ UNCHANGED current
                /\ IF calls[c].pc = "extras" THEN Subscribed(c) /\ UNCHANGED extras
                   ELSE Return(c) /\ UNCHANGED flags
        /\ rpcs' = (rpcs \ {r}) \cup (IF last THEN NextRequests(c) ELSE {})
        /\ UNCHANGED <<ledger, copies, raced>>

\* The other requests of a call that fails go on, with nobody to wait for them.
orphans(c) == {IF q.by = c THEN [q EXCEPT !.by = Nobody] ELSE q : q \in rpcs}

rpc_rejected(r) ==
    LET c == r.by
    IN  /\ IF c \notin Callers THEN rpcs' = rpcs \ {r} /\ UNCHANGED <<calls, flags>>
           ELSE /\ rpcs' = orphans(c) \ {[r EXCEPT !.by = Nobody]}
                /\ IF calls[c].pc = "fetching" THEN Return(c) /\ UNCHANGED flags ELSE Throw(c)
        /\ UNCHANGED <<ledger, copies, objs, current, raced>>

\* The node notifies a listener, late or twice perhaps.
notify(o, s) ==
    /\ ~Polling /\ objs[o].live
    /\ objs' = [objs EXCEPT ![o] = handleRpcResponse(@, s)]
    /\ UNCHANGED <<ledger, flags, copies, current, calls, rpcs, raced>>

(***************************************************************************)
(* The methods                                                             *)
(***************************************************************************)
\* subscribe() of the subscriber, past the guards: up to its first request.
begin(c, optional) ==
    IF ~Polling
    THEN /\ more({RootAccount}, FALSE)
         /\ rpcs' = rpcs \cup requests(c, {Len(objs) + 1}, TRUE)
         /\ calls' = [calls EXCEPT ![c] = [Idle EXCEPT !.pc = "root", !.optional = optional]]
         /\ isSubscribing' = House
         /\ UNCHANGED <<front, isSubscribed, extras, failed>>
    ELSE IF House
    THEN /\ Wait(c, "keys") /\ isSubscribing' = TRUE /\ extras' = optional
         /\ UNCHANGED <<front, isSubscribed, failed, objects>>
    ELSE IF who[2] = "token"
    THEN /\ IF current["token"] = None THEN addToAccountLoader ELSE UNCHANGED <<objs, current>>
         /\ Wait(c, "load") /\ UNCHANGED <<flags, rpcs>>
    ELSE IF accountsToPoll # {} THEN fetchIfUnloaded(c) /\ UNCHANGED objects
    ELSE Wait(c, "keys") /\ UNCHANGED <<flags, objects>>

InProgress == {"keys", "load", "bulkKeys", "bulkLoad", "root", "linked"}

Bug_enter(c, optional) ==
    /\ raced' = (raced \/ (~House /\ \E d \in Callers \ {c} : calls[d].pc \in InProgress))
    /\ IF isSubscribed
       THEN Return(c) /\ front' = TRUE
            /\ UNCHANGED <<isSubscribed, isSubscribing, extras, failed, objects>>
       ELSE begin(c, optional)
    /\ UNCHANGED <<ledger, copies>>
enter(c, optional) ==
    /\ raced' = (raced \/ (~House /\ \E d \in Callers \ {c} : calls[d].pc \in InProgress))
    /\ IF isSubscribed
       THEN Return(c) /\ front' = TRUE
            /\ UNCHANGED <<isSubscribed, isSubscribing, extras, failed, objects>>
       ELSE IF isSubscribing THEN Wait(c, "promise") /\ UNCHANGED <<flags, objects>>
       ELSE begin(c, optional)
    /\ UNCHANGED <<ledger, copies>>

\* A ClearingHouseUser waits for its clearing house first.
subscribe(c, optional) ==
    IF who[2] # "user" THEN enter(c, optional)
    ELSE optional = {} /\ Wait(c, "house")
         /\ UNCHANGED <<ledger, flags, objects, copies, raced>>

house_ready(c) == calls[c].pc = "house" /\ enter(c, {})
house_fails(c) ==
    calls[c].pc = "house" /\ Throw(c) /\ UNCHANGED <<ledger, objects, copies, raced>>

bulkPollingUserSubscribe(c) ==
    /\ who = <<"polling", "user">>
    /\ raced' = (raced \/ \E d \in Callers : calls[d].pc \in InProgress)
    /\ Wait(c, IF accountsToPoll # {} THEN "bulkLoad" ELSE "bulkKeys")
    /\ UNCHANGED <<ledger, flags, objects, copies>>

\* Without a subscription a websocket subscriber of the clearing house fetches
\* nothing, and one of a user throws; what that has asked for goes on.
fetch(c) ==
    LET there == {k \in BaseAccounts \cup extras : current[k] # None}
        waits == there = BaseAccounts \cup extras
    IN  /\ IF Polling THEN Wait(c, "fetching") /\ UNCHANGED rpcs
           ELSE /\ (IF House THEN isSubscribed ELSE there # {})
                /\ rpcs' = rpcs \cup requests(IF waits THEN c ELSE Nobody,
                                              {current[k] : k \in there}, FALSE)
                /\ IF waits THEN Wait(c, "fetching") ELSE Return(c)
        /\ UNCHANGED <<ledger, flags, copies, objs, current, raced>>

released(accounts) ==
    [o \in DOMAIN objs |-> IF o \in {current[k] : k \in accounts}
                           THEN [objs[o] EXCEPT !.live = FALSE] ELSE objs[o]]

\* The order in which unsubscribe() of a clearing house takes the listeners off.
inOrder == <<"state", "markets">> \o SetToSeq(extras)

Bug_unsubscribed == current' = [k \in Accounts |-> None] /\ UNCHANGED objs
unsubscribed == current' = [k \in Accounts |-> None] /\ objs' = released(Accounts)

unsubscribe(c) ==
    /\ IF ~isSubscribed
       THEN Return(c) /\ front' = FALSE
            /\ UNCHANGED <<isSubscribed, isSubscribing, extras, failed, objects, raced>>
       ELSE IF Polling
       THEN /\ Return(c) /\ unsubscribed /\ front' = FALSE /\ isSubscribed' = FALSE
            /\ UNCHANGED <<isSubscribing, extras, failed, rpcs, raced>>
       ELSE /\ calls' = [calls EXCEPT ![c] = [Idle EXCEPT !.pc = "removing",
                                               !.todo = IF House THEN Tail(inOrder) ELSE <<>>]]
            /\ objs' = released(IF House THEN {Head(inOrder)} ELSE BaseAccounts)
            /\ raced' = (raced \/ \E d \in Callers : calls[d].pc = "removing")
            /\ UNCHANGED <<flags, current, rpcs>>
    /\ UNCHANGED <<ledger, copies>>

\* The node confirms that a listener is off.
removed(c) ==
    /\ calls[c].pc = "removing"
    /\ IF calls[c].todo = <<>>
       THEN /\ Return(c) /\ front' = FALSE /\ isSubscribed' = FALSE
            /\ UNCHANGED <<isSubscribing, extras, failed, objs>>
       ELSE /\ calls' = [calls EXCEPT ![c].todo = Tail(@)]
            /\ objs' = released({Head(calls[c].todo)})
            /\ UNCHANGED flags
    /\ UNCHANGED <<ledger, copies, current, rpcs, raced>>

(***************************************************************************)
(* The specification                                                       *)
(***************************************************************************)
Call(c) ==
    /\ calls[c] = Idle /\ count < MaxCalls /\ count + head < MaxEvents
    /\ count' = count + 1
    /\ \/ \E optional \in SUBSET Extras : subscribe(c, optional)
       \/ bulkPollingUserSubscribe(c)
       \/ fetch(c)
       \/ unsubscribe(c)

Slots == 1..head

\* The call of c goes on.
Continue(c) ==
    /\ UNCHANGED count
    /\ \/ \E s \in 0..head : keys_answered(c, s)
       \/ \E s \in {0} \cup {t \in Slots : Exists(t)} : load_over(c, s)
       \/ \E r \in {q \in rpcs : q.by = c} : rpc_rejected(r) \/ \E s \in Slots : rpc_answered(r, s)
       \/ house_ready(c) \/ house_fails(c)
       \/ removed(c)

Event ==
    /\ UNCHANGED count
    /\ \/ \E s \in {t \in Slots : Exists(t)} : poll(s)
       \/ \E r \in {q \in rpcs : q.by = Nobody} :
             rpc_rejected(r) \/ \E s \in Slots : rpc_answered(r, s)
       \/ \E o \in DOMAIN objs, s \in Slots : notify(o, s)
       \/ /\ head < MaxSlot /\ count + head < MaxEvents /\ head' = head + 1
          /\ UNCHANGED <<who, born, flags, objects, copies, calls, raced>>

Next == Event \/ \E c \in Callers : Call(c) \/ Continue(c)

\* The call of c waits for another object: for a load() of the loader, which may
\* never resolve when it joined the load of somebody else, or for subscribe() of
\* the clearing house, which may never resolve once one of it has thrown.
Elsewhere(c) ==
    calls[c].pc = "house" \/ (Polling /\ calls[c].pc \in {"load", "bulkLoad", "fetching"})

\* Every request of the subscriber's own is answered, fails or times out.
Fairness == \A c \in Callers : WF_vars(~Elsewhere(c) /\ Continue(c))

Spec == Init /\ [][Next]_vars /\ Fairness

------------------------------------------------------------------------------
\* What a getter returns: the slot of the copy, or an exception.
Throws == -1
getAccount(k) ==
    IF ~isSubscribed \/ k \notin BaseAccounts \cup extras THEN Throws
    ELSE IF Polling THEN data[k] ELSE objs[current[k]].data

\* Once nobody is subscribed or subscribing, no callback is left at the loader
\* and no listener at the node, unless calls raced that nothing keeps apart or
\* a subscribe() failed, which undoes nothing.
ReleasedWhenUnsubscribed ==
    /\ ~isSubscribed /\ ~raced /\ ~failed
    /\ \A c \in Callers : calls[c] = Idle
    => \A o \in DOMAIN objs : ~objs[o].live

\* A subscriber that calls itself subscribed hears of every account it has a
\* getter for, until unsubscribe() begins, and hears once unless a subscribe()
\* failed before.
SubscribedIsLive ==
    isSubscribed /\ ~raced /\ (\A c \in Callers : calls[c].pc # "removing") =>
        \A k \in BaseAccounts \cup extras :
            /\ current[k] # None /\ objs[current[k]].live
            /\ failed \/ Cardinality({o \in DOMAIN objs : objs[o].live /\ objs[o].account = k}) = 1

\* While a subscription lasts, what a getter returns is replaced by what the
\* account was at a later slot only, in whatever order answers, loads and
\* notifications come.  (The slot is the one recorded with the copy.  Equal
\* contents do not advance it, so that a late answer for a slot in between may
\* still show contents that the ledger has left again.)
OnlyLaterSlotsReplace ==
    [][\A k \in Accounts :
        getAccount(k) > 0 /\ getAccount(k)' # Throws /\ current'[k] = current[k] =>
            getAccount(k)' >= getAccount(k)]_vars

\* As long as what it waits for elsewhere comes about, every call returns or
\* throws: nobody waits for a subscribe() that was left without an end.  Except
\* for a clearing house of which an earlier subscribe() has thrown: that leaves
\* isSubscribing set, and the promise is never resolved.
CallsReturn ==
    (\A c \in Callers : []<>~Elsewhere(c)) =>
        \A c \in Callers : calls[c] # Idle ~> calls[c] = Idle \/ (House /\ failed)
=============================================================================
