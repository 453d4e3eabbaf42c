-------------------------- MODULE BulkAccountLoader --------------------------
(***************************************************************************)
(* The loader the clients of the SDK share: it polls the accounts they     *)
(* registered, in chunks of one RPC request each, keeps the newest answer  *)
(* per account and calls the registered callbacks.                         *)
(*                                                                         *)
(* JavaScript runs one event at a time: an action is what happens from one *)
(* event (a call of a client, a tick of the timer, an answer of the RPC    *)
(* node) to the next, the continuations of the promises it settles         *)
(* included.  The answers of different requests arrive in any order, and a *)
(* node that lags answers for an older slot than one seen before.          *)
(* Error callbacks are assumed to return: the clients listen for the       *)
(* 'error' events that the callbacks of the subscribers emit.              *)
(***************************************************************************)
EXTENDS Integers, Sequences, FiniteSets

CONSTANTS
    Accounts,           \* the accounts of the ledger
    Clients,            \* users of the loader, with a callback per account
    Watched,            \* the accounts a client may register, as pairs
    GenesisAccounts,    \* the accounts registered at first, a sequence
    GenesisCallbacks,   \* the clients that registered them
    Buffers,            \* the possible contents of an account
    Genesis,            \* the contents of the accounts at the first slot
    Writes,             \* changes of an account, as pairs of account and contents
    GET_MULTIPLE_ACCOUNTS_CHUNK_SIZE,
    MaxCalls,           \* bound on the calls of the clients
    MaxLoads,           \* bound on the loads in flight or waited for
    MaxSlot             \* bound on the slots of the ledger

Absent == "absent"              \* the account does not exist
Contents == Buffers \cup {Absent}

ASSUME LoaderAssumption ==
    /\ Watched \subseteq Clients \X Accounts
    /\ GenesisAccounts \in Seq(Accounts)
    /\ GenesisCallbacks \in [Accounts -> SUBSET Clients]
    /\ \A k \in Accounts :
          GenesisCallbacks[k] # {} <=> \E i \in DOMAIN GenesisAccounts : GenesisAccounts[i] = k
    /\ \A i, j \in DOMAIN GenesisAccounts :
          GenesisAccounts[i] = GenesisAccounts[j] => i = j
    /\ Genesis \in [Accounts -> Contents]
    /\ Writes \subseteq Accounts \X Contents
    /\ GET_MULTIPLE_ACCOUNTS_CHUNK_SIZE \in Nat \ {0}
    /\ MaxCalls \in Nat
    /\ MaxLoads \in Nat \ {0}
    /\ MaxSlot \in Nat \ {0}

VARIABLES
    ledger,             \* the contents of the accounts at every slot
    accountsToLoad,     \* the registered accounts, in the order of the Map
    callbacks,          \* the clients with a callback, per account
    accountData,        \* the newest answer, per account
    polling,            \* whether the timer is set
    loadPromise,        \* the load whose promise load() hands out, or NoLoad
    loadPromiseResolver,\* the load whose promise the resolver resolves, or NoLoad
    running,            \* the loads that have not returned
    requests,           \* the RPC requests in flight
    waiting,            \* what a client that called load() waits for
    view,               \* what a callback was told last, per client and account
    calls,              \* the number of calls the clients made
    unheard             \* the accounts whose data came with nobody to tell

vars == <<ledger, accountsToLoad, callbacks, accountData, polling, loadPromise,
          loadPromiseResolver, running, requests, waiting, view, unheard, calls>>

NoLoad == 0
Loads == 1..MaxLoads

NoData == [slot |-> 0, buffer |-> Absent]
Missing == "missing"            \* the callback was never called

\* An account of a chunk: live while the entry of accountsToLoad it was taken
\* from is still registered.
Entries == [key: Accounts, live: BOOLEAN]

NotWaiting == [load |-> NoLoad, own |-> FALSE]

TypeOK ==
    /\ ledger \in Seq([Accounts -> Contents])
    /\ accountsToLoad \in Seq(Accounts)
    /\ callbacks \in [Accounts -> SUBSET Clients]
    /\ accountData \in [Accounts -> [slot: 0..MaxSlot, buffer: Contents]]
    /\ polling \in BOOLEAN
    /\ {loadPromise, loadPromiseResolver} \subseteq Loads \cup {NoLoad}
    /\ running \subseteq Loads
    /\ requests \subseteq [load: Loads, chunk: Seq(Entries)]
    /\ waiting \in [Clients -> [load: Loads \cup {NoLoad}, own: BOOLEAN]]
    /\ view \in [Clients -> [Accounts -> Buffers \cup {Missing}]]
    /\ unheard \subseteq Accounts
    /\ calls \in 0..MaxCalls

Init ==
    /\ ledger = <<Genesis>>
    /\ accountsToLoad = GenesisAccounts
    /\ callbacks = GenesisCallbacks
    /\ accountData = [k \in Accounts |-> NoData]
    /\ polling = (GenesisAccounts # <<>>)
    /\ loadPromise = NoLoad
    /\ loadPromiseResolver = NoLoad
    /\ running = {}
    /\ requests = {}
    /\ waiting = [c \in Clients |-> NotWaiting]
    /\ view = [c \in Clients |-> [k \in Accounts |-> Missing]]
    /\ unheard = {}
    /\ calls = 0

------------------------------------------------------------------------------
(* Registration.                                                           *)

addAccount(c, k) ==
    /\ c \notin callbacks[k]
    /\ accountsToLoad' = IF callbacks[k] = {} THEN Append(accountsToLoad, k)
                                              ELSE accountsToLoad
    /\ callbacks' = [callbacks EXCEPT ![k] = @ \cup {c}]
    /\ view' = [view EXCEPT ![c][k] = Missing]
    /\ polling' = (polling \/ accountsToLoad = <<>>)
    /\ loadPromise' = NoLoad
    /\ UNCHANGED <<ledger, accountData, loadPromiseResolver, running, requests, waiting,
                   unheard>>

\* The requests in flight after account k was taken off the Map.
retired(k) ==
    {[r EXCEPT !.chunk = [i \in DOMAIN r.chunk |->
                            [r.chunk[i] EXCEPT !.live = @ /\ r.chunk[i].key # k]]] :
        r \in requests}

\* The Map after the i-th of its keys was deleted.
without(array, i) == SubSeq(array, 1, i - 1) \o SubSeq(array, i + 1, Len(array))

removeAccount(c, k) ==
    /\ c \in callbacks[k]
    /\ callbacks' = [callbacks EXCEPT ![k] = @ \ {c}]
    /\ IF callbacks[k] = {c}
       THEN /\ \E i \in DOMAIN accountsToLoad : /\ accountsToLoad[i] = k
                                                 /\ accountsToLoad' = without(accountsToLoad, i)
            /\ requests' = retired(k)
       ELSE UNCHANGED <<accountsToLoad, requests>>
    /\ polling' = (polling /\ accountsToLoad' # <<>>)
    /\ UNCHANGED <<ledger, accountData, loadPromise, loadPromiseResolver, running, waiting,
                   view, unheard>>

------------------------------------------------------------------------------
(* Loading.                                                                *)

chunks(array, size) ==
    [n \in 1..((Len(array) + size - 1) \div size) |->
        SubSeq(array, (n - 1) * size + 1,
               IF n * size < Len(array) THEN n * size ELSE Len(array))]

Unused(l) ==
    /\ l \notin running
    /\ l # loadPromise
    /\ \A r \in requests : r.load # l
    /\ \A c \in Clients : waiting[c].load # l

\* The name of a new load and its promise: the first that nobody uses.
NewLoad(l) == Unused(l) /\ \A m \in 1..(l - 1) : ~Unused(m)

\* load() without a promise to hand out: one request per chunk.
start_load(l) ==
    /\ loadPromise = NoLoad
    /\ accountsToLoad # <<>>
    /\ NewLoad(l)
    /\ loadPromise' = l
    /\ loadPromiseResolver' = l
    /\ running' = running \cup {l}
    /\ \E parts \in {chunks([i \in DOMAIN accountsToLoad |->
                                [key |-> accountsToLoad[i], live |-> TRUE]],
                            GET_MULTIPLE_ACCOUNTS_CHUNK_SIZE)} :
          requests' = requests \cup {[load |-> l, chunk |-> parts[n]] : n \in DOMAIN parts}

\* Without accounts there is no request, and the new promise is resolved at once.
load_nothing ==
    /\ loadPromise = NoLoad
    /\ accountsToLoad = <<>>
    /\ loadPromiseResolver' = NoLoad
    /\ UNCHANGED <<loadPromise, running, requests>>

\* A client calls load() and waits: for the load it started, or for the
\* promise of the one that is going on.
load(c) ==
    /\ waiting[c] = NotWaiting
    /\ \/ /\ loadPromise # NoLoad
          /\ waiting' = [waiting EXCEPT ![c] = [load |-> loadPromise, own |-> FALSE]]
          /\ UNCHANGED <<loadPromise, loadPromiseResolver, running, requests>>
       \/ \E l \in Loads :
             /\ start_load(l)
             /\ waiting' = [waiting EXCEPT ![c] = [load |-> l, own |-> TRUE]]
       \/ load_nothing /\ UNCHANGED waiting
    /\ UNCHANGED <<ledger, accountsToLoad, callbacks, accountData, polling, view, unheard>>

\* The timer calls load().
poll ==
    /\ polling
    /\ \E l \in Loads : start_load(l)
    /\ UNCHANGED <<ledger, accountsToLoad, callbacks, accountData, polling, waiting, view,
                   unheard>>

Bug_returning(l) == {c \in Clients : waiting[c].load = loadPromiseResolver /\ ~waiting[c].own}

\* The clients that go on when the load l returns: the one that started it,
\* and the ones whose promise the resolver resolves.
returning(l) ==
    {c \in Clients : \/ waiting[c] = [load |-> l, own |-> TRUE]
                     \/ /\ waiting[c] = [load |-> loadPromiseResolver, own |-> FALSE]
                        /\ waiting[c] # NotWaiting}

\* What the callbacks and fetch() leave in the clients: told are the callbacks
\* called, back are the clients whose load() returned.
new_view(data, told, back) ==
    [c \in Clients |-> [k \in Accounts |->
        IF \/ <<c, k>> \in told
           \/ c \in back /\ c \in callbacks[k] /\ data[k].buffer # Absent
        THEN data[k].buffer ELSE view[c][k]]]

Bug_finish_request(r, new_data, now_told, throws) ==
    \E data \in {new_data}, told \in {now_told} :
    \E returns \in {r.load \in running
                        /\ (throws \/ \A q \in requests \ {r} : q.load # r.load)} :
    \E back \in {IF returns THEN returning(r.load) ELSE {}} :
        /\ requests' = requests \ {r}
        /\ running' = IF returns THEN running \ {r.load} ELSE running
        /\ loadPromise' = IF returns /\ ~throws THEN NoLoad ELSE loadPromise
        /\ waiting' = [c \in Clients |-> IF c \in back THEN NotWaiting ELSE waiting[c]]
        /\ accountData' = data
        /\ view' = new_view(data, told, back)
        /\ UNCHANGED <<ledger, accountsToLoad, callbacks, polling, loadPromiseResolver>>

\* The request r is over.  Its load returns when it was the last one or when
\* loadChunk threw an exception.
finish_request(r, new_data, now_told, throws) ==
    \E data \in {new_data}, told \in {now_told} :
    \E returns \in {r.load \in running
                        /\ (throws \/ \A q \in requests \ {r} : q.load # r.load)} :
    \E back \in {IF returns THEN returning(r.load) ELSE {}} :
        /\ requests' = requests \ {r}
        /\ running' = IF returns THEN running \ {r.load} ELSE running
        /\ loadPromise' = IF returns THEN NoLoad ELSE loadPromise
        /\ waiting' = [c \in Clients |-> IF c \in back THEN NotWaiting ELSE waiting[c]]
        /\ accountData' = data
        /\ view' = new_view(data, told, back)
        /\ UNCHANGED <<ledger, accountsToLoad, callbacks, polling, loadPromiseResolver>>

Bug_replaces(k, s) ==
    accountData[k] = NoData \/ (ledger[s][k] # Absent /\ ledger[s][k] # accountData[k].buffer)

\* Whether an answer for slot s replaces the data of account k.
replaces(k, s) ==
    \/ accountData[k] = NoData
    \/ /\ s > accountData[k].slot
       /\ ledger[s][k] # Absent
       /\ ledger[s][k] # accountData[k].buffer

\* The data after the accounts of a set are stored.
store(keys, s) ==
    [k \in Accounts |-> IF k \in keys THEN [slot |-> s, buffer |-> ledger[s][k]]
                                      ELSE accountData[k]]

Bug_listeners(e) == IF e.live /\ accountData[e.key] = NoData THEN callbacks[e.key] ELSE {}

\* The clients to tell about an entry of a chunk.
listeners(e) == IF e.live THEN callbacks[e.key] ELSE {}

\* A callback cannot decode an account that does not exist.
decode_fails(e, s) ==
    accountData[e.key] = NoData /\ ledger[s][e.key] = Absent /\ listeners(e) # {}

\* loadChunk: the node answers with the accounts at slot s.  An exception in a
\* callback leaves the rest of the chunk undone.
answer(r, s) ==
    \E fails \in {{i \in DOMAIN r.chunk : decode_fails(r.chunk[i], s)}} :
    \E stored \in {{i \in DOMAIN r.chunk : /\ \A j \in fails : i <= j
                                           /\ replaces(r.chunk[i].key, s)}} :
        LET keys(I) == {r.chunk[i].key : i \in I}
            told == UNION {listeners(r.chunk[i]) \X {r.chunk[i].key} : i \in stored \ fails}
        IN  /\ finish_request(r, store(keys(stored), s), told, fails # {})
            /\ unheard' = (unheard \ keys(stored))
                            \cup keys({i \in stored : ~r.chunk[i].live})

\* The request fails; the error callbacks are called and loadChunk returns.
reject(r) == finish_request(r, accountData, {}, FALSE) /\ UNCHANGED unheard

\* The node answers with an error instead of a result, and loadChunk throws.
answer_without_result(r) == finish_request(r, accountData, {}, TRUE) /\ UNCHANGED unheard

settle(r) == (\E s \in DOMAIN ledger : answer(r, s)) \/ reject(r) \/ answer_without_result(r)

------------------------------------------------------------------------------

\* A transaction creates, changes or closes an account.
write(k, b) ==
    /\ Len(ledger) < MaxSlot
    /\ ledger' = Append(ledger, [ledger[Len(ledger)] EXCEPT ![k] = b])
    /\ UNCHANGED <<accountsToLoad, callbacks, accountData, polling, loadPromise,
                   loadPromiseResolver, running, requests, waiting, view, unheard>>

\* A call of a client of the loader.
Call ==
    /\ calls < MaxCalls
    /\ calls' = calls + 1
    /\ \/ \E w \in Watched : addAccount(w[1], w[2]) \/ removeAccount(w[1], w[2])
       \/ \E c \in Clients : load(c)

\* The timer fires, a request is over, or the ledger advances.
Event ==
    /\ UNCHANGED calls
    /\ \/ poll
       \/ \E r \in requests : settle(r)
       \/ \E w \in Writes : write(w[1], w[2])

Next == Call \/ Event

\* Every request is answered, rejected or times out.
Fairness ==
    \A l \in Loads : WF_vars(\E r \in requests : r.load = l /\ settle(r) /\ UNCHANGED calls)

Spec == Init /\ [][Next]_vars /\ Fairness

------------------------------------------------------------------------------

\* A promise that load() hands out belongs to a load that is still running: if
\* one was left behind, every later load() and every tick of the timer would
\* return it and nothing would be loaded again.
NoStuckPromise == loadPromise # NoLoad => loadPromise \in running

\* The cache never goes back to an older slot and never forgets an account,
\* in whatever order the answers arrive.
CacheNeverGoesBack ==
    [][\A k \in Accounts : accountData'[k].slot >= accountData[k].slot
                            /\ (accountData'[k].buffer = Absent => accountData[k].buffer = Absent)]_vars

\* What a callback was told last is what the cache holds, unless the newest
\* data came with the answer to a registration that had been given up.
SubscribersSeeTheCache ==
    \A k \in Accounts \ unheard : \A c \in callbacks[k] :
        view[c][k] # Missing => view[c][k] = accountData[k].buffer

\* A client that starts a load gets it back, whatever the node answers.
StartersReturn == \A c \in Clients : waiting[c].own ~> waiting[c] = NotWaiting

\* Every call of load() returns.
CallersReturn == \A c \in Clients : waiting[c] # NotWaiting ~> waiting[c] = NotWaiting
=============================================================================
