---------------------------- MODULE LoaderProofs -----------------------------
(***************************************************************************)
(* Safety of the account loader, for any number of clients, accounts and   *)
(* loads, every size of the chunks and every order of the answers.         *)
(***************************************************************************)
EXTENDS BulkAccountLoader, SequenceTheorems, TLAPS

(***************************************************************************)
(* The inductive invariant.  Its parts are about different pieces of the   *)
(* state of the loader, and each is proved from itself and TypeOK, except  *)
(* SubscribersSeeTheCache, which needs Untold.                             *)
(***************************************************************************)

\* The ledger is never empty.
Slots == Len(ledger) \in 1..MaxSlot

\* The Map of the accounts to load holds exactly the accounts with a callback,
\* each of them once, and the timer is set as long as there is one.
Registered ==
    /\ \A i, j \in DOMAIN accountsToLoad : accountsToLoad[i] = accountsToLoad[j] => i = j
    /\ \A k \in Accounts :
          callbacks[k] # {} <=> \E i \in DOMAIN accountsToLoad : accountsToLoad[i] = k
    /\ polling <=> accountsToLoad # <<>>

\* A load that has not returned has a request in flight, and the client that
\* started it waits for nothing else.
InFlight ==
    /\ \A l \in running : \E r \in requests : r.load = l
    /\ \A c \in Clients : waiting[c].own => waiting[c].load \in running

\* Nobody was told about an account without data.
Untold == \A k \in Accounts : accountData[k] = NoData => \A c \in Clients : view[c][k] = Missing

LoaderInv ==
    /\ TypeOK
    /\ Slots
    /\ Registered
    /\ NoStuckPromise
    /\ InFlight
    /\ Untold
    /\ SubscribersSeeTheCache

------------------------------------------------------------------------------
(* The chunks of a list, and the list without one of its elements.         *)

\* The chunks are parts of the list, and a list that is not empty has one.
LEMMA ChunksOfList ==
    ASSUME NEW S, NEW array \in Seq(S), NEW size \in Nat \ {0}
    PROVE  /\ \A n \in DOMAIN chunks(array, size) : chunks(array, size)[n] \in Seq(S)
           /\ array # <<>> => 1 \in DOMAIN chunks(array, size)
  <1> DEFINE count == (Len(array) + size - 1) \div size
             last(n) == IF n * size < Len(array) THEN n * size ELSE Len(array)
  <1>1. Len(array) \in Nat /\ count \in Int
    BY Z3
  <1>2. DOMAIN chunks(array, size) = 1..count
    BY DEF chunks
  <1>3. ASSUME NEW n \in 1..count PROVE SubSeq(array, (n - 1) * size + 1, last(n)) \in Seq(S)
    <2>1. n \in Nat /\ n >= 1
      BY <1>1
    <2>2. (n - 1) * size \in Nat /\ n * size \in Nat
      BY <2>1
    <2>3. last(n) \in Int /\ last(n) <= Len(array)
      BY <2>2, <1>1
    <2> HIDE DEF last
    <2>4. \A i \in ((n - 1) * size + 1)..last(n) : i \in 1..Len(array)
      BY <2>2, <2>3, <1>1
    <2>5. \A i \in ((n - 1) * size + 1)..last(n) : array[i] \in S
      BY <2>4
    <2>6. (n - 1) * size + 1 \in Int
      BY <2>2
    <2>7. QED BY <2>3, <2>5, <2>6, SubSeqProperties
  <1>4. ASSUME NEW n \in DOMAIN chunks(array, size) PROVE chunks(array, size)[n] \in Seq(S)
    BY <1>2, <1>3 DEF chunks
  <1>5. ASSUME array # <<>> PROVE 1 \in DOMAIN chunks(array, size)
    <2>1. Len(array) >= 1
      BY <1>5, <1>1
    <2>2. count >= 1
      BY <2>1, <1>1
    <2>3. QED BY <2>2, <1>1, <1>2
  <1>6. QED BY <1>4, <1>5

\* Deleting a key leaves the others.
LEMMA WithoutKey ==
    ASSUME NEW S, NEW array \in Seq(S), NEW i \in DOMAIN array,
           \A m, n \in DOMAIN array : array[m] = array[n] => m = n
    PROVE  /\ without(array, i) \in Seq(S)
           /\ \A m, n \in DOMAIN without(array, i) :
                 without(array, i)[m] = without(array, i)[n] => m = n
           /\ \A k \in S : (\E m \in DOMAIN without(array, i) : without(array, i)[m] = k)
                             <=> k # array[i] /\ \E m \in DOMAIN array : array[m] = k
  <1> DEFINE left == SubSeq(array, 1, i - 1)
             right == SubSeq(array, i + 1, Len(array))
             w == without(array, i)
  <1>1. Len(array) \in Nat /\ i \in 1..Len(array) /\ DOMAIN array = 1..Len(array)
    OBVIOUS
  <1>2. \A m \in 1..Len(array) : array[m] \in S
    OBVIOUS
  <1>3. /\ left \in Seq(S)
        /\ Len(left) = i - 1
        /\ \A m \in 1..(i - 1) : left[m] = array[m]
    <2>1. \A m \in 1..(i - 1) : array[m] \in S
      BY <1>1, <1>2
    <2>2. i - 1 \in Int /\ 1 \in Int
      BY <1>1
    <2>3. /\ left \in Seq(S)
          /\ Len(left) = IF 1 <= i - 1 THEN (i - 1) - 1 + 1 ELSE 0
          /\ \A m \in 1..((i - 1) - 1 + 1) : left[m] = array[1 + m - 1]
      BY <2>1, <2>2, SubSeqProperties
    <2>4. QED BY <2>3, <1>1
  <1>4. /\ right \in Seq(S)
        /\ Len(right) = Len(array) - i
        /\ \A m \in 1..(Len(array) - i) : right[m] = array[i + m]
    <2>1. \A m \in (i + 1)..Len(array) : array[m] \in S
      BY <1>1, <1>2
    <2>2. i + 1 \in Int /\ Len(array) \in Int
      BY <1>1
    <2>3. /\ right \in Seq(S)
          /\ Len(right) = IF i + 1 <= Len(array) THEN Len(array) - (i + 1) + 1 ELSE 0
          /\ \A m \in 1..(Len(array) - (i + 1) + 1) : right[m] = array[(i + 1) + m - 1]
      BY <2>1, <2>2, SubSeqProperties
    <2>4. QED BY <2>3, <1>1
  <1>5. w = left \o right
    BY DEF without
  <1> HIDE DEF left, right, w
  <1>6. /\ w \in Seq(S)
        /\ Len(w) = Len(array) - 1
        /\ \A m \in 1..(Len(array) - 1) : w[m] = IF m < i THEN array[m] ELSE array[m + 1]
    <2>1. w \in Seq(S) /\ Len(w) = Len(left) + Len(right)
      BY <1>3, <1>4, <1>5, ConcatProperties
    <2>2. ASSUME NEW m \in 1..(Len(array) - 1)
          PROVE  w[m] = IF m < i THEN array[m] ELSE array[m + 1]
      <3>1. w[m] = IF m <= Len(left) THEN left[m] ELSE right[m - Len(left)]
        BY <1>1, <1>3, <1>4, <1>5
      <3>2. CASE m < i
        BY <3>1, <3>2, <1>1, <1>3
      <3>3. CASE ~(m < i)
        <4>1. w[m] = right[m - (i - 1)] /\ m - (i - 1) \in 1..(Len(array) - i)
          BY <3>1, <3>3, <1>1, <1>3
        <4>2. right[m - (i - 1)] = array[i + (m - (i - 1))] /\ i + (m - (i - 1)) = m + 1
          BY <4>1, <1>1, <1>4
        <4>3. QED BY <4>1, <4>2, <3>3
      <3>4. QED BY <3>2, <3>3
    <2>3. QED BY <2>1, <2>2, <1>1, <1>3, <1>4
  <1>7. DOMAIN w = 1..(Len(array) - 1)
    BY <1>6
  <1>8. ASSUME NEW m \in DOMAIN w, NEW n \in DOMAIN w, w[m] = w[n] PROVE m = n
    BY <1>1, <1>6, <1>7, <1>8
  <1>9. ASSUME NEW k \in S
        PROVE  (\E m \in DOMAIN w : w[m] = k)
                 <=> k # array[i] /\ \E m \in DOMAIN array : array[m] = k
    <2>1. ASSUME NEW m \in DOMAIN w, w[m] = k
          PROVE  k # array[i] /\ \E n \in DOMAIN array : array[n] = k
      BY <2>1, <1>1, <1>6, <1>7
    <2>2. ASSUME k # array[i], NEW n \in DOMAIN array, array[n] = k
          PROVE  \E m \in DOMAIN w : w[m] = k
      <3>1. CASE n < i
        BY <3>1, <2>2, <1>1, <1>6, <1>7
      <3>2. CASE n > i
        <4>1. n - 1 \in DOMAIN w /\ ~(n - 1 < i) /\ (n - 1) + 1 = n
          BY <3>2, <1>1, <1>7
        <4>2. w[n - 1] = array[n]
          BY <4>1, <1>6, <1>7
        <4>3. QED BY <4>1, <4>2, <2>2
      <3>3. QED BY <3>1, <3>2, <2>2, <1>1
    <2>3. QED BY <2>1, <2>2
  <1>10. QED BY <1>6, <1>8, <1>9 DEF w

------------------------------------------------------------------------------
(* Every action preserves the invariant.                                   *)

LEMMA Initially == Init => LoaderInv
  <1> SUFFICES ASSUME Init PROVE LoaderInv
    OBVIOUS
  <1> USE LoaderAssumption DEF Init
  <1>1. TypeOK
    <2>1. ledger \in Seq([Accounts -> Contents])
      OBVIOUS
    <2>2. accountData \in [Accounts -> [slot: 0..MaxSlot, buffer: Contents]]
      BY DEF NoData, Contents
    <2>3. {loadPromise, loadPromiseResolver} \subseteq Loads \cup {NoLoad}
      OBVIOUS
    <2>4. waiting \in [Clients -> [load: Loads \cup {NoLoad}, own: BOOLEAN]]
      BY DEF NotWaiting
    <2>5. QED BY <2>1, <2>2, <2>3, <2>4 DEF TypeOK
  <1>2. Slots
    BY DEF Slots
  <1>3. Registered
    BY DEF Registered
  <1>4. NoStuckPromise
    BY DEF NoStuckPromise
  <1>5. InFlight
    BY DEF InFlight, NotWaiting
  <1>6. Untold
    BY DEF Untold
  <1>7. SubscribersSeeTheCache
    BY DEF SubscribersSeeTheCache
  <1>8. QED BY <1>1, <1>2, <1>3, <1>4, <1>5, <1>6, <1>7 DEF LoaderInv

LEMMA AddAccountStep ==
    ASSUME LoaderInv, NEW c \in Clients, NEW k \in Accounts, addAccount(c, k),
           calls' \in 0..MaxCalls
    PROVE  LoaderInv'
  <1> USE DEF LoaderInv
  <1>1. TypeOK'
    <2>1. accountsToLoad' \in Seq(Accounts)
      BY DEF addAccount, TypeOK
    <2>2. callbacks' \in [Accounts -> SUBSET Clients]
      BY DEF addAccount, TypeOK
    <2>3. view' \in [Clients -> [Accounts -> Buffers \cup {Missing}]]
      BY DEF addAccount, TypeOK
    <2>4. polling' \in BOOLEAN
      BY DEF addAccount
    <2>5. QED BY <2>1, <2>2, <2>3, <2>4 DEF addAccount, TypeOK
  <1>2. Slots'
    BY DEF addAccount, Slots
  <1>3. Registered'
    <2>1. /\ callbacks' = [callbacks EXCEPT ![k] = @ \cup {c}]
          /\ callbacks \in [Accounts -> SUBSET Clients]
          /\ accountsToLoad \in Seq(Accounts)
          /\ polling' = (polling \/ accountsToLoad = <<>>)
      BY DEF addAccount, TypeOK
    <2>2. CASE callbacks[k] = {}
      <3>1. accountsToLoad' = Append(accountsToLoad, k)
        BY <2>2 DEF addAccount
      <3>2. ~\E i \in DOMAIN accountsToLoad : accountsToLoad[i] = k
        BY <2>2 DEF Registered
      <3>3. /\ accountsToLoad' # <<>>
            /\ DOMAIN accountsToLoad' = 1..(Len(accountsToLoad) + 1)
            /\ Len(accountsToLoad) \in Nat
            /\ DOMAIN accountsToLoad = 1..Len(accountsToLoad)
            /\ accountsToLoad'[Len(accountsToLoad) + 1] = k
            /\ \A i \in DOMAIN accountsToLoad : accountsToLoad'[i] = accountsToLoad[i]
        BY <2>1, <3>1
      <3>4. \A i, j \in DOMAIN accountsToLoad' : accountsToLoad'[i] = accountsToLoad'[j] => i = j
        BY <3>2, <3>3 DEF Registered
      <3>5. ASSUME NEW a \in Accounts
            PROVE callbacks'[a] # {} <=> \E i \in DOMAIN accountsToLoad' : accountsToLoad'[i] = a
        <4>1. CASE a = k
          <5>1. callbacks'[k] # {}
            BY <2>1
          <5>2. \E i \in DOMAIN accountsToLoad' : accountsToLoad'[i] = k
            BY <3>3
          <5>3. QED BY <5>1, <5>2, <4>1
        <4>2. CASE a # k
          <5>1. callbacks'[a] = callbacks[a]
            BY <4>2, <2>1
          <5>2. (\E i \in DOMAIN accountsToLoad' : accountsToLoad'[i] = a)
                  <=> \E i \in DOMAIN accountsToLoad : accountsToLoad[i] = a
            BY <4>2, <3>3
          <5>3. QED BY <5>1, <5>2 DEF Registered
        <4>3. QED BY <4>1, <4>2
      <3>6. polling' <=> accountsToLoad' # <<>>
        BY <2>1, <3>3 DEF Registered
      <3>7. QED BY <3>4, <3>5, <3>6 DEF Registered
    <2>3. CASE callbacks[k] # {}
      <3>1. accountsToLoad' = accountsToLoad
        BY <2>3 DEF addAccount
      <3>2. \A a \in Accounts : callbacks'[a] # {} <=> callbacks[a] # {}
        BY <2>1, <2>3
      <3>3. polling' <=> accountsToLoad' # <<>>
        <4>1. accountsToLoad # <<>>
          BY <2>3 DEF Registered
        <4>2. polling
          BY <4>1 DEF Registered
        <4>3. QED BY <4>1, <4>2, <3>1, <2>1
      <3>4. QED BY <3>1, <3>2, <3>3 DEF Registered
    <2>4. QED BY <2>2, <2>3
  <1>4. NoStuckPromise'
    BY DEF addAccount, NoStuckPromise
  <1>5. InFlight'
    BY DEF addAccount, InFlight
  <1>6. Untold'
    BY DEF addAccount, Untold, TypeOK
  <1>7. SubscribersSeeTheCache'
    BY DEF addAccount, SubscribersSeeTheCache, TypeOK
  <1>8. QED BY <1>1, <1>2, <1>3, <1>4, <1>5, <1>6, <1>7

\* The requests keep their loads when an account is taken off the Map.
LEMMA RetiredRequests ==
    ASSUME requests \subseteq [load: Loads, chunk: Seq(Entries)], NEW k
    PROVE  /\ retired(k) \subseteq [load: Loads, chunk: Seq(Entries)]
           /\ \A l : (\E r \in requests : r.load = l) => \E r \in retired(k) : r.load = l
  <1> DEFINE chunkOf(r) == [i \in DOMAIN r.chunk |->
                              [r.chunk[i] EXCEPT !.live = @ /\ r.chunk[i].key # k]]
             now(r) == [r EXCEPT !.chunk = chunkOf(r)]
  <1>1. retired(k) = {now(r) : r \in requests}
    BY DEF retired
  <1>2. ASSUME NEW r \in requests
        PROVE  now(r) \in [load: Loads, chunk: Seq(Entries)] /\ now(r).load = r.load
    <2>1. r \in [load: Loads, chunk: Seq(Entries)]
      OBVIOUS
    <2>2. ASSUME NEW i \in DOMAIN r.chunk PROVE chunkOf(r)[i] \in Entries
      <3>1. r.chunk[i] \in Entries
        BY <2>1
      <3>2. (r.chunk[i].live /\ r.chunk[i].key # k) \in BOOLEAN
        OBVIOUS
      <3>3. QED BY <3>1, <3>2 DEF Entries
    <2>3. DOMAIN r.chunk = 1..Len(r.chunk) /\ Len(r.chunk) \in Nat
      BY <2>1
    <2>4. chunkOf(r) \in Seq(Entries)
      <3>1. chunkOf(r) \in [1..Len(r.chunk) -> Entries]
        BY <2>2, <2>3
      <3> HIDE DEF chunkOf
      <3>2. QED BY <3>1, <2>3, SeqDef
    <2> HIDE DEF chunkOf
    <2>5. QED BY <2>1, <2>4
  <1> HIDE DEF now
  <1>3. QED BY <1>1, <1>2

LEMMA RemoveAccountStep ==
    ASSUME LoaderInv, NEW c \in Clients, NEW k \in Accounts, removeAccount(c, k),
           calls' \in 0..MaxCalls
    PROVE  LoaderInv'
  <1> USE DEF LoaderInv
  <1>1. /\ callbacks' = [callbacks EXCEPT ![k] = @ \ {c}]
        /\ callbacks \in [Accounts -> SUBSET Clients]
        /\ accountsToLoad \in Seq(Accounts)
        /\ polling' = (polling /\ accountsToLoad' # <<>>)
        /\ c \in callbacks[k]
    BY DEF removeAccount, TypeOK
  <1>2. /\ callbacks[k] # {c} => accountsToLoad' = accountsToLoad
        /\ callbacks[k] = {c} =>
              \E i \in DOMAIN accountsToLoad : /\ accountsToLoad[i] = k
                                               /\ accountsToLoad' = without(accountsToLoad, i)
    BY DEF removeAccount
  <1>3. /\ accountsToLoad' \in Seq(Accounts)
        /\ \A m, n \in DOMAIN accountsToLoad' : accountsToLoad'[m] = accountsToLoad'[n] => m = n
        /\ \A a \in Accounts :
              callbacks'[a] # {} <=> \E m \in DOMAIN accountsToLoad' : accountsToLoad'[m] = a
    <2>1. CASE callbacks[k] = {c}
      <3>1. PICK i \in DOMAIN accountsToLoad : /\ accountsToLoad[i] = k
                                               /\ accountsToLoad' = without(accountsToLoad, i)
        BY <1>2, <2>1
      <3>2. \A m, n \in DOMAIN accountsToLoad : accountsToLoad[m] = accountsToLoad[n] => m = n
        BY DEF Registered
      <3>3. /\ accountsToLoad' \in Seq(Accounts)
            /\ \A m, n \in DOMAIN accountsToLoad' : accountsToLoad'[m] = accountsToLoad'[n] => m = n
            /\ \A a \in Accounts :
                  (\E m \in DOMAIN accountsToLoad' : accountsToLoad'[m] = a)
                    <=> a # k /\ \E m \in DOMAIN accountsToLoad : accountsToLoad[m] = a
        BY <3>1, <3>2, <1>1, WithoutKey
      <3>4. \A a \in Accounts : callbacks'[a] = IF a = k THEN {} ELSE callbacks[a]
        BY <1>1, <2>1
      <3>5. QED BY <3>3, <3>4 DEF Registered
    <2>2. CASE callbacks[k] # {c}
      <3>1. \A a \in Accounts : callbacks'[a] # {} <=> callbacks[a] # {}
        BY <1>1, <2>2
      <3>2. QED BY <3>1, <1>1, <1>2, <2>2 DEF Registered
    <2>3. QED BY <2>1, <2>2
  <1>4. /\ requests' \subseteq [load: Loads, chunk: Seq(Entries)]
        /\ \A l : (\E r \in requests : r.load = l) => \E r \in requests' : r.load = l
    <2>1. requests \subseteq [load: Loads, chunk: Seq(Entries)]
      BY DEF TypeOK
    <2>2. requests' = requests \/ requests' = retired(k)
      BY DEF removeAccount
    <2>3. QED BY <2>1, <2>2, RetiredRequests
  <1>5. TypeOK'
    <2>1. callbacks' \in [Accounts -> SUBSET Clients]
      BY <1>1
    <2>2. polling' \in BOOLEAN
      BY <1>1
    <2>3. QED BY <2>1, <2>2, <1>3, <1>4 DEF removeAccount, TypeOK
  <1>6. Registered'
    <2>1. polling' <=> accountsToLoad' # <<>>
      <3>1. polling
        BY <1>1 DEF Registered
      <3>2. QED BY <3>1, <1>1
    <2>2. QED BY <2>1, <1>3 DEF Registered
  <1>7. Slots' /\ NoStuckPromise' /\ Untold'
    BY DEF removeAccount, Slots, NoStuckPromise, Untold
  <1>8. InFlight'
    BY <1>4 DEF removeAccount, InFlight
  <1>9. SubscribersSeeTheCache'
    <2>1. \A a \in Accounts : callbacks'[a] \subseteq callbacks[a]
      BY <1>1
    <2>2. QED BY <2>1 DEF removeAccount, SubscribersSeeTheCache
  <1>10. QED BY <1>5, <1>6, <1>7, <1>8, <1>9

\* A load is started with a request in flight.
LEMMA StartLoad ==
    ASSUME LoaderInv, NEW l \in Loads, start_load(l)
    PROVE  /\ requests' \subseteq [load: Loads, chunk: Seq(Entries)]
           /\ requests \subseteq requests'
           /\ \E r \in requests' : r.load = l
           /\ running' = running \cup {l}
           /\ loadPromise' = l /\ loadPromiseResolver' = l
  <1> DEFINE array == [i \in DOMAIN accountsToLoad |-> [key |-> accountsToLoad[i], live |-> TRUE]]
             parts == chunks(array, GET_MULTIPLE_ACCOUNTS_CHUNK_SIZE)
  <1>1. array \in Seq(Entries) /\ array # <<>>
    <2>1. accountsToLoad \in Seq(Accounts) /\ accountsToLoad # <<>>
      BY DEF LoaderInv, TypeOK, start_load
    <2>2. Len(accountsToLoad) \in Nat /\ DOMAIN accountsToLoad = 1..Len(accountsToLoad)
      BY <2>1
    <2>3. array \in [1..Len(accountsToLoad) -> Entries]
      BY <2>1, <2>2 DEF Entries
    <2>4. DOMAIN array = 1..Len(accountsToLoad) /\ Len(accountsToLoad) # 0
      BY <2>1, <2>2
    <2> HIDE DEF array
    <2>5. array \in Seq(Entries)
      BY <2>2, <2>3, SeqDef
    <2>6. QED BY <2>2, <2>4, <2>5
  <1>2. /\ \A n \in DOMAIN parts : parts[n] \in Seq(Entries)
        /\ 1 \in DOMAIN parts
    <2> HIDE DEF array
    <2>1. QED BY <1>1, LoaderAssumption, ChunksOfList
  <1>3. requests' = requests \cup {[load |-> l, chunk |-> parts[n]] : n \in DOMAIN parts}
    BY DEF start_load
  <1> HIDE DEF parts
  <1>4. requests \subseteq [load: Loads, chunk: Seq(Entries)]
    BY DEF LoaderInv, TypeOK
  <1>5. \E r \in requests' : r.load = l
    <2>1. [load |-> l, chunk |-> parts[1]] \in requests'
      BY <1>2, <1>3
    <2>2. QED BY <2>1
  <1>6. requests' \subseteq [load: Loads, chunk: Seq(Entries)]
    BY <1>2, <1>3, <1>4
  <1>7. requests \subseteq requests'
    BY <1>3
  <1>8. running' = running \cup {l} /\ loadPromise' = l /\ loadPromiseResolver' = l
    BY DEF start_load
  <1>9. QED BY <1>5, <1>6, <1>7, <1>8

\* What the calls of load() and the ticks of the timer have in common.
LEMMA LoadStep ==
    ASSUME LoaderInv, calls' \in 0..MaxCalls,
           UNCHANGED <<ledger, accountsToLoad, callbacks, accountData, polling, view, unheard>>,
           \/ UNCHANGED <<loadPromise, loadPromiseResolver, running, requests>>
           \/ load_nothing
           \/ \E l \in Loads : start_load(l),
           waiting' \in [Clients -> [load: Loads \cup {NoLoad}, own: BOOLEAN]],
           \A c \in Clients : waiting'[c].own => waiting'[c].load \in running'
    PROVE  LoaderInv'
  <1> USE DEF LoaderInv
  <1>1. /\ requests' \subseteq [load: Loads, chunk: Seq(Entries)]
        /\ {loadPromise', loadPromiseResolver'} \subseteq Loads \cup {NoLoad}
        /\ running' \subseteq Loads
        /\ \A m \in running' : \E r \in requests' : r.load = m
        /\ loadPromise' # NoLoad => loadPromise' \in running'
    <2>1. CASE UNCHANGED <<loadPromise, loadPromiseResolver, running, requests>>
      BY <2>1 DEF TypeOK, InFlight, NoStuckPromise
    <2>2. CASE load_nothing
      BY <2>2 DEF load_nothing, TypeOK, InFlight, NoStuckPromise
    <2>3. CASE \E l \in Loads : start_load(l)
      <3>1. PICK l \in Loads : start_load(l)
        BY <2>3
      <3>2. QED BY <3>1, StartLoad DEF TypeOK, InFlight
    <2>4. QED BY <2>1, <2>2, <2>3
  <1>2. TypeOK'
    BY <1>1 DEF TypeOK
  <1>3. Slots' /\ Registered' /\ Untold' /\ SubscribersSeeTheCache'
    BY DEF Slots, Registered, Untold, SubscribersSeeTheCache
  <1>4. NoStuckPromise' /\ InFlight'
    BY <1>1 DEF NoStuckPromise, InFlight
  <1>5. QED BY <1>2, <1>3, <1>4

LEMMA CallLoadStep ==
    ASSUME LoaderInv, NEW c \in Clients, load(c), calls' \in 0..MaxCalls
    PROVE  LoaderInv'
  <1>1. waiting \in [Clients -> [load: Loads \cup {NoLoad}, own: BOOLEAN]]
    BY DEF LoaderInv, TypeOK
  <1>2. \A d \in Clients : waiting[d].own => waiting[d].load \in running
    BY DEF LoaderInv, InFlight
  <1>3. UNCHANGED <<ledger, accountsToLoad, callbacks, accountData, polling, view, unheard>>
    BY DEF load
  <1>4. CASE /\ loadPromise # NoLoad
             /\ waiting' = [waiting EXCEPT ![c] = [load |-> loadPromise, own |-> FALSE]]
             /\ UNCHANGED <<loadPromise, loadPromiseResolver, running, requests>>
    <2>1. loadPromise \in Loads \cup {NoLoad}
      BY DEF LoaderInv, TypeOK
    <2>2. waiting' \in [Clients -> [load: Loads \cup {NoLoad}, own: BOOLEAN]]
      BY <2>1, <1>1, <1>4
    <2>3. \A d \in Clients : waiting'[d].own => waiting'[d].load \in running'
      BY <1>1, <1>2, <1>4
    <2>4. QED BY <2>2, <2>3, <1>3, <1>4, LoadStep
  <1>5. CASE \E l \in Loads : /\ start_load(l)
                              /\ waiting' = [waiting EXCEPT ![c] = [load |-> l, own |-> TRUE]]
    <2>1. PICK l \in Loads : /\ start_load(l)
                             /\ waiting' = [waiting EXCEPT ![c] = [load |-> l, own |-> TRUE]]
      BY <1>5
    <2>2. running' = running \cup {l}
      BY <2>1, StartLoad
    <2>3. waiting' \in [Clients -> [load: Loads \cup {NoLoad}, own: BOOLEAN]]
      BY <2>1, <1>1
    <2>4. \A d \in Clients : waiting'[d].own => waiting'[d].load \in running'
      BY <1>1, <1>2, <2>1, <2>2
    <2>5. QED BY <2>1, <2>3, <2>4, <1>3, LoadStep
  <1>6. CASE load_nothing /\ UNCHANGED waiting
    <2>1. \A d \in Clients : waiting'[d].own => waiting'[d].load \in running'
      BY <1>2, <1>6 DEF load_nothing
    <2>2. QED BY <2>1, <1>1, <1>3, <1>6, LoadStep
  <1>7. QED BY <1>4, <1>5, <1>6 DEF load

LEMMA PollStep ==
    ASSUME LoaderInv, poll, calls' \in 0..MaxCalls
    PROVE  LoaderInv'
  <1>1. PICK l \in Loads : start_load(l)
    BY DEF poll
  <1>2. /\ UNCHANGED <<ledger, accountsToLoad, callbacks, accountData, polling, view, unheard>>
        /\ UNCHANGED waiting
    BY DEF poll
  <1>3. running' = running \cup {l}
    BY <1>1, StartLoad
  <1>4. waiting' \in [Clients -> [load: Loads \cup {NoLoad}, own: BOOLEAN]]
    BY <1>2 DEF LoaderInv, TypeOK
  <1>5. \A c \in Clients : waiting'[c].own => waiting'[c].load \in running'
    BY <1>2, <1>3 DEF LoaderInv, InFlight
  <1>6. QED BY <1>1, <1>2, <1>4, <1>5, LoadStep

(***************************************************************************)
(* The end of a request: the load it belongs to returns or goes on with    *)
(* another request.                                                        *)
(***************************************************************************)
LEMMA FinishRequest ==
    ASSUME LoaderInv, NEW r \in requests, NEW data, NEW told, NEW throws \in BOOLEAN,
           finish_request(r, data, told, throws)
    PROVE  /\ UNCHANGED <<ledger, accountsToLoad, callbacks, polling>>
           /\ requests' \subseteq [load: Loads, chunk: Seq(Entries)]
           /\ {loadPromise', loadPromiseResolver'} \subseteq Loads \cup {NoLoad}
           /\ running' \subseteq Loads
           /\ waiting' \in [Clients -> [load: Loads \cup {NoLoad}, own: BOOLEAN]]
           /\ NoStuckPromise'
           /\ InFlight'
           /\ accountData' = data
           /\ \E back \in SUBSET Clients : view' = new_view(data, told, back)
  <1> DEFINE returns == r.load \in running
                          /\ (throws \/ \A q \in requests \ {r} : q.load # r.load)
             back == IF returns THEN returning(r.load) ELSE {}
  <1>1. /\ requests' = requests \ {r}
        /\ running' = IF returns THEN running \ {r.load} ELSE running
        /\ loadPromise' = IF returns THEN NoLoad ELSE loadPromise
        /\ waiting' = [c \in Clients |-> IF c \in back THEN NotWaiting ELSE waiting[c]]
        /\ accountData' = data
        /\ view' = new_view(data, told, back)
        /\ UNCHANGED <<ledger, accountsToLoad, callbacks, polling, loadPromiseResolver>>
    BY DEF finish_request
  <1>2. back \in SUBSET Clients
    BY DEF returning
  <1>3. /\ requests \subseteq [load: Loads, chunk: Seq(Entries)]
        /\ running \subseteq Loads
        /\ {loadPromise, loadPromiseResolver} \subseteq Loads \cup {NoLoad}
        /\ waiting \in [Clients -> [load: Loads \cup {NoLoad}, own: BOOLEAN]]
    BY DEF LoaderInv, TypeOK
  <1>4. NotWaiting \in [load: Loads \cup {NoLoad}, own: BOOLEAN] /\ NotWaiting.own = FALSE
    BY DEF NotWaiting
  <1>5. NoStuckPromise'
    BY <1>1 DEF LoaderInv, NoStuckPromise
  <1>6. \A l \in running' : \E q \in requests' : q.load = l
    <2>1. SUFFICES ASSUME NEW l \in running' PROVE \E q \in requests' : q.load = l
      OBVIOUS
    <2>2. l \in running
      BY <1>1
    <2>3. CASE l = r.load
      <3>1. ~returns
        BY <1>1, <2>3
      <3>2. \E q \in requests \ {r} : q.load = r.load
        BY <3>1, <2>2, <2>3
      <3>3. QED BY <3>2, <2>3, <1>1
    <2>4. CASE l # r.load
      BY <2>2, <2>4, <1>1 DEF LoaderInv, InFlight
    <2>5. QED BY <2>3, <2>4
  <1>7. \A c \in Clients : waiting'[c].own => waiting'[c].load \in running'
    <2>1. SUFFICES ASSUME NEW c \in Clients, waiting'[c].own PROVE waiting'[c].load \in running'
      OBVIOUS
    <2>2. waiting'[c] = waiting[c] /\ c \notin back
      BY <2>1, <1>1, <1>4
    <2>3. waiting[c].load \in running
      BY <2>1, <2>2 DEF LoaderInv, InFlight
    <2>4. CASE returns
      <3>1. waiting[c] # [load |-> r.load, own |-> TRUE]
        BY <2>2, <2>4 DEF returning
      <3>2. waiting[c] \in [load: Loads \cup {NoLoad}, own: BOOLEAN]
        BY <1>3
      <3>3. waiting[c].own = TRUE
        BY <3>2, <2>1, <2>2
      <3>4. waiting[c].load # r.load
        BY <3>1, <3>2, <3>3
      <3>5. QED BY <3>4, <2>2, <2>3, <2>4, <1>1
    <2>5. CASE ~returns
      BY <2>2, <2>3, <2>5, <1>1
    <2>6. QED BY <2>4, <2>5
  <1> HIDE DEF returns, back
  <1>8. InFlight'
    BY <1>6, <1>7 DEF InFlight
  <1>9. waiting' \in [Clients -> [load: Loads \cup {NoLoad}, own: BOOLEAN]]
    BY <1>1, <1>3, <1>4
  <1>10. QED BY <1>1, <1>2, <1>3, <1>5, <1>8, <1>9

\* A request that brings no data leaves the cache and what the callbacks know.
LEMMA NoAnswerStep ==
    ASSUME LoaderInv, NEW r \in requests, reject(r) \/ answer_without_result(r),
           calls' \in 0..MaxCalls
    PROVE  LoaderInv' /\ UNCHANGED accountData
  <1> USE DEF LoaderInv
  <1>1. PICK throws \in BOOLEAN : finish_request(r, accountData, {}, throws)
    BY DEF reject, answer_without_result
  <1>2. UNCHANGED unheard
    BY DEF reject, answer_without_result
  <1>3. /\ UNCHANGED <<ledger, accountsToLoad, callbacks, polling>>
        /\ requests' \subseteq [load: Loads, chunk: Seq(Entries)]
        /\ {loadPromise', loadPromiseResolver'} \subseteq Loads \cup {NoLoad}
        /\ running' \subseteq Loads
        /\ waiting' \in [Clients -> [load: Loads \cup {NoLoad}, own: BOOLEAN]]
        /\ NoStuckPromise'
        /\ InFlight'
        /\ accountData' = accountData
        /\ \E back \in SUBSET Clients : view' = new_view(accountData, {}, back)
    BY <1>1, FinishRequest
  <1>4. PICK back \in SUBSET Clients : view' = new_view(accountData, {}, back)
    BY <1>3
  <1>5. /\ accountData \in [Accounts -> [slot: 0..MaxSlot, buffer: Contents]]
        /\ view \in [Clients -> [Accounts -> Buffers \cup {Missing}]]
        /\ callbacks \in [Accounts -> SUBSET Clients]
    BY DEF TypeOK
  <1>6. \A c \in Clients, k \in Accounts :
          view'[c][k] = IF c \in back /\ c \in callbacks[k] /\ accountData[k].buffer # Absent
                        THEN accountData[k].buffer ELSE view[c][k]
    BY <1>4 DEF new_view
  <1>7. view' \in [Clients -> [Accounts -> Buffers \cup {Missing}]]
    BY <1>4, <1>5 DEF new_view, Contents
  <1>8. TypeOK'
    BY <1>2, <1>3, <1>7 DEF TypeOK
  <1>9. Slots' /\ Registered'
    BY <1>3 DEF Slots, Registered
  <1>10. Untold'
    BY <1>3, <1>6 DEF Untold, NoData
  <1>11. SubscribersSeeTheCache'
    BY <1>2, <1>3, <1>5, <1>6 DEF SubscribersSeeTheCache
  <1>12. QED BY <1>3, <1>8, <1>9, <1>10, <1>11

(***************************************************************************)
(* An answer stores the accounts of the chunk that it replaces.  A key is  *)
(* stored once or more; it is unheard of when one of its entries has been  *)
(* retired, and otherwise every client with a callback is told, except by  *)
(* the callback that fails for an account that does not exist.             *)
(***************************************************************************)
LEMMA AnswerStep ==
    ASSUME LoaderInv, NEW r \in requests, NEW s \in DOMAIN ledger, answer(r, s),
           calls' \in 0..MaxCalls
    PROVE  /\ LoaderInv'
           /\ \A k \in Accounts :
                 /\ accountData'[k].slot >= accountData[k].slot
                 /\ accountData'[k].buffer = Absent => accountData[k].buffer = Absent
  <1> USE DEF LoaderInv
  <1> DEFINE chunk == r.chunk
             fails == {i \in DOMAIN chunk : decode_fails(chunk[i], s)}
             stored == {i \in DOMAIN chunk : /\ \A j \in fails : i <= j
                                             /\ replaces(chunk[i].key, s)}
             keys(I) == {chunk[i].key : i \in I}
             told == UNION {listeners(chunk[i]) \X {chunk[i].key} : i \in stored \ fails}
             replaced == keys(stored)
             data == store(replaced, s)
  <1>1. /\ finish_request(r, data, told, fails # {})
        /\ unheard' = (unheard \ keys(stored)) \cup keys({i \in stored : ~chunk[i].live})
    BY DEF answer
  <1>2. /\ ledger \in Seq([Accounts -> Contents])
        /\ accountData \in [Accounts -> [slot: 0..MaxSlot, buffer: Contents]]
        /\ callbacks \in [Accounts -> SUBSET Clients]
        /\ view \in [Clients -> [Accounts -> Buffers \cup {Missing}]]
        /\ unheard \subseteq Accounts
        /\ r.chunk \in Seq(Entries)
    BY DEF TypeOK
  <1>3. \A i \in DOMAIN chunk : chunk[i].key \in Accounts /\ chunk[i].live \in BOOLEAN
    <2>1. \A i \in DOMAIN chunk : chunk[i] \in Entries
      BY <1>2
    <2>2. QED BY <2>1 DEF Entries
  <1>4. s \in 1..MaxSlot /\ ledger[s] \in [Accounts -> Contents]
    BY <1>2, LoaderAssumption DEF Slots
  <1>5. /\ UNCHANGED <<ledger, accountsToLoad, callbacks, polling>>
        /\ requests' \subseteq [load: Loads, chunk: Seq(Entries)]
        /\ {loadPromise', loadPromiseResolver'} \subseteq Loads \cup {NoLoad}
        /\ running' \subseteq Loads
        /\ waiting' \in [Clients -> [load: Loads \cup {NoLoad}, own: BOOLEAN]]
        /\ NoStuckPromise'
        /\ InFlight'
        /\ accountData' = data
        /\ \E back \in SUBSET Clients : view' = new_view(data, told, back)
    <2> HIDE DEF data, told, fails
    <2>1. (fails # {}) \in BOOLEAN
      OBVIOUS
    <2>2. QED BY <2>1, <1>1, FinishRequest
  <1>6. PICK back \in SUBSET Clients : view' = new_view(data, told, back)
    BY <1>5
  <1>7. /\ \A k \in replaced \cap Accounts :
              /\ data[k] \in [slot: 0..MaxSlot, buffer: Contents]
              /\ data[k].slot = s /\ data[k].buffer = ledger[s][k]
        /\ \A k \in Accounts \ replaced : data[k] = accountData[k]
    <2>1. ASSUME NEW k \in replaced \cap Accounts
          PROVE  /\ data[k] \in [slot: 0..MaxSlot, buffer: Contents]
                 /\ data[k].slot = s /\ data[k].buffer = ledger[s][k]
      <3>1. data[k] = [slot |-> s, buffer |-> ledger[s][k]]
        BY DEF store
      <3>2. s \in 0..MaxSlot /\ ledger[s][k] \in Contents
        BY <1>4
      <3> HIDE DEF data
      <3>3. QED BY <3>1, <3>2
    <2>2. ASSUME NEW k \in Accounts \ replaced PROVE data[k] = accountData[k]
      BY DEF store
    <2>3. QED BY <2>1, <2>2
  <1>8. \A c \in Clients, k \in Accounts :
          view'[c][k] = IF \/ <<c, k>> \in told
                           \/ c \in back /\ c \in callbacks[k] /\ data[k].buffer # Absent
                        THEN data[k].buffer ELSE view[c][k]
    BY <1>6 DEF new_view
  <1>9. \A k \in replaced : k \in Accounts /\ replaces(k, s)
    BY <1>3
  <1>10. ASSUME NEW c, NEW k, <<c, k>> \in told
         PROVE  /\ k \in replaced /\ c \in Clients
                /\ ledger[s][k] # Absent
    <2>1. PICK i \in stored \ fails : <<c, k>> \in listeners(chunk[i]) \X {chunk[i].key}
      BY <1>10
    <2>2. c \in listeners(chunk[i]) /\ k = chunk[i].key /\ i \in DOMAIN chunk
      BY <2>1
    <2>3. c \in callbacks[k] /\ k \in replaced
      BY <2>1, <2>2 DEF listeners
    <2>4. ~(accountData[k] = NoData /\ ledger[s][k] = Absent)
      BY <2>1, <2>2 DEF decode_fails
    <2>5. replaces(k, s)
      BY <2>3, <1>9
    <2>6. QED BY <2>3, <2>4, <2>5, <1>2, <1>9 DEF replaces
  <1>11. ASSUME NEW k \in replaced, k \notin unheard', NEW c \in callbacks[k]
         PROVE  <<c, k>> \in told \/ (accountData[k] = NoData /\ ledger[s][k] = Absent)
    <2>1. PICK i \in stored : k = chunk[i].key
      OBVIOUS
    <2>2. chunk[i].live
      BY <2>1, <1>1, <1>11
    <2>3. c \in listeners(chunk[i])
      BY <2>1, <2>2 DEF listeners
    <2>4. CASE i \in fails
      BY <2>1, <2>4 DEF decode_fails
    <2>5. CASE i \notin fails
      <3>1. i \in stored \ fails /\ <<c, k>> \in listeners(chunk[i]) \X {chunk[i].key}
        BY <2>1, <2>3, <2>5
      <3>2. QED BY <3>1
    <2>6. QED BY <2>4, <2>5
  <1>12. /\ \A k : k \notin replaced /\ k \notin unheard' => k \notin unheard
         /\ unheard' \subseteq Accounts
    BY <1>1, <1>2, <1>3
  <1> HIDE DEF stored, fails, keys, replaced, told, data
  <1>13. data \in [Accounts -> [slot: 0..MaxSlot, buffer: Contents]]
    <2>1. \A k \in Accounts : data[k] \in [slot: 0..MaxSlot, buffer: Contents]
      BY <1>2, <1>4, <1>7
    <2>2. QED BY <2>1 DEF data, store
  <1>14. view' \in [Clients -> [Accounts -> Buffers \cup {Missing}]]
    <2>1. ASSUME NEW c \in Clients, NEW k \in Accounts
          PROVE  view'[c][k] \in Buffers \cup {Missing}
      <3>1. CASE <<c, k>> \in told
        <4>1. data[k].buffer # Absent
          BY <3>1, <1>7, <1>10
        <4>2. QED BY <4>1, <3>1, <1>8, <1>13 DEF Contents
      <3>2. CASE <<c, k>> \notin told
        BY <3>2, <1>2, <1>8, <1>13 DEF Contents
      <3>3. QED BY <3>1, <3>2
    <2>2. QED BY <2>1, <1>6 DEF new_view
  <1>15. TypeOK'
    BY <1>5, <1>12, <1>13, <1>14 DEF TypeOK
  <1>16. Slots' /\ Registered'
    BY <1>5 DEF Slots, Registered
  <1>17. Untold'
    <2>1. SUFFICES ASSUME NEW k \in Accounts, data[k] = NoData, NEW c \in Clients
                   PROVE  view'[c][k] = Missing
      BY <1>5 DEF Untold
    <2>2. k \notin replaced
      <3>1. data[k].slot = 0
        BY <2>1 DEF NoData
      <3>2. QED BY <3>1, <1>4, <1>7
    <2>3. accountData[k] = NoData /\ data[k].buffer = Absent
      BY <2>1, <2>2, <1>7 DEF NoData
    <2>4. <<c, k>> \notin told
      BY <2>2, <1>10
    <2>5. view'[c][k] = view[c][k]
      BY <2>3, <2>4, <1>8
    <2>6. QED BY <2>3, <2>5 DEF Untold
  <1>18. SubscribersSeeTheCache'
    <2>1. SUFFICES ASSUME NEW k \in Accounts, k \notin unheard', NEW c \in callbacks[k],
                          view'[c][k] # Missing
                   PROVE  view'[c][k] = data[k].buffer
      BY <1>5 DEF SubscribersSeeTheCache
    <2>2. c \in Clients
      BY <1>2
    <2>3. CASE k \in replaced
      <3>1. CASE <<c, k>> \in told
        BY <3>1, <2>2, <1>8
      <3>2. CASE accountData[k] = NoData /\ ledger[s][k] = Absent
        <4>1. view[c][k] = Missing
          BY <3>2, <2>2 DEF Untold
        <4>2. QED BY <4>1, <2>1, <2>2, <1>8
      <3>3. QED BY <3>1, <3>2, <2>1, <2>3, <1>11
    <2>4. CASE k \notin replaced
      <3>1. k \notin unheard /\ data[k] = accountData[k]
        BY <2>1, <2>4, <1>7, <1>12
      <3>2. view[c][k] # Missing => view[c][k] = data[k].buffer
        BY <3>1 DEF SubscribersSeeTheCache
      <3>3. QED BY <3>2, <2>1, <2>2, <1>8
    <2>5. QED BY <2>3, <2>4
  <1>19. \A k \in Accounts :
            /\ accountData'[k].slot >= accountData[k].slot
            /\ accountData'[k].buffer = Absent => accountData[k].buffer = Absent
    <2>1. SUFFICES ASSUME NEW k \in Accounts
                   PROVE  /\ data[k].slot >= accountData[k].slot
                          /\ data[k].buffer = Absent => accountData[k].buffer = Absent
      BY <1>5
    <2>2. accountData[k].slot \in Int
      BY <1>2
    <2>3. CASE k \in replaced
      <3>1. data[k].slot = s /\ data[k].buffer = ledger[s][k] /\ replaces(k, s)
        BY <2>3, <1>7, <1>9
      <3>2. QED BY <3>1, <2>2, <1>4 DEF replaces, NoData
    <2>4. CASE k \notin replaced
      BY <2>2, <2>4, <1>7
    <2>5. QED BY <2>3, <2>4
  <1>20. QED BY <1>5, <1>15, <1>16, <1>17, <1>18, <1>19

LEMMA WriteStep ==
    ASSUME LoaderInv, NEW k \in Accounts, NEW b \in Contents, write(k, b), calls' \in 0..MaxCalls
    PROVE  LoaderInv'
  <1> USE DEF LoaderInv
  <1>1. /\ ledger \in Seq([Accounts -> Contents])
        /\ Len(ledger) \in 1..MaxSlot
        /\ Len(ledger) < MaxSlot
        /\ ledger' = Append(ledger, [ledger[Len(ledger)] EXCEPT ![k] = b])
    BY DEF TypeOK, Slots, write
  <1>2. [ledger[Len(ledger)] EXCEPT ![k] = b] \in [Accounts -> Contents]
    BY <1>1
  <1>3. ledger' \in Seq([Accounts -> Contents]) /\ Len(ledger') = Len(ledger) + 1
    BY <1>1, <1>2
  <1>4. TypeOK'
    BY <1>3 DEF TypeOK, write
  <1>5. Slots'
    BY <1>1, <1>3, LoaderAssumption DEF Slots
  <1>6. Registered' /\ NoStuckPromise' /\ InFlight' /\ Untold' /\ SubscribersSeeTheCache'
    BY DEF write, Registered, NoStuckPromise, InFlight, Untold, SubscribersSeeTheCache
  <1>7. QED BY <1>4, <1>5, <1>6

------------------------------------------------------------------------------
(* The theorems.                                                           *)

\* A step keeps the invariant, and only an answer changes the cache.
LEMMA LoaderStep ==
    ASSUME LoaderInv, [Next]_vars
    PROVE  /\ LoaderInv'
           /\ \A k \in Accounts :
                 /\ accountData'[k].slot >= accountData[k].slot
                 /\ accountData'[k].buffer = Absent => accountData[k].buffer = Absent
  <1> DEFINE Forward == \A k \in Accounts :
                          /\ accountData'[k].slot >= accountData[k].slot
                          /\ accountData'[k].buffer = Absent => accountData[k].buffer = Absent
  <1>1. \A k \in Accounts : accountData[k].slot \in Int
    BY DEF LoaderInv, TypeOK
  <1>2. UNCHANGED accountData => Forward
    BY <1>1
  <1>3. calls \in 0..MaxCalls /\ MaxCalls \in Nat
    BY LoaderAssumption DEF LoaderInv, TypeOK
  <1> HIDE DEF Forward
  <1>4. CASE UNCHANGED vars
    <2>1. LoaderInv'
      BY <1>4 DEF vars, LoaderInv, TypeOK, Slots, Registered, NoStuckPromise, InFlight, Untold,
                  SubscribersSeeTheCache
    <2>2. QED BY <2>1, <1>2, <1>4 DEF vars, Forward
  <1>5. CASE Call
    <2>1. calls' \in 0..MaxCalls
      BY <1>3, <1>5 DEF Call
    <2>2. ASSUME NEW w \in Watched, addAccount(w[1], w[2]) \/ removeAccount(w[1], w[2])
          PROVE  LoaderInv' /\ UNCHANGED accountData
      <3>1. w[1] \in Clients /\ w[2] \in Accounts
        BY LoaderAssumption
      <3>2. LoaderInv'
        BY <3>1, <2>1, <2>2, AddAccountStep, RemoveAccountStep
      <3>3. QED BY <3>2, <2>2 DEF addAccount, removeAccount
    <2>3. ASSUME NEW c \in Clients, load(c)
          PROVE  LoaderInv' /\ UNCHANGED accountData
      BY <2>1, <2>3, CallLoadStep DEF load
    <2>4. QED BY <2>2, <2>3, <1>2, <1>5 DEF Call, Forward
  <1>6. CASE Event
    <2>1. calls' \in 0..MaxCalls
      BY <1>3, <1>6 DEF Event
    <2>2. CASE poll
      BY <2>1, <2>2, <1>2, PollStep DEF poll, Forward
    <2>3. ASSUME NEW r \in requests, settle(r)
          PROVE  LoaderInv' /\ Forward
      <3>1. CASE \E s \in DOMAIN ledger : answer(r, s)
        BY <3>1, <2>1, AnswerStep DEF Forward
      <3>2. CASE reject(r) \/ answer_without_result(r)
        BY <3>2, <2>1, <1>2, NoAnswerStep
      <3>3. QED BY <3>1, <3>2, <2>3 DEF settle
    <2>4. ASSUME NEW w \in Writes, write(w[1], w[2])
          PROVE  LoaderInv' /\ Forward
      <3>1. w[1] \in Accounts /\ w[2] \in Contents
        BY LoaderAssumption
      <3>2. LoaderInv'
        BY <3>1, <2>1, <2>4, WriteStep
      <3>3. QED BY <3>2, <2>4, <1>2 DEF write
    <2>5. QED BY <2>2, <2>3, <2>4, <1>6 DEF Event, Forward
  <1>7. QED BY <1>4, <1>5, <1>6 DEF Next

LEMMA LoaderInvariance == Spec => []LoaderInv
  <1>1. LoaderInv /\ [Next]_vars => LoaderInv'
    BY LoaderStep
  <1>2. QED BY <1>1, Initially, PTL DEF Spec

\* The promise that load() hands out is that of a running load, in whatever
\* order clients register, load and requests end.
THEOREM PromiseNeverStuck == Spec => []NoStuckPromise
  <1>1. LoaderInv => NoStuckPromise
    BY DEF LoaderInv
  <1>2. QED BY <1>1, LoaderInvariance, PTL

\* A load that has not returned has a request in flight, so the promise ends
\* with its last answer, and a client that started a load waits for that one.
THEOREM LoadsInFlight == Spec => []InFlight
  <1>1. LoaderInv => InFlight
    BY DEF LoaderInv
  <1>2. QED BY <1>1, LoaderInvariance, PTL

\* The loader polls the accounts that have a callback and no others, and its
\* timer is set exactly as long as there are any.
THEOREM PollsTheRegistered == Spec => []Registered
  <1>1. LoaderInv => Registered
    BY DEF LoaderInv
  <1>2. QED BY <1>1, LoaderInvariance, PTL

\* What a callback was told last is what the cache holds, whatever a node that
\* lags answers (unless a registration was given up while its answer was due).
THEOREM SubscribersInSync == Spec => []SubscribersSeeTheCache
  <1>1. LoaderInv => SubscribersSeeTheCache
    BY DEF LoaderInv
  <1>2. QED BY <1>1, LoaderInvariance, PTL

\* No step takes the cache of an account to an older slot or empties it.
THEOREM CacheMonotone == Spec => CacheNeverGoesBack
  <1>1. LoaderInv /\ [Next]_vars
          => [\A k \in Accounts : accountData'[k].slot >= accountData[k].slot
                /\ (accountData'[k].buffer = Absent => accountData[k].buffer = Absent)]_vars
    BY LoaderStep
  <1>2. QED BY <1>1, LoaderInvariance, PTL DEF Spec, CacheNeverGoesBack
=============================================================================
