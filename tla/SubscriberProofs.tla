--------------------------- MODULE SubscriberProofs ---------------------------
(***************************************************************************)
(* The account subscribers, for any number of callers, optional accounts,  *)
(* calls and slots: a copy takes later slots only, a subscriber that says   *)
(* so hears of its accounts once, and one that nobody uses has no callback *)
(* or listener left.                                                       *)
(***************************************************************************)
EXTENDS Subscribers, FiniteSetTheorems, SequenceTheorems, TLAPS

ObjType == [account: Accounts, slot: Nat, data: Nat, live: BOOLEAN]

(***************************************************************************)
(* Objects                                                                 *)
(***************************************************************************)
\* An object that has heard nothing yet.
Unread(k, live) == [account |-> k, slot |-> 0, data |-> 0, live |-> live]

\* y is x with a new object for each account of S, and cur2 points to it.
Grown(x, y, cur, cur2, S, live) ==
    /\ y \in Seq(ObjType) /\ Len(y) = Len(x) + Cardinality(S) /\ Cardinality(S) \in Nat
    /\ \A o \in 1..Len(x) : y[o] = x[o]
    /\ cur2 \in [Accounts -> 0..Len(y)]
    /\ \A k \in Accounts \ S : cur2[k] = cur[k]
    /\ \A k \in S : cur2[k] > Len(x) /\ y[cur2[k]] = Unread(k, live)
    /\ \A o \in (Len(x) + 1)..Len(y) : \E k \in S : o = cur2[k]

\* The accounts can be counted.
LEMMA FiniteAccounts == ASSUME NEW S, S \subseteq Accounts PROVE IsFiniteSet(S)
<1> DEFINE T == {"state", "markets", "user", "userPositions", "token", ErrorCallback}
<1>1. IsFiniteSet(T)
  <2>1. ASSUME NEW a, NEW b PROVE IsFiniteSet({a, b})
    <3>1. IsFiniteSet({a}) /\ IsFiniteSet({b})
      BY FS_Singleton
    <3>2. IsFiniteSet({a} \cup {b})
      BY <3>1, FS_Union
    <3>3. {a, b} = {a} \cup {b}
      OBVIOUS
    <3> QED
      BY <3>2, <3>3
  <2> DEFINE A == {"state", "markets"} \cup {"user", "userPositions"}
             B == {"token", ErrorCallback}
  <2>2. IsFiniteSet(A) /\ IsFiniteSet(B)
    BY <2>1, FS_Union
  <2>3. T = A \cup B
    OBVIOUS
  <2> HIDE DEF A, B, T
  <2> QED
    BY <2>2, <2>3, FS_Union
<1>2. IsFiniteSet(T \cup Extras)
  BY <1>1, SubscribersAssumption, FS_Union
<1> QED
  BY <1>2, FS_Subset DEF Accounts

\* SetToSeq lists a finite set.
LEMMA Listed ==
    ASSUME NEW S, IsFiniteSet(S)
    PROVE  /\ Cardinality(S) \in Nat
           /\ SetToSeq(S) \in [1..Cardinality(S) -> S]
           /\ \A i, j \in 1..Cardinality(S) : SetToSeq(S)[i] = SetToSeq(S)[j] => i = j
           /\ \A k \in S : \E i \in 1..Cardinality(S) : SetToSeq(S)[i] = k
<1> DEFINE n == Cardinality(S)
<1>1. n \in Nat
  BY FS_CardinalityType
<1>2. \E f \in [1..n -> S] : IsInjective(f)
  <2>1. ExistsBijection(1..n, S)
    BY FS_CardinalityType
  <2> QED
    BY <2>1 DEF ExistsBijection, Bijection, Injection
<1>3. SetToSeq(S) \in [1..n -> S] /\ IsInjective(SetToSeq(S))
  BY <1>2 DEF SetToSeq
<1>4. SetToSeq(S) \in Surjection(1..n, S)
  <2>1. IsFiniteSet(1..n) /\ Cardinality(1..n) = n
    BY <1>1, FS_Interval
  <2>2. SetToSeq(S) \in Injection(1..n, S)
    BY <1>3 DEF Injection
  <2> QED
    BY <2>1, <2>2, FS_Injection
<1> QED
  BY <1>1, <1>3, <1>4 DEF IsInjective, Surjection

\* Making the objects.
LEMMA MakeObjects ==
    ASSUME NEW x \in Seq(ObjType), NEW cur \in [Accounts -> 0..Len(x)],
           NEW S, S \subseteq Accounts, NEW live \in BOOLEAN, NEW new, new = SetToSeq(S),
           NEW y, y = x \o [i \in DOMAIN new |-> Unread(new[i], live)],
           NEW cur2, cur2 = [k \in Accounts |->
                       IF k \in S THEN Len(x) + (CHOOSE i \in DOMAIN new : new[i] = k)
                                  ELSE cur[k]]
    PROVE  Grown(x, y, cur, cur2, S, live)
<1> DEFINE n == Cardinality(S)
           tail == [i \in 1..n |-> Unread(new[i], live)]
           at(k) == CHOOSE i \in 1..n : new[i] = k
<1>1. /\ n \in Nat /\ new \in [1..n -> S]
      /\ \A i, j \in 1..n : new[i] = new[j] => i = j
      /\ \A k \in S : \E i \in 1..n : new[i] = k
  BY FiniteAccounts, Listed
<1> HIDE DEF n
<1>2. DOMAIN new = 1..n
  BY <1>1
<1>3. \A k \in S : at(k) \in 1..n /\ new[at(k)] = k
  BY <1>1
<1>4. \A i \in 1..n : at(new[i]) = i /\ new[i] \in S
  BY <1>1, <1>3
<1>5. y = x \o tail /\ cur2 = [k \in Accounts |-> IF k \in S THEN Len(x) + at(k) ELSE cur[k]]
  BY <1>2
<1>6. tail \in Seq(ObjType) /\ Len(tail) = n /\ \A i \in 1..n : tail[i] = Unread(new[i], live)
  <2>1. \A i \in 1..n : Unread(new[i], live) \in ObjType
    BY <1>4 DEF Unread, ObjType
  <2> QED
    BY <1>1, <2>1
<1> HIDE DEF tail, at
<1>7. /\ y \in Seq(ObjType) /\ Len(y) = Len(x) + n
      /\ \A o \in 1..Len(x) : y[o] = x[o]
      /\ \A i \in 1..n : y[Len(x) + i] = tail[i]
  <2>1. Len(x) \in Nat
    OBVIOUS
  <2>2. /\ x \o tail \in Seq(ObjType) /\ Len(x \o tail) = Len(x) + n
        /\ \A o \in 1..(Len(x) + n) :
              (x \o tail)[o] = IF o <= Len(x) THEN x[o] ELSE tail[o - Len(x)]
    BY <1>6, ConcatProperties
  <2>3. y \in Seq(ObjType) /\ Len(y) = Len(x) + n
    BY <1>5, <2>2
  <2>4. \A o \in 1..(Len(x) + n) : y[o] = IF o <= Len(x) THEN x[o] ELSE tail[o - Len(x)]
    BY <1>5, <2>2
  <2>5. \A o \in 1..Len(x) : y[o] = x[o]
    BY <1>1, <2>1, <2>4
  <2>6. ASSUME NEW i \in 1..n PROVE y[Len(x) + i] = tail[i]
    <3> DEFINE o == Len(x) + i
    <3>1. o \in 1..(Len(x) + n) /\ ~(o <= Len(x)) /\ o - Len(x) = i
      BY <1>1, <2>1
    <3> HIDE DEF o
    <3>2. y[o] = tail[i]
      BY <2>4, <3>1
    <3> QED
      BY <3>2 DEF o
  <2> QED
    BY <2>3, <2>5, <2>6
<1>8. cur2 \in [Accounts -> 0..Len(y)]
  <2>1. ASSUME NEW k \in Accounts PROVE cur2[k] \in 0..Len(y)
    <3>1. CASE k \in S
      BY <1>1, <1>3, <1>5, <1>7, <3>1
    <3>2. CASE k \notin S
      BY <1>1, <1>5, <1>7, <3>2
    <3> QED
      BY <3>1, <3>2
  <2> QED
    BY <1>5, <2>1
<1>9. \A k \in Accounts \ S : cur2[k] = cur[k]
  BY <1>5
<1>10. \A k \in S : cur2[k] = Len(x) + at(k)
  BY <1>5
<1>11. \A k \in S : cur2[k] > Len(x) /\ y[cur2[k]] = Unread(k, live)
  <2>1. ASSUME NEW k \in S PROVE cur2[k] > Len(x) /\ y[cur2[k]] = Unread(k, live)
    <3>1. at(k) \in 1..n /\ new[at(k)] = k /\ Len(x) \in Nat
      BY <1>3
    <3>2. y[Len(x) + at(k)] = Unread(k, live)
      BY <1>6, <1>7, <3>1
    <3>3. cur2[k] = Len(x) + at(k)
      BY <1>10
    <3>4. Len(x) + at(k) > Len(x)
      BY <1>1, <3>1
    <3> QED
      BY <3>2, <3>3, <3>4
  <2> QED
    BY <2>1
<1>12. ASSUME NEW o \in (Len(x) + 1)..Len(y) PROVE \E k \in S : o = cur2[k]
  <2>1. o - Len(x) \in 1..n
    BY <1>1, <1>7
  <2>2. cur2[new[o - Len(x)]] = Len(x) + (o - Len(x)) /\ new[o - Len(x)] \in S
    BY <1>4, <1>10, <2>1
  <2>3. Len(x) + (o - Len(x)) = o
    BY <1>1, <1>7
  <2> QED
    BY <2>2, <2>3
<1> QED
  BY <1>1, <1>7, <1>8, <1>9, <1>11, <1>12 DEF Grown, n

\* more() makes objects.
LEMMA MoreGrows ==
    ASSUME objs \in Seq(ObjType), current \in [Accounts -> 0..Len(objs)],
           NEW S, S \subseteq Accounts, NEW live \in BOOLEAN, more(S, live)
    PROVE  Grown(objs, objs', current, current', S, live)
BY MakeObjects DEF more, Unread

\* So does appending one.
LEMMA AppendGrows ==
    ASSUME NEW x \in Seq(ObjType), NEW cur \in [Accounts -> 0..Len(x)], NEW k \in Accounts,
           NEW live \in BOOLEAN
    PROVE  Grown(x, Append(x, Unread(k, live)), cur, [cur EXCEPT ![k] = Len(x) + 1], {k}, live)
<1>1. Unread(k, live) \in ObjType
  BY DEF Unread, ObjType
<1>2. Cardinality({k}) = 1
  BY FS_Singleton
<1> DEFINE u == Unread(k, live)
           y == Append(x, u)
           cur2 == [cur EXCEPT ![k] = Len(x) + 1]
<1> HIDE DEF u
<1>3. /\ y \in Seq(ObjType) /\ Len(y) = Len(x) + 1 /\ y[Len(x) + 1] = u
      /\ \A o \in 1..Len(x) : y[o] = x[o]
  BY <1>1 DEF u
<1>4. /\ cur2 \in [Accounts -> 0..Len(y)] /\ cur2[k] = Len(x) + 1
      /\ \A j \in Accounts \ {k} : cur2[j] = cur[j]
  BY <1>3
<1> HIDE DEF y, cur2
<1>5. Grown(x, y, cur, cur2, {k}, live)
  BY <1>2, <1>3, <1>4 DEF Grown, u
<1> QED
  BY <1>5 DEF y, cur2, u

(***************************************************************************)
(* The shape of the state, whoever races with whom                         *)
(***************************************************************************)
PollingPcs == {"idle", "house", "fetching", "promise", "keys", "load", "bulkKeys", "bulkLoad"}
SocketPcs == {"idle", "house", "fetching", "promise", "root", "linked", "extras", "removing"}

CallType == [pc: PollingPcs \cup SocketPcs, optional: SUBSET Extras, todo: Seq(Accounts)]

\* A call that this kind of subscriber may be in.
CallOK(k) ==
    /\ k \in CallType
    /\ k.pc \in (IF Polling THEN PollingPcs ELSE SocketPcs)
    /\ k.pc \in {"promise", "extras"} => House
    /\ k.pc \in {"house", "bulkKeys", "bulkLoad"} => who[2] = "user"
    /\ k.pc = "keys" => who[2] # "token"
    /\ ~House => k.optional = {} /\ k.todo = <<>>

LedgerOK == who \in Subjects /\ head \in 1..MaxSlot /\ born \in Nat

FlagsOK ==
    /\ front \in BOOLEAN /\ isSubscribed \in BOOLEAN /\ isSubscribing \in BOOLEAN
    /\ failed \in BOOLEAN /\ raced \in BOOLEAN
    /\ extras \subseteq Extras /\ (~House => extras = {} /\ ~isSubscribing)

\* What is known of an object: it has read nothing from the future.
ObjOK(x) == x \in ObjType /\ x.data <= x.slot /\ x.slot <= head

\* Objects x, of which cur says which ones are in use.
ObjectsOK(x, cur) ==
    /\ x \in Seq(ObjType) /\ \A o \in 1..Len(x) : ObjOK(x[o])
    /\ cur \in [Accounts -> 0..Len(x)]
    /\ \A k \in Accounts : cur[k] # None => x[cur[k]].account = k

ObjsOK == ObjectsOK(objs, current)

CopiesOK ==
    /\ loaded \in [Accounts -> Nat] /\ data \in [Accounts -> Nat]
    /\ \A k \in Accounts : data[k] <= loaded[k] /\ loaded[k] <= head

CallsOK == calls \in [Callers -> CallType] /\ \A c \in Callers : CallOK(calls[c])

Asked(c) == {q \in rpcs : q.by = c}

\* The requests in flight belong to a call that waits for them; those of
\* fetch() make nobody listen.
RpcsOK ==
    /\ Polling => rpcs = {}
    /\ rpcs \subseteq [obj: 1..Len(objs), listen: BOOLEAN, by: Callers \cup {Nobody}]
    /\ \A c \in Callers :
         /\ Asked(c) # {} => calls[c].pc \in {"root", "linked", "extras", "fetching"}
         /\ calls[c].pc = "fetching" => \A q \in Asked(c) : ~q.listen
    /\ ~failed => \A q \in Asked(Nobody) : ~q.listen

Has(k) == current[k] # None

\* The objects of a websocket subscriber that its calls and getters go to.
Complete ==
    ~Polling =>
      /\ \A c \in Callers : /\ calls[c].pc \in {"root", "linked", "extras"} => Has(RootAccount)
                            /\ calls[c].pc \in {"linked", "extras"} => Has(Linked)
      /\ isSubscribed => Has(RootAccount) /\ Has(Linked)
      /\ extras # {} => \A k \in Extras : Has(k)

Shape == LedgerOK /\ FlagsOK /\ ObjsOK /\ CopiesOK /\ CallsOK /\ RpcsOK /\ Complete

\* The kinds of subscribers and their accounts.
LEMMA Kinds ==
    ASSUME LedgerOK
    PROVE  /\ who[2] \in {"clearingHouse", "user", "token"} /\ (~Polling => who[2] # "token")
           /\ BaseAccounts \subseteq Accounts /\ Extras \subseteq Accounts
           /\ RootAccount \in Accounts /\ Linked \in Accounts /\ RootAccount # Linked
           /\ (~Polling => BaseAccounts = {RootAccount, Linked})
           /\ ErrorCallback \in Accounts /\ ErrorCallback \notin BaseAccounts \cup Extras
           /\ BaseAccounts \cap Extras = {} /\ RootAccount \in BaseAccounts
           /\ RootAccount \notin Extras /\ Linked \notin Extras
<1>1. who \in Subjects
  BY DEF LedgerOK
<1>2. \/ who[1] = "polling" /\ who[2] \in {"clearingHouse", "user", "token"}
      \/ who[1] = "websocket" /\ who[2] \in {"clearingHouse", "user"}
  BY <1>1, SubscribersAssumption
<1>3. {"state", "markets", "user", "userPositions", "token", "errorCallback"} \cap Extras = {}
  BY SubscribersAssumption
<1> QED
  BY <1>2, <1>3 DEF Polling, House, BaseAccounts, RootAccount, Linked, Accounts, ErrorCallback

(***************************************************************************)
(* Calls                                                                   *)
(***************************************************************************)
\* Anybody may do nothing.
LEMMA IdleOK == ASSUME LedgerOK PROVE CallOK(Idle)
<1>1. <<>> \in Seq(Accounts)
  BY EmptySeq
<1> QED
  BY <1>1 DEF CallOK, Idle, CallType, PollingPcs, SocketPcs

\* One call goes on, or ends.
LEMMA OneCall ==
    ASSUME CallsOK, UNCHANGED who, NEW c \in Callers, NEW k, CallOK(k),
           calls' = [calls EXCEPT ![c] = k]
    PROVE  CallsOK' /\ calls'[c] = k /\ \A d \in Callers \ {c} : calls'[d] = calls[d]
<1>1. calls'[c] = k /\ \A d \in Callers \ {c} : calls'[d] = calls[d]
  BY DEF CallsOK
<1>2. \A d \in Callers : CallOK(calls'[d])
  BY <1>1 DEF CallsOK
<1>3. calls' \in [Callers -> CallType]
  BY <1>2 DEF CallsOK, CallOK
<1> QED
  BY <1>1, <1>2, <1>3 DEF CallsOK, CallOK, Polling, House

\* It waits at another place.
LEMMA WaitCall ==
    ASSUME CallsOK, UNCHANGED who, NEW c \in Callers, NEW pc, Wait(c, pc),
           CallOK([calls[c] EXCEPT !.pc = pc])
    PROVE  /\ CallsOK' /\ calls'[c] = [calls[c] EXCEPT !.pc = pc] /\ calls'[c].pc = pc
           /\ \A d \in Callers \ {c} : calls'[d] = calls[d]
<1>1. calls' = [calls EXCEPT ![c] = [calls[c] EXCEPT !.pc = pc]]
  BY DEF Wait
<1>2. calls[c] \in CallType
  BY DEF CallsOK
<1>3. [calls[c] EXCEPT !.pc = pc].pc = pc
  BY <1>2 DEF CallType
<1> QED
  BY <1>1, <1>3, OneCall

\* It returns.
LEMMA ReturnCall ==
    ASSUME LedgerOK, CallsOK, UNCHANGED who, NEW c \in Callers, Return(c)
    PROVE  CallsOK' /\ calls'[c] = Idle /\ \A d \in Callers \ {c} : calls'[d] = calls[d]
BY IdleOK, OneCall DEF Return

\* It subscribes, and those that wait for its promise return too.
LEMMA SubscribedCalls ==
    ASSUME LedgerOK, CallsOK, UNCHANGED who, NEW c \in Callers, Subscribed(c)
    PROVE  /\ CallsOK' /\ calls'[c] = Idle
           /\ \A d \in Callers \ {c} : \/ calls'[d] = calls[d]
                                       \/ calls[d].pc = "promise" /\ calls'[d] = Idle
<1>1. /\ calls' = [d \in Callers |->
                IF d = c \/ calls[d].pc = "promise" THEN Idle ELSE calls[d]]
  BY DEF Subscribed
<1>2. \A d \in Callers : CallOK(calls'[d])
  BY <1>1, IdleOK DEF CallsOK
<1>3. calls' \in [Callers -> CallType]
  BY <1>1, <1>2 DEF CallOK
<1> QED
  BY <1>1, <1>2, <1>3 DEF CallsOK, CallOK, Polling, House

(***************************************************************************)
(* What happens to objects                                                 *)
(***************************************************************************)
\* New ones are made.
LEMMA GrownOK ==
    ASSUME LedgerOK, NEW x, NEW cur, ObjectsOK(x, cur), NEW y, NEW cur2,
           NEW S, S \subseteq Accounts, NEW live \in BOOLEAN, Grown(x, y, cur, cur2, S, live)
    PROVE  /\ ObjectsOK(y, cur2) /\ Len(x) \in Nat /\ Len(y) \in Nat /\ Len(x) <= Len(y)
           /\ \A k \in Accounts : (k \in S \/ cur[k] # None) => cur2[k] # None
<1>1. Len(x) \in Nat /\ Len(y) \in Nat /\ Len(x) <= Len(y)
  BY DEF Grown, ObjectsOK
<1>2. head \in Nat
  BY DEF LedgerOK
<1>3. \A k \in Accounts : ObjOK(Unread(k, live))
  BY <1>2 DEF Unread, ObjOK, ObjType
<1>4. ASSUME NEW o \in 1..Len(y) PROVE ObjOK(y[o])
  <2>1. CASE o \in 1..Len(x)
    BY <2>1 DEF Grown, ObjectsOK
  <2>2. CASE o \notin 1..Len(x)
    <3>1. o \in (Len(x) + 1)..Len(y)
      BY <1>1, <2>2
    <3>2. PICK k \in S : o = cur2[k]
      BY <3>1 DEF Grown
    <3> QED
      BY <1>3, <3>2 DEF Grown
  <2> QED
    BY <2>1, <2>2
<1>5. ASSUME NEW k \in Accounts
      PROVE  /\ (k \in S \/ cur[k] # None) => cur2[k] # None
             /\ cur2[k] # None => y[cur2[k]].account = k
  <2>1. CASE k \in S
    <3>1. cur2[k] > Len(x) /\ y[cur2[k]] = Unread(k, live) /\ cur2[k] \in Nat
      BY <1>1, <2>1 DEF Grown
    <3> QED
      BY <1>1, <3>1 DEF Unread, None
  <2>2. CASE k \notin S
    <3>1. cur2[k] = cur[k] /\ cur[k] \in 0..Len(x)
      BY <2>2 DEF Grown, ObjectsOK
    <3>2. cur[k] # None => y[cur[k]] = x[cur[k]]
      BY <1>1, <3>1 DEF Grown, None
    <3> QED
      BY <2>2, <3>1, <3>2 DEF ObjectsOK
  <2> QED
    BY <2>1, <2>2
<1> QED
  BY <1>1, <1>4, <1>5 DEF ObjectsOK, Grown

\* Object o hears something, and listens from now on if l.
Refreshed(x, y, o, l) ==
    /\ y \in Seq(ObjType) /\ Len(y) = Len(x)
    /\ \A p \in (1..Len(x)) \ {o} : y[p] = x[p]
    /\ ObjOK(y[o]) /\ y[o].account = x[o].account /\ y[o].live = (x[o].live \/ l)
    /\ x[o].data <= y[o].data

\* handleRpcResponse takes nothing that is older.
LEMMA HeardObject ==
    ASSUME NEW x, ObjOK(x), LedgerOK, NEW s \in 1..head
    PROVE  /\ ObjOK(handleRpcResponse(x, s)) /\ handleRpcResponse(x, s).account = x.account
           /\ handleRpcResponse(x, s).live = x.live /\ x.data <= handleRpcResponse(x, s).data
<1>1. /\ x \in ObjType /\ x.data \in Nat /\ x.slot \in Nat /\ x.data <= x.slot /\ x.slot <= head
      /\ s \in Nat /\ s <= head /\ head \in Nat
  BY DEF ObjOK, ObjType, LedgerOK
<1> DEFINE d == IF Exists(s) THEN s ELSE 0
<1>2. d \in Nat /\ d <= s
  BY <1>1
<1> HIDE DEF d
<1>3. ASSUME NEW e \in Nat, e <= s, x.data <= e, NEW z, z = [x EXCEPT !.slot = s, !.data = e]
      PROVE  ObjOK(z) /\ z.account = x.account /\ z.live = x.live /\ x.data <= z.data
  <2>1. z \in ObjType /\ z.slot = s /\ z.data = e /\ z.account = x.account /\ z.live = x.live
    BY <1>1, <1>3 DEF ObjType
  <2> QED
    BY <1>1, <1>3, <2>1 DEF ObjOK
<1>4. CASE x.slot = 0
  <2>1. handleRpcResponse(x, s) = [x EXCEPT !.slot = s, !.data = d]
    BY <1>4 DEF handleRpcResponse, d
  <2>2. x.data <= d
    BY <1>1, <1>2, <1>4
  <2> QED
    BY <1>2, <1>3, <2>1, <2>2
<1>5. CASE handleRpcResponse(x, s) = [x EXCEPT !.slot = s, !.data = s] /\ s > x.slot
  <2>1. x.data <= s /\ s <= s
    BY <1>1, <1>5
  <2> QED
    BY <1>1, <1>3, <1>5, <2>1
<1>6. CASE handleRpcResponse(x, s) = x
  BY <1>1, <1>6
<1> QED
  BY <1>4, <1>5, <1>6 DEF handleRpcResponse

\* A notification, or the answer to a request.
LEMMA Refreshing ==
    ASSUME LedgerOK, ObjsOK, NEW o \in 1..Len(objs), NEW s \in 1..head
    PROVE  /\ Refreshed(objs, [objs EXCEPT ![o] = handleRpcResponse(@, s)], o, FALSE)
           /\ \A r : r.obj = o /\ r.listen \in BOOLEAN => Refreshed(objs, answered(r, s), o, r.listen)
<1>1. objs \in Seq(ObjType) /\ ObjOK(objs[o])
  BY DEF ObjsOK, ObjectsOK
<1> DEFINE z == handleRpcResponse(objs[o], s)
<1>2. ObjOK(z) /\ z.account = objs[o].account /\ z.live = objs[o].live /\ objs[o].data <= z.data
  BY <1>1, HeardObject
<1>3. ASSUME NEW v, ObjOK(v), v.account = objs[o].account, objs[o].data <= v.data,
             NEW b \in BOOLEAN, v.live = (objs[o].live \/ b)
      PROVE  Refreshed(objs, [objs EXCEPT ![o] = v], o, b)
  <2>1. v \in ObjType
    BY <1>3 DEF ObjOK
  <2>2. /\ [objs EXCEPT ![o] = v] \in Seq(ObjType) /\ Len([objs EXCEPT ![o] = v]) = Len(objs)
        /\ \A p \in 1..Len(objs) : [objs EXCEPT ![o] = v][p] = IF p = o THEN v ELSE objs[p]
    BY <1>1, <2>1, ExceptSeq
  <2> QED
    BY <1>3, <2>2 DEF Refreshed
<1>4. Refreshed(objs, [objs EXCEPT ![o] = z], o, FALSE)
  <2> HIDE DEF z
  <2>1. z.live = (objs[o].live \/ FALSE)
    BY <1>1, <1>2 DEF ObjOK, ObjType
  <2> QED
    BY <1>2, <1>3, <2>1
<1>5. ASSUME NEW r, r.obj = o, r.listen \in BOOLEAN
      PROVE  Refreshed(objs, answered(r, s), o, r.listen)
  <2> DEFINE w == [z EXCEPT !.live = z.live \/ r.listen]
  <2>1. answered(r, s) = [objs EXCEPT ![o] = w]
    BY <1>5 DEF answered
  <2> HIDE DEF z
  <2>2. /\ w \in ObjType /\ w.account = z.account /\ w.live = (z.live \/ r.listen)
        /\ w.data = z.data /\ w.slot = z.slot
    BY <1>2, <1>5 DEF ObjOK, ObjType
  <2> HIDE DEF w
  <2>3. ObjOK(w)
    BY <1>2, <2>2 DEF ObjOK
  <2> QED
    BY <1>2, <1>3, <1>5, <2>1, <2>2, <2>3
<1> QED
  BY <1>4, <1>5

\* The objects stay in order.
LEMMA RefreshedOK ==
    ASSUME ObjsOK, NEW o \in 1..Len(objs), NEW l \in BOOLEAN, NEW y, Refreshed(objs, y, o, l)
    PROVE  ObjectsOK(y, current) /\ Len(y) = Len(objs)
<1>1. \A p \in 1..Len(y) : ObjOK(y[p]) /\ y[p].account = objs[p].account
  BY DEF Refreshed, ObjsOK, ObjectsOK
<1> QED
  BY <1>1 DEF Refreshed, ObjsOK, ObjectsOK, None

\* The objects of the accounts of S hear nothing any more.
Silenced(y, S) ==
    /\ y \in Seq(ObjType) /\ Len(y) = Len(objs)
    /\ \A o \in 1..Len(objs) :
         /\ y[o].account = objs[o].account /\ y[o].data = objs[o].data /\ y[o].slot = objs[o].slot
         /\ y[o].live = (objs[o].live /\ \A k \in S : o # current[k])

\* released() silences.
LEMMA Silencing == ASSUME ObjsOK, NEW S PROVE Silenced(released(S), S)
<1>1. objs \in Seq(ObjType) /\ Len(objs) \in Nat /\ DOMAIN objs = 1..Len(objs)
  BY DEF ObjsOK, ObjectsOK
<1> DEFINE y == released(S)
<1>2. y = [o \in 1..Len(objs) |-> IF o \in {current[k] : k \in S}
                                 THEN [objs[o] EXCEPT !.live = FALSE] ELSE objs[o]]
  BY <1>1 DEF released
<1> HIDE DEF y
<1>3. ASSUME NEW o \in 1..Len(objs)
      PROVE  /\ y[o] \in ObjType /\ y[o].account = objs[o].account /\ y[o].data = objs[o].data
             /\ y[o].slot = objs[o].slot
             /\ y[o].live = (objs[o].live /\ \A k \in S : o # current[k])
  <2>1. objs[o] \in ObjType
    BY <1>1
  <2>2. CASE o \in {current[k] : k \in S}
    <3>1. y[o] = [objs[o] EXCEPT !.live = FALSE]
      BY <1>2, <2>2
    <3>2. ~\A k \in S : o # current[k]
      BY <2>2
    <3> QED
      BY <2>1, <3>1, <3>2 DEF ObjType
  <2>3. CASE o \notin {current[k] : k \in S}
    <3>1. y[o] = objs[o]
      BY <1>2, <2>3
    <3>2. \A k \in S : o # current[k]
      BY <2>3
    <3> QED
      BY <2>1, <3>1, <3>2 DEF ObjType
  <2> QED
    BY <2>2, <2>3
<1>4. y \in Seq(ObjType) /\ Len(y) = Len(objs)
  <2>1. y \in [1..Len(objs) -> ObjType]
    BY <1>2, <1>3
  <2> QED
    BY <1>1, <2>1
<1>5. Silenced(y, S)
  BY <1>3, <1>4 DEF Silenced
<1> QED
  BY <1>5 DEF y

\* They stay in order, the ones that are still in use.
LEMMA SilencedOK ==
    ASSUME ObjsOK, NEW S, NEW y, Silenced(y, S), NEW cur \in [Accounts -> 0..Len(objs)],
           \A k \in Accounts : cur[k] \in {None, current[k]}
    PROVE  ObjectsOK(y, cur)
<1>1. \A p \in 1..Len(y) : ObjOK(y[p]) /\ y[p].account = objs[p].account
  <2>1. ASSUME NEW p \in 1..Len(y) PROVE ObjOK(y[p]) /\ y[p].account = objs[p].account
    <3>1. ObjOK(objs[p]) /\ y[p] \in ObjType
      BY DEF Silenced, ObjsOK, ObjectsOK
    <3> QED
      BY <3>1 DEF Silenced, ObjOK
  <2> QED
    BY <2>1
<1>2. Len(y) = Len(objs) /\ y \in Seq(ObjType)
  BY DEF Silenced
<1>3. ASSUME NEW k \in Accounts, cur[k] # None PROVE y[cur[k]].account = k
  <2>1. cur[k] = current[k] /\ cur[k] \in 1..Len(y)
    BY <1>2, <1>3 DEF None
  <2> QED
    BY <1>1, <1>3, <2>1 DEF ObjsOK, ObjectsOK
<1> QED
  BY <1>1, <1>2, <1>3 DEF ObjectsOK

(***************************************************************************)
(* One step of the state                                                   *)
(***************************************************************************)
\* Whatever object was there is there, with data that is as new.
Newer(x, y) == Len(x) <= Len(y) /\ \A o \in 1..Len(x) : x[o].data <= y[o].data

\* Nothing that has been read is replaced by something older.
Onward ==
    /\ head <= head' /\ \A k \in Accounts : data[k] <= data'[k]
    /\ Newer(objs, objs')

\* None of the three things that happen to objects takes data back.
LEMMA NewerObjects ==
    ASSUME NEW x, NEW y, NEW cur, ObjectsOK(x, cur)
    PROVE  /\ Newer(x, x)
           /\ \A cur2, S, live : Grown(x, y, cur, cur2, S, live) => Newer(x, y)
           /\ \A o, l : Refreshed(x, y, o, l) => Newer(x, y)
           /\ x = objs => \A S : Silenced(y, S) => Newer(x, y)
<1>1. /\ x \in Seq(ObjType) /\ Len(x) \in Nat
      /\ \A o \in 1..Len(x) : x[o].data \in Nat /\ x[o].data <= x[o].data
  <2>1. x \in Seq(ObjType)
    BY DEF ObjectsOK
  <2>2. \A o \in 1..Len(x) : x[o] \in ObjType
    BY <2>1
  <2> QED
    BY <2>1, <2>2 DEF ObjType
<1>2. Newer(x, x)
  BY <1>1 DEF Newer
<1>3. ASSUME NEW cur2, NEW S, NEW live, Grown(x, y, cur, cur2, S, live) PROVE Newer(x, y)
  BY <1>1, <1>3 DEF Grown, Newer
<1>4. ASSUME NEW o, NEW l, Refreshed(x, y, o, l) PROVE Newer(x, y)
  <2>1. ASSUME NEW p \in 1..Len(x) PROVE x[p].data <= y[p].data
    BY <1>1, <1>4 DEF Refreshed
  <2> QED
    BY <1>1, <1>4, <2>1 DEF Refreshed, Newer
<1>5. ASSUME x = objs, NEW S, Silenced(y, S) PROVE Newer(x, y)
  BY <1>1, <1>5 DEF Silenced, Newer
<1> QED
  BY <1>2, <1>3, <1>4, <1>5

\* What a load leaves: the loader's data and the copies are as new.
LEMMA FreshCopies ==
    ASSUME LedgerOK, CopiesOK, NEW s \in 0..head, NEW f \in BOOLEAN,
           loaded' = fresh(s), data' = copied(s, f), UNCHANGED head
    PROVE  CopiesOK' /\ \A k \in Accounts : data[k] <= data'[k]
<1>1. ASSUME NEW k \in Accounts
      PROVE  fresh(s)[k] \in Nat /\ loaded[k] <= fresh(s)[k] /\ fresh(s)[k] <= head
  <2>1. fresh(s)[k] \in {s, loaded[k]} /\ (fresh(s)[k] = s => s >= loaded[k])
    BY DEF fresh, CopiesOK, LedgerOK
  <2> QED
    BY <2>1 DEF CopiesOK, LedgerOK
<1>2. ASSUME NEW k \in Accounts
      PROVE  data'[k] \in Nat /\ data[k] <= data'[k] /\ data'[k] <= fresh(s)[k]
  <2>1. data'[k] \in {fresh(s)[k], data[k]}
    BY DEF copied
  <2> QED
    BY <1>1, <2>1 DEF CopiesOK
<1>3. loaded' \in [Accounts -> Nat] /\ data' \in [Accounts -> Nat]
  <2>1. loaded' = [k \in Accounts |-> fresh(s)[k]]
    BY DEF fresh
  <2>2. data' = [k \in Accounts |-> data'[k]]
    BY DEF copied
  <2> QED
    BY <1>1, <1>2, <2>1, <2>2
<1> QED
  BY <1>1, <1>2, <1>3 DEF CopiesOK

\* The copies stay.
LEMMA SameCopies ==
    ASSUME LedgerOK, CopiesOK, UNCHANGED copies, head' \in Nat, head <= head'
    PROVE  CopiesOK' /\ \A k \in Accounts : data[k] <= data'[k]
BY DEF LedgerOK, CopiesOK, copies

\* A call waits at another place, where this kind of subscriber has one.
LEMMA MovedCall ==
    ASSUME CallsOK, UNCHANGED who, NEW c \in Callers, NEW p, Wait(c, p),
           p \in (IF Polling THEN PollingPcs ELSE SocketPcs),
           p \in {"promise", "extras"} => House,
           p \in {"house", "bulkKeys", "bulkLoad"} => who[2] = "user",
           p = "keys" => who[2] # "token"
    PROVE  /\ CallsOK' /\ calls'[c].pc = p /\ calls'[c].optional = calls[c].optional
           /\ calls'[c].todo = calls[c].todo /\ \A d \in Callers \ {c} : calls'[d] = calls[d]
<1> DEFINE k == [calls[c] EXCEPT !.pc = p]
<1>1. calls[c] \in CallType /\ CallOK(calls[c])
  BY DEF CallsOK
<1>2. k \in CallType /\ k.pc = p /\ k.optional = calls[c].optional /\ k.todo = calls[c].todo
  BY <1>1 DEF CallType
<1> HIDE DEF k
<1>3. CallOK(k)
  BY <1>1, <1>2 DEF CallOK
<1>4. CallOK([calls[c] EXCEPT !.pc = p]) /\ k = [calls[c] EXCEPT !.pc = p]
  BY <1>3 DEF k
<1>5. CallsOK' /\ calls'[c] = k /\ \A d \in Callers \ {c} : calls'[d] = calls[d]
  BY <1>4, WaitCall
<1> QED
  BY <1>2, <1>5

\* The other calls go on, or end because the promise is kept.
Calm(c) ==
    \A d \in Callers \ {c} : \/ calls'[d] = calls[d]
                             \/ calls[d].pc = "promise" /\ calls'[d] = Idle

\* The ways a call ends.
LEMMA EndedCall ==
    ASSUME LedgerOK, CallsOK, FlagsOK, UNCHANGED who, raced' \in BOOLEAN, NEW c \in Callers,
           \/ Return(c) /\ UNCHANGED flags
           \/ Throw(c)
           \/ Subscribed(c) /\ UNCHANGED extras
    PROVE  CallsOK' /\ FlagsOK' /\ calls'[c] = Idle /\ Calm(c) /\ (failed => failed')
<1>1. CASE Return(c) /\ UNCHANGED flags
  BY <1>1, ReturnCall DEF Calm, FlagsOK, flags, House
<1>2. CASE Throw(c)
  BY <1>2, ReturnCall DEF Throw, Calm, FlagsOK, House
<1>3. CASE Subscribed(c) /\ UNCHANGED extras
  <2>1. CallsOK' /\ calls'[c] = Idle /\ Calm(c)
    BY <1>3, SubscribedCalls DEF Calm
  <2>2. FlagsOK' /\ (failed => failed')
    BY <1>3 DEF Subscribed, FlagsOK, House
  <2> QED
    BY <2>1, <2>2
<1> QED
  BY <1>1, <1>2, <1>3

\* A polling subscriber has no requests of its own.
LEMMA PollingStep ==
    ASSUME Shape, Polling, UNCHANGED <<ledger, rpcs>>,
           FlagsOK', ObjsOK', CopiesOK', CallsOK'
    PROVE  Shape'
<1>1. LedgerOK'
  BY DEF Shape, LedgerOK, ledger
<1>2. rpcs' = {} /\ Polling'
  BY DEF Shape, RpcsOK, Polling, ledger
<1>3. RpcsOK' /\ Complete'
  BY <1>2 DEF RpcsOK, Complete, Asked
<1> QED
  BY <1>1, <1>3 DEF Shape

\* The objects stay, or are replaced by ones that are in order.
LEMMA NextObjects ==
    ASSUME UNCHANGED head, ObjsOK
    PROVE  /\ ObjectsOK(objs', current') => ObjsOK'
           /\ UNCHANGED <<objs, current>> => ObjsOK' /\ Newer(objs, objs')
<1>1. ObjectsOK(objs', current') => ObjsOK'
  BY DEF ObjsOK, ObjectsOK, ObjOK
<1>2. UNCHANGED <<objs, current>> => ObjsOK' /\ Newer(objs, objs')
  <2>1. Newer(objs, objs)
    BY NewerObjects DEF ObjsOK
  <2> QED
    BY <1>1, <2>1 DEF ObjsOK
<1> QED
  BY <1>1, <1>2

\* Registering the callbacks.
LEMMA AddedObjects ==
    ASSUME Shape, UNCHANGED head, addToAccountLoader
    PROVE  /\ ObjsOK' /\ Newer(objs, objs')
           /\ Grown(objs, objs', current, current',
                    BaseAccounts \cup extras \cup {ErrorCallback}, TRUE)
<1> DEFINE S == BaseAccounts \cup extras \cup {ErrorCallback}
<1>1. S \subseteq Accounts
  BY Kinds DEF Shape, FlagsOK
<1>2. more(S, TRUE) /\ TRUE \in BOOLEAN
  BY DEF addToAccountLoader
<1> HIDE DEF S
<1>3. LedgerOK /\ ObjsOK /\ objs \in Seq(ObjType) /\ current \in [Accounts -> 0..Len(objs)]
  BY DEF Shape, ObjsOK, ObjectsOK
<1>4. Grown(objs, objs', current, current', S, TRUE)
  BY <1>1, <1>2, <1>3, MoreGrows
<1>5. ObjectsOK(objs, current)
  BY <1>3 DEF ObjsOK
<1>6. ObjectsOK(objs', current')
  BY <1>1, <1>2, <1>3, <1>4, <1>5, GrownOK
<1>7. Newer(objs, objs')
  BY <1>4, <1>5, NewerObjects
<1> QED
  BY <1>3, <1>4, <1>6, <1>7, NextObjects DEF S

\* A user's or a clearing house's subscriber has its accounts, or loads them.
LEMMA FetchedIfUnloaded ==
    ASSUME Shape, Polling, UNCHANGED who, raced' \in BOOLEAN, NEW c \in Callers,
           fetchIfUnloaded(c)
    PROVE  CallsOK' /\ FlagsOK'
<1>1. CASE Wait(c, "load") /\ UNCHANGED flags
  <2>1. CallsOK'
    BY <1>1, MovedCall DEF Shape, PollingPcs
  <2> QED
    BY <1>1, <2>1 DEF Shape, FlagsOK, flags, House
<1>2. CASE Subscribed(c) /\ UNCHANGED extras
  BY <1>2, EndedCall DEF Shape
<1> QED
  BY <1>1, <1>2 DEF fetchIfUnloaded

\* The keys are there.
LEMMA KeysAnswered ==
    ASSUME Shape, NEW c \in Callers, NEW s, keys_answered(c, s)
    PROVE  Shape' /\ Onward
<1>1. /\ LedgerOK /\ ObjsOK /\ CopiesOK /\ CallsOK /\ FlagsOK /\ head \in Nat
      /\ UNCHANGED <<ledger, copies, raced>> /\ UNCHANGED <<who, head>> /\ raced' \in BOOLEAN
  BY DEF Shape, LedgerOK, FlagsOK, keys_answered, ledger
<1>2. calls[c].pc \in {"keys", "bulkKeys"} /\ CallOK(calls[c])
  BY <1>1 DEF keys_answered, CallsOK
<1>3. Polling /\ (calls[c].pc = "bulkKeys" => who[2] = "user")
  BY <1>2 DEF CallOK, SocketPcs
<1>4. CopiesOK' /\ \A k \in Accounts : data[k] <= data'[k]
  BY <1>1, SameCopies
<1>5. FlagsOK' /\ CallsOK' /\ UNCHANGED rpcs /\ ObjsOK' /\ Newer(objs, objs')
  <2>1. CASE ~Exists(s)
    <3>1. Throw(c) /\ UNCHANGED objects
      BY <2>1 DEF keys_answered
    <3> QED
      BY <1>1, <3>1, EndedCall, NextObjects DEF objects
  <2>2. CASE Exists(s)
    <3> addToAccountLoader /\ UNCHANGED rpcs
      BY <2>2 DEF keys_answered
    <3>1. ObjsOK' /\ Newer(objs, objs')
      BY <1>1, <2>2, AddedObjects
    <3>2. CASE calls[c].pc = "bulkKeys" /\ Wait(c, "bulkLoad") /\ UNCHANGED flags
      <4>1. CallsOK'
        BY <1>1, <1>3, <3>2, MovedCall DEF PollingPcs
      <4> QED
        BY <1>1, <2>2, <3>1, <3>2, <4>1 DEF FlagsOK, flags, House
    <3>3. CASE Wait(c, "load") /\ UNCHANGED flags
      <4>1. CallsOK'
        BY <1>1, <1>3, <3>3, MovedCall DEF PollingPcs
      <4> QED
        BY <1>1, <2>2, <3>1, <3>3, <4>1 DEF FlagsOK, flags, House
    <3>4. CASE fetchIfUnloaded(c)
      BY <1>1, <1>3, <2>2, <3>1, <3>4, FetchedIfUnloaded
    <3>5. \/ calls[c].pc = "bulkKeys" /\ Wait(c, "bulkLoad") /\ UNCHANGED flags
          \/ Wait(c, "load") /\ UNCHANGED flags
          \/ fetchIfUnloaded(c)
      BY <2>2 DEF keys_answered
    <3> QED
      BY <3>2, <3>3, <3>4, <3>5
  <2> QED
    BY <2>1, <2>2
<1>6. Shape'
  BY <1>1, <1>3, <1>4, <1>5, PollingStep
<1> QED
  BY <1>1, <1>4, <1>5, <1>6 DEF Onward

\* A load is over.
LEMMA LoadOver ==
    ASSUME Shape, NEW c \in Callers, NEW s \in 0..head, load_over(c, s)
    PROVE  Shape' /\ Onward
<1>1. /\ LedgerOK /\ ObjsOK /\ CopiesOK /\ CallsOK /\ FlagsOK /\ head \in Nat
      /\ UNCHANGED <<ledger, objects, raced>> /\ UNCHANGED <<who, head, rpcs, objs, current>>
      /\ Polling /\ raced' \in BOOLEAN
  BY DEF Shape, LedgerOK, FlagsOK, load_over, ledger, objects
<1>2. CopiesOK' /\ \A k \in Accounts : data[k] <= data'[k]
  <2> DEFINE f == calls[c].pc # "bulkLoad"
  <2>1. f \in BOOLEAN /\ loaded' = fresh(s) /\ data' = copied(s, f)
    BY DEF load_over
  <2> HIDE DEF f
  <2> QED
    BY <1>1, <2>1, FreshCopies
<1>3. FlagsOK' /\ CallsOK'
  <2>1. CASE Wait(c, "house") /\ UNCHANGED flags /\ calls[c].pc = "bulkLoad"
    <3>1. who[2] = "user"
      BY <1>1, <2>1 DEF CallsOK, CallOK
    <3>2. CallsOK'
      BY <1>1, <2>1, <3>1, MovedCall DEF PollingPcs
    <3> QED
      BY <1>1, <2>1, <3>2 DEF FlagsOK, flags, House
  <2>2. CASE \/ Return(c) /\ UNCHANGED flags
             \/ Throw(c)
             \/ Subscribed(c) /\ UNCHANGED extras
    BY <1>1, <2>2, EndedCall
  <2> QED
    BY <2>1, <2>2 DEF load_over
<1>4. ObjsOK' /\ Newer(objs, objs')
  BY <1>1, NextObjects
<1>5. Shape'
  BY <1>1, <1>2, <1>3, <1>4, PollingStep
<1> QED
  BY <1>1, <1>2, <1>4, <1>5 DEF Onward

\* So is one that nobody here waits for.
LEMMA Polled ==
    ASSUME Shape, NEW s \in 0..head, poll(s)
    PROVE  Shape' /\ Onward
<1>1. /\ LedgerOK /\ ObjsOK /\ CopiesOK /\ CallsOK /\ FlagsOK /\ head \in Nat
      /\ UNCHANGED <<ledger, flags, objects, calls, raced>>
      /\ UNCHANGED <<who, head, rpcs, objs, current>>
      /\ Polling
  BY DEF Shape, LedgerOK, poll, ledger, objects
<1>2. CopiesOK' /\ \A k \in Accounts : data[k] <= data'[k]
  <2>1. FALSE \in BOOLEAN /\ loaded' = fresh(s) /\ data' = copied(s, FALSE)
    BY DEF poll
  <2> QED
    BY <1>1, <2>1, FreshCopies
<1>3. FlagsOK' /\ CallsOK'
  BY <1>1 DEF FlagsOK, flags, House, Polling, CallsOK, CallOK
<1>4. ObjsOK' /\ Newer(objs, objs')
  BY <1>1, NextObjects
<1>5. Shape'
  BY <1>1, <1>2, <1>3, <1>4, PollingStep
<1> QED
  BY <1>1, <1>2, <1>4, <1>5 DEF Onward

\* A step that leaves the ledger and the copies alone.
LEMMA SocketStep ==
    ASSUME Shape, UNCHANGED <<ledger, copies>>, FlagsOK', ObjsOK', CallsOK', RpcsOK', Complete',
           Newer(objs, objs')
    PROVE  Shape' /\ Onward
<1>1. LedgerOK' /\ head' \in Nat /\ head <= head'
  BY DEF Shape, LedgerOK, ledger
<1>2. CopiesOK' /\ \A k \in Accounts : data[k] <= data'[k]
  BY <1>1, SameCopies DEF Shape
<1> QED
  BY <1>1, <1>2 DEF Shape, Onward

\* Caller c replaces its requests by N; what nobody waits for makes nobody listen.
LEMMA RpcsNext ==
    ASSUME Shape, ~Polling, UNCHANGED who, Len(objs) <= Len(objs'), Len(objs') \in Nat,
           failed => failed',
           NEW c \in Callers, Calm(c), NEW N, rpcs' \subseteq rpcs \cup N,
           \A q \in rpcs' : q.by = c => q \in N,
           N \subseteq [obj: 1..Len(objs'), listen: BOOLEAN, by: {c, Nobody}],
           \A q \in N : q.by = Nobody => ~q.listen,
           \/ \A q \in N : q.by # c
           \/ calls'[c].pc \in {"root", "linked", "extras"}
           \/ calls'[c].pc = "fetching" /\ \A q \in N : ~q.listen
    PROVE  RpcsOK'
<1>1. RpcsOK /\ Len(objs) \in Nat
  BY DEF Shape, ObjsOK, ObjectsOK
<1>2. ~Polling'
  BY DEF Polling
<1>3. c # Nobody
  BY SubscribersAssumption DEF Nobody
<1>4. rpcs' \subseteq [obj: 1..Len(objs'), listen: BOOLEAN, by: Callers \cup {Nobody}]
  <2>1. ASSUME NEW q \in rpcs'
        PROVE  q \in [obj: 1..Len(objs'), listen: BOOLEAN, by: Callers \cup {Nobody}]
    <3>1. CASE q \in rpcs
      <4>1. q \in [obj: 1..Len(objs), listen: BOOLEAN, by: Callers \cup {Nobody}]
        BY <1>1, <3>1 DEF RpcsOK
      <4>2. 1..Len(objs) \subseteq 1..Len(objs')
        BY <1>1
      <4> QED
        BY <4>1, <4>2
    <3>2. CASE q \in N
      BY <3>2
    <3> QED
      BY <3>1, <3>2
  <2> QED
    BY <2>1
<1>5. ASSUME NEW d \in Callers
      PROVE  /\ (\E q \in rpcs' : q.by = d)
                  => calls'[d].pc \in {"root", "linked", "extras", "fetching"}
             /\ calls'[d].pc = "fetching" => \A q \in rpcs' : q.by = d => ~q.listen
  <2>1. CASE d = c
    BY <2>1
  <2>2. CASE d # c
    <3>1. \A q \in rpcs' : q.by = d => q \in Asked(d)
      <4>1. d # Nobody
        BY SubscribersAssumption DEF Nobody
      <4>2. \A q \in N : q.by # d
        BY <2>2, <4>1
      <4> QED
        BY <4>2 DEF Asked
    <3>2. calls'[d] = calls[d] \/ (calls[d].pc = "promise" /\ calls'[d] = Idle)
      BY <2>2 DEF Calm
    <3>3. CASE calls'[d] = calls[d]
      BY <1>1, <3>1, <3>3 DEF RpcsOK
    <3>4. CASE calls[d].pc = "promise" /\ calls'[d] = Idle
      <4>1. Asked(d) = {}
        BY <1>1, <3>4 DEF RpcsOK
      <4> QED
        BY <3>1, <3>4, <4>1 DEF Idle
    <3> QED
      BY <3>2, <3>3, <3>4
  <2> QED
    BY <2>1, <2>2
<1>6. ASSUME ~failed', NEW q \in rpcs', q.by = Nobody PROVE ~q.listen
  BY <1>1, <1>6 DEF RpcsOK, Asked
<1> QED
  BY <1>2, <1>4, <1>5, <1>6 DEF RpcsOK, Asked

\* The objects that the calls go to are there.
LEMMA CompleteNext ==
    ASSUME Shape, ~Polling, UNCHANGED who, \A k \in Accounts : Has(k) => current'[k] # None,
           NEW c \in Callers, Calm(c),
           calls'[c].pc \in {"root", "linked", "extras"} => current'[RootAccount] # None,
           calls'[c].pc \in {"linked", "extras"} => current'[Linked] # None,
           isSubscribed' => isSubscribed \/ (Has(RootAccount) /\ Has(Linked)),
           extras' # {} /\ extras' # extras => \A k \in Extras : current'[k] # None
    PROVE  Complete'
<1>1. LedgerOK /\ Complete
  BY DEF Shape
<1>2. /\ RootAccount \in Accounts /\ Linked \in Accounts /\ Extras \subseteq Accounts
      /\ RootAccount' = RootAccount /\ Linked' = Linked
  BY <1>1, Kinds DEF RootAccount, Linked, House
<1>3. ASSUME NEW d \in Callers
      PROVE  /\ calls'[d].pc \in {"root", "linked", "extras"} => current'[RootAccount] # None
             /\ calls'[d].pc \in {"linked", "extras"} => current'[Linked] # None
  <2>1. CASE d = c
    BY <2>1
  <2>2. CASE d # c
    <3>1. calls'[d] = calls[d] \/ calls'[d] = Idle
      BY <2>2 DEF Calm
    <3>2. CASE calls'[d] = Idle
      BY <3>2 DEF Idle
    <3>3. CASE calls'[d] = calls[d]
      BY <1>1, <1>2, <3>3 DEF Complete, Has
    <3> QED
      BY <3>1, <3>2, <3>3
  <2> QED
    BY <2>1, <2>2
<1>4. isSubscribed' => current'[RootAccount] # None /\ current'[Linked] # None
  BY <1>1, <1>2 DEF Complete, Has
<1>5. extras' # {} => \A k \in Extras : current'[k] # None
  BY <1>1, <1>2 DEF Complete, Has
<1> QED
  BY <1>2, <1>3, <1>4, <1>5 DEF Complete, Has

\* A call that has no requests ends or moves to a place that needs none.
LEMMA QuietCall ==
    ASSUME Shape, UNCHANGED <<who, current, rpcs>>, Len(objs) <= Len(objs'), Len(objs') \in Nat,
           failed => failed', NEW c \in Callers, Calm(c), Asked(c) = {},
           calls'[c].pc \notin {"root", "linked", "extras"},
           isSubscribed' => isSubscribed, extras' = extras, CallsOK'
    PROVE  RpcsOK' /\ Complete'
<1>1. CASE Polling
  <2>1. rpcs' = {} /\ Polling'
    BY <1>1 DEF Shape, RpcsOK, Polling
  <2> QED
    BY <2>1 DEF RpcsOK, Complete, Asked
<1>2. CASE ~Polling
  <2>1. Complete'
    BY <1>2, CompleteNext DEF Has
  <2>2. RpcsOK'
    <3> DEFINE N == {}
    <3>1. /\ rpcs' \subseteq rpcs \cup N /\ \A q \in rpcs' : q.by = c => q \in N
          /\ N \subseteq [obj: 1..Len(objs'), listen: BOOLEAN, by: {c, Nobody}]
          /\ \A q \in N : q.by = Nobody => ~q.listen
          /\ \A q \in N : q.by # c
      BY DEF Asked
    <3> HIDE DEF N
    <3> QED
      BY <1>2, <3>1, RpcsNext
  <2> QED
    BY <2>1, <2>2
<1> QED
  BY <1>1, <1>2

\* What is requested.
LEMMA Requested ==
    ASSUME NEW c, NEW ids, NEW l
    PROVE  requests(c, ids, l) \subseteq [obj: ids, listen: {l}, by: {c}]
BY DEF requests

\* subscribe() past its guards.
LEMMA Begun ==
    ASSUME Shape, UNCHANGED <<ledger, copies>>, raced' \in BOOLEAN, NEW c \in Callers,
           calls[c].pc \in {"idle", "house"}, NEW optional, optional \subseteq Extras,
           who[2] = "user" => optional = {}, begin(c, optional)
    PROVE  Shape' /\ Onward
<1>1. /\ LedgerOK /\ ObjsOK /\ CopiesOK /\ CallsOK /\ FlagsOK /\ RpcsOK /\ head \in Nat
      /\ head' \in Nat /\ head <= head' /\ UNCHANGED <<who, head>>
      /\ calls[c] \in CallType /\ Asked(c) = {}
  <2>1. /\ LedgerOK /\ ObjsOK /\ CopiesOK /\ CallsOK /\ FlagsOK /\ RpcsOK /\ head \in Nat
        /\ UNCHANGED <<who, head>>
    BY DEF Shape, LedgerOK, ledger
  <2>2. Asked(c) = {} /\ calls[c] \in CallType
    BY <2>1 DEF RpcsOK, CallsOK
  <2> QED
    BY <2>1, <2>2
<1>2. CopiesOK' /\ \A k \in Accounts : data[k] <= data'[k]
  BY <1>1, SameCopies
<1>3. CASE Polling
  <2>1. FlagsOK' /\ CallsOK' /\ UNCHANGED rpcs /\ ObjsOK' /\ Newer(objs, objs')
    <3>1. CASE House
      <4>1. /\ Wait(c, "keys") /\ isSubscribing' = TRUE /\ extras' = optional
            /\ UNCHANGED <<front, isSubscribed, failed, objects>>
        BY <1>3, <3>1 DEF begin
      <4>2. CallsOK'
        BY <1>1, <1>3, <3>1, <4>1, MovedCall DEF PollingPcs, House
      <4>3. FlagsOK'
        BY <1>1, <3>1, <4>1 DEF FlagsOK, House
      <4> QED
        BY <1>1, <4>1, <4>2, <4>3, NextObjects DEF objects
    <3>2. CASE ~House /\ who[2] = "token"
      <4>1. /\ IF current["token"] = None THEN addToAccountLoader ELSE UNCHANGED <<objs, current>>
            /\ Wait(c, "load") /\ UNCHANGED <<flags, rpcs>>
        BY <1>3, <3>2 DEF begin
      <4>2. CallsOK'
        BY <1>1, <1>3, <4>1, MovedCall DEF PollingPcs
      <4>3. FlagsOK'
        BY <1>1, <4>1 DEF FlagsOK, House, flags
      <4>4. ObjsOK' /\ Newer(objs, objs')
        BY <1>1, <4>1, NextObjects, AddedObjects
      <4> QED
        BY <4>1, <4>2, <4>3, <4>4
    <3>3. CASE ~House /\ who[2] # "token" /\ accountsToPoll # {}
      <4>1. fetchIfUnloaded(c) /\ UNCHANGED objects
        BY <1>3, <3>3 DEF begin
      <4> QED
        BY <1>1, <1>3, <4>1, FetchedIfUnloaded, NextObjects DEF objects
    <3>4. CASE ~House /\ who[2] # "token" /\ accountsToPoll = {}
      <4>1. Wait(c, "keys") /\ UNCHANGED <<flags, objects>>
        BY <1>3, <3>4 DEF begin
      <4>2. CallsOK'
        BY <1>1, <1>3, <3>4, <4>1, MovedCall DEF PollingPcs
      <4>3. FlagsOK'
        BY <1>1, <4>1 DEF FlagsOK, House, flags
      <4> QED
        BY <1>1, <4>1, <4>2, <4>3, NextObjects DEF objects
    <3> QED
      BY <3>1, <3>2, <3>3, <3>4
  <2>2. Shape'
    BY <1>2, <1>3, <2>1, PollingStep
  <2> QED
    BY <1>1, <1>2, <2>1, <2>2 DEF Onward
<1>4. CASE ~Polling
  <2> DEFINE k == [Idle EXCEPT !.pc = "root", !.optional = optional]
             N == requests(c, {Len(objs) + 1}, TRUE)
  <2>1. /\ more({RootAccount}, FALSE) /\ rpcs' = rpcs \cup N
        /\ calls' = [calls EXCEPT ![c] = k]
        /\ isSubscribing' = House /\ UNCHANGED <<front, isSubscribed, extras, failed>>
    BY <1>4 DEF begin
  <2>2. CallOK(k) /\ k.pc = "root"
    <3>1. k \in CallType /\ k.pc = "root" /\ k.optional = optional /\ k.todo = <<>>
      <4>1. Idle \in CallType /\ Idle.todo = <<>>
        BY <1>1, IdleOK DEF CallOK, Idle
      <4> QED
        BY <4>1 DEF CallType, SocketPcs
    <3>2. who[2] # "token"
      BY <1>1, <1>4, Kinds
    <3>3. House \/ who[2] = "user"
      BY <1>1, <3>2, Kinds DEF House
    <3> QED
      BY <1>4, <3>1, <3>3 DEF CallOK, SocketPcs
  <2> HIDE DEF k
  <2>3. CallsOK' /\ calls'[c].pc = "root" /\ Calm(c)
    BY <1>1, <2>1, <2>2, OneCall DEF Calm
  <2>4. /\ objs \in Seq(ObjType) /\ current \in [Accounts -> 0..Len(objs)]
        /\ {RootAccount} \subseteq Accounts /\ FALSE \in BOOLEAN /\ ObjectsOK(objs, current)
    BY <1>1, Kinds DEF ObjsOK, ObjectsOK
  <2>5. Grown(objs, objs', current, current', {RootAccount}, FALSE)
    BY <2>1, <2>4, MoreGrows
  <2>6. /\ ObjectsOK(objs', current') /\ Len(objs') \in Nat /\ Len(objs) <= Len(objs')
        /\ Len(objs) \in Nat /\ \A a \in Accounts : Has(a) => current'[a] # None
        /\ current'[RootAccount] # None
    BY <1>1, <2>4, <2>5, GrownOK DEF Has
  <2>7. Len(objs') = Len(objs) + 1
    BY <2>5, FS_Singleton DEF Grown
  <2>8. ObjsOK' /\ Newer(objs, objs')
    BY <1>1, <2>4, <2>5, <2>6, NextObjects, NewerObjects
  <2>9. FlagsOK'
    BY <1>1, <2>1 DEF FlagsOK, House
  <2>10. Complete'
    BY <1>1, <1>4, <2>1, <2>3, <2>6, CompleteNext
  <2>11. RpcsOK'
    <3>1. /\ N \subseteq [obj: 1..Len(objs'), listen: BOOLEAN, by: {c, Nobody}]
          /\ \A q \in N : q.by = c
      <4> DEFINE o == Len(objs) + 1
      <4>1. o \in 1..Len(objs') /\ N = requests(c, {o}, TRUE)
        BY <2>6, <2>7
      <4> HIDE DEF o, N
      <4>2. N \subseteq [obj: {o}, listen: {TRUE}, by: {c}]
        BY <4>1, Requested
      <4> QED
        BY <4>1, <4>2
    <3>2. c # Nobody
      BY SubscribersAssumption DEF Nobody
    <3> HIDE DEF N
    <3>3. \A q \in rpcs' : q.by = c => q \in N
      BY <1>1, <2>1 DEF Asked
    <3> QED
      BY <1>1, <1>4, <2>1, <2>3, <2>6, <3>1, <3>2, <3>3, RpcsNext
  <2> QED
    BY <2>3, <2>8, <2>9, <2>10, <2>11, SocketStep
<1> QED
  BY <1>3, <1>4

\* The guards of subscribe().
LEMMA Entered ==
    ASSUME Shape, NEW c \in Callers, calls[c].pc \in {"idle", "house"},
           NEW optional, optional \subseteq Extras, who[2] = "user" => optional = {},
           enter(c, optional)
    PROVE  Shape' /\ Onward
<1>1. /\ LedgerOK /\ ObjsOK /\ CallsOK /\ FlagsOK /\ UNCHANGED <<ledger, copies>>
      /\ UNCHANGED <<who, head>> /\ Asked(c) = {} /\ raced' \in BOOLEAN
  <2>1. Asked(c) = {}
    BY DEF Shape, RpcsOK
  <2>2. raced' \in BOOLEAN
    BY DEF enter
  <2> QED
    BY <2>1, <2>2 DEF Shape, enter, ledger
<1>2. CASE isSubscribed \/ isSubscribing
  <2>1. CASE isSubscribed
    <3>1. /\ Return(c) /\ front' = TRUE
          /\ UNCHANGED <<isSubscribed, isSubscribing, extras, failed, objects>>
      BY <2>1 DEF enter
    <3>2. CallsOK' /\ Calm(c) /\ calls'[c] = Idle
      BY <1>1, <3>1, ReturnCall DEF Calm
    <3>3. FlagsOK'
      BY <1>1, <3>1 DEF FlagsOK, House
    <3>4. ObjsOK' /\ Newer(objs, objs') /\ Len(objs') \in Nat /\ Len(objs) <= Len(objs')
      BY <1>1, <3>1, NextObjects DEF objects, ObjsOK, ObjectsOK
    <3>5. RpcsOK' /\ Complete'
      BY <1>1, <3>1, <3>2, <3>4, QuietCall DEF objects, Idle
    <3> QED
      BY <1>1, <3>2, <3>3, <3>4, <3>5, SocketStep
  <2>2. CASE ~isSubscribed /\ isSubscribing
    <3>1. Wait(c, "promise") /\ UNCHANGED <<flags, objects>>
      BY <2>2 DEF enter
    <3>2. House
      BY <1>1, <2>2 DEF FlagsOK
    <3>3. CallsOK' /\ Calm(c) /\ calls'[c].pc = "promise"
      BY <1>1, <3>1, <3>2, MovedCall DEF Calm, PollingPcs, SocketPcs
    <3>4. FlagsOK'
      BY <1>1, <3>1 DEF FlagsOK, House, flags
    <3>5. ObjsOK' /\ Newer(objs, objs') /\ Len(objs') \in Nat /\ Len(objs) <= Len(objs')
      BY <1>1, <3>1, NextObjects DEF objects, ObjsOK, ObjectsOK
    <3>6. RpcsOK' /\ Complete'
      BY <1>1, <3>1, <3>3, <3>5, QuietCall DEF objects, flags
    <3> QED
      BY <1>1, <3>3, <3>4, <3>5, <3>6, SocketStep
  <2> QED
    BY <1>2, <2>1, <2>2
<1>3. CASE ~isSubscribed /\ ~isSubscribing
  <2>1. begin(c, optional)
    BY <1>3 DEF enter
  <2> QED
    BY <1>1, <2>1, Begun
<1> QED
  BY <1>2, <1>3

\* A notification comes.
LEMMA Notified ==
    ASSUME Shape, NEW o \in DOMAIN objs, NEW s \in 1..head, notify(o, s)
    PROVE  Shape' /\ Onward
<1>1. /\ LedgerOK /\ ObjsOK /\ CallsOK /\ FlagsOK /\ RpcsOK /\ Complete /\ o \in 1..Len(objs)
      /\ UNCHANGED <<ledger, flags, copies, current, calls, rpcs, raced>>
      /\ UNCHANGED <<who, head, failed, isSubscribed, extras>> /\ FALSE \in BOOLEAN
  BY DEF Shape, ObjsOK, ObjectsOK, notify, ledger, flags
<1> DEFINE y == [objs EXCEPT ![o] = handleRpcResponse(@, s)]
<1>2. Refreshed(objs, y, o, FALSE) /\ objs' = y
  BY <1>1, Refreshing DEF notify
<1> HIDE DEF y
<1>3. ObjectsOK(objs', current') /\ Len(objs') = Len(objs)
  BY <1>1, <1>2, RefreshedOK
<1>4. ObjsOK' /\ Newer(objs, objs')
  BY <1>1, <1>2, <1>3, NextObjects, NewerObjects DEF ObjsOK
<1>5. FlagsOK' /\ CallsOK'
  BY <1>1 DEF FlagsOK, House, flags, CallsOK, CallOK, Polling
<1>6. RpcsOK' /\ Complete'
  BY <1>1, <1>3 DEF RpcsOK, Complete, Asked, Polling, Has, RootAccount, Linked, House
<1> QED
  BY <1>1, <1>4, <1>5, <1>6, SocketStep

\* The root account is there, or is not.
LEMMA RootAnsweredOK ==
    ASSUME LedgerOK, NEW c, NEW x, ObjectsOK(x, current), RootAnswered(c, x)
    PROVE  \/ Throw(c) /\ objs' = x /\ UNCHANGED current
           \/ /\ Wait(c, "linked") /\ UNCHANGED flags
              /\ Grown(x, objs', current, current', {Linked}, FALSE)
<1>1. x \in Seq(ObjType) /\ current \in [Accounts -> 0..Len(x)] /\ Linked \in Accounts
  BY Kinds DEF ObjectsOK
<1>2. Grown(x, Append(x, Unread(Linked, FALSE)), current,
            [current EXCEPT ![Linked] = Len(x) + 1], {Linked}, FALSE)
  BY <1>1, AppendGrows
<1> QED
  BY <1>2 DEF RootAnswered, Unread

\* The linked account is.
LEMMA LinkedAnsweredOK ==
    ASSUME LedgerOK, NEW c, NEW x, ObjectsOK(x, current), LinkedAnswered(c, x)
    PROVE  \/ ~House /\ Subscribed(c) /\ objs' = x /\ UNCHANGED <<current, extras>>
           \/ /\ House /\ Grown(x, objs', current, current', Extras, FALSE)
              /\ extras' = calls[c].optional
              /\ \/ calls[c].optional = {} /\ Subscribed(c)
                 \/ /\ calls[c].optional # {} /\ Wait(c, "extras")
                    /\ UNCHANGED <<front, isSubscribed, isSubscribing, failed>>
<1>1. x \in Seq(ObjType) /\ current \in [Accounts -> 0..Len(x)] /\ Extras \subseteq Accounts
  BY Kinds DEF ObjectsOK
<1>2. CASE House
  <2> DEFINE new == SetToSeq(Extras)
  <2>1. /\ objs' = x \o [i \in DOMAIN new |-> Unread(new[i], FALSE)]
        /\ current' = [k \in Accounts |->
              IF k \in Extras THEN Len(x) + (CHOOSE i \in DOMAIN new : new[i] = k) ELSE current[k]]
    BY <1>2 DEF LinkedAnswered, Unread
  <2>2. Grown(x, objs', current, current', Extras, FALSE)
    BY <1>1, <2>1, MakeObjects
  <2> QED
    BY <1>2, <2>2 DEF LinkedAnswered
<1>3. CASE ~House
  BY <1>3 DEF LinkedAnswered
<1> QED
  BY <1>2, <1>3

\* What the answer r to caller c leads to when it is the last.
LastAnswer(c, x) ==
    \/ calls[c].pc = "root" /\ RootAnswered(c, x)
    \/ calls[c].pc = "linked" /\ LinkedAnswered(c, x)
    \/ calls[c].pc = "extras" /\ objs' = x /\ UNCHANGED <<current, extras>> /\ Subscribed(c)
    \/ calls[c].pc = "fetching" /\ objs' = x /\ UNCHANGED <<current, flags>> /\ Return(c)

\* A request is answered.
LEMMA AnsweredParts ==
    ASSUME Shape, NEW r \in rpcs, NEW s \in 1..head, rpc_answered(r, s)
    PROVE  /\ ~Polling /\ r.obj \in 1..Len(objs) /\ r.listen \in BOOLEAN
           /\ r.by \in Callers \cup {Nobody} /\ UNCHANGED <<ledger, copies, raced>>
           /\ Refreshed(objs, answered(r, s), r.obj, r.listen)
           /\ \/ /\ \/ r.by \notin Callers
                    \/ \E q \in rpcs : q # r /\ q.by = r.by
                 /\ objs' = answered(r, s) /\ UNCHANGED <<current, calls, flags>>
                 /\ rpcs' = rpcs \ {r}
              \/ /\ r.by \in Callers /\ Asked(r.by) = {r}
                 /\ LastAnswer(r.by, answered(r, s))
                 /\ rpcs' = (rpcs \ {r}) \cup NextRequests(r.by)
<1>1. RpcsOK /\ LedgerOK /\ ObjsOK
  BY DEF Shape
<1>2. /\ ~Polling /\ r.obj \in 1..Len(objs) /\ r.listen \in BOOLEAN
      /\ r.by \in Callers \cup {Nobody}
  BY <1>1 DEF RpcsOK
<1>3. Refreshed(objs, answered(r, s), r.obj, r.listen)
  BY <1>1, <1>2, Refreshing
<1> DEFINE c == r.by
           last == c \in Callers /\ \A q \in rpcs \ {r} : q.by # c
<1>4. UNCHANGED <<ledger, copies, raced>>
  BY DEF rpc_answered
<1>5. CASE ~last
  BY <1>2, <1>3, <1>4, <1>5 DEF rpc_answered
<1>6. CASE last
  <2>1. c \in Callers /\ Asked(c) = {r}
    BY <1>6 DEF Asked
  <2>2. calls[c].pc \in {"root", "linked", "extras", "fetching"}
    BY <1>1, <2>1 DEF RpcsOK
  <2>3. rpcs' = (rpcs \ {r}) \cup NextRequests(c)
    BY <1>6 DEF rpc_answered
  <2>4. LastAnswer(c, answered(r, s))
    BY <1>6, <2>2 DEF rpc_answered, LastAnswer
  <2> QED
    BY <1>2, <1>3, <1>4, <2>1, <2>3, <2>4
<1> QED
  BY <1>5, <1>6

\* The last answer to c is followed by requests N.
LEMMA AnsweredLast ==
    ASSUME Shape, ~Polling, UNCHANGED <<ledger, copies>>, NEW c \in Callers, NEW r,
           Asked(c) = {r}, NEW N, rpcs' = (rpcs \ {r}) \cup N, CallsOK', FlagsOK',
           ObjectsOK(objs', current'), Newer(objs, objs'), failed => failed', Calm(c),
           N \subseteq [obj: 1..Len(objs'), listen: {TRUE}, by: {c}],
           N = {} \/ calls'[c].pc \in {"root", "linked", "extras"},
           \A k \in Accounts : Has(k) => current'[k] # None,
           calls'[c].pc \in {"root", "linked", "extras"} => current'[RootAccount] # None,
           calls'[c].pc \in {"linked", "extras"} => current'[Linked] # None,
           isSubscribed' => isSubscribed \/ (Has(RootAccount) /\ Has(Linked)),
           extras' # {} /\ extras' # extras => \A k \in Extras : current'[k] # None
    PROVE  Shape' /\ Onward
<1>1. UNCHANGED <<who, head>> /\ ObjsOK /\ Len(objs) <= Len(objs') /\ Len(objs') \in Nat
  BY DEF ledger, Shape, Newer, ObjectsOK
<1>2. ObjsOK'
  BY <1>1, NextObjects
<1>3. Complete'
  BY <1>1, CompleteNext
<1>4. RpcsOK'
  <2>1. c # Nobody
    BY SubscribersAssumption DEF Nobody
  <2>2. /\ N \subseteq [obj: 1..Len(objs'), listen: BOOLEAN, by: {c, Nobody}]
        /\ \A q \in N : q.by = Nobody => ~q.listen
    BY <2>1
  <2>3. /\ \A q \in rpcs' : q.by = c => q \in N
        /\ rpcs' \subseteq rpcs \cup N
    BY DEF Asked
  <2> QED
    BY <1>1, <2>2, <2>3, RpcsNext
<1> QED
  BY <1>2, <1>3, <1>4, SocketStep

\* A request is answered.
LEMMA RpcAnswered ==
    ASSUME Shape, NEW r \in rpcs, NEW s \in 1..head, rpc_answered(r, s)
    PROVE  Shape' /\ Onward
<1> DEFINE x == answered(r, s)
           c == r.by
<1>1. /\ ~Polling /\ r.obj \in 1..Len(objs) /\ r.listen \in BOOLEAN
      /\ c \in Callers \cup {Nobody} /\ UNCHANGED <<ledger, copies, raced>>
      /\ Refreshed(objs, x, r.obj, r.listen)
  BY AnsweredParts
<1>2. \/ /\ objs' = x /\ UNCHANGED <<current, calls, flags>> /\ rpcs' = rpcs \ {r}
      \/ c \in Callers /\ Asked(c) = {r} /\ LastAnswer(c, x) /\ rpcs' = (rpcs \ {r}) \cup NextRequests(c)
  BY AnsweredParts
<1> HIDE DEF x, c
<1>3. /\ LedgerOK /\ ObjsOK /\ CallsOK /\ FlagsOK /\ RpcsOK /\ Complete
      /\ UNCHANGED <<who, head>> /\ raced' \in BOOLEAN
      /\ RootAccount \in Accounts /\ Linked \in Accounts /\ Extras \subseteq Accounts
  BY <1>1, Kinds DEF Shape, ledger, FlagsOK
<1>4. ObjectsOK(x, current) /\ Len(x) = Len(objs) /\ Newer(objs, x) /\ Len(objs) \in Nat
  BY <1>1, <1>3, RefreshedOK, NewerObjects DEF ObjsOK, ObjectsOK
<1>5. CASE objs' = x /\ UNCHANGED <<current, calls, flags>> /\ rpcs' = rpcs \ {r}
  <2>1. ObjsOK' /\ Newer(objs, objs')
    BY <1>3, <1>4, <1>5, NextObjects
  <2>2. FlagsOK' /\ CallsOK'
    BY <1>1, <1>3, <1>5 DEF FlagsOK, House, flags, CallsOK, CallOK, Polling
  <2>3. RpcsOK'
    BY <1>1, <1>3, <1>4, <1>5 DEF RpcsOK, Asked, Polling, flags
  <2>4. Complete'
    BY <1>3, <1>5 DEF Complete, Polling, Has, RootAccount, Linked, House, flags
  <2> QED
    BY <1>1, <2>1, <2>2, <2>3, <2>4, SocketStep
<1>6. CASE /\ c \in Callers /\ Asked(c) = {r} /\ LastAnswer(c, x)
           /\ rpcs' = (rpcs \ {r}) \cup NextRequests(c)
  <2> DEFINE N == NextRequests(c)
  <2>1. rpcs' = (rpcs \ {r}) \cup N
    BY <1>6
  <2>2. calls'[c] = Idle => N = {}
    BY DEF NextRequests, Idle
  <2>3. ASSUME NEW y, Newer(objs, x), Newer(x, y), y \in Seq(ObjType) PROVE Newer(objs, y)
    <3>1. ASSUME NEW o \in 1..Len(objs) PROVE objs[o].data <= y[o].data
      <4>1. o \in 1..Len(x) /\ o \in 1..Len(y) /\ Len(y) \in Nat
        BY <1>4, <2>3 DEF Newer
      <4>2. objs[o] \in ObjType /\ x[o] \in ObjType /\ y[o] \in ObjType
        BY <1>3, <1>4, <2>3, <4>1 DEF ObjsOK, ObjectsOK
      <4>3. objs[o].data \in Nat /\ x[o].data \in Nat /\ y[o].data \in Nat
        BY <4>2 DEF ObjType
      <4> QED
        BY <2>3, <4>1, <4>3 DEF Newer
    <3> QED
      BY <1>4, <2>3, <3>1 DEF Newer
  <2> HIDE DEF N
  <2>4. CASE /\ objs' = x /\ UNCHANGED current /\ extras' = extras
             /\ \/ Return(c) /\ UNCHANGED flags
                \/ Throw(c)
                \/ Subscribed(c) /\ UNCHANGED extras /\ calls[c].pc \in {"linked", "extras"}
    <3>1. CallsOK' /\ FlagsOK' /\ calls'[c] = Idle /\ Calm(c) /\ (failed => failed')
      BY <1>3, <1>6, <2>4, EndedCall
    <3>2. isSubscribed' => isSubscribed \/ (Has(RootAccount) /\ Has(Linked))
      BY <1>1, <1>3, <1>6, <2>4 DEF Throw, flags, Complete
    <3>3. N = {} /\ N \subseteq [obj: 1..Len(objs'), listen: {TRUE}, by: {c}]
      BY <2>2, <3>1
    <3>4. calls'[c].pc \notin {"root", "linked", "extras"}
      BY <3>1 DEF Idle
    <3> QED
      BY <1>1, <1>4, <1>6, <2>1, <2>4, <3>1, <3>2, <3>3, <3>4, AnsweredLast DEF Has
  <2>5. CASE /\ calls[c].pc = "root" /\ Wait(c, "linked") /\ UNCHANGED flags
             /\ Grown(x, objs', current, current', {Linked}, FALSE)
    <3>1. CallsOK' /\ calls'[c].pc = "linked" /\ Calm(c)
      BY <1>1, <1>3, <1>6, <2>5, MovedCall DEF SocketPcs, Calm
    <3>2. FlagsOK' /\ UNCHANGED <<isSubscribed, extras, failed>>
      BY <1>3, <2>5 DEF FlagsOK, flags, House
    <3>3. /\ ObjectsOK(objs', current') /\ \A k \in Accounts : Has(k) => current'[k] # None
          /\ current'[Linked] # None
      <4>1. {Linked} \subseteq Accounts /\ FALSE \in BOOLEAN
        BY <1>3
      <4>2. /\ ObjectsOK(objs', current')
            /\ \A k \in Accounts : (k \in {Linked} \/ current[k] # None) => current'[k] # None
        BY <1>3, <1>4, <2>5, <4>1, GrownOK
      <4> QED
        BY <1>3, <4>2 DEF Has
    <3>4. Newer(objs, objs')
      BY <1>4, <2>3, <2>5, <3>3, NewerObjects DEF ObjectsOK
    <3>5. current'[RootAccount] # None
      BY <1>1, <1>3, <1>6, <2>5, <3>3 DEF Complete
    <3>6. N \subseteq [obj: 1..Len(objs'), listen: {TRUE}, by: {c}]
      <4>1. N = requests(c, {current'[Linked]}, TRUE) /\ Linked' = Linked
        BY <1>3, <2>5, <3>1 DEF N, NextRequests, Linked, House
      <4>2. current'[Linked] \in 1..Len(objs')
        BY <1>3, <3>3 DEF ObjectsOK, None
      <4>3. N \subseteq [obj: {current'[Linked]}, listen: {TRUE}, by: {c}]
        BY <4>1, Requested
      <4> QED
        BY <4>2, <4>3
    <3> QED
      BY <1>1, <1>6, <2>1, <3>1, <3>2, <3>3, <3>4, <3>5, <3>6, AnsweredLast
  <2>6. CASE /\ calls[c].pc = "linked" /\ House
             /\ Grown(x, objs', current, current', Extras, FALSE) /\ extras' = calls[c].optional
             /\ \/ calls[c].optional = {} /\ Subscribed(c)
                \/ /\ calls[c].optional # {} /\ Wait(c, "extras")
                   /\ UNCHANGED <<front, isSubscribed, isSubscribing, failed>>
    <3>1. /\ ObjectsOK(objs', current') /\ \A k \in Accounts : Has(k) => current'[k] # None
          /\ \A k \in Extras : current'[k] # None
      BY <1>3, <1>4, <2>6, GrownOK DEF Has
    <3>2. Newer(objs, objs')
      BY <1>4, <2>3, <2>6, <3>1, NewerObjects DEF ObjectsOK
    <3>3. /\ Has(RootAccount) /\ Has(Linked)
          /\ current'[RootAccount] # None /\ current'[Linked] # None
      BY <1>1, <1>3, <1>6, <2>6, <3>1 DEF Complete
    <3>4. calls[c].optional \subseteq Extras
      BY <1>3, <1>6 DEF CallsOK, CallType
    <3>5. CASE calls[c].optional = {} /\ Subscribed(c)
      <4>1. CallsOK' /\ calls'[c] = Idle /\ Calm(c)
        BY <1>3, <1>6, <3>5, SubscribedCalls DEF Calm
      <4>2. FlagsOK' /\ (failed => failed')
        BY <1>3, <2>6, <3>4, <3>5 DEF FlagsOK, Subscribed, House
      <4>3. N = {} /\ N \subseteq [obj: 1..Len(objs'), listen: {TRUE}, by: {c}]
        BY <2>2, <4>1
      <4> QED
        BY <1>1, <1>6, <2>1, <3>1, <3>2, <3>3, <4>1, <4>2, <4>3, AnsweredLast
    <3>6. CASE /\ calls[c].optional # {} /\ Wait(c, "extras")
               /\ UNCHANGED <<front, isSubscribed, isSubscribing, failed>>
      <4>1. CallsOK' /\ calls'[c].pc = "extras" /\ Calm(c)
        BY <1>1, <1>3, <1>6, <2>6, <3>6, MovedCall DEF SocketPcs, Calm
      <4>2. FlagsOK'
        BY <1>3, <2>6, <3>4, <3>6 DEF FlagsOK, House
      <4>3. N \subseteq [obj: 1..Len(objs'), listen: {TRUE}, by: {c}]
        <5> DEFINE I == {current'[k] : k \in calls[c].optional}
        <5>1. N = requests(c, I, TRUE)
          BY <2>6, <4>1 DEF N, NextRequests
        <5>2. I \subseteq 1..Len(objs')
          BY <1>3, <3>1, <3>4 DEF ObjectsOK, None
        <5> HIDE DEF I
        <5>3. N \subseteq [obj: I, listen: {TRUE}, by: {c}]
          BY <5>1, Requested
        <5> QED
          BY <5>2, <5>3
      <4> QED
        BY <1>1, <1>6, <2>1, <3>1, <3>2, <3>3, <3>6, <4>1, <4>2, <4>3, AnsweredLast
    <3> QED
      BY <2>6, <3>5, <3>6
  <2>7. CASE calls[c].pc = "root" /\ RootAnswered(c, x)
    <3>1. UNCHANGED extras
      BY <2>7 DEF RootAnswered, Throw, flags
    <3> QED
      BY <1>3, <1>4, <2>4, <2>5, <2>7, <3>1, RootAnsweredOK
  <2>8. CASE calls[c].pc = "linked" /\ LinkedAnswered(c, x)
    BY <1>3, <1>4, <2>4, <2>6, <2>8, LinkedAnsweredOK
  <2>9. CASE \/ calls[c].pc = "extras" /\ objs' = x /\ UNCHANGED <<current, extras>> /\ Subscribed(c)
             \/ calls[c].pc = "fetching" /\ objs' = x /\ UNCHANGED <<current, flags>> /\ Return(c)
    BY <2>4, <2>9 DEF flags
  <2> QED
    BY <1>6, <2>7, <2>8, <2>9 DEF LastAnswer
<1> QED
  BY <1>2, <1>5, <1>6

\* A request fails, and with it the call that waits for it.
LEMMA RpcRejected ==
    ASSUME Shape, NEW r \in rpcs, rpc_rejected(r)
    PROVE  Shape' /\ Onward
<1> DEFINE c == r.by
<1>1. /\ LedgerOK /\ ObjsOK /\ CallsOK /\ FlagsOK /\ RpcsOK /\ Complete /\ ~Polling
      /\ UNCHANGED <<ledger, copies, objs, current, raced>>
      /\ UNCHANGED <<who, head>> /\ raced' \in BOOLEAN
  BY DEF Shape, RpcsOK, rpc_rejected, ledger, FlagsOK
<1>2. ObjsOK' /\ Newer(objs, objs')
  BY <1>1, NextObjects
<1>3. CASE c \notin Callers
  <2>1. rpcs' = rpcs \ {r} /\ UNCHANGED <<calls, flags>>
    BY <1>3 DEF rpc_rejected
  <2>2. FlagsOK' /\ CallsOK'
    BY <1>1, <2>1 DEF FlagsOK, House, flags, CallsOK, CallOK, Polling
  <2>3. RpcsOK'
    BY <1>1, <2>1 DEF RpcsOK, Asked, Polling, flags
  <2>4. Complete'
    BY <1>1, <2>1 DEF Complete, Polling, Has, RootAccount, Linked, House, flags
  <2> QED
    BY <1>1, <1>2, <2>2, <2>3, <2>4, SocketStep
<1>4. CASE c \in Callers
  <2>1. /\ rpcs' = orphans(c) \ {[r EXCEPT !.by = Nobody]}
        /\ \/ calls[c].pc = "fetching" /\ Return(c) /\ UNCHANGED flags
           \/ Throw(c)
    BY <1>4 DEF rpc_rejected
  <2>2. CallsOK' /\ FlagsOK' /\ calls'[c] = Idle /\ Calm(c) /\ (failed => failed')
    BY <1>1, <1>4, <2>1, EndedCall
  <2>3. isSubscribed' = isSubscribed /\ extras' = extras
    BY <2>1 DEF Throw, flags
  <2>4. Complete'
    BY <1>1, <1>4, <2>2, <2>3, CompleteNext DEF Has, Idle
  <2>5. RpcsOK'
    <3>1. ASSUME NEW q \in rpcs'
          PROVE  /\ q \in [obj: 1..Len(objs), listen: BOOLEAN, by: Callers \cup {Nobody}]
                 /\ q.by # c
                 /\ q \in rpcs \/ (q.by = Nobody /\ (calls[c].pc = "fetching" => ~q.listen))
      <4>1. PICK p \in rpcs : q = IF p.by = c THEN [p EXCEPT !.by = Nobody] ELSE p
        BY <2>1 DEF orphans
      <4>2. p \in [obj: 1..Len(objs), listen: BOOLEAN, by: Callers \cup {Nobody}]
        BY <1>1 DEF RpcsOK
      <4>3. c # Nobody
        BY <1>4, SubscribersAssumption DEF Nobody
      <4>4. CASE p.by # c
        BY <4>1, <4>2, <4>4
      <4>5. CASE p.by = c
        <5>1. /\ q \in [obj: 1..Len(objs), listen: BOOLEAN, by: Callers \cup {Nobody}]
              /\ q.by = Nobody /\ q.listen = p.listen
          BY <4>1, <4>2, <4>5
        <5>2. calls[c].pc = "fetching" => ~p.listen
          BY <1>1, <1>4, <4>5 DEF RpcsOK, Asked
        <5> QED
          BY <4>3, <5>1, <5>2
      <4> QED
        BY <4>4, <4>5
    <3>2. ASSUME NEW d \in Callers
          PROVE  /\ (\E q \in rpcs' : q.by = d)
                      => calls'[d].pc \in {"root", "linked", "extras", "fetching"}
                 /\ calls'[d].pc = "fetching" => \A q \in rpcs' : q.by = d => ~q.listen
      <4>1. CASE d = c
        BY <3>1, <4>1
      <4>2. CASE d # c
        <5>1. calls'[d] = calls[d]
          BY <1>4, <2>1, <4>2, <1>1, ReturnCall DEF Throw
        <5>2. \A q \in rpcs' : q.by = d => q \in rpcs
          BY <3>1, SubscribersAssumption DEF Nobody
        <5> QED
          BY <1>1, <5>1, <5>2 DEF RpcsOK, Asked
      <4> QED
        BY <4>1, <4>2
    <3>3. ASSUME ~failed', NEW q \in rpcs', q.by = Nobody PROVE ~q.listen
      <4>1. calls[c].pc = "fetching" /\ ~failed
        BY <2>1, <3>3 DEF Throw, flags
      <4> QED
        BY <1>1, <3>1, <3>3, <4>1 DEF RpcsOK, Asked
    <3> QED
      BY <1>1, <3>1, <3>2, <3>3 DEF RpcsOK, Asked, Polling
  <2> QED
    BY <1>1, <1>2, <2>2, <2>4, <2>5, SocketStep
<1> QED
  BY <1>3, <1>4

\* The objects are left alone.
LEMMA ObjectsStay ==
    ASSUME Shape, UNCHANGED <<ledger, objs, current>>
    PROVE  ObjsOK' /\ Newer(objs, objs') /\ Len(objs) <= Len(objs') /\ Len(objs') \in Nat
BY NextObjects DEF Shape, ObjsOK, ObjectsOK, ledger

\* An idle call, or one that waits for the clearing house, has asked for nothing.
LEMMA NothingAsked ==
    ASSUME Shape, NEW c \in Callers,
           calls[c].pc \notin {"root", "linked", "extras", "fetching"}
    PROVE  Asked(c) = {}
BY DEF Shape, RpcsOK

\* subscribe() of the object in front.
LEMMA SubscribeCalled ==
    ASSUME Shape, NEW c \in Callers, calls[c] = Idle, NEW optional \in SUBSET Extras,
           subscribe(c, optional)
    PROVE  Shape' /\ Onward
<1>1. calls[c].pc = "idle"
  BY DEF Idle
<1>2. CASE who[2] # "user"
  BY <1>1, <1>2, Entered DEF subscribe
<1>3. CASE who[2] = "user"
  <2>1. Wait(c, "house") /\ UNCHANGED <<ledger, flags, objects, copies, raced>>
    BY <1>3 DEF subscribe
  <2>2. CallsOK' /\ calls'[c].pc = "house" /\ Calm(c)
    BY <1>3, <2>1, MovedCall DEF Shape, PollingPcs, SocketPcs, Calm, ledger
  <2>3. FlagsOK'
    BY <2>1 DEF Shape, FlagsOK, flags, House, ledger
  <2>4. ObjsOK' /\ Newer(objs, objs') /\ Len(objs) <= Len(objs') /\ Len(objs') \in Nat
    BY <2>1, ObjectsStay DEF objects
  <2>5. RpcsOK' /\ Complete'
    BY <1>1, <2>1, <2>2, <2>4, NothingAsked, QuietCall DEF objects, flags, ledger
  <2> QED
    BY <2>1, <2>2, <2>3, <2>4, <2>5, SocketStep
<1> QED
  BY <1>2, <1>3

\* The clearing house is there, or fails.
LEMMA HouseAnswers ==
    ASSUME Shape, NEW c \in Callers, house_ready(c) \/ house_fails(c)
    PROVE  Shape' /\ Onward
<1>1. CASE house_ready(c)
  <2>1. {} \subseteq Extras /\ (who[2] = "user" => {} = {}) /\ calls[c].pc = "house" /\ enter(c, {})
    BY <1>1 DEF house_ready
  <2> DEFINE none == {}
  <2>2. none \subseteq Extras /\ none = {} /\ enter(c, none)
    BY <2>1
  <2> HIDE DEF none
  <2> QED
    BY <2>1, <2>2, Entered
<1>2. CASE house_fails(c)
  <2>1. calls[c].pc = "house" /\ Throw(c) /\ UNCHANGED <<ledger, objects, copies, raced>>
    BY <1>2 DEF house_fails
  <2>2. CallsOK' /\ FlagsOK' /\ calls'[c] = Idle /\ Calm(c) /\ (failed => failed')
    <3>1. raced' \in BOOLEAN /\ UNCHANGED who
      BY <2>1 DEF Shape, FlagsOK, ledger
    <3> QED
      BY <2>1, <3>1, EndedCall DEF Shape
  <2>3. ObjsOK' /\ Newer(objs, objs') /\ Len(objs) <= Len(objs') /\ Len(objs') \in Nat
    BY <2>1, ObjectsStay DEF objects
  <2>4. RpcsOK' /\ Complete'
    BY <2>1, <2>2, <2>3, NothingAsked, QuietCall DEF objects, Throw, ledger, Idle
  <2> QED
    BY <2>1, <2>2, <2>3, <2>4, SocketStep
<1> QED
  BY <1>1, <1>2

\* bulkPollingUserSubscribe is called.
LEMMA BulkCalled ==
    ASSUME Shape, NEW c \in Callers, calls[c] = Idle, bulkPollingUserSubscribe(c)
    PROVE  Shape' /\ Onward
<1> DEFINE p == IF accountsToPoll # {} THEN "bulkLoad" ELSE "bulkKeys"
<1>1. /\ who = <<"polling", "user">> /\ Wait(c, p) /\ p \in {"bulkLoad", "bulkKeys"}
      /\ UNCHANGED <<ledger, flags, objects, copies>> /\ raced' \in BOOLEAN
  BY DEF bulkPollingUserSubscribe
<1> HIDE DEF p
<1>2. Polling /\ who[2] = "user"
  BY <1>1 DEF Polling
<1>3. CallsOK' /\ calls'[c].pc = p /\ Calm(c)
  BY <1>1, <1>2, MovedCall DEF Shape, PollingPcs, Calm, ledger
<1>4. FlagsOK'
  BY <1>1 DEF Shape, FlagsOK, flags, House, ledger
<1>5. ObjsOK' /\ Newer(objs, objs') /\ Len(objs) <= Len(objs') /\ Len(objs') \in Nat
  BY <1>1, ObjectsStay DEF objects
<1>6. RpcsOK' /\ Complete'
  BY <1>1, <1>3, <1>5, NothingAsked, QuietCall DEF objects, flags, ledger, Idle
<1> QED
  BY <1>1, <1>3, <1>4, <1>5, <1>6, SocketStep

\* fetch() is called.
LEMMA FetchCalled ==
    ASSUME Shape, NEW c \in Callers, calls[c] = Idle, fetch(c)
    PROVE  Shape' /\ Onward
<1> DEFINE there == {k \in BaseAccounts \cup extras : current[k] # None}
           waits == there = BaseAccounts \cup extras
           b == IF waits THEN c ELSE Nobody
           I == {current[k] : k \in there}
           N == requests(b, I, FALSE)
<1>1. /\ UNCHANGED <<ledger, flags, copies, objs, current, raced>>
      /\ LedgerOK /\ CallsOK /\ FlagsOK /\ ObjsOK /\ UNCHANGED who
      /\ Asked(c) = {}
  BY NothingAsked DEF fetch, Shape, ledger, Idle
<1>2. ObjsOK' /\ Newer(objs, objs') /\ Len(objs) <= Len(objs') /\ Len(objs') \in Nat
  BY <1>1, ObjectsStay
<1>3. FlagsOK' /\ UNCHANGED <<failed, isSubscribed, extras>>
  BY <1>1 DEF FlagsOK, flags, House, ledger
<1>4. CASE Polling
  <2>1. Wait(c, "fetching") /\ UNCHANGED rpcs
    BY <1>4 DEF fetch
  <2>2. CallsOK' /\ calls'[c].pc = "fetching" /\ Calm(c)
    BY <1>1, <2>1, MovedCall DEF PollingPcs, SocketPcs, Calm
  <2>3. RpcsOK' /\ Complete'
    BY <1>1, <1>2, <1>3, <2>1, <2>2, QuietCall
  <2> QED
    BY <1>1, <1>2, <1>3, <2>2, <2>3, SocketStep
<1>5. CASE ~Polling
  <2>1. /\ rpcs' = rpcs \cup N
        /\ \/ waits /\ Wait(c, "fetching")
           \/ ~waits /\ Return(c)
    BY <1>5 DEF fetch
  <2>2. I \subseteq 1..Len(objs')
    <3>1. there \subseteq Accounts
      BY <1>1, Kinds DEF FlagsOK
    <3>2. \A k \in there : current[k] \in 1..Len(objs')
      BY <1>1, <3>1 DEF ObjsOK, ObjectsOK, None
    <3> QED
      BY <3>2
  <2>3. (waits => b = c) /\ (~waits => b = Nobody) /\ c # Nobody
    BY SubscribersAssumption DEF Nobody
  <2> HIDE DEF waits, b, I
  <2>4. N \subseteq [obj: I, listen: {FALSE}, by: {b}]
    BY Requested
  <2> HIDE DEF N
  <2>5. /\ N \subseteq [obj: 1..Len(objs'), listen: BOOLEAN, by: {c, Nobody}]
        /\ \A q \in N : ~q.listen
        /\ ~waits => \A q \in N : q.by # c
    BY <2>2, <2>3, <2>4
  <2>6. CallsOK' /\ Calm(c) /\ (waits => calls'[c].pc = "fetching") /\ (~waits => calls'[c] = Idle)
    <3>1. CASE waits /\ Wait(c, "fetching")
      BY <1>1, <3>1, MovedCall DEF PollingPcs, SocketPcs, Calm
    <3>2. CASE ~waits /\ Return(c)
      BY <1>1, <3>2, ReturnCall DEF Calm
    <3> QED
      BY <2>1, <3>1, <3>2
  <2>7. RpcsOK'
    <3>1. \A q \in rpcs' : q.by = c => q \in N
      BY <1>1, <2>1 DEF Asked
    <3> QED
      BY <1>1, <1>2, <1>3, <1>5, <2>1, <2>5, <2>6, <3>1, RpcsNext
  <2>8. Complete'
    <3>1. calls'[c].pc \in {"fetching", "idle"}
      BY <2>6 DEF Idle
    <3> QED
      BY <1>1, <1>3, <1>5, <2>6, <3>1, CompleteNext DEF Has
  <2> QED
    BY <1>1, <1>2, <1>3, <2>6, <2>7, <2>8, SocketStep
<1> QED
  BY <1>4, <1>5

\* The listeners are taken off root first, the others after it.
LEMMA InOrder ==
    ASSUME LedgerOK, FlagsOK
    PROVE  /\ Head(inOrder) = "state" /\ Tail(inOrder) \in Seq(Accounts)
           /\ \A i \in 1..Len(Tail(inOrder)) : Tail(inOrder)[i] \in {"markets"} \cup extras
           /\ \A k \in {"markets"} \cup extras :
                \E i \in 1..Len(Tail(inOrder)) : Tail(inOrder)[i] = k
<1> DEFINE t == SetToSeq(extras)
           n == Cardinality(extras)
           h == <<"state", "markets">>
           A == Accounts
<1>1. extras \subseteq A /\ IsFiniteSet(extras) /\ "state" \in A /\ "markets" \in A
  BY FiniteAccounts, Kinds DEF FlagsOK, Accounts
<1>2. /\ n \in Nat /\ t \in [1..n -> extras]
      /\ \A k \in extras : \E i \in 1..n : t[i] = k
  BY <1>1, Listed
<1> HIDE DEF t, n, A
<1>3. t \in Seq(A) /\ Len(t) = n /\ \A i \in 1..n : t[i] \in extras
  BY <1>1, <1>2
<1>4. h \in Seq(A) /\ Len(h) = 2 /\ h[1] = "state" /\ h[2] = "markets"
  BY <1>1
<1> DEFINE w == inOrder
<1>5. w = h \o t
  BY DEF inOrder, t
<1> HIDE DEF h, w
<1>6. /\ w \in Seq(A) /\ Len(w) = 2 + n
      /\ \A i \in 1..(2 + n) : w[i] = IF i <= 2 THEN h[i] ELSE t[i - 2]
  <2>1. /\ h \o t \in Seq(A) /\ Len(h \o t) = Len(h) + Len(t)
        /\ \A i \in 1..(Len(h) + Len(t)) :
              (h \o t)[i] = IF i <= Len(h) THEN h[i] ELSE t[i - Len(h)]
    BY <1>3, <1>4, ConcatProperties
  <2> QED
    BY <1>3, <1>4, <1>5, <2>1
<1>7. Head(w) = "state"
  <2>1. 1 \in 1..(2 + n) /\ 1 <= 2
    BY <1>2
  <2>2. w[1] = "state"
    BY <1>4, <1>6, <2>1
  <2> QED
    BY <1>2, <1>6, <2>2
<1>8. Tail(w) \in Seq(A) /\ Len(Tail(w)) = 1 + n /\ \A i \in 1..(1 + n) : Tail(w)[i] = w[i + 1]
  BY <1>2, <1>6
<1>9. ASSUME NEW i \in 1..(1 + n) PROVE Tail(w)[i] \in {"markets"} \cup extras
  <2> DEFINE j == i + 1
  <2>1. j \in 1..(2 + n) /\ j # 1 /\ (j <= 2 => j = 2) /\ (~(j <= 2) => j - 2 \in 1..n)
    BY <1>2
  <2>2. Tail(w)[i] = w[j]
    BY <1>8
  <2> HIDE DEF j
  <2> QED
    BY <1>3, <1>4, <1>6, <2>1, <2>2
<1>10. ASSUME NEW k \in {"markets"} \cup extras PROVE \E i \in 1..(1 + n) : Tail(w)[i] = k
  <2>1. CASE k = "markets"
    <3>1. 1 \in 1..(1 + n) /\ 2 \in 1..(2 + n) /\ 2 <= 2 /\ 1 + 1 = 2
      BY <1>2
    <3>2. Tail(w)[1] = w[2]
      BY <1>8, <3>1
    <3> QED
      BY <1>4, <1>6, <2>1, <3>1, <3>2
  <2>2. CASE k \in extras
    <3>1. PICK i \in 1..n : t[i] = k
      BY <1>2, <2>2
    <3> DEFINE j == i + 1
               m == i + 2
    <3>2. j \in 1..(1 + n) /\ m = j + 1 /\ m \in 1..(2 + n) /\ ~(m <= 2) /\ m - 2 = i
      BY <1>2
    <3> HIDE DEF j, m
    <3>3. Tail(w)[j] = w[m]
      BY <1>8, <3>2
    <3>4. w[m] = k
      BY <1>6, <3>1, <3>2
    <3> QED
      BY <3>2, <3>3, <3>4
  <2> QED
    BY <2>1, <2>2
<1> QED
  BY <1>7, <1>8, <1>9, <1>10 DEF w, A

\* A call takes listeners off.
LEMMA RemovingCall ==
    ASSUME Shape, ~Polling, NEW todo \in Seq(Accounts), House \/ todo = <<>>,
           NEW k, k = [Idle EXCEPT !.pc = "removing", !.todo = todo]
    PROVE  CallOK(k) /\ k.pc = "removing" /\ k.todo = todo
<1>1. Idle \in CallType /\ Idle.optional = {}
  BY IdleOK DEF CallOK, Idle, Shape
<1>2. k \in CallType /\ k.pc = "removing" /\ k.optional = {} /\ k.todo = todo
  BY <1>1 DEF CallType, SocketPcs
<1> QED
  BY <1>2 DEF CallOK, SocketPcs

\* Listeners are off: the objects of S.
LEMMA SilencedStep ==
    ASSUME Shape, UNCHANGED head, NEW S, objs' = released(S), current' \in [Accounts -> 0..Len(objs)],
           \A k \in Accounts : current'[k] \in {None, current[k]}
    PROVE  /\ ObjsOK' /\ Newer(objs, objs') /\ Len(objs) <= Len(objs') /\ Len(objs') \in Nat
           /\ Silenced(objs', S)
<1>1. ObjsOK /\ Silenced(objs', S)
  BY Silencing DEF Shape
<1>2. ObjectsOK(objs', current')
  BY <1>1, SilencedOK
<1>3. ObjsOK' /\ Newer(objs, objs')
  BY <1>1, <1>2, NextObjects, NewerObjects DEF ObjsOK
<1> QED
  BY <1>1, <1>2, <1>3 DEF Newer, ObjectsOK

\* unsubscribe() is called.
LEMMA UnsubscribeCalled ==
    ASSUME Shape, NEW c \in Callers, calls[c] = Idle, unsubscribe(c)
    PROVE  Shape' /\ Onward
<1>1. /\ UNCHANGED <<ledger, copies>> /\ UNCHANGED <<who, head>>
      /\ LedgerOK /\ CallsOK /\ FlagsOK /\ ObjsOK /\ Asked(c) = {}
  BY NothingAsked DEF unsubscribe, Shape, ledger, Idle
<1>2. current \in [Accounts -> 0..Len(objs)] /\ Len(objs) \in Nat
  BY <1>1 DEF ObjsOK, ObjectsOK
<1>3. CASE ~isSubscribed
  <2>1. /\ Return(c) /\ front' = FALSE
        /\ UNCHANGED <<isSubscribed, isSubscribing, extras, failed, objects, raced>>
    BY <1>3 DEF unsubscribe
  <2>2. CallsOK' /\ calls'[c] = Idle /\ Calm(c)
    BY <1>1, <2>1, ReturnCall DEF Calm
  <2>3. FlagsOK'
    BY <1>1, <2>1 DEF FlagsOK, House
  <2>4. ObjsOK' /\ Newer(objs, objs') /\ Len(objs) <= Len(objs') /\ Len(objs') \in Nat
    BY <1>1, <2>1, ObjectsStay DEF objects
  <2>5. RpcsOK' /\ Complete'
    BY <1>1, <2>1, <2>2, <2>4, QuietCall DEF objects, Idle
  <2> QED
    BY <1>1, <2>2, <2>3, <2>4, <2>5, SocketStep
<1>4. CASE isSubscribed /\ Polling
  <2>1. /\ Return(c) /\ unsubscribed /\ front' = FALSE /\ isSubscribed' = FALSE
        /\ UNCHANGED <<isSubscribing, extras, failed, rpcs, raced>>
    BY <1>4 DEF unsubscribe
  <2>2. CallsOK'
    BY <1>1, <2>1, ReturnCall
  <2>3. FlagsOK'
    BY <1>1, <2>1 DEF FlagsOK, House
  <2>4. ObjsOK' /\ Newer(objs, objs')
    <3>1. /\ objs' = released(Accounts) /\ current' \in [Accounts -> 0..Len(objs)]
          /\ \A k \in Accounts : current'[k] \in {None, current[k]}
      BY <1>2, <2>1 DEF unsubscribed, None
    <3> QED
      BY <1>1, <3>1, SilencedStep
  <2>5. CopiesOK' /\ (\A k \in Accounts : data[k] <= data'[k]) /\ head <= head'
    <3>1. head' \in Nat /\ head <= head'
      BY <1>1 DEF LedgerOK
    <3> QED
      BY <1>1, <3>1, SameCopies DEF Shape
  <2>6. Shape'
    BY <1>1, <1>4, <2>1, <2>2, <2>3, <2>4, <2>5, PollingStep
  <2> QED
    BY <2>4, <2>5, <2>6 DEF Onward
<1>5. CASE isSubscribed /\ ~Polling
  <2> DEFINE todo == IF House THEN Tail(inOrder) ELSE <<>>
             k == [Idle EXCEPT !.pc = "removing", !.todo = todo]
             S == IF House THEN {Head(inOrder)} ELSE BaseAccounts
  <2>1. /\ calls' = [calls EXCEPT ![c] = k] /\ objs' = released(S)
        /\ raced' \in BOOLEAN /\ UNCHANGED <<flags, current, rpcs>>
    BY <1>5 DEF unsubscribe
  <2>2. todo \in Seq(Accounts) /\ (House \/ todo = <<>>)
    BY <1>1, InOrder, EmptySeq
  <2> HIDE DEF todo, S
  <2>3. CallOK(k) /\ k.pc = "removing"
    BY <1>5, <2>2, RemovingCall
  <2> HIDE DEF k
  <2>4. CallsOK' /\ calls'[c].pc = "removing" /\ Calm(c)
    BY <1>1, <2>1, <2>3, OneCall DEF Calm
  <2>5. FlagsOK'
    BY <1>1, <2>1 DEF FlagsOK, House, flags
  <2>6. ObjsOK' /\ Newer(objs, objs') /\ Len(objs) <= Len(objs') /\ Len(objs') \in Nat
    BY <1>1, <1>2, <2>1, SilencedStep
  <2>7. RpcsOK' /\ Complete'
    BY <1>1, <2>1, <2>4, <2>6, QuietCall DEF flags
  <2> QED
    BY <1>1, <2>4, <2>5, <2>6, <2>7, SocketStep
<1> QED
  BY <1>3, <1>4, <1>5

\* A listener is off.
LEMMA ListenerRemoved ==
    ASSUME Shape, NEW c \in Callers, removed(c)
    PROVE  Shape' /\ Onward
<1>1. /\ calls[c].pc = "removing" /\ UNCHANGED <<ledger, copies, current, rpcs, raced>>
      /\ LedgerOK /\ CallsOK /\ FlagsOK /\ ObjsOK /\ UNCHANGED <<who, head>>
      /\ calls[c] \in CallType /\ CallOK(calls[c])
  BY DEF removed, Shape, ledger, CallsOK
<1>2. Asked(c) = {} /\ current \in [Accounts -> 0..Len(objs)]
  BY <1>1, NothingAsked DEF ObjsOK, ObjectsOK
<1>3. CASE calls[c].todo = <<>>
  <2>1. /\ Return(c) /\ front' = FALSE /\ isSubscribed' = FALSE
        /\ UNCHANGED <<isSubscribing, extras, failed, objs>>
    BY <1>3 DEF removed
  <2>2. CallsOK' /\ calls'[c] = Idle /\ Calm(c)
    BY <1>1, <2>1, ReturnCall DEF Calm
  <2>3. FlagsOK'
    BY <1>1, <2>1 DEF FlagsOK, House
  <2>4. ObjsOK' /\ Newer(objs, objs') /\ Len(objs) <= Len(objs') /\ Len(objs') \in Nat
    BY <1>1, <2>1, ObjectsStay
  <2>5. RpcsOK' /\ Complete'
    BY <1>1, <1>2, <2>1, <2>2, <2>4, QuietCall DEF Idle
  <2> QED
    BY <1>1, <2>2, <2>3, <2>4, <2>5, SocketStep
<1>4. CASE calls[c].todo # <<>>
  <2> DEFINE k == [calls[c] EXCEPT !.todo = Tail(calls[c].todo)]
  <2>1. /\ calls' = [calls EXCEPT ![c] = k] /\ objs' = released({Head(calls[c].todo)})
        /\ UNCHANGED flags
    BY <1>4 DEF removed
  <2>2. calls[c].todo \in Seq(Accounts)
    BY <1>1 DEF CallType
  <2>3. Tail(calls[c].todo) \in Seq(Accounts)
    BY <1>4, <2>2, HeadTailProperties
  <2>4. /\ k \in CallType /\ k.pc = calls[c].pc /\ k.optional = calls[c].optional
        /\ k.todo = Tail(calls[c].todo)
    BY <1>1, <2>3 DEF CallType
  <2> HIDE DEF k
  <2>5. CallOK(k)
    BY <1>1, <1>4, <2>4 DEF CallOK
  <2>6. CallsOK' /\ calls'[c] = k /\ Calm(c)
    BY <1>1, <2>1, <2>5, OneCall DEF Calm
  <2>7. FlagsOK'
    BY <1>1, <2>1 DEF FlagsOK, House, flags
  <2>8. ObjsOK' /\ Newer(objs, objs') /\ Len(objs) <= Len(objs') /\ Len(objs') \in Nat
    <3>1. \A a \in Accounts : current'[a] \in {None, current[a]}
      BY <1>1
    <3>2. current' \in [Accounts -> 0..Len(objs)]
      BY <1>1, <1>2
    <3> QED
      BY <1>1, <2>1, <3>1, <3>2, SilencedStep
  <2>9. RpcsOK' /\ Complete'
    BY <1>1, <1>2, <2>1, <2>4, <2>6, <2>8, QuietCall DEF flags
  <2> QED
    BY <1>1, <2>6, <2>7, <2>8, <2>9, SocketStep
<1> QED
  BY <1>3, <1>4

\* A slot comes.
LEMMA Ticked ==
    ASSUME Shape, head < MaxSlot, head' = head + 1,
           UNCHANGED <<who, born, flags, objects, copies, calls, raced>>
    PROVE  Shape' /\ Onward
<1>1. LedgerOK' /\ head \in Nat /\ head' \in Nat /\ head <= head'
  BY SubscribersAssumption DEF Shape, LedgerOK
<1>2. CopiesOK' /\ \A k \in Accounts : data[k] <= data'[k]
  BY <1>1, SameCopies DEF Shape
<1>3. FlagsOK' /\ CallsOK' /\ RpcsOK' /\ Complete'
  BY DEF Shape, FlagsOK, CallsOK, CallOK, RpcsOK, Complete, Polling, House, flags, objects,
         Has, Asked, RootAccount, Linked
<1>4. ObjsOK' /\ Newer(objs, objs')
  <2>1. ObjectsOK(objs, current) /\ UNCHANGED <<objs, current>>
    BY DEF Shape, ObjsOK, objects
  <2>2. ASSUME NEW o \in 1..Len(objs) PROVE ObjOK(objs[o])'
    <3>1. ObjOK(objs[o])
      BY <2>1 DEF ObjectsOK
    <3>2. objs[o].slot \in Nat
      BY <3>1 DEF ObjOK, ObjType
    <3> QED
      BY <1>1, <2>1, <3>1, <3>2 DEF ObjOK
  <2>3. ObjsOK'
    BY <2>1, <2>2 DEF ObjsOK, ObjectsOK
  <2> QED
    BY <2>1, <2>3, NewerObjects
<1> QED
  BY <1>1, <1>2, <1>3, <1>4 DEF Shape, Onward

(***************************************************************************)
(* Copies                                                                  *)
(***************************************************************************)
\* The state is in shape at first.
LEMMA ShapeInit == ASSUME Init PROVE Shape
<1>1. LedgerOK
  <2>1. born \in Nat
    BY DEF Init
  <2> QED
    BY <2>1, SubscribersAssumption DEF Init, LedgerOK
<1>2. FlagsOK
  BY DEF Init, FlagsOK
<1>3. ObjsOK
  <2>1. objs = <<>> /\ objs \in Seq(ObjType) /\ Len(objs) = 0
    BY DEF Init
  <2>2. current \in [Accounts -> 0..Len(objs)] /\ \A k \in Accounts : current[k] = None
    BY <2>1 DEF Init, None
  <2> QED
    BY <2>1, <2>2 DEF ObjsOK, ObjectsOK
<1>4. CopiesOK
  BY DEF Init, CopiesOK
<1>5. CallsOK
  <2>1. CallOK(Idle) /\ Idle \in CallType
    BY <1>1, IdleOK DEF CallOK
  <2> QED
    BY <2>1 DEF Init, CallsOK
<1>6. RpcsOK
  BY DEF Init, RpcsOK, Asked
<1>7. Complete
  BY DEF Init, Complete, Idle
<1> QED
  BY <1>1, <1>2, <1>3, <1>4, <1>5, <1>6, <1>7 DEF Shape

\* Every step keeps it in shape and takes nothing back.
LEMMA ShapeNext == ASSUME Shape, [Next]_vars PROVE Shape' /\ Onward
<1>1. head \in Nat /\ Slots \subseteq 1..head /\ 1..head \subseteq 0..head
  BY DEF Shape, LedgerOK, Slots
<1>2. CASE UNCHANGED vars
  <2>1. /\ UNCHANGED <<ledger, copies>> /\ UNCHANGED <<objs, current, head>> /\ ObjsOK
        /\ FlagsOK' /\ CallsOK' /\ RpcsOK' /\ Complete'
    BY <1>2 DEF vars, ledger, copies, Shape, FlagsOK, CallsOK, CallOK, RpcsOK, Complete, Polling,
                House, Has, Asked, RootAccount, Linked
  <2> QED
    BY <2>1, NextObjects, SocketStep
<1>3. CASE Event
  <2>1. ASSUME NEW s \in {t \in Slots : Exists(t)}, poll(s) PROVE Shape' /\ Onward
    BY <1>1, <2>1, Polled
  <2>2. ASSUME NEW r \in {q \in rpcs : q.by = Nobody}, rpc_rejected(r) PROVE Shape' /\ Onward
    BY <2>2, RpcRejected
  <2>3. ASSUME NEW r \in {q \in rpcs : q.by = Nobody}, NEW s \in Slots, rpc_answered(r, s)
        PROVE  Shape' /\ Onward
    BY <1>1, <2>3, RpcAnswered
  <2>4. ASSUME NEW o \in DOMAIN objs, NEW s \in Slots, notify(o, s) PROVE Shape' /\ Onward
    BY <1>1, <2>4, Notified
  <2>5. CASE /\ head < MaxSlot /\ head' = head + 1
             /\ UNCHANGED <<who, born, flags, objects, copies, calls, raced>>
    BY <2>5, Ticked
  <2> QED
    BY <1>3, <2>1, <2>2, <2>3, <2>4, <2>5 DEF Event
<1>4. ASSUME NEW c \in Callers, Call(c) PROVE Shape' /\ Onward
  <2>1. calls[c] = Idle
    BY <1>4 DEF Call
  <2>2. ASSUME NEW optional \in SUBSET Extras, subscribe(c, optional) PROVE Shape' /\ Onward
    BY <2>1, <2>2, SubscribeCalled
  <2>3. CASE bulkPollingUserSubscribe(c)
    BY <2>1, <2>3, BulkCalled
  <2>4. CASE fetch(c)
    BY <2>1, <2>4, FetchCalled
  <2>5. CASE unsubscribe(c)
    BY <2>1, <2>5, UnsubscribeCalled
  <2> QED
    BY <1>4, <2>2, <2>3, <2>4, <2>5 DEF Call
<1>5. ASSUME NEW c \in Callers, Continue(c) PROVE Shape' /\ Onward
  <2>1. ASSUME NEW s, keys_answered(c, s) PROVE Shape' /\ Onward
    BY <2>1, KeysAnswered
  <2>2. ASSUME NEW s \in {0} \cup {t \in Slots : Exists(t)}, load_over(c, s)
        PROVE  Shape' /\ Onward
    <3>1. s \in 0..head
      BY <1>1
    <3> QED
      BY <2>2, <3>1, LoadOver
  <2>3. ASSUME NEW r \in {q \in rpcs : q.by = c}, rpc_rejected(r) PROVE Shape' /\ Onward
    BY <2>3, RpcRejected
  <2>4. ASSUME NEW r \in {q \in rpcs : q.by = c}, NEW s \in Slots, rpc_answered(r, s)
        PROVE  Shape' /\ Onward
    BY <1>1, <2>4, RpcAnswered
  <2>5. CASE house_ready(c) \/ house_fails(c)
    BY <2>5, HouseAnswers
  <2>6. CASE removed(c)
    BY <2>6, ListenerRemoved
  <2> QED
    BY <1>5, <2>1, <2>2, <2>3, <2>4, <2>5, <2>6 DEF Continue
<1> QED
  BY <1>2, <1>3, <1>4, <1>5 DEF Next

\* The subscriber's state stays in shape, however calls and answers overlap: a
\* call waits only where its kind of subscriber has a place to wait, its
\* requests are for objects that exist, and a subscribed websocket subscriber
\* has an object for each account it has a getter for.
THEOREM ShapeHolds == Spec => []Shape
<1>1. Init => Shape
  BY ShapeInit
<1>2. Shape /\ [Next]_vars => Shape'
  BY ShapeNext
<1> QED
  BY <1>1, <1>2, PTL DEF Spec

\* No step of a state in shape takes back what a getter returns.
LEMMA NoCopyGoesBack ==
    ASSUME Shape, [Next]_vars, NEW k \in Accounts,
           getAccount(k) > 0, getAccount(k)' # Throws, current'[k] = current[k]
    PROVE  getAccount(k)' >= getAccount(k)
<1>1. Shape' /\ Onward
  BY ShapeNext
<1>2. LedgerOK /\ LedgerOK' /\ UNCHANGED who /\ Polling' = Polling
  <2>1. UNCHANGED who
    BY DEF Next, vars, Event, Call, Continue, poll, rpc_rejected, rpc_answered, notify, ledger,
           subscribe, enter, bulkPollingUserSubscribe, fetch, unsubscribe, keys_answered,
           load_over, house_ready, house_fails, removed
  <2> QED
    BY <1>1, <2>1 DEF Shape, Polling
<1>3. /\ isSubscribed /\ k \in BaseAccounts \cup extras
      /\ isSubscribed'
  BY DEF getAccount, Throws
<1>4. CASE Polling
  <2>1. getAccount(k) = data[k] /\ getAccount(k)' = data'[k]
    BY <1>2, <1>3, <1>4 DEF getAccount, Throws
  <2>2. data[k] \in Nat /\ data'[k] \in Nat /\ data[k] <= data'[k]
    BY <1>1, <1>2 DEF Shape, CopiesOK, Onward, LedgerOK
  <2> QED
    BY <2>1, <2>2
<1>5. CASE ~Polling
  <2> PICK o : o = current[k]
    OBVIOUS
  <2>1. getAccount(k) = objs[o].data /\ getAccount(k)' = objs'[o].data
    BY <1>2, <1>3, <1>5 DEF getAccount, Throws
  <2>2. o # None
    <3>1. Complete /\ FlagsOK
      BY DEF Shape
    <3>2. k \in {RootAccount, Linked} \cup extras
      BY <1>2, <1>3, <1>5, Kinds
    <3> QED
      BY <1>3, <1>5, <3>1, <3>2 DEF Complete, Has, FlagsOK
  <2>3. o \in 1..Len(objs) /\ o \in 1..Len(objs')
    <3>1. /\ current \in [Accounts -> 0..Len(objs)] /\ current' \in [Accounts -> 0..Len(objs')]
      BY <1>1 DEF Shape, ObjsOK, ObjectsOK
    <3>2. current[k] \in 0..Len(objs) /\ current'[k] \in 0..Len(objs')
      BY <3>1
    <3> QED
      BY <2>2, <3>2 DEF None
  <2>4. ObjOK(objs[o]) /\ ObjOK(objs[o])'
    BY <1>1, <2>3 DEF Shape, ObjsOK, ObjectsOK
  <2>5. /\ objs[o].data \in Nat /\ objs'[o].data \in Nat /\ objs[o].data <= objs'[o].data
    BY <1>1, <1>2, <2>3, <2>4 DEF ObjOK, ObjType, Onward, Newer, LedgerOK
  <2> QED
    BY <2>1, <2>5
<1> QED
  BY <1>4, <1>5

\* While a subscription lasts, what a getter returns is never replaced by what
\* the account was at an earlier slot, whichever calls overlap, in whatever order
\* answers, loads and notifications come, late ones and repeated ones included,
\* and whatever the contents are, also when they return to earlier ones.
THEOREM CopiesAreKept == Spec => OnlyLaterSlotsReplace
<1> DEFINE A == \A k \in Accounts :
                  getAccount(k) > 0 /\ getAccount(k)' # Throws /\ current'[k] = current[k] =>
                      getAccount(k)' >= getAccount(k)
<1>1. Shape /\ [Next]_vars => A
  BY NoCopyGoesBack
<1> HIDE DEF A
<1>2. Spec => [][A]_vars
  BY <1>1, ShapeHolds, PTL DEF Spec
<1> QED
  BY <1>2 DEF A, OnlyLaterSlotsReplace

(***************************************************************************)
(* Calls that do not race                                                  *)
(***************************************************************************)
BusyPcs == InProgress \cup {"extras"}
Busy(c) == calls[c].pc \in BusyPcs
Removing(c) == calls[c].pc = "removing"
Live(o) == objs[o].live

\* The accounts that have a getter.
InUse == BaseAccounts \cup extras

\* One call subscribes and one unsubscribes, not at once; what loads in bulk
\* may find another call's subscription.
Apart ==
    /\ \A c, d \in Callers : Busy(c) /\ Busy(d) => c = d
    /\ \A c, d \in Callers : Removing(c) /\ Removing(d) => c = d
    /\ \A c \in Callers : Busy(c) /\ calls[c].pc # "bulkLoad" => ~isSubscribed
    /\ \A c \in Callers : Busy(c) /\ House => isSubscribing
    /\ \A c \in Callers : Removing(c) => isSubscribed

\* Caller c moves, and the others stay where they are.
LEMMA ApartNext ==
    ASSUME Apart, UNCHANGED who, NEW c \in Callers, Calm(c),
           Busy(c)' => Busy(c) \/ \A d \in Callers : ~Busy(d),
           Removing(c)' => Removing(c) \/ \A d \in Callers : ~Removing(d),
           Busy(c)' /\ calls'[c].pc # "bulkLoad" => ~isSubscribed',
           isSubscribed' => isSubscribed \/ Busy(c) \/ \A d \in Callers : ~Busy(d),
           Busy(c)' /\ House => isSubscribing',
           isSubscribing => isSubscribing' \/ Busy(c) \/ \A d \in Callers : ~Busy(d),
           Removing(c)' => isSubscribed',
           isSubscribed => isSubscribed' \/ Removing(c) \/ \A d \in Callers : ~Removing(d)
    PROVE  Apart'
<1>1. ASSUME NEW d \in Callers, d # c
      PROVE  /\ Busy(d)' => Busy(d) /\ calls'[d].pc = calls[d].pc
             /\ Removing(d)' => Removing(d)
  <2>1. calls'[d] = calls[d] \/ calls'[d] = Idle
    BY <1>1 DEF Calm
  <2> QED
    BY <2>1 DEF Busy, BusyPcs, InProgress, Removing, Idle
<1>2. \A d, e \in Callers : Busy(d)' /\ Busy(e)' => d = e
  BY <1>1 DEF Apart
<1>3. \A d, e \in Callers : Removing(d)' /\ Removing(e)' => d = e
  BY <1>1 DEF Apart
<1>4. \A d \in Callers : Busy(d)' /\ calls'[d].pc # "bulkLoad" => ~isSubscribed'
  BY <1>1 DEF Apart
<1>5. \A d \in Callers : Busy(d)' /\ House => isSubscribing'
  BY <1>1 DEF Apart
<1>6. \A d \in Callers : Removing(d)' => isSubscribed'
  BY <1>1 DEF Apart
<1> QED
  BY <1>2, <1>3, <1>4, <1>5, <1>6 DEF Apart, House

(***************************************************************************)
(* A polling subscriber has all its callbacks at the loader, or none       *)
(***************************************************************************)
Empty == \A k \in Accounts : ~Has(k)
Full == \A k \in InUse \cup {ErrorCallback} : Has(k)

PollingInv ==
    /\ Empty \/ Full
    /\ \A k \in Accounts : Has(k) => Live(current[k])
    /\ \A o \in DOMAIN objs : Live(o) => \E k \in Accounts : o = current[k]
    /\ House /\ ~isSubscribed /\ ~isSubscribing => Empty
    /\ isSubscribed => Full
    /\ \A c \in Callers : calls[c].pc = "load" => Full
    /\ \A c \in Callers : calls[c].pc \in {"keys", "bulkKeys"} => Empty
    /\ \/ Empty \/ isSubscribed \/ failed
       \/ \E c \in Callers : calls[c].pc \in {"load", "bulkLoad", "house"}

\* The accounts are the same as long as extras is.
LEMMA SameAccounts ==
    ASSUME UNCHANGED who
    PROVE  /\ House' = House /\ BaseAccounts' = BaseAccounts /\ Polling' = Polling
           /\ RootAccount' = RootAccount /\ Linked' = Linked
           /\ UNCHANGED extras => InUse' = InUse
BY DEF House, BaseAccounts, Polling, RootAccount, Linked, InUse

\* Not both.
LEMMA FullNotEmpty ==
    ASSUME Shape
    PROVE  /\ Full => ~Empty /\ accountsToPoll # {} /\ (who[2] = "token" => Has("token"))
           /\ Empty => accountsToPoll = {} /\ (who[2] = "token" => ~Has("token"))
<1>1. RootAccount \in BaseAccounts /\ RootAccount \in Accounts \ {ErrorCallback}
  BY Kinds DEF Shape
<1>2. Full => Has(RootAccount)
  BY <1>1 DEF Full, InUse
<1>3. who[2] = "token" => "token" \in BaseAccounts /\ "token" \in Accounts
  BY DEF BaseAccounts, Accounts
<1> QED
  BY <1>1, <1>2, <1>3 DEF Full, InUse, Empty, accountsToPoll, Has

\* A step that leaves the callbacks.
LEMMA CallbacksStay ==
    ASSUME PollingInv, UNCHANGED <<who, objs, current>>, NEW c \in Callers, Calm(c),
           extras' = extras \/ Empty,
           House /\ ~isSubscribed' /\ ~isSubscribing' => Empty,
           isSubscribed' => Full /\ extras' = extras,
           calls'[c].pc = "load" => Full /\ extras' = extras,
           calls'[c].pc \in {"keys", "bulkKeys"} => Empty,
           isSubscribed \/ failed \/ calls[c].pc \in {"load", "bulkLoad", "house"} =>
               \/ Empty \/ isSubscribed' \/ failed'
               \/ calls'[c].pc \in {"load", "bulkLoad", "house"},
           Full => ~Empty
    PROVE  PollingInv'
<1>1. Empty' = Empty /\ (extras' = extras => Full' = Full) /\ House' = House
  BY SameAccounts DEF Empty, Full, Has
<1>2. ASSUME NEW d \in Callers, d # c
      PROVE  calls'[d] = calls[d] \/ (calls'[d].pc = "idle" /\ calls[d].pc = "promise")
  BY <1>2 DEF Calm, Idle
<1>3. \A d \in Callers : calls'[d].pc = "load" => Full'
  BY <1>1, <1>2 DEF PollingInv
<1>4. \A d \in Callers : calls'[d].pc \in {"keys", "bulkKeys"} => Empty'
  BY <1>1, <1>2 DEF PollingInv
<1>5. \/ Empty' \/ isSubscribed' \/ failed'
      \/ \E d \in Callers : calls'[d].pc \in {"load", "bulkLoad", "house"}
  BY <1>1, <1>2 DEF PollingInv
<1>6. /\ Empty' \/ Full'
      /\ House' /\ ~isSubscribed' /\ ~isSubscribing' => Empty'
      /\ isSubscribed' => Full'
  BY <1>1 DEF PollingInv
<1>7. /\ \A k \in Accounts : Has(k)' => Live(current[k])'
      /\ \A o \in DOMAIN objs' : Live(o)' => \E k \in Accounts : o = current'[k]
  BY DEF PollingInv, Has, Live
<1> QED
  BY <1>3, <1>4, <1>5, <1>6, <1>7 DEF PollingInv

\* A step that registers them.
LEMMA CallbacksAdded ==
    ASSUME Shape, PollingInv, Empty, UNCHANGED <<who, extras>>, Shape',
           Grown(objs, objs', current, current', BaseAccounts \cup extras \cup {ErrorCallback}, TRUE),
           NEW c \in Callers, isSubscribed' \/ calls'[c].pc \in {"load", "bulkLoad"},
           \A d \in Callers : calls'[d].pc \notin {"keys", "bulkKeys"},
           House => isSubscribed' \/ isSubscribing'
    PROVE  PollingInv'
<1> DEFINE S == BaseAccounts \cup extras \cup {ErrorCallback}
<1>1. S = InUse \cup {ErrorCallback} /\ InUse' = InUse /\ House' = House /\ S \subseteq Accounts
  BY SameAccounts, Kinds DEF InUse, Shape, FlagsOK
<1>2. Grown(objs, objs', current, current', S, TRUE)
  OBVIOUS
<1> HIDE DEF S
<1>3. Len(objs) \in Nat /\ Len(objs') \in Nat
      /\ DOMAIN objs = 1..Len(objs) /\ DOMAIN objs' = 1..Len(objs')
  BY DEF Shape, ObjsOK, ObjectsOK
<1>4. \A k \in Accounts : k \in S \/ current'[k] = None
  BY <1>2 DEF Grown, Empty, Has
<1>5. \A k \in S : current'[k] # None /\ objs'[current'[k]].live
  <2>1. ASSUME NEW k \in S PROVE current'[k] # None /\ objs'[current'[k]].live
    <3>1. current'[k] > Len(objs) /\ objs'[current'[k]] = Unread(k, TRUE)
      BY <1>2 DEF Grown
    <3>2. k \in Accounts /\ current' \in [Accounts -> 0..Len(objs')]
      BY <1>1, <1>2 DEF Grown
    <3>3. current'[k] \in Nat
      BY <1>3, <3>2
    <3> QED
      BY <1>3, <3>1, <3>3 DEF Unread, None
  <2> QED
    BY <2>1
<1>6. Full'
  BY <1>1, <1>5 DEF Full, Has
<1>7. \A k \in Accounts : Has(k)' => Live(current[k])'
  BY <1>4, <1>5 DEF Has, Live
<1>8. ASSUME NEW o \in DOMAIN objs', Live(o)' PROVE \E k \in Accounts : o = current'[k]
  <2>1. CASE o \in 1..Len(objs)
    <3>1. objs[o].live
      BY <1>2, <1>8, <2>1 DEF Grown, Live
    <3>2. PICK k \in Accounts : o = current[k]
      BY <1>3, <2>1, <3>1 DEF PollingInv, Live
    <3>3. o = 0
      BY <3>2 DEF Empty, Has, None
    <3> QED
      BY <2>1, <3>3
  <2>2. CASE o \notin 1..Len(objs)
    <3>1. o \in (Len(objs) + 1)..Len(objs')
      BY <1>3, <2>2
    <3> QED
      BY <1>1, <1>2, <3>1 DEF Grown
  <2> QED
    BY <2>1, <2>2
<1> QED
  BY <1>1, <1>6, <1>7, <1>8 DEF PollingInv

\* The places where a call is busy subscribing.
LEMMA PcFacts ==
    ASSUME Apart
    PROVE  /\ \A p \in {"keys", "load", "bulkKeys", "bulkLoad", "root", "linked", "extras"} :
                 p \in BusyPcs /\ p # "removing"
           /\ \A p \in {"idle", "house", "fetching", "promise", "removing"} : p \notin BusyPcs
           /\ Idle.pc = "idle"
BY DEF BusyPcs, InProgress, Idle


\* The keys are there.
LEMMA KeysInOrder ==
    ASSUME Shape, Shape', Apart, PollingInv, NEW c \in Callers, NEW s, keys_answered(c, s)
    PROVE  Apart' /\ PollingInv'
<1>1. /\ LedgerOK /\ CallsOK /\ FlagsOK /\ UNCHANGED <<who, head>> /\ raced' \in BOOLEAN
      /\ calls[c].pc \in {"keys", "bulkKeys"} /\ CallOK(calls[c]) /\ UNCHANGED raced
  BY DEF Shape, FlagsOK, CallsOK, keys_answered, ledger
<1>2. Polling /\ (calls[c].pc = "bulkKeys" => who[2] = "user")
  BY <1>1 DEF CallOK, SocketPcs
<1>3. Busy(c) /\ Empty /\ ~isSubscribed /\ (House => isSubscribing)
  BY <1>1, PcFacts DEF Busy, PollingInv, Apart
<1>4. /\ \A d \in Callers \ {c} : ~Busy(d)
      /\ \A d \in Callers : ~Removing(d)
  <2>1. "removing" \notin PollingPcs
    BY DEF PollingPcs
  <2> QED
    BY <1>1, <1>2, <1>3, <2>1 DEF Apart, Removing, CallsOK, CallOK
<1>5. CASE ~Exists(s)
  <2>1. Throw(c) /\ UNCHANGED <<objs, current>>
    BY <1>5 DEF keys_answered, objects
  <2>2. calls'[c] = Idle /\ Calm(c) /\ failed' /\ UNCHANGED <<isSubscribed, isSubscribing, extras>>
    BY <1>1, <2>1, EndedCall DEF Throw
  <2>3. calls'[c].pc = "idle" /\ ~Busy(c)' /\ ~Removing(c)'
    BY <2>2, PcFacts DEF Busy, Removing
  <2>4. Apart'
    BY <1>1, <1>3, <2>2, <2>3, ApartNext
  <2>5. PollingInv'
    BY <1>1, <1>3, <2>1, <2>2, <2>3, CallbacksStay, FullNotEmpty
  <2> QED
    BY <2>4, <2>5
<1>6. CASE Exists(s)
  <2>1. addToAccountLoader /\ UNCHANGED rpcs
    BY <1>6 DEF keys_answered
  <2>2. Grown(objs, objs', current, current', BaseAccounts \cup extras \cup {ErrorCallback}, TRUE)
    BY <1>1, <2>1, AddedObjects
  <2>3. ASSUME NEW p \in {"load", "bulkLoad"}, Wait(c, p), UNCHANGED flags,
               p = "bulkLoad" => who[2] = "user"
        PROVE  Apart' /\ PollingInv'
    <3>1. calls'[c].pc = p /\ Calm(c)
      BY <1>1, <1>2, <2>3, MovedCall DEF Calm, PollingPcs
    <3>2. Busy(c)' /\ ~Removing(c)' /\ UNCHANGED <<isSubscribed, isSubscribing, extras, failed>>
      BY <2>3, <3>1, PcFacts DEF Busy, Removing, flags
    <3>3. Apart'
      BY <1>1, <1>3, <3>1, <3>2, ApartNext
    <3>4. \A d \in Callers : calls'[d].pc \notin {"keys", "bulkKeys"}
      <4>1. ASSUME NEW d \in Callers, d # c PROVE calls'[d].pc \notin {"keys", "bulkKeys"}
        BY <1>4, <3>1, <4>1, PcFacts DEF Calm, Busy
      <4> QED
        BY <2>3, <3>1, <4>1
    <3>5. PollingInv'
      BY <1>1, <1>3, <2>2, <2>3, <3>1, <3>2, <3>4, CallbacksAdded
    <3> QED
      BY <3>3, <3>5
  <2>4. ASSUME Subscribed(c), UNCHANGED extras PROVE Apart' /\ PollingInv'
    <3>1. calls'[c] = Idle /\ Calm(c) /\ isSubscribed'
      BY <1>1, <2>4, EndedCall DEF Subscribed
    <3>2. calls'[c].pc = "idle" /\ ~Busy(c)' /\ ~Removing(c)'
      BY <3>1, PcFacts DEF Busy, Removing
    <3>3. Apart'
      BY <1>1, <1>3, <3>1, <3>2, ApartNext
    <3>4. \A d \in Callers : calls'[d].pc \notin {"keys", "bulkKeys"}
      <4>1. ASSUME NEW d \in Callers, d # c PROVE calls'[d].pc \notin {"keys", "bulkKeys"}
        BY <1>4, <3>1, <4>1, PcFacts DEF Calm, Busy
      <4> QED
        BY <3>2, <4>1
    <3>5. PollingInv'
      BY <1>1, <1>3, <2>2, <2>4, <3>1, <3>4, CallbacksAdded
    <3> QED
      BY <3>3, <3>5
  <2>5. \/ calls[c].pc = "bulkKeys" /\ Wait(c, "bulkLoad") /\ UNCHANGED flags
        \/ Wait(c, "load") /\ UNCHANGED flags
        \/ Subscribed(c) /\ UNCHANGED extras
    BY <1>6 DEF keys_answered, fetchIfUnloaded
  <2> QED
    BY <1>2, <2>3, <2>4, <2>5
<1> QED
  BY <1>5, <1>6

\* A load is over.
LEMMA LoadInOrder ==
    ASSUME Shape, Shape', Apart, PollingInv, NEW c \in Callers, NEW s, load_over(c, s)
    PROVE  Apart' /\ PollingInv'
<1>1. /\ LedgerOK /\ CallsOK /\ FlagsOK /\ UNCHANGED <<who, head, objs, current>>
      /\ raced' \in BOOLEAN /\ Polling
      /\ calls[c].pc \in {"load", "bulkLoad", "fetching"} /\ CallOK(calls[c]) /\ UNCHANGED raced
  BY DEF Shape, FlagsOK, CallsOK, load_over, ledger, objects
<1>2. /\ calls[c].pc = "load" => Busy(c) /\ Full /\ ~isSubscribed /\ (House => isSubscribing)
      /\ calls[c].pc = "bulkLoad" => who[2] = "user"
  BY <1>1, PcFacts DEF Busy, PollingInv, Apart, CallOK
<1>3. CASE calls[c].pc = "fetching"
  <2>1. Return(c) /\ UNCHANGED flags
    BY <1>3 DEF load_over
  <2>2. calls'[c] = Idle /\ Calm(c) /\ UNCHANGED <<isSubscribed, isSubscribing, extras, failed>>
    BY <1>1, <2>1, EndedCall DEF flags
  <2>3. calls'[c].pc = "idle" /\ ~Busy(c)' /\ ~Removing(c)'
    BY <2>2, PcFacts DEF Busy, Removing
  <2>4. Apart'
    BY <1>1, <2>2, <2>3, ApartNext
  <2>5. PollingInv'
    BY <1>1, <1>3, <2>2, <2>3, CallbacksStay, FullNotEmpty DEF PollingInv
  <2> QED
    BY <2>4, <2>5
<1>4. CASE calls[c].pc = "bulkLoad"
  <2>1. Wait(c, "house") /\ UNCHANGED flags
    BY <1>4 DEF load_over
  <2>2. /\ calls'[c].pc = "house" /\ Calm(c)
        /\ UNCHANGED <<isSubscribed, isSubscribing, extras, failed>>
    BY <1>1, <1>2, <1>4, <2>1, MovedCall DEF flags, Calm, PollingPcs
  <2>3. ~Busy(c)' /\ ~Removing(c)'
    BY <2>2, PcFacts DEF Busy, Removing
  <2>4. Apart'
    BY <1>1, <2>2, <2>3, ApartNext
  <2>5. PollingInv'
    BY <1>1, <1>4, <2>2, <2>3, CallbacksStay, FullNotEmpty DEF PollingInv
  <2> QED
    BY <2>4, <2>5
<1>5. CASE calls[c].pc = "load" /\ Throw(c) /\ who[2] = "token"
  <2>1. calls'[c] = Idle /\ Calm(c) /\ failed' /\ UNCHANGED <<isSubscribed, isSubscribing, extras>>
    BY <1>1, <1>5, EndedCall DEF Throw
  <2>2. calls'[c].pc = "idle" /\ ~Busy(c)' /\ ~Removing(c)' /\ ~House
    BY <1>5, <2>1, PcFacts DEF Busy, Removing, House
  <2>3. Apart'
    BY <1>1, <1>2, <1>5, <2>1, <2>2, ApartNext
  <2>4. PollingInv'
    BY <1>1, <1>5, <2>1, <2>2, CallbacksStay, FullNotEmpty DEF PollingInv
  <2> QED
    BY <2>3, <2>4
<1>6. CASE calls[c].pc = "load" /\ Subscribed(c) /\ UNCHANGED extras
  <2>1. calls'[c] = Idle /\ Calm(c) /\ isSubscribed'
    BY <1>1, <1>6, EndedCall DEF Subscribed
  <2>2. calls'[c].pc = "idle" /\ ~Busy(c)' /\ ~Removing(c)'
    BY <2>1, PcFacts DEF Busy, Removing
  <2>3. Apart'
    BY <1>1, <1>2, <1>6, <2>1, <2>2, ApartNext
  <2>4. PollingInv'
    BY <1>1, <1>2, <1>6, <2>1, <2>2, CallbacksStay, FullNotEmpty DEF PollingInv
  <2> QED
    BY <2>3, <2>4
<1> QED
  BY <1>1, <1>3, <1>4, <1>5, <1>6 DEF load_over

\* Without a race nobody is busy when a call begins to subscribe.
LEMMA NobodyBusy ==
    ASSUME Shape, Apart, ~raced', NEW c \in Callers, calls[c].pc \in {"idle", "house"},
           NEW optional, enter(c, optional), ~isSubscribing
    PROVE  \A d \in Callers : ~Busy(d)
<1>1. CASE House
  BY <1>1 DEF Apart
<1>2. CASE ~House
  <2>1. \A d \in Callers \ {c} : calls[d].pc \notin InProgress
    BY <1>2 DEF enter
  <2>2. \A d \in Callers : calls[d].pc # "extras"
    BY <1>2 DEF Shape, CallsOK, CallOK
  <2> QED
    BY <2>1, <2>2, PcFacts DEF Busy, BusyPcs
<1> QED
  BY <1>1, <1>2

\* subscribe() past its guards.
LEMMA BegunInOrder ==
    ASSUME Shape, Shape', Apart, PollingInv, Polling, UNCHANGED ledger, NEW c \in Callers,
           calls[c].pc \in {"idle", "house"}, \A d \in Callers : ~Busy(d), ~isSubscribed,
           ~isSubscribing, raced' \in BOOLEAN, NEW optional, begin(c, optional)
    PROVE  Apart' /\ PollingInv'
<1>1. /\ LedgerOK /\ CallsOK /\ FlagsOK /\ UNCHANGED <<who, head>>
      /\ \A d \in Callers : ~Removing(d)
  BY DEF Shape, Apart, ledger
<1>2. ASSUME NEW p \in {"keys", "load"}, Wait(c, p), UNCHANGED <<isSubscribed, failed>>,
             p = "keys" => who[2] # "token", House => isSubscribing'
      PROVE  calls'[c].pc = p /\ Calm(c) /\ Apart'
  <2>1. calls'[c].pc = p /\ Calm(c)
    BY <1>1, <1>2, MovedCall DEF Calm, PollingPcs
  <2>2. Busy(c)' /\ ~Removing(c)'
    BY <1>2, <2>1, PcFacts DEF Busy, Removing
  <2> QED
    BY <1>1, <1>2, <2>1, <2>2, ApartNext
<1>3. CASE House
  <2>1. /\ Wait(c, "keys") /\ isSubscribing' = TRUE /\ UNCHANGED <<isSubscribed, failed>>
        /\ UNCHANGED <<objs, current>>
    BY <1>3 DEF begin, objects
  <2>2. Empty /\ who[2] # "token"
    BY <1>3 DEF PollingInv, House
  <2>3. calls'[c].pc = "keys" /\ Calm(c) /\ Apart'
    BY <1>2, <2>1, <2>2
  <2>4. PollingInv'
    BY <1>1, <2>1, <2>2, <2>3, CallbacksStay, FullNotEmpty
  <2> QED
    BY <2>3, <2>4
<1>4. CASE ~House /\ who[2] = "token"
  <2>1. /\ IF current["token"] = None THEN addToAccountLoader ELSE UNCHANGED <<objs, current>>
        /\ Wait(c, "load") /\ UNCHANGED flags
    BY <1>4 DEF begin
  <2>2. UNCHANGED <<isSubscribed, isSubscribing, extras, failed>>
    BY <2>1 DEF flags
  <2>3. calls'[c].pc = "load" /\ Calm(c) /\ Apart'
    BY <1>2, <1>4, <2>1, <2>2
  <2>4. CASE current["token"] = None
    <3>1. Empty /\ addToAccountLoader
      BY <1>4, <2>1, <2>4, FullNotEmpty DEF Has, PollingInv
    <3>2. Grown(objs, objs', current, current', BaseAccounts \cup extras \cup {ErrorCallback}, TRUE)
      BY <1>1, <3>1, AddedObjects
    <3>3. \A d \in Callers : calls'[d].pc \notin {"keys", "bulkKeys"}
      <4>1. ASSUME NEW d \in Callers, d # c PROVE calls'[d].pc \notin {"keys", "bulkKeys"}
        BY <2>3, <4>1, PcFacts DEF Calm, Busy
      <4> QED
        BY <2>3, <4>1
    <3>4. PollingInv'
      BY <1>1, <1>4, <2>2, <2>3, <3>1, <3>2, <3>3, CallbacksAdded
    <3> QED
      BY <2>3, <3>4
  <2>5. CASE current["token"] # None
    <3>1. Full /\ UNCHANGED <<objs, current>>
      BY <1>4, <2>1, <2>5, FullNotEmpty DEF Has, PollingInv
    <3>2. PollingInv'
      BY <1>1, <1>4, <2>2, <2>3, <3>1, CallbacksStay, FullNotEmpty
    <3> QED
      BY <2>3, <3>2
  <2> QED
    BY <2>4, <2>5
<1>5. CASE ~House /\ who[2] # "token" /\ accountsToPoll # {}
  <2>1. fetchIfUnloaded(c) /\ UNCHANGED <<objs, current>>
    BY <1>5 DEF begin, objects
  <2>2. Full
    BY <1>5, FullNotEmpty DEF PollingInv
  <2>3. CASE Wait(c, "load") /\ UNCHANGED flags
    <3>1. UNCHANGED <<isSubscribed, isSubscribing, extras, failed>>
      BY <2>3 DEF flags
    <3>2. calls'[c].pc = "load" /\ Calm(c) /\ Apart'
      BY <1>2, <1>5, <2>3, <3>1
    <3>3. PollingInv'
      BY <1>1, <1>5, <2>1, <2>2, <3>1, <3>2, CallbacksStay, FullNotEmpty
    <3> QED
      BY <3>2, <3>3
  <2>4. CASE Subscribed(c) /\ UNCHANGED extras
    <3>1. calls'[c] = Idle /\ Calm(c) /\ isSubscribed'
      BY <1>1, <2>4, EndedCall DEF Subscribed
    <3>2. calls'[c].pc = "idle" /\ ~Busy(c)' /\ ~Removing(c)'
      BY <3>1, PcFacts DEF Busy, Removing
    <3>3. Apart'
      BY <1>1, <3>1, <3>2, ApartNext
    <3>4. PollingInv'
      BY <1>1, <1>5, <2>1, <2>2, <2>4, <3>1, <3>2, CallbacksStay, FullNotEmpty
    <3> QED
      BY <3>3, <3>4
  <2> QED
    BY <2>1, <2>3, <2>4 DEF fetchIfUnloaded
<1>6. CASE ~House /\ who[2] # "token" /\ accountsToPoll = {}
  <2>1. Wait(c, "keys") /\ UNCHANGED <<isSubscribed, isSubscribing, extras, failed, objs, current>>
    BY <1>6 DEF begin, flags, objects
  <2>2. Empty
    BY <1>6, FullNotEmpty DEF PollingInv
  <2>3. calls'[c].pc = "keys" /\ Calm(c) /\ Apart'
    BY <1>2, <1>6, <2>1
  <2>4. PollingInv'
    BY <1>1, <2>1, <2>2, <2>3, CallbacksStay, FullNotEmpty
  <2> QED
    BY <2>3, <2>4
<1> QED
  BY <1>3, <1>4, <1>5, <1>6

\* The guards of subscribe().
LEMMA EnteredInOrder ==
    ASSUME Shape, Shape', Apart, PollingInv, Polling, ~raced', NEW c \in Callers,
           calls[c].pc \in {"idle", "house"}, NEW optional, enter(c, optional)
    PROVE  Apart' /\ PollingInv'
<1>1. /\ LedgerOK /\ CallsOK /\ FlagsOK /\ UNCHANGED ledger /\ UNCHANGED <<who, head>>
      /\ raced' \in BOOLEAN
  BY DEF Shape, FlagsOK, enter, ledger
<1>2. CASE isSubscribed
  <2>1. Return(c) /\ UNCHANGED <<isSubscribed, isSubscribing, extras, failed, objs, current>>
    BY <1>2 DEF enter, objects
  <2>2. calls'[c] = Idle /\ Calm(c)
    BY <1>1, <2>1, ReturnCall DEF Calm
  <2>3. calls'[c].pc = "idle" /\ ~Busy(c)' /\ ~Removing(c)'
    BY <2>2, PcFacts DEF Busy, Removing
  <2>4. Apart'
    BY <1>1, <2>1, <2>2, <2>3, ApartNext
  <2>5. PollingInv'
    BY <1>1, <1>2, <2>1, <2>2, <2>3, CallbacksStay, FullNotEmpty DEF PollingInv
  <2> QED
    BY <2>4, <2>5
<1>3. CASE ~isSubscribed /\ isSubscribing
  <2>1. /\ Wait(c, "promise")
        /\ UNCHANGED <<isSubscribed, isSubscribing, extras, failed, objs, current>>
    BY <1>3 DEF enter, flags, objects
  <2>2. House
    BY <1>1, <1>3 DEF FlagsOK
  <2>3. calls'[c].pc = "promise" /\ Calm(c) /\ calls[c].pc = "idle"
    <3>1. calls[c].pc # "house"
      BY <1>1, <2>2 DEF CallsOK, CallOK, House
    <3> QED
      BY <1>1, <2>1, <2>2, <3>1, MovedCall DEF Calm, PollingPcs
  <2>4. ~Busy(c)' /\ ~Removing(c)'
    BY <2>3, PcFacts DEF Busy, Removing
  <2>5. Apart'
    BY <1>1, <2>1, <2>3, <2>4, ApartNext
  <2>6. PollingInv'
    BY <1>1, <1>3, <2>1, <2>3, CallbacksStay, FullNotEmpty DEF PollingInv
  <2> QED
    BY <2>5, <2>6
<1>4. CASE ~isSubscribed /\ ~isSubscribing
  <2>1. begin(c, optional) /\ \A d \in Callers : ~Busy(d)
    BY <1>4, NobodyBusy DEF enter
  <2> QED
    BY <1>1, <1>4, <2>1, BegunInOrder
<1> QED
  BY <1>2, <1>3, <1>4

\* Steps that leave calls, flags and callbacks alone.
LEMMA NothingInOrder ==
    ASSUME Apart, PollingInv, UNCHANGED <<who, objs, current, calls>>,
           UNCHANGED <<isSubscribed, isSubscribing, extras, failed>>
    PROVE  Apart' /\ PollingInv'
<1>1. Apart'
  BY SameAccounts DEF Apart, Busy, Removing
<1>2. Empty' = Empty /\ Full' = Full /\ House' = House
  BY SameAccounts DEF Empty, Full, Has
<1>3. PollingInv'
  BY <1>2 DEF PollingInv, Has, Live
<1> QED
  BY <1>1, <1>3

\* The calls of a polling subscriber.
LEMMA CallInOrder ==
    ASSUME Shape, Shape', Apart, PollingInv, Polling, ~raced', NEW c \in Callers, Call(c)
    PROVE  Apart' /\ PollingInv'
<1>1. /\ LedgerOK /\ CallsOK /\ FlagsOK /\ ObjsOK /\ calls[c].pc = "idle"
      /\ \A d \in Callers : ~Removing(d)
  <2>1. "removing" \notin PollingPcs
    BY DEF PollingPcs
  <2> QED
    BY <2>1 DEF Shape, Call, Idle, CallsOK, CallOK, Removing
<1>2. ASSUME UNCHANGED <<who, objs, current, isSubscribed, isSubscribing, extras, failed>>,
             NEW p, Wait(c, p),
             \/ p = "house" /\ who[2] = "user"
             \/ p = "fetching"
             \/ /\ who[2] = "user" /\ \A d \in Callers : ~Busy(d)
                /\ p = "bulkLoad" \/ (p = "bulkKeys" /\ Empty)
      PROVE  Apart' /\ PollingInv'
  <2>1. calls'[c].pc = p /\ Calm(c)
    BY <1>1, <1>2, MovedCall DEF Calm, PollingPcs
  <2>2. ~Removing(c)' /\ (p \in {"house", "fetching"} => ~Busy(c)')
    BY <1>2, <2>1, PcFacts DEF Removing, Busy
  <2>3. p = "bulkKeys" => ~isSubscribed
    BY <1>2, FullNotEmpty DEF PollingInv
  <2>4. ~House \/ p = "fetching"
    BY <1>2 DEF House
  <2>5. Apart'
    BY <1>1, <1>2, <2>1, <2>2, <2>3, <2>4, ApartNext
  <2>6. PollingInv'
    BY <1>1, <1>2, <2>1, CallbacksStay, FullNotEmpty DEF PollingInv
  <2> QED
    BY <2>5, <2>6
<1>3. ASSUME NEW optional, subscribe(c, optional) PROVE Apart' /\ PollingInv'
  <2>1. CASE who[2] # "user"
    BY <1>1, <1>3, <2>1, EnteredInOrder DEF subscribe
  <2>2. CASE who[2] = "user"
    BY <1>2, <1>3, <2>2 DEF subscribe, ledger, flags, objects
  <2> QED
    BY <2>1, <2>2
<1>4. CASE bulkPollingUserSubscribe(c)
  <2> DEFINE p == IF accountsToPoll # {} THEN "bulkLoad" ELSE "bulkKeys"
  <2>1. /\ who[2] = "user" /\ Wait(c, p)
        /\ UNCHANGED <<who, objs, current, isSubscribed, isSubscribing, extras, failed>>
        /\ \A d \in Callers : calls[d].pc \notin InProgress
    BY <1>4 DEF bulkPollingUserSubscribe, ledger, flags, objects
  <2>2. \A d \in Callers : ~Busy(d)
    <3>1. \A d \in Callers : calls[d].pc # "extras"
      BY <1>1, <2>1 DEF CallsOK, CallOK, House
    <3> QED
      BY <2>1, <3>1 DEF Busy, BusyPcs
  <2>3. p = "bulkLoad" \/ (p = "bulkKeys" /\ Empty)
    BY FullNotEmpty DEF PollingInv
  <2> HIDE DEF p
  <2> QED
    BY <1>2, <2>1, <2>2, <2>3
<1>5. CASE fetch(c)
  <2>1. /\ Wait(c, "fetching")
        /\ UNCHANGED <<who, objs, current, isSubscribed, isSubscribing, extras, failed>>
    BY <1>5 DEF fetch, ledger, flags
  <2> QED
    BY <1>2, <2>1
<1>6. CASE unsubscribe(c) /\ ~isSubscribed
  <2>1. /\ Return(c)
        /\ UNCHANGED <<who, objs, current, isSubscribed, isSubscribing, extras, failed>>
    BY <1>6 DEF unsubscribe, objects, ledger
  <2>2. calls'[c] = Idle /\ Calm(c)
    BY <1>1, <2>1, ReturnCall DEF Calm
  <2>3. calls'[c].pc = "idle" /\ ~Busy(c)' /\ ~Removing(c)'
    BY <2>2, PcFacts DEF Busy, Removing
  <2>4. Apart'
    BY <2>1, <2>2, <2>3, ApartNext
  <2>5. PollingInv'
    BY <1>1, <2>1, <2>2, <2>3, CallbacksStay, FullNotEmpty DEF PollingInv
  <2> QED
    BY <2>4, <2>5
<1>7. CASE unsubscribe(c) /\ isSubscribed
  <2>1. /\ Return(c) /\ unsubscribed /\ isSubscribed' = FALSE
        /\ UNCHANGED <<who, isSubscribing, extras, failed>>
    BY <1>7 DEF unsubscribe, ledger
  <2>2. calls'[c] = Idle /\ Calm(c)
    BY <1>1, <2>1, ReturnCall DEF Calm
  <2>3. calls'[c].pc = "idle" /\ ~Busy(c)' /\ ~Removing(c)'
    BY <2>2, PcFacts DEF Busy, Removing
  <2>4. Apart'
    BY <1>1, <2>1, <2>2, <2>3, ApartNext
  <2>5. Empty'
    BY <2>1 DEF unsubscribed, Empty, Has
  <2>6. ASSUME NEW o \in DOMAIN objs' PROVE ~Live(o)'
    <3>1. Silenced(objs', Accounts) /\ objs' \in Seq(ObjType)
      BY <1>1, <2>1, Silencing DEF unsubscribed, Silenced
    <3>2. o \in 1..Len(objs) /\ o \in DOMAIN objs
      BY <1>1, <3>1 DEF Silenced, ObjsOK, ObjectsOK
    <3>3. objs[o].live => \E k \in Accounts : o = current[k]
      BY <3>2 DEF PollingInv, Live
    <3> QED
      BY <3>1, <3>2, <3>3 DEF Silenced, Live
  <2>7. \A d \in Callers : calls'[d].pc # "load"
    <3>1. ASSUME NEW d \in Callers, d # c PROVE calls'[d].pc # "load"
      <4>1. calls[d].pc # "load"
        BY <1>7, PcFacts DEF Apart, Busy
      <4> QED
        BY <2>2, <3>1, <4>1 DEF Calm, Idle
    <3> QED
      BY <2>3, <3>1
  <2>8. PollingInv'
    BY <2>1, <2>5, <2>6, <2>7 DEF PollingInv, Empty
  <2> QED
    BY <2>4, <2>8
<1> QED
  BY <1>3, <1>4, <1>5, <1>6, <1>7 DEF Call

\* Every step of a polling subscriber.
LEMMA PollingInOrder ==
    ASSUME Shape, Shape', Apart, PollingInv, Polling, ~raced', [Next]_vars
    PROVE  Apart' /\ PollingInv'
<1>1. rpcs = {} /\ LedgerOK /\ CallsOK /\ FlagsOK
  BY DEF Shape, RpcsOK
<1>2. CASE UNCHANGED vars
  BY <1>2, NothingInOrder DEF vars
<1>3. CASE Event
  <2>1. UNCHANGED <<who, objs, current, calls, isSubscribed, isSubscribing, extras, failed>>
    BY <1>1, <1>3 DEF Event, poll, notify, ledger, flags, objects
  <2> QED
    BY <2>1, NothingInOrder
<1>4. ASSUME NEW c \in Callers, Continue(c) PROVE Apart' /\ PollingInv'
  <2>1. ~removed(c)
    BY <1>1 DEF removed, CallsOK, CallOK, PollingPcs
  <2>2. CASE house_ready(c)
    BY <2>2, EnteredInOrder DEF house_ready
  <2>3. CASE house_fails(c)
    <3>1. calls[c].pc = "house" /\ Throw(c) /\ UNCHANGED <<who, objs, current>>
          /\ UNCHANGED raced
      BY <2>3 DEF house_fails, ledger, objects
    <3>2. raced' \in BOOLEAN /\ ~House
      BY <1>1, <3>1 DEF FlagsOK, CallsOK, CallOK, House
    <3>3. calls'[c] = Idle /\ Calm(c) /\ failed' /\ UNCHANGED <<isSubscribed, isSubscribing, extras>>
      BY <1>1, <3>1, <3>2, EndedCall DEF Throw
    <3>4. calls'[c].pc = "idle" /\ ~Busy(c)' /\ ~Removing(c)'
      BY <3>3, PcFacts DEF Busy, Removing
    <3>5. Apart'
      BY <3>1, <3>3, <3>4, ApartNext
    <3>6. PollingInv'
      BY <3>1, <3>2, <3>3, <3>4, CallbacksStay, FullNotEmpty DEF PollingInv
    <3> QED
      BY <3>5, <3>6
  <2> QED
    BY <1>1, <1>4, <2>1, <2>2, <2>3, KeysInOrder, LoadInOrder DEF Continue
<1> QED
  BY <1>2, <1>3, <1>4, CallInOrder DEF Next

(***************************************************************************)
(* A websocket subscriber listens for each account with one object         *)
(***************************************************************************)
\* The request that makes the object of an account listen.
Wants(c, k) == [obj |-> current[k], listen |-> TRUE, by |-> c]

\* The accounts whose listeners a call has still to take off.
Todo(c) == {calls[c].todo[i] : i \in 1..Len(calls[c].todo)}

\* What a call has asked for, and what it has got.
SocketCall(c) ==
    /\ calls[c].pc = "root" => Asked(c) = {Wants(c, RootAccount)}
    /\ calls[c].pc = "linked" => Live(current[RootAccount]) /\ Asked(c) = {Wants(c, Linked)}
    /\ calls[c].pc = "extras" =>
         /\ Live(current[RootAccount]) /\ Live(current[Linked])
         /\ \A k \in extras : Live(current[k]) \/ Wants(c, k) \in rpcs
         /\ Asked(c) \subseteq {Wants(c, k) : k \in extras}
    /\ Removing(c) => Todo(c) \subseteq InUse

\* The accounts that an object may listen for.
Hearing ==
    IF isSubscribed THEN {k \in InUse : \A c \in Callers : Removing(c) => k \in Todo(c)}
    ELSE {k \in InUse : \E c \in Callers : \/ calls[c].pc = "linked" /\ k = RootAccount
                                           \/ calls[c].pc = "extras"}

SocketInv ==
    /\ isSubscribed /\ (\A c \in Callers : ~Removing(c)) =>
         \A k \in InUse : Has(k) /\ Live(current[k])
    /\ \A c \in Callers : SocketCall(c)
    /\ failed \/ \A o \in DOMAIN objs : Live(o) => \E k \in Hearing : o = current[k]

QuietPcs == {"idle", "house", "fetching", "promise"}

\* The places of the calls.
LEMMA SocketPlaces ==
    ASSUME Shape, ~Polling, NEW c \in Callers
    PROVE  /\ calls[c].pc \in QuietPcs <=> ~Busy(c) /\ ~Removing(c)
           /\ Busy(c) => calls[c].pc \in {"root", "linked", "extras"}
<1>1. calls[c].pc \in SocketPcs
  BY DEF Shape, CallsOK, CallOK
<1> QED
  BY <1>1 DEF SocketPcs, QuietPcs, Busy, BusyPcs, InProgress, Removing

\* Steps that leave the listeners, and the calls that want them, alone; after a
\* failure a request that nobody waits for may add one.
LEMMA ListenersStay ==
    ASSUME Shape, ~Polling, Apart, SocketInv,
           UNCHANGED <<who, current, extras, isSubscribed, isSubscribing>>,
           DOMAIN objs' = DOMAIN objs, failed => failed',
           \A o \in DOMAIN objs : /\ objs[o].live => objs'[o].live
                                  /\ objs'[o].live => objs[o].live \/ failed,
           \A d \in Callers : \/ calls'[d] = calls[d]
                              \/ calls[d].pc \in QuietPcs /\ calls'[d].pc \in QuietPcs,
           \A d \in Callers : Busy(d) => Asked(d)' = Asked(d)
    PROVE  Apart' /\ SocketInv'
<1>1. ASSUME NEW d \in Callers
      PROVE  /\ Busy(d)' = Busy(d) /\ Removing(d)' = Removing(d)
             /\ Busy(d) \/ Removing(d) => calls'[d] = calls[d]
             /\ calls'[d].pc \in {"root", "linked", "extras"} => Busy(d) /\ calls'[d] = calls[d]
  BY DEF QuietPcs, Busy, BusyPcs, InProgress, Removing
<1>2. Apart'
  BY <1>1, SameAccounts DEF Apart
<1>3. /\ InUse' = InUse /\ RootAccount' = RootAccount /\ Linked' = Linked
      /\ \A d, k : Wants(d, k)' = Wants(d, k)
  BY SameAccounts DEF Wants
<1>4. ASSUME NEW k \in Accounts, Has(k), Live(current[k]) PROVE Live(current[k])'
  BY <1>4 DEF Live, Has, Shape, ObjsOK, ObjectsOK, None
<1>5. /\ RootAccount \in Accounts /\ Linked \in Accounts /\ InUse \subseteq Accounts
      /\ extras \subseteq Extras
  BY Kinds DEF Shape, FlagsOK, InUse
<1>6. ASSUME NEW d \in Callers PROVE SocketCall(d)'
  <2>1. SocketCall(d)
    BY DEF SocketInv
  <2>2. CASE calls'[d] = calls[d] /\ Busy(d)
    <3>1. Asked(d)' = Asked(d) /\ ~Removing(d)' /\ calls'[d].pc = calls[d].pc
      BY <1>1, <2>2, PcFacts DEF Busy, BusyPcs, InProgress, Removing
    <3>2. \A k \in extras : Wants(d, k) \in rpcs => Wants(d, k) \in rpcs'
      BY <3>1 DEF Asked, Wants
    <3>3. calls[d].pc \in {"root", "linked", "extras"} => Has(RootAccount)
      BY DEF Shape, Complete
    <3>4. calls[d].pc \in {"linked", "extras"} => Has(Linked)
      BY DEF Shape, Complete
    <3>5. \A k \in extras : Has(k)
      BY <1>5 DEF Shape, Complete
    <3>6. calls[d].pc = "root" => Asked(d)' = {Wants(d, RootAccount)'}
      BY <1>3, <2>1, <3>1 DEF SocketCall
    <3>7. calls[d].pc = "linked" => Live(current[RootAccount])' /\ Asked(d)' = {Wants(d, Linked)'}
      BY <1>3, <1>4, <1>5, <2>1, <3>1, <3>3 DEF SocketCall
    <3>8. calls[d].pc = "extras" =>
            /\ Live(current[RootAccount])' /\ Live(current[Linked])'
            /\ \A k \in extras : Live(current[k])' \/ Wants(d, k)' \in rpcs'
            /\ Asked(d)' \subseteq {Wants(d, k)' : k \in extras}
      <4>1. Live(current[RootAccount]) /\ Live(current[Linked]) =>
              (calls[d].pc = "extras" => Live(current[RootAccount])' /\ Live(current[Linked])')
        BY <1>3, <1>4, <1>5, <3>3, <3>4
      <4>2. \A k \in extras : Live(current[k]) => Live(current[k])'
        BY <1>4, <1>5, <3>5, Kinds DEF Shape
      <4>3. Asked(d) \subseteq {Wants(d, k) : k \in extras} =>
              Asked(d)' \subseteq {Wants(d, k)' : k \in extras}
        BY <1>3, <3>1
      <4> QED
        BY <1>3, <2>1, <3>2, <4>1, <4>2, <4>3 DEF SocketCall
    <3> QED
      BY <1>3, <3>1, <3>6, <3>7, <3>8 DEF SocketCall
  <2>3. CASE calls'[d] = calls[d] /\ ~Busy(d)
    <3>1. calls'[d].pc \notin {"root", "linked", "extras"}
      BY <1>1, <2>3
    <3>2. Removing(d)' => Todo(d)' \subseteq InUse'
      BY <1>1, <1>3, <2>1, <2>3 DEF SocketCall, Todo
    <3> QED
      BY <3>1, <3>2 DEF SocketCall
  <2>4. CASE calls[d].pc \in QuietPcs /\ calls'[d].pc \in QuietPcs
    BY <2>4 DEF SocketCall, QuietPcs, Removing
  <2> QED
    BY <2>2, <2>3, <2>4
<1>7. isSubscribed' /\ (\A c \in Callers : ~Removing(c)') =>
        \A k \in InUse' : Has(k)' /\ Live(current[k])'
  BY <1>1, <1>3, <1>4, <1>5 DEF SocketInv, Has
<1>8. Hearing' = Hearing
  <2>1. \A d \in Callers : Removing(d) => Todo(d)' = Todo(d)
    BY <1>1 DEF Todo
  <2>2. \A d \in Callers : /\ calls'[d].pc = "linked" <=> calls[d].pc = "linked"
                           /\ calls'[d].pc = "extras" <=> calls[d].pc = "extras"
    BY DEF QuietPcs
  <2> QED
    BY <1>1, <1>3, <2>1, <2>2 DEF Hearing
<1>9. failed' \/ \A o \in DOMAIN objs' : Live(o)' => \E k \in Hearing' : o = current'[k]
  BY <1>8 DEF SocketInv, Live
<1> QED
  BY <1>2, <1>6, <1>7, <1>9 DEF SocketInv

\* Only c subscribes, and nobody unsubscribes.
LEMMA ListenersAlone ==
    ASSUME NEW c \in Callers, UNCHANGED who, ~isSubscribed',
           \A d \in Callers \ {c} : calls'[d].pc \in QuietPcs,
           ~Removing(c)', SocketCall(c)',
           failed' \/ \A o \in DOMAIN objs' : Live(o)' =>
               \/ calls'[c].pc = "linked" /\ o = current'[RootAccount]
               \/ calls'[c].pc = "extras" /\ \E k \in InUse' : o = current'[k],
           RootAccount \in InUse'
    PROVE  SocketInv'
<1>1. \A d \in Callers \ {c} : SocketCall(d)'
  BY DEF SocketCall, QuietPcs, Removing
<1>2. /\ calls'[c].pc = "linked" => RootAccount \in Hearing'
      /\ calls'[c].pc = "extras" => InUse' \subseteq Hearing'
  BY SameAccounts DEF Hearing
<1>3. failed' \/ \A o \in DOMAIN objs' : Live(o)' => \E k \in Hearing' : o = current'[k]
  BY <1>2
<1> QED
  BY <1>1, <1>3 DEF SocketInv

\* The subscription of c succeeds.
LEMMA ListenersComplete ==
    ASSUME NEW c \in Callers, UNCHANGED who, isSubscribed', \A d \in Callers : calls'[d].pc \in QuietPcs,
           \A k \in InUse' : current'[k] # None /\ objs'[current'[k]].live,
           failed' \/ \A o \in DOMAIN objs' : Live(o)' => \E k \in InUse' : o = current'[k]
    PROVE  SocketInv'
<1>1. \A d \in Callers : SocketCall(d)' /\ ~Removing(d)'
  BY DEF SocketCall, QuietPcs, Removing
<1>2. Hearing' = InUse'
  BY <1>1 DEF Hearing
<1> QED
  BY <1>1, <1>2 DEF SocketInv, Has, Live

\* Who subscribes does so alone.
LEMMA BusyAlone ==
    ASSUME Shape, ~Polling, Apart, NEW c \in Callers, Busy(c)
    PROVE  /\ ~isSubscribed /\ (House => isSubscribing) /\ \A d \in Callers : ~Removing(d)
           /\ \A d \in Callers \ {c} : ~Busy(d) /\ calls[d].pc \in QuietPcs
           /\ Calm(c) => \A d \in Callers \ {c} : calls'[d].pc \in QuietPcs
<1>1. calls[c].pc # "bulkLoad"
  BY SocketPlaces
<1>2. ~isSubscribed /\ (House => isSubscribing) /\ \A d \in Callers : ~Removing(d)
  BY <1>1 DEF Apart
<1>3. \A d \in Callers \ {c} : ~Busy(d) /\ calls[d].pc \in QuietPcs
  BY <1>2, SocketPlaces DEF Apart
<1>4. Calm(c) => \A d \in Callers \ {c} : calls'[d].pc \in QuietPcs
  BY <1>3 DEF Calm, Idle, QuietPcs
<1> QED
  BY <1>2, <1>3, <1>4

\* What hearing does to the listeners.
LEMMA RefreshedLive ==
    ASSUME Shape, NEW p \in 1..Len(objs), NEW l \in BOOLEAN, NEW x, Refreshed(objs, x, p, l)
    PROVE  /\ DOMAIN x = 1..Len(objs) /\ DOMAIN objs = 1..Len(objs) /\ Len(x) = Len(objs)
           /\ x \in Seq(ObjType) /\ Len(objs) \in Nat
           /\ \A o \in 1..Len(objs) : /\ objs[o].live => x[o].live
                                      /\ x[o].live => objs[o].live \/ (l /\ o = p)
           /\ l => x[p].live
<1>1. objs \in Seq(ObjType) /\ x \in Seq(ObjType) /\ Len(x) = Len(objs)
  BY DEF Shape, ObjsOK, ObjectsOK, Refreshed
<1>2. x[p].live = (objs[p].live \/ l)
  BY DEF Refreshed
<1>3. \A o \in (1..Len(objs)) \ {p} : x[o] = objs[o]
  BY DEF Refreshed
<1>4. /\ objs[p].live => x[p].live
      /\ x[p].live => objs[p].live \/ l
      /\ l => x[p].live
  BY <1>2
<1>5. ASSUME NEW o \in 1..Len(objs)
      PROVE  /\ objs[o].live => x[o].live
             /\ x[o].live => objs[o].live \/ (l /\ o = p)
  BY <1>3, <1>4
<1>6. DOMAIN x = 1..Len(objs) /\ DOMAIN objs = 1..Len(objs) /\ Len(objs) \in Nat
  BY <1>1
<1> QED
  BY <1>1, <1>4, <1>5, <1>6

\* A notification comes.
LEMMA NotifiedInOrder ==
    ASSUME Shape, Apart, SocketInv, NEW o \in DOMAIN objs, NEW s \in 1..head, notify(o, s)
    PROVE  Apart' /\ SocketInv'
<1>1. /\ LedgerOK /\ ObjsOK /\ o \in 1..Len(objs) /\ DOMAIN objs = 1..Len(objs) /\ ~Polling
      /\ objs \in Seq(ObjType)
      /\ UNCHANGED <<who, current, extras, isSubscribed, isSubscribing, failed, calls, rpcs>>
  BY DEF Shape, ObjsOK, ObjectsOK, notify, ledger, flags
<1> DEFINE y == [objs EXCEPT ![o] = handleRpcResponse(@, s)]
<1>2. Refreshed(objs, y, o, FALSE) /\ objs' = y
  BY <1>1, Refreshing DEF notify
<1> HIDE DEF y
<1>3. /\ DOMAIN objs' = DOMAIN objs
      /\ \A p \in DOMAIN objs : /\ objs[p].live => objs'[p].live
                                /\ objs'[p].live => objs[p].live
  BY <1>1, <1>2, RefreshedLive
<1>4. \A d \in Callers : Asked(d)' = Asked(d)
  BY <1>1 DEF Asked
<1> QED
  BY <1>1, <1>3, <1>4, ListenersStay

\* Which requests make objects listen.
LEMMA ListeningRequests ==
    ASSUME Shape, ~Polling, SocketInv, NEW r \in rpcs
    PROVE  /\ r.by \in Callers \cup {Nobody}
           /\ r.by = Nobody /\ r.listen => failed
           /\ r.by \in Callers =>
                /\ calls[r.by].pc \in {"root", "linked", "extras", "fetching"}
                /\ calls[r.by].pc = "fetching" => ~r.listen
                /\ calls[r.by].pc = "root" => r = Wants(r.by, RootAccount) /\ Asked(r.by) = {r}
                /\ calls[r.by].pc = "linked" => r = Wants(r.by, Linked) /\ Asked(r.by) = {r}
                /\ calls[r.by].pc = "extras" => \E k \in extras : r = Wants(r.by, k)
<1>1. r \in Asked(r.by) /\ RpcsOK
  BY DEF Asked, Shape
<1>2. r.by \in Callers \cup {Nobody} /\ r.listen \in BOOLEAN
  BY <1>1 DEF RpcsOK
<1>3. r.by = Nobody /\ r.listen => failed
  BY <1>1 DEF RpcsOK
<1>4. ASSUME r.by \in Callers
      PROVE  /\ calls[r.by].pc \in {"root", "linked", "extras", "fetching"}
             /\ calls[r.by].pc = "fetching" => ~r.listen
             /\ SocketCall(r.by)
  BY <1>1, <1>4 DEF RpcsOK, SocketInv
<1> QED
  BY <1>1, <1>2, <1>3, <1>4 DEF SocketCall

\* A request is answered, and its caller waits for others.
LEMMA AnsweredInOrder ==
    ASSUME Shape, Shape', Apart, SocketInv, NEW r \in rpcs, NEW s \in 1..head, rpc_answered(r, s),
           \/ r.by \notin Callers
           \/ \E q \in rpcs : q # r /\ q.by = r.by,
           objs' = answered(r, s), UNCHANGED <<current, calls, flags>>, rpcs' = rpcs \ {r}
    PROVE  Apart' /\ SocketInv'
<1> DEFINE x == answered(r, s)
<1>1. /\ ~Polling /\ r.obj \in 1..Len(objs) /\ r.listen \in BOOLEAN
      /\ UNCHANGED who /\ Refreshed(objs, x, r.obj, r.listen)
      /\ UNCHANGED <<extras, isSubscribed, isSubscribing, failed>>
  BY AnsweredParts DEF ledger, flags
<1> HIDE DEF x
<1>2. /\ DOMAIN objs' = DOMAIN objs /\ DOMAIN objs = 1..Len(objs) /\ objs' = x
      /\ \A o \in DOMAIN objs : /\ objs[o].live => x[o].live
                                /\ x[o].live => objs[o].live \/ (r.listen /\ o = r.obj)
      /\ r.listen => x[r.obj].live
  BY <1>1, RefreshedLive DEF x
<1>3. CASE r.by \in Callers /\ calls[r.by].pc = "extras"
  <2> DEFINE c == r.by
  <2>1. PICK k \in extras : r = Wants(c, k)
    BY <1>1, <1>3, ListeningRequests
  <2>2. Busy(c) /\ ~Removing(c) /\ c \in Callers /\ calls[c].pc = "extras"
    BY <1>3 DEF Busy, BusyPcs, Removing
  <2> HIDE DEF c
  <2>3. /\ Busy(c) /\ ~isSubscribed' /\ ~Removing(c)' /\ Calm(c)
        /\ \A d \in Callers \ {c} : calls'[d].pc \in QuietPcs
    BY <1>1, <2>2, BusyAlone DEF Removing, Calm
  <2>4. /\ InUse' = InUse /\ RootAccount' = RootAccount /\ Linked' = Linked /\ extras \subseteq InUse
        /\ RootAccount \in InUse /\ \A d, j : Wants(d, j)' = Wants(d, j)
    BY <1>1, SameAccounts, Kinds DEF Wants, InUse, Shape
  <2>5. r.obj = current[k] /\ r.listen
    BY <2>1 DEF Wants
  <2>6. SocketCall(c)
    BY <2>2 DEF SocketInv
  <2>7. Has(RootAccount) /\ Has(Linked) /\ \A j \in extras : Has(j)
    BY <1>1, <2>2 DEF Shape, Complete, FlagsOK
  <2>8. \A j \in Accounts : Has(j) => current[j] \in DOMAIN objs
    BY <1>2 DEF Shape, ObjsOK, ObjectsOK, Has, None
  <2>9. /\ RootAccount \in Accounts /\ Linked \in Accounts /\ \A j \in extras : j \in Accounts
    BY Kinds DEF Shape, FlagsOK
  <2>10. SocketCall(c)'
    <3>1. Live(current[RootAccount])' /\ Live(current[Linked])'
      <4>1. Live(current[RootAccount]) /\ Live(current[Linked])
        BY <2>2, <2>6 DEF SocketCall
      <4> QED
        BY <1>2, <2>4, <2>7, <2>8, <2>9, <4>1 DEF Live
    <3>2. ASSUME NEW j \in extras PROVE Live(current[j])' \/ Wants(c, j)' \in rpcs'
      <4>1. CASE Live(current[j])
        BY <1>2, <2>7, <2>8, <2>9, <4>1 DEF Live
      <4>2. CASE Wants(c, j) \in rpcs /\ Wants(c, j) # r
        BY <2>4, <4>2
      <4>3. CASE Wants(c, j) = r
        <5>1. r.obj = current[j]
          BY <4>3 DEF Wants
        <5> QED
          BY <1>2, <2>5, <5>1 DEF Live
      <4> QED
        BY <2>2, <2>6, <4>1, <4>2, <4>3 DEF SocketCall
    <3>3. Asked(c)' \subseteq {Wants(c, j)' : j \in extras'}
      <4>1. Asked(c) \subseteq {Wants(c, j) : j \in extras} /\ Asked(c)' \subseteq Asked(c)
        BY <2>2, <2>6 DEF SocketCall, Asked
      <4> QED
        BY <1>1, <2>4, <4>1
    <3> QED
      BY <1>1, <2>2, <2>3, <3>1, <3>2, <3>3 DEF SocketCall
  <2>11. failed' \/ \A o \in DOMAIN objs' : Live(o)' => \E j \in InUse' : o = current'[j]
    <3>1. \A o \in DOMAIN objs' : Live(o)' => Live(o) \/ o = current[k]
      BY <1>2, <2>5 DEF Live
    <3>2. Hearing \subseteq InUse
      BY DEF Hearing
    <3> QED
      BY <1>1, <1>2, <2>4, <3>1, <3>2 DEF SocketInv
  <2>12. SocketInv'
    BY <1>1, <2>2, <2>3, <2>4, <2>10, <2>11, ListenersAlone
  <2>13. Apart'
    BY <1>1, SameAccounts DEF Apart, Busy, Removing
  <2> QED
    BY <2>12, <2>13
<1>4. CASE ~(r.by \in Callers /\ calls[r.by].pc = "extras")
  <2>1. r.listen => failed
    BY <1>1, <1>4, ListeningRequests DEF Asked
  <2>2. ASSUME NEW d \in Callers, Busy(d) PROVE Asked(d)' = Asked(d)
    <3>1. r.by # d
      <4>1. calls[d].pc \in {"root", "linked", "extras"}
        BY <1>1, <2>2, SocketPlaces
      <4> QED
        BY <1>1, <1>4, <4>1, ListeningRequests DEF Asked
    <3> QED
      BY <3>1 DEF Asked
  <2> QED
    BY <1>1, <1>2, <2>1, <2>2, ListenersStay
<1> QED
  BY <1>3, <1>4

\* New objects do not listen yet.
LEMMA GrownLive ==
    ASSUME NEW x \in Seq(ObjType), NEW y, NEW cur, NEW cur2, NEW S, S \subseteq Accounts,
           Grown(x, y, cur, cur2, S, FALSE)
    PROVE  \A o \in DOMAIN y : y[o].live => o \in 1..Len(x) /\ x[o].live
<1>1. Len(x) \in Nat /\ DOMAIN y = 1..Len(y) /\ Len(y) \in Nat
  BY DEF Grown
<1>2. ASSUME NEW o \in 1..Len(y), y[o].live PROVE o \in 1..Len(x) /\ x[o].live
  <2>1. CASE o \in 1..Len(x)
    BY <1>2, <2>1 DEF Grown
  <2>2. CASE o \notin 1..Len(x)
    <3>1. o \in (Len(x) + 1)..Len(y)
      BY <1>1, <2>2
    <3>2. PICK k \in S : o = cur2[k]
      BY <3>1 DEF Grown
    <3>3. y[o] = Unread(k, FALSE)
      BY <3>2 DEF Grown
    <3> QED
      BY <1>2, <3>3 DEF Unread
  <2> QED
    BY <2>1, <2>2
<1> QED
  BY <1>1, <1>2

\* The accounts that are listened for while c subscribes alone.
LEMMA HearingAlone ==
    ASSUME Shape, ~Polling, Apart, SocketInv, NEW c \in Callers, Busy(c)
    PROVE  /\ Hearing \subseteq InUse
           /\ calls[c].pc = "root" => Hearing = {}
           /\ calls[c].pc = "linked" => Hearing \subseteq {RootAccount}
<1>1. /\ ~isSubscribed
      /\ \A d \in Callers \ {c} : calls[d].pc \in QuietPcs
  BY BusyAlone
<1>2. \A d \in Callers \ {c} : calls[d].pc \notin {"linked", "extras"}
  BY <1>1 DEF QuietPcs
<1> QED
  BY <1>1, <1>2 DEF Hearing

\* The last answer to a call.
LEMMA LastInOrder ==
    ASSUME Shape, Shape', Apart, SocketInv, NEW r \in rpcs, NEW s \in 1..head, rpc_answered(r, s),
           r.by \in Callers, Asked(r.by) = {r}, LastAnswer(r.by, answered(r, s)),
           rpcs' = (rpcs \ {r}) \cup NextRequests(r.by)
    PROVE  Apart' /\ SocketInv'
<1> DEFINE x == answered(r, s)
           N == NextRequests(r.by)
<1> PICK c : c = r.by
  OBVIOUS
<1>1. /\ ~Polling /\ r.obj \in 1..Len(objs) /\ r.listen \in BOOLEAN
      /\ UNCHANGED <<who, raced>> /\ Refreshed(objs, x, r.obj, r.listen)
  BY AnsweredParts DEF ledger
<1>2. c \in Callers /\ Asked(c) = {r} /\ LastAnswer(c, x) /\ rpcs' = (rpcs \ {r}) \cup N
  OBVIOUS
<1>3. calls'[c] = Idle => N = {}
  BY DEF NextRequests, Idle
<1>4. N = NextRequests(c)
  OBVIOUS
<1> HIDE DEF x, N
<1>5. /\ DOMAIN x = 1..Len(objs) /\ DOMAIN objs = 1..Len(objs) /\ Len(x) = Len(objs)
      /\ x \in Seq(ObjType) /\ Len(objs) \in Nat
      /\ \A o \in 1..Len(objs) : /\ objs[o].live => x[o].live
                                 /\ x[o].live => objs[o].live \/ (r.listen /\ o = r.obj)
      /\ r.listen => x[r.obj].live
  BY <1>1, RefreshedLive
<1>6. /\ LedgerOK /\ CallsOK /\ FlagsOK /\ ObjsOK /\ raced' \in BOOLEAN
      /\ RootAccount \in Accounts /\ Linked \in Accounts /\ Extras \subseteq Accounts
      /\ RootAccount # Linked /\ RootAccount \notin Extras /\ Linked \notin Extras
      /\ BaseAccounts = {RootAccount, Linked} /\ extras \subseteq Extras
      /\ RootAccount' = RootAccount /\ Linked' = Linked /\ BaseAccounts' = BaseAccounts
  BY <1>1, Kinds, SameAccounts DEF Shape, FlagsOK
<1>7. ObjectsOK(x, current)
  BY <1>1, <1>6, RefreshedOK
<1>8. CASE calls[c].pc = "fetching"
  <2>1. objs' = x /\ UNCHANGED <<current, flags>> /\ Return(c)
    BY <1>2, <1>8 DEF LastAnswer
  <2>2. calls'[c] = Idle /\ \A d \in Callers \ {c} : calls'[d] = calls[d]
    BY <1>1, <1>2, <1>6, <2>1, ReturnCall
  <2>3. \A d \in Callers : \/ calls'[d] = calls[d]
                           \/ calls[d].pc \in QuietPcs /\ calls'[d].pc \in QuietPcs
    BY <1>8, <2>2 DEF QuietPcs, Idle
  <2>4. ASSUME NEW d \in Callers, Busy(d) PROVE Asked(d)' = Asked(d)
    <3>1. d # c
      BY <1>8, <2>4, PcFacts DEF Busy
    <3> QED
      BY <1>2, <1>3, <2>2, <3>1 DEF Asked
  <2>5. ~r.listen
    BY <1>1, <1>8, ListeningRequests
  <2>6. UNCHANGED <<extras, isSubscribed, isSubscribing, failed>>
    BY <2>1 DEF flags
  <2> QED
    BY <1>1, <1>5, <2>1, <2>3, <2>4, <2>5, <2>6, ListenersStay
<1>9. ASSUME calls[c].pc \in {"root", "linked", "extras"} PROVE Apart' /\ SocketInv'
  <2>1. Busy(c) /\ ~Removing(c)
    BY <1>9 DEF Busy, BusyPcs, InProgress, Removing
  <2>2. /\ ~isSubscribed /\ (House => isSubscribing) /\ \A d \in Callers : ~Removing(d)
        /\ \A d \in Callers \ {c} : ~Busy(d)
        /\ Calm(c) => \A d \in Callers \ {c} : calls'[d].pc \in QuietPcs
    BY <1>1, <1>2, <2>1, BusyAlone
  <2>3. /\ SocketCall(c) /\ Hearing \subseteq InUse
        /\ calls[c].pc = "root" => Hearing = {}
        /\ calls[c].pc = "linked" => Hearing \subseteq {RootAccount}
    BY <1>1, <1>2, <2>1, HearingAlone DEF SocketInv
  <2>4. r.listen /\ x[r.obj].live
    BY <1>1, <1>2, <1>5, <1>9, ListeningRequests DEF Wants
  <2>5. \A k \in Accounts : Has(k) => current[k] \in 1..Len(objs)
    BY <1>5 DEF Shape, ObjsOK, ObjectsOK, Has, None
  <2>6. /\ Has(RootAccount) /\ (calls[c].pc # "root" => Has(Linked))
        /\ \A k \in extras : Has(k)
    BY <1>1, <1>2, <1>6, <1>9 DEF Shape, Complete
  <2>7. ASSUME Calm(c), calls'[c] = Idle, failed', UNCHANGED <<isSubscribed, isSubscribing, extras>>
        PROVE  Apart' /\ SocketInv'
    <3>1. ~Busy(c)' /\ ~Removing(c)' /\ SocketCall(c)'
      BY <2>7 DEF Busy, BusyPcs, InProgress, Removing, SocketCall, Idle
    <3>2. Apart'
      BY <1>1, <1>2, <2>1, <2>2, <2>7, <3>1, ApartNext
    <3>3. RootAccount \in InUse'
      BY <1>6 DEF InUse
    <3> QED
      BY <1>1, <1>2, <2>2, <2>7, <3>1, <3>2, <3>3, ListenersAlone
  <2>8. ASSUME Subscribed(c), Calm(c), calls'[c] = Idle,
               \A k \in InUse' : current'[k] # None /\ objs'[current'[k]].live,
               failed \/ \A o \in DOMAIN objs' : objs'[o].live => \E k \in InUse' : o = current'[k]
        PROVE  Apart' /\ SocketInv'
    <3>1. isSubscribed' /\ ~Busy(c)' /\ ~Removing(c)' /\ failed' = failed
      BY <2>8 DEF Busy, BusyPcs, InProgress, Removing, Idle, Subscribed
    <3>2. Apart'
      BY <1>1, <1>2, <2>1, <2>2, <2>8, <3>1, ApartNext
    <3>3. \A d \in Callers : calls'[d].pc \in QuietPcs
      BY <2>2, <2>8 DEF QuietPcs, Idle
    <3>4. failed' \/ \A o \in DOMAIN objs' : Live(o)' => \E k \in InUse' : o = current'[k]
      BY <2>8, <3>1 DEF Live
    <3> QED
      BY <1>1, <1>2, <2>8, <3>1, <3>2, <3>3, <3>4, ListenersComplete
  <2>9. ASSUME NEW p \in {"linked", "extras"}, calls'[c].pc = p, Calm(c), SocketCall(c)',
               UNCHANGED <<isSubscribed, isSubscribing, failed>>,
               failed \/ \A o \in DOMAIN objs' : objs'[o].live =>
                   \/ p = "linked" /\ o = current'[RootAccount]
                   \/ p = "extras" /\ \E k \in InUse' : o = current'[k]
        PROVE  Apart' /\ SocketInv'
    <3>1. Busy(c)' /\ ~Removing(c)'
      BY <2>9 DEF Busy, BusyPcs, InProgress, Removing
    <3>2. Apart'
      BY <1>1, <1>2, <2>1, <2>2, <2>9, <3>1, ApartNext
    <3>3. RootAccount \in InUse'
      BY <1>6 DEF InUse
    <3>4. failed' \/ \A o \in DOMAIN objs' : Live(o)' =>
               \/ calls'[c].pc = "linked" /\ o = current'[RootAccount]
               \/ calls'[c].pc = "extras" /\ \E k \in InUse' : o = current'[k]
      BY <2>9 DEF Live
    <3> QED
      BY <1>1, <1>2, <2>2, <2>9, <3>1, <3>2, <3>3, <3>4, ListenersAlone
  <2>10. failed \/ \A o \in 1..Len(objs) : objs[o].live => \E k \in Hearing : o = current[k]
    BY <1>5 DEF SocketInv, Live
  <2>11. CASE calls[c].pc = "root"
    <3>1. r.obj = current[RootAccount]
      BY <1>1, <1>2, <2>11, ListeningRequests DEF Wants
    <3>2. CASE Throw(c) /\ objs' = x /\ UNCHANGED current
      BY <1>1, <1>2, <1>6, <2>7, <3>2, EndedCall DEF Throw
    <3>3. CASE /\ Wait(c, "linked") /\ UNCHANGED flags
               /\ Grown(x, objs', current, current', {Linked}, FALSE)
      <4>1. calls'[c].pc = "linked" /\ Calm(c)
        BY <1>1, <1>2, <1>6, <3>3, MovedCall DEF SocketPcs, Calm
      <4>2. UNCHANGED <<isSubscribed, isSubscribing, extras, failed>>
        BY <3>3 DEF flags
      <4>3. current'[RootAccount] = r.obj /\ objs'[r.obj].live
        BY <1>1, <1>5, <1>6, <2>4, <3>1, <3>3 DEF Grown
      <4>4. N = {Wants(c, Linked)'}
        <5>1. N = requests(c, {current'[Linked]}, TRUE)
          BY <1>4, <1>6, <2>11, <4>1 DEF NextRequests
        <5> QED
          BY <1>6, <5>1 DEF requests, Wants
      <4>5. Asked(c)' = {Wants(c, Linked)'}
        BY <1>2, <4>4 DEF Asked, Wants
      <4>6. SocketCall(c)'
        BY <1>6, <4>1, <4>3, <4>5 DEF SocketCall, Live, Removing
      <4>7. failed \/ \A o \in DOMAIN objs' : objs'[o].live => o = current'[RootAccount]
        <5>1. \A o \in DOMAIN objs' : objs'[o].live => o \in 1..Len(objs) /\ x[o].live
          <6> DEFINE S == {Linked}
          <6>1. S \subseteq Accounts /\ Grown(x, objs', current, current', S, FALSE)
            BY <1>6, <3>3
          <6> HIDE DEF S
          <6>2. \A o \in DOMAIN objs' : objs'[o].live => o \in 1..Len(x) /\ x[o].live
            BY <1>5, <6>1, GrownLive
          <6> QED
            BY <1>5, <6>2
        <5> QED
          BY <1>5, <2>3, <2>10, <2>11, <4>3, <5>1
      <4> QED
        BY <2>9, <4>1, <4>2, <4>6, <4>7
    <3>4. RootAnswered(c, x)
      BY <1>2, <2>11 DEF LastAnswer
    <3> QED
      BY <1>6, <1>7, <3>2, <3>3, <3>4, RootAnsweredOK
  <2>12. CASE calls[c].pc = "linked"
    <3>1. r.obj = current[Linked] /\ Live(current[RootAccount])
      BY <1>1, <1>2, <2>3, <2>12, ListeningRequests DEF Wants, SocketCall
    <3>2. x[current[RootAccount]].live /\ x[current[Linked]].live
      BY <1>5, <1>6, <2>4, <2>5, <2>6, <3>1 DEF Live
    <3>3. failed \/ \A o \in 1..Len(objs) : x[o].live =>
                      o \in {current[RootAccount], current[Linked]}
      BY <1>5, <2>3, <2>10, <2>12, <3>1
    <3>4. CASE ~House /\ Subscribed(c) /\ objs' = x /\ UNCHANGED <<current, extras>>
      <4>1. calls'[c] = Idle /\ Calm(c)
        BY <1>1, <1>2, <1>6, <3>4, EndedCall
      <4>2. InUse' = {RootAccount, Linked}
        BY <1>6, <3>4 DEF InUse, FlagsOK
      <4>3. \A k \in InUse' : current'[k] # None /\ objs'[current'[k]].live
        BY <2>6, <2>12, <3>2, <3>4, <4>2 DEF Has
      <4>4. failed \/ \A o \in DOMAIN objs' : objs'[o].live => \E k \in InUse' : o = current'[k]
        BY <1>5, <3>3, <3>4, <4>2
      <4> QED
        BY <2>8, <3>4, <4>1, <4>3, <4>4
    <3>5. CASE House /\ Grown(x, objs', current, current', Extras, FALSE)
      <4>1. /\ current'[RootAccount] = current[RootAccount] /\ current'[Linked] = current[Linked]
            /\ objs'[current[RootAccount]].live /\ objs'[current[Linked]].live
        BY <1>5, <1>6, <2>5, <2>6, <2>12, <3>2, <3>5 DEF Grown
      <4>2. failed \/ \A o \in DOMAIN objs' : objs'[o].live =>
                        o \in {current'[RootAccount], current'[Linked]}
        <5>1. \A o \in DOMAIN objs' : objs'[o].live => o \in 1..Len(objs) /\ x[o].live
          BY <1>5, <1>6, <3>5, GrownLive
        <5> QED
          BY <3>3, <4>1, <5>1
      <4>3. {RootAccount, Linked} \subseteq InUse' /\ InUse' = {RootAccount, Linked} \cup extras'
        BY <1>6 DEF InUse
      <4>4. CASE extras' = {} /\ Subscribed(c)
        <5>1. calls'[c] = Idle /\ Calm(c)
          BY <1>1, <1>2, <1>6, <4>4, SubscribedCalls DEF Calm
        <5>2. \A k \in InUse' : current'[k] # None /\ objs'[current'[k]].live
          BY <2>6, <2>12, <4>1, <4>3, <4>4 DEF Has
        <5>3. failed \/ \A o \in DOMAIN objs' : objs'[o].live => \E k \in InUse' : o = current'[k]
          BY <4>2, <4>3
        <5> QED
          BY <2>8, <4>4, <5>1, <5>2, <5>3
      <4>5. CASE /\ extras' = calls[c].optional /\ Wait(c, "extras")
                 /\ UNCHANGED <<front, isSubscribed, isSubscribing, failed>>
        <5>1. calls'[c].pc = "extras" /\ Calm(c)
          BY <1>1, <1>2, <1>6, <3>5, <4>5, MovedCall DEF SocketPcs, Calm
        <5>2. N = {Wants(c, k)' : k \in extras'}
          <6>1. N = requests(c, {current'[k] : k \in extras'}, TRUE)
            BY <1>4, <2>12, <4>5, <5>1 DEF NextRequests
          <6> QED
            BY <6>1 DEF requests, Wants
        <5>3. \A k \in extras' : Wants(c, k)' \in rpcs'
          BY <1>2, <5>2
        <5>4. Asked(c)' \subseteq {Wants(c, k)' : k \in extras'}
          BY <1>2, <5>2 DEF Asked
        <5>5. SocketCall(c)'
          BY <1>6, <4>1, <5>1, <5>3, <5>4 DEF SocketCall, Live, Removing
        <5>6. failed \/ \A o \in DOMAIN objs' : objs'[o].live => \E k \in InUse' : o = current'[k]
          BY <4>2, <4>3
        <5> QED
          BY <2>9, <4>5, <5>1, <5>5, <5>6
      <4> QED
        BY <1>2, <1>6, <1>7, <2>12, <3>5, <4>4, <4>5, LinkedAnsweredOK DEF LastAnswer
    <3>6. LinkedAnswered(c, x)
      BY <1>2, <2>12 DEF LastAnswer
    <3> QED
      BY <1>6, <1>7, <3>4, <3>5, <3>6, LinkedAnsweredOK
  <2>13. CASE calls[c].pc = "extras"
    <3>1. objs' = x /\ UNCHANGED <<current, extras>> /\ Subscribed(c)
      BY <1>2, <2>13 DEF LastAnswer
    <3>2. calls'[c] = Idle /\ Calm(c)
      BY <1>1, <1>2, <1>6, <3>1, EndedCall
    <3>3. InUse' = InUse /\ InUse = {RootAccount, Linked} \cup extras
      BY <1>6, <3>1 DEF InUse
    <3>4. ASSUME NEW k \in InUse PROVE current[k] # None /\ x[current[k]].live
      <4>1. Has(k) /\ k \in Accounts
        BY <1>6, <2>6, <2>13, <3>3
      <4>2. CASE Live(current[k])
        BY <1>5, <2>5, <4>1, <4>2 DEF Live, Has
      <4>3. CASE k \in extras /\ Wants(c, k) \in rpcs
        <5>1. Wants(c, k) = r
          BY <1>2, <4>3 DEF Asked, Wants
        <5>2. r.obj = current[k]
          BY <5>1 DEF Wants
        <5> QED
          BY <2>4, <4>1, <5>2 DEF Has
      <4> QED
        BY <2>3, <2>13, <3>3, <4>2, <4>3 DEF SocketCall
    <3>5. failed \/ \A o \in DOMAIN objs' : objs'[o].live => \E k \in InUse' : o = current'[k]
      <4>1. PICK j \in extras : r.obj = current[j]
        <5>1. PICK j \in extras : r = Wants(c, j)
          BY <1>1, <1>2, <2>13, ListeningRequests
        <5> QED
          BY <5>1 DEF Wants
      <4> QED
        BY <1>5, <2>3, <2>10, <3>1, <3>3, <4>1
    <3> QED
      BY <2>8, <3>1, <3>2, <3>3, <3>4, <3>5
  <2> QED
    BY <1>9, <2>11, <2>12, <2>13
<1> QED
  BY <1>2, <1>8, <1>9 DEF LastAnswer

\* A request fails.
LEMMA RejectedInOrder ==
    ASSUME Shape, Shape', Apart, SocketInv, NEW r \in rpcs, rpc_rejected(r)
    PROVE  Apart' /\ SocketInv'
<1> PICK c : c = r.by
  OBVIOUS
<1>1. /\ ~Polling /\ LedgerOK /\ CallsOK /\ FlagsOK /\ raced' \in BOOLEAN
      /\ UNCHANGED <<who, objs, current>>
  BY DEF Shape, RpcsOK, FlagsOK, rpc_rejected, ledger
<1>2. CASE c \notin Callers
  <2>1. /\ rpcs' = rpcs \ {r}
        /\ UNCHANGED <<calls, extras, isSubscribed, isSubscribing, failed>>
    BY <1>2 DEF rpc_rejected, flags
  <2>2. \A d \in Callers : Asked(d)' = Asked(d)
    BY <1>2, <2>1 DEF Asked
  <2> QED
    BY <1>1, <2>1, <2>2, ListenersStay
<1>3. CASE c \in Callers /\ calls[c].pc = "fetching"
  <2>1. rpcs' = orphans(c) \ {[r EXCEPT !.by = Nobody]} /\ Return(c)
        /\ UNCHANGED <<extras, isSubscribed, isSubscribing, failed>>
    BY <1>3 DEF rpc_rejected, flags
  <2>2. calls'[c] = Idle /\ \A d \in Callers \ {c} : calls'[d] = calls[d]
    BY <1>1, <1>3, <2>1, ReturnCall
  <2>3. \A d \in Callers : \/ calls'[d] = calls[d]
                           \/ calls[d].pc \in QuietPcs /\ calls'[d].pc \in QuietPcs
    BY <1>3, <2>2 DEF QuietPcs, Idle
  <2>4. ASSUME NEW d \in Callers, Busy(d) PROVE Asked(d)' = Asked(d)
    <3>1. d # c /\ d # Nobody
      BY <1>3, <2>4, PcFacts, SubscribersAssumption DEF Busy, Nobody
    <3>2. rpcs \subseteq [obj: 1..Len(objs), listen: BOOLEAN, by: Callers \cup {Nobody}]
      BY DEF Shape, RpcsOK
    <3>3. \A q \in rpcs : [q EXCEPT !.by = Nobody].by = Nobody
      BY <3>2
    <3>4. ASSUME NEW q, q \in Asked(d)' PROVE q \in Asked(d)
      <4>1. q \in orphans(c) /\ q.by = d
        BY <2>1, <3>4 DEF Asked
      <4>2. PICK p \in rpcs : q = IF p.by = c THEN [p EXCEPT !.by = Nobody] ELSE p
        BY <4>1 DEF orphans
      <4> QED
        BY <3>1, <3>3, <4>1, <4>2 DEF Asked
    <3>5. ASSUME NEW q, q \in Asked(d) PROVE q \in Asked(d)'
      <4>1. q \in rpcs /\ q.by = d
        BY <3>5 DEF Asked
      <4>2. q \in orphans(c)
        BY <3>1, <4>1 DEF orphans
      <4>3. q # [r EXCEPT !.by = Nobody]
        BY <3>1, <3>3, <4>1
      <4> QED
        BY <2>1, <4>1, <4>2, <4>3 DEF Asked
    <3> QED
      BY <3>4, <3>5
  <2> QED
    BY <1>1, <2>1, <2>3, <2>4, ListenersStay
<1>4. CASE c \in Callers /\ calls[c].pc # "fetching"
  <2>1. Throw(c)
    BY <1>4 DEF rpc_rejected
  <2>2. calls[c].pc \in {"root", "linked", "extras"}
    BY <1>1, <1>4, ListeningRequests
  <2>3. Busy(c) /\ ~Removing(c)
    BY <2>2 DEF Busy, BusyPcs, InProgress, Removing
  <2>4. calls'[c] = Idle /\ Calm(c) /\ failed' /\ UNCHANGED <<isSubscribed, isSubscribing, extras>>
    BY <1>1, <1>4, <2>1, EndedCall DEF Throw
  <2>5. /\ ~isSubscribed' /\ \A d \in Callers : ~Removing(d)
        /\ \A d \in Callers \ {c} : calls'[d].pc \in QuietPcs
    BY <1>1, <1>4, <2>3, <2>4, BusyAlone
  <2>6. ~Busy(c)' /\ ~Removing(c)' /\ SocketCall(c)'
    BY <2>4 DEF Busy, BusyPcs, InProgress, Removing, SocketCall, Idle
  <2>7. Apart'
    BY <1>1, <1>4, <2>3, <2>4, <2>6, ApartNext
  <2>8. RootAccount \in InUse'
    BY <1>1, Kinds, SameAccounts DEF InUse
  <2> QED
    BY <1>1, <1>4, <2>4, <2>5, <2>6, <2>7, <2>8, ListenersAlone
<1> QED
  BY <1>2, <1>3, <1>4

\* A call that wants no listener moves, with requests of its own at most.
LEMMA QuietInOrder ==
    ASSUME Shape, ~Polling, Apart, SocketInv, NEW c \in Callers, calls[c].pc \in QuietPcs,
           calls'[c].pc \in QuietPcs, \A d \in Callers \ {c} : calls'[d] = calls[d],
           UNCHANGED <<who, objs, current, extras, isSubscribed, isSubscribing>>, failed => failed',
           rpcs \subseteq rpcs', \A q \in rpcs' \ rpcs : q.by \in {c, Nobody}
    PROVE  Apart' /\ SocketInv'
<1>1. ASSUME NEW d \in Callers, Busy(d) PROVE Asked(d)' = Asked(d)
  <2>1. d # c /\ d # Nobody
    BY <1>1, SocketPlaces, SubscribersAssumption DEF Nobody
  <2> QED
    BY <2>1 DEF Asked
<1>2. \A d \in Callers : \/ calls'[d] = calls[d]
                         \/ calls[d].pc \in QuietPcs /\ calls'[d].pc \in QuietPcs
  OBVIOUS
<1> QED
  BY <1>1, <1>2, ListenersStay

\* subscribe().
LEMMA SocketEntered ==
    ASSUME Shape, Shape', ~Polling, Apart, SocketInv, ~raced', NEW c \in Callers,
           calls[c].pc \in {"idle", "house"}, NEW optional, optional \subseteq Extras,
           who[2] = "user" => optional = {}, enter(c, optional)
    PROVE  Apart' /\ SocketInv'
<1>1. /\ LedgerOK /\ CallsOK /\ FlagsOK /\ ObjsOK /\ UNCHANGED <<who, head>>
      /\ calls[c].pc \in QuietPcs
  BY DEF Shape, enter, ledger, QuietPcs
<1>2. CASE isSubscribed
  <2>1. Return(c) /\ UNCHANGED <<isSubscribed, isSubscribing, extras, failed, objs, current, rpcs>>
    BY <1>2 DEF enter, objects
  <2>2. calls'[c] = Idle /\ \A d \in Callers \ {c} : calls'[d] = calls[d]
    BY <1>1, <2>1, ReturnCall
  <2> QED
    BY <1>1, <2>1, <2>2, QuietInOrder DEF Idle, QuietPcs
<1>3. CASE ~isSubscribed /\ isSubscribing
  <2>1. /\ Wait(c, "promise")
        /\ UNCHANGED <<isSubscribed, isSubscribing, extras, failed, objs, current, rpcs>>
    BY <1>3 DEF enter, flags, objects
  <2>2. House
    BY <1>1, <1>3 DEF FlagsOK
  <2>3. calls'[c].pc = "promise" /\ \A d \in Callers \ {c} : calls'[d] = calls[d]
    BY <1>1, <2>1, <2>2, MovedCall DEF SocketPcs, PollingPcs
  <2> QED
    BY <1>1, <2>1, <2>3, QuietInOrder DEF QuietPcs
<1>4. CASE ~isSubscribed /\ ~isSubscribing
  <2> DEFINE k == [Idle EXCEPT !.pc = "root", !.optional = optional]
             N == requests(c, {Len(objs) + 1}, TRUE)
             S == {RootAccount}
  <2>1. /\ more(S, FALSE) /\ rpcs' = rpcs \cup N /\ calls' = [calls EXCEPT ![c] = k]
        /\ isSubscribing' = House /\ UNCHANGED <<isSubscribed, extras, failed>>
    BY <1>4 DEF enter, begin
  <2>2. \A d \in Callers : ~Busy(d)
    BY <1>4, NobodyBusy
  <2>3. calls'[c].pc = "root" /\ Calm(c)
    <3>1. calls'[c] = k /\ \A d \in Callers \ {c} : calls'[d] = calls[d]
      BY <1>1, <2>1 DEF CallsOK
    <3>2. k.pc = "root"
      BY DEF Idle
    <3> QED
      BY <3>1, <3>2 DEF Calm
  <2> HIDE DEF k
  <2>4. S \subseteq Accounts /\ RootAccount \in S /\ Cardinality(S) = 1
    BY <1>1, Kinds, FS_Singleton
  <2> HIDE DEF S
  <2>5. /\ Grown(objs, objs', current, current', S, FALSE)
        /\ objs \in Seq(ObjType) /\ Len(objs) \in Nat
    <3>1. /\ objs \in Seq(ObjType) /\ current \in [Accounts -> 0..Len(objs)] /\ FALSE \in BOOLEAN
      BY <1>1 DEF ObjsOK, ObjectsOK
    <3>2. Grown(objs, objs', current, current', S, FALSE)
      BY <2>1, <2>4, <3>1, MoreGrows
    <3>3. Len(objs) \in Nat
      BY <3>1
    <3> QED
      BY <3>1, <3>2, <3>3, Zenon
  <2>6. current'[RootAccount] = Len(objs) + 1
    <3>1. Len(objs') = Len(objs) + 1 /\ current' \in [Accounts -> 0..Len(objs')]
      BY <2>4, <2>5 DEF Grown
    <3>2. current'[RootAccount] > Len(objs) /\ RootAccount \in Accounts
      BY <2>4, <2>5 DEF Grown
    <3>3. current'[RootAccount] \in 0..(Len(objs) + 1)
      BY <3>1, <3>2
    <3> QED
      BY <2>5, <3>2, <3>3
  <2>7. N = {Wants(c, RootAccount)'}
    <3>1. RootAccount' = RootAccount
      BY <1>1, SameAccounts
    <3>2. N = requests(c, {current'[RootAccount]}, TRUE)
      BY <2>6
    <3> HIDE DEF N
    <3> QED
      BY <3>1, <3>2 DEF requests, Wants
  <2> HIDE DEF N
  <2>8. Asked(c)' = {Wants(c, RootAccount)'}
    <3>1. Asked(c) = {}
      BY NothingAsked
    <3> QED
      BY <2>1, <2>7, <3>1 DEF Asked, Wants
  <2>9. Busy(c)' /\ ~Removing(c)' /\ SocketCall(c)'
    BY <2>3, <2>8 DEF Busy, BusyPcs, InProgress, Removing, SocketCall
  <2>10. Apart'
    BY <1>1, <1>4, <2>1, <2>2, <2>3, <2>9, ApartNext
  <2>11. failed' \/ \A o \in DOMAIN objs' : ~Live(o)'
    <3>1. Hearing = {}
      <4>1. \A d \in Callers : calls[d].pc \notin {"linked", "extras"}
        BY <2>2, PcFacts DEF Busy
      <4> QED
        BY <1>4, <4>1 DEF Hearing
    <3>2. failed \/ \A o \in DOMAIN objs : ~objs[o].live
      BY <3>1 DEF SocketInv, Live
    <3>3. \A o \in DOMAIN objs' : objs'[o].live => o \in 1..Len(objs) /\ objs[o].live
      BY <2>4, <2>5, GrownLive
    <3> QED
      BY <2>1, <2>5, <3>2, <3>3 DEF Live
  <2>12. \A d \in Callers \ {c} : calls'[d].pc \in QuietPcs
    <3>1. ASSUME NEW d \in Callers \ {c} PROVE calls'[d].pc \in QuietPcs
      <4>1. calls'[d] = calls[d] \/ calls'[d] = Idle
        BY <2>3 DEF Calm
      <4>2. ~Removing(d)
        BY <1>4 DEF Apart
      <4> QED
        BY <2>2, <4>1, <4>2, SocketPlaces DEF Idle, QuietPcs
    <3> QED
      BY <3>1
  <2>13. RootAccount \in InUse'
    BY <1>1, Kinds, SameAccounts DEF InUse
  <2>14. SocketInv'
    BY <1>1, <1>4, <2>1, <2>9, <2>11, <2>12, <2>13, ListenersAlone
  <2> QED
    BY <2>10, <2>14
<1> QED
  BY <1>2, <1>3, <1>4

\* The calls of a websocket subscriber.
LEMMA SocketCalled ==
    ASSUME Shape, Shape', ~Polling, Apart, SocketInv, ~raced', NEW c \in Callers, Call(c)
    PROVE  Apart' /\ SocketInv'
<1>1. /\ LedgerOK /\ CallsOK /\ FlagsOK /\ ObjsOK /\ calls[c].pc = "idle"
      /\ calls[c].pc \in QuietPcs /\ ~Busy(c) /\ ~Removing(c)
  <2>1. calls[c].pc = "idle" /\ calls[c].pc \in QuietPcs
    BY DEF Call, Idle, QuietPcs
  <2> QED
    BY <2>1, SocketPlaces DEF Shape
<1>2. ASSUME NEW optional \in SUBSET Extras, subscribe(c, optional) PROVE Apart' /\ SocketInv'
  <2>1. CASE who[2] # "user"
    BY <1>1, <1>2, <2>1, SocketEntered DEF subscribe
  <2>2. CASE who[2] = "user"
    <3>1. /\ Wait(c, "house") /\ UNCHANGED <<who, objs, current, rpcs>>
          /\ UNCHANGED <<extras, isSubscribed, isSubscribing, failed>>
      BY <1>2, <2>2 DEF subscribe, ledger, flags, objects
    <3>2. calls'[c].pc = "house" /\ \A d \in Callers \ {c} : calls'[d] = calls[d]
      BY <1>1, <2>2, <3>1, MovedCall DEF SocketPcs
    <3> QED
      BY <1>1, <3>1, <3>2, QuietInOrder DEF QuietPcs
  <2> QED
    BY <2>1, <2>2
<1>3. CASE fetch(c)
  <2> DEFINE there == {k \in BaseAccounts \cup extras : current[k] # None}
             waits == there = BaseAccounts \cup extras
             b == IF waits THEN c ELSE Nobody
             I == {current[k] : k \in there}
             N == requests(b, I, FALSE)
  <2>1. /\ UNCHANGED <<who, objs, current, extras, isSubscribed, isSubscribing, failed>>
        /\ rpcs' = rpcs \cup N
        /\ Wait(c, "fetching") \/ Return(c)
    BY <1>3 DEF fetch, ledger, flags
  <2>2. b \in {c, Nobody}
    OBVIOUS
  <2> HIDE DEF b, I
  <2>3. N \subseteq [obj: I, listen: {FALSE}, by: {b}]
    BY Requested
  <2> HIDE DEF N
  <2>4. \A q \in rpcs' \ rpcs : q.by \in {c, Nobody}
    BY <2>1, <2>2, <2>3
  <2>5. calls'[c].pc \in QuietPcs /\ \A d \in Callers \ {c} : calls'[d] = calls[d]
    <3>1. CASE Wait(c, "fetching")
      BY <1>1, <2>1, <3>1, MovedCall DEF SocketPcs, QuietPcs
    <3>2. CASE Return(c)
      BY <1>1, <2>1, <3>2, ReturnCall DEF Idle, QuietPcs
    <3> QED
      BY <2>1, <3>1, <3>2
  <2> QED
    BY <1>1, <2>1, <2>4, <2>5, QuietInOrder
<1>4. CASE unsubscribe(c) /\ ~isSubscribed
  <2>1. /\ Return(c) /\ UNCHANGED <<who, objs, current, rpcs>>
        /\ UNCHANGED <<extras, isSubscribed, isSubscribing, failed>>
    BY <1>4 DEF unsubscribe, objects, ledger
  <2>2. calls'[c] = Idle /\ \A d \in Callers \ {c} : calls'[d] = calls[d]
    BY <1>1, <2>1, ReturnCall
  <2> QED
    BY <1>1, <2>1, <2>2, QuietInOrder DEF Idle, QuietPcs
<1>5. CASE unsubscribe(c) /\ isSubscribed
  <2> DEFINE todo == IF House THEN Tail(inOrder) ELSE <<>>
             k == [Idle EXCEPT !.pc = "removing", !.todo = todo]
             S == IF House THEN {Head(inOrder)} ELSE BaseAccounts
  <2>1. /\ calls' = [calls EXCEPT ![c] = k] /\ objs' = released(S)
        /\ UNCHANGED <<who, current, rpcs, extras, isSubscribed, isSubscribing, failed>>
    BY <1>5 DEF unsubscribe, ledger, flags
  <2>2. \A d \in Callers : ~Removing(d) /\ ~Busy(d)
    <3>1. \A d \in Callers : ~Removing(d)
      BY <1>5 DEF unsubscribe, Removing
    <3>2. \A d \in Callers : ~Busy(d)
      BY <1>5, BusyAlone
    <3> QED
      BY <3>1, <3>2
  <2>3. /\ todo \in Seq(Accounts) /\ (House \/ todo = <<>>)
        /\ \A i \in 1..Len(todo) : todo[i] \in InUse
        /\ \A a \in InUse : a \in S \/ \E i \in 1..Len(todo) : todo[i] = a
    <3>1. CASE House
      <4>1. BaseAccounts = {"state", "markets"}
        BY <3>1 DEF BaseAccounts, RootAccount, Linked, House
      <4>2. /\ Head(inOrder) = "state" /\ Tail(inOrder) \in Seq(Accounts)
            /\ \A i \in 1..Len(Tail(inOrder)) : Tail(inOrder)[i] \in {"markets"} \cup extras
            /\ \A a \in {"markets"} \cup extras :
                 \E i \in 1..Len(Tail(inOrder)) : Tail(inOrder)[i] = a
        BY <1>1, InOrder
      <4>3. todo = Tail(inOrder) /\ S = {Head(inOrder)}
        BY <3>1
      <4> HIDE DEF todo, S
      <4> QED
        BY <3>1, <4>1, <4>2, <4>3 DEF InUse
    <3>2. CASE ~House
      <4>1. extras = {} /\ todo = <<>> /\ S = BaseAccounts /\ <<>> \in Seq(Accounts) /\ Len(<<>>) = 0
        BY <1>1, <3>2, EmptySeq DEF FlagsOK
      <4> HIDE DEF todo, S
      <4> QED
        BY <4>1 DEF InUse
    <3> QED
      BY <3>1, <3>2
  <2> HIDE DEF todo, S
  <2>4. CallOK(k) /\ k.pc = "removing" /\ k.todo = todo
    BY <2>3, RemovingCall
  <2> HIDE DEF k
  <2>5. CallsOK' /\ calls'[c] = k /\ \A d \in Callers \ {c} : calls'[d] = calls[d]
    BY <1>1, <2>1, <2>4, OneCall
  <2>6. Removing(c)' /\ ~Busy(c)' /\ Todo(c)' = {todo[i] : i \in 1..Len(todo)}
    BY <2>4, <2>5 DEF Removing, Busy, BusyPcs, InProgress, Todo
  <2>7. Apart'
    BY <1>5, <2>1, <2>2, <2>5, <2>6, ApartNext DEF Calm
  <2>8. InUse' = InUse
    BY <2>1, SameAccounts
  <2>9. \A d \in Callers : SocketCall(d)'
    <3>1. SocketCall(c)'
      BY <2>3, <2>4, <2>5, <2>6, <2>8 DEF SocketCall
    <3>2. ASSUME NEW d \in Callers \ {c} PROVE SocketCall(d)'
      <4>1. calls'[d].pc \notin {"root", "linked", "extras", "removing"}
        BY <2>2, <2>5, PcFacts DEF Busy, Removing
      <4> QED
        BY <4>1 DEF SocketCall, Removing
    <3> QED
      BY <3>1, <3>2
  <2>10. failed' \/ \A o \in DOMAIN objs' : Live(o)' => \E a \in Hearing' : o = current'[a]
    <3>1. Silenced(objs', S) /\ DOMAIN objs' = 1..Len(objs) /\ DOMAIN objs = 1..Len(objs)
      <4>1. Silenced(objs', S)
        BY <1>1, <2>1, Silencing
      <4> QED
        BY <1>1, <4>1 DEF Silenced, ObjsOK, ObjectsOK
    <3>2. \A a \in InUse : a \in S \/ a \in Hearing'
      <4>1. \A d \in Callers : Removing(d)' => d = c
        BY <2>2, <2>5 DEF Removing
      <4> QED
        BY <1>5, <2>1, <2>3, <2>6, <2>8, <4>1 DEF Hearing
    <3>3. ASSUME ~failed, NEW o \in DOMAIN objs', objs'[o].live
          PROVE  \E a \in Hearing' : o = current'[a]
      <4>1. objs[o].live /\ \A a \in S : o # current[a]
        BY <3>1, <3>3 DEF Silenced
      <4>2. PICK a \in Hearing : o = current[a]
        BY <3>1, <3>3, <4>1 DEF SocketInv, Live
      <4>3. a \in InUse
        BY DEF Hearing
      <4> QED
        BY <2>1, <3>2, <4>1, <4>2, <4>3
    <3> QED
      BY <2>1, <3>3 DEF Live
  <2>11. SocketInv'
    BY <2>6, <2>9, <2>10 DEF SocketInv
  <2> QED
    BY <2>7, <2>11
<1>6. ~bulkPollingUserSubscribe(c)
  BY DEF bulkPollingUserSubscribe, Polling
<1> QED
  BY <1>2, <1>3, <1>4, <1>5, <1>6 DEF Call

\* A listener is off.
LEMMA RemovedInOrder ==
    ASSUME Shape, Shape', ~Polling, Apart, SocketInv, NEW c \in Callers, removed(c)
    PROVE  Apart' /\ SocketInv'
<1>1. /\ LedgerOK /\ CallsOK /\ ObjsOK /\ calls[c].pc = "removing" /\ calls[c].todo \in Seq(Accounts)
      /\ UNCHANGED <<who, current, rpcs>> /\ Removing(c)
  BY DEF Shape, removed, ledger, CallsOK, CallType, Removing
<1>2. /\ isSubscribed /\ \A d \in Callers : ~Busy(d)
      /\ \A d \in Callers \ {c} : ~Removing(d) /\ calls[d].pc \notin {"linked", "extras", "root"}
  <2>1. isSubscribed /\ \A d \in Callers \ {c} : ~Removing(d)
    BY <1>1 DEF Apart
  <2>2. \A d \in Callers : ~Busy(d)
    BY <2>1, BusyAlone
  <2> QED
    BY <2>1, <2>2, PcFacts DEF Busy
<1>3. DOMAIN objs = 1..Len(objs)
  BY <1>1 DEF ObjsOK, ObjectsOK
<1>4. SocketCall(c) /\ Todo(c) \subseteq InUse
  BY <1>1 DEF SocketInv, SocketCall
<1>5. CASE calls[c].todo = <<>>
  <2>1. /\ Return(c) /\ isSubscribed' = FALSE
        /\ UNCHANGED <<isSubscribing, extras, failed, objs>>
    BY <1>5 DEF removed
  <2>2. calls'[c] = Idle /\ \A d \in Callers \ {c} : calls'[d] = calls[d]
    BY <1>1, <2>1, ReturnCall
  <2>3. ~Busy(c)' /\ ~Removing(c)' /\ SocketCall(c)'
    BY <2>2 DEF Busy, BusyPcs, InProgress, Removing, SocketCall, Idle
  <2>4. Apart'
    BY <1>1, <1>2, <2>1, <2>2, <2>3, ApartNext DEF Calm
  <2>5. \A d \in Callers : SocketCall(d)'
    <3>1. ASSUME NEW d \in Callers \ {c} PROVE SocketCall(d)'
      <4>1. calls'[d].pc \notin {"root", "linked", "extras", "removing"}
        BY <1>2, <2>2 DEF Removing
      <4> QED
        BY <4>1 DEF SocketCall, Removing
    <3> QED
      BY <2>3, <3>1
  <2>6. failed' \/ \A o \in DOMAIN objs' : ~Live(o)'
    <3>1. Todo(c) = {}
      <4>1. Len(calls[c].todo) = 0
        BY <1>5
      <4> QED
        BY <4>1 DEF Todo
    <3>2. Hearing = {}
      BY <1>1, <1>2, <3>1 DEF Hearing
    <3> QED
      BY <2>1, <3>2 DEF SocketInv, Live
  <2> QED
    BY <2>1, <2>4, <2>5, <2>6 DEF SocketInv
<1>6. CASE calls[c].todo # <<>>
  <2> DEFINE t == calls[c].todo
             k == [calls[c] EXCEPT !.todo = Tail(t)]
             S == {Head(t)}
  <2>1. /\ calls' = [calls EXCEPT ![c] = k] /\ objs' = released(S)
        /\ UNCHANGED <<isSubscribed, isSubscribing, extras, failed>>
    BY <1>6 DEF removed, flags
  <2>2. k.pc = "removing" /\ k.todo = Tail(t)
    <3>1. calls[c] \in CallType
      BY <1>1 DEF CallsOK
    <3> QED
      BY <1>1, <3>1 DEF CallType
  <2> HIDE DEF k
  <2>3. calls'[c] = k /\ \A d \in Callers \ {c} : calls'[d] = calls[d]
    BY <1>1, <2>1 DEF CallsOK
  <2>4. Todo(c) = S \cup Todo(c)' /\ Todo(c)' \subseteq Todo(c)
    <3>1. Todo(c)' = {Tail(t)[i] : i \in 1..Len(Tail(t))} /\ Todo(c) = {t[i] : i \in 1..Len(t)}
      BY <2>2, <2>3 DEF Todo
    <3>2. t \in Seq(Accounts) /\ t # <<>>
      BY <1>1, <1>6
    <3> HIDE DEF t
    <3>3. /\ Len(t) \in Nat /\ Len(t) >= 1 /\ Len(Tail(t)) = Len(t) - 1 /\ Head(t) = t[1]
          /\ \A i \in 1..(Len(t) - 1) : Tail(t)[i] = t[i + 1]
      BY <3>2
    <3>4. ASSUME NEW i \in 1..Len(t) PROVE t[i] = Head(t) \/ t[i] \in Todo(c)'
      <4>1. CASE i = 1
        BY <3>3, <4>1
      <4>2. CASE i # 1
        <5> DEFINE j == i - 1
        <5>1. j \in 1..(Len(t) - 1) /\ j + 1 = i
          BY <3>3, <4>2
        <5> HIDE DEF j
        <5>2. Tail(t)[j] = t[i]
          BY <3>3, <5>1
        <5> QED
          BY <3>1, <3>3, <5>1, <5>2
      <4> QED
        BY <4>1, <4>2
    <3>5. ASSUME NEW i \in 1..Len(Tail(t)) PROVE Tail(t)[i] \in Todo(c)
      <4> DEFINE j == i + 1
      <4>1. j \in 1..Len(t) /\ i \in 1..(Len(t) - 1)
        BY <3>3
      <4>2. Tail(t)[i] = t[j]
        BY <3>3, <4>1
      <4> HIDE DEF j
      <4> QED
        BY <3>1, <4>1, <4>2
    <3>6. Head(t) \in Todo(c)
      <4>1. 1 \in 1..Len(t)
        BY <3>3
      <4> QED
        BY <3>1, <3>3, <4>1
    <3> QED
      BY <3>1, <3>4, <3>5, <3>6
  <2> HIDE DEF t, S
  <2>5. Removing(c)' /\ ~Busy(c)'
    BY <2>2, <2>3 DEF Removing, Busy, BusyPcs, InProgress
  <2>6. Apart'
    BY <1>1, <1>2, <2>1, <2>3, <2>5, ApartNext DEF Calm
  <2>7. InUse' = InUse
    BY <1>1, <2>1, SameAccounts
  <2>8. \A d \in Callers : SocketCall(d)'
    <3>1. SocketCall(c)'
      BY <1>4, <2>2, <2>3, <2>4, <2>7 DEF SocketCall
    <3>2. ASSUME NEW d \in Callers \ {c} PROVE SocketCall(d)'
      <4>1. calls'[d].pc \notin {"root", "linked", "extras", "removing"}
        BY <1>2, <2>3 DEF Removing
      <4> QED
        BY <4>1 DEF SocketCall, Removing
    <3> QED
      BY <3>1, <3>2
  <2>9. failed' \/ \A o \in DOMAIN objs' : Live(o)' => \E a \in Hearing' : o = current'[a]
    <3>1. Silenced(objs', S) /\ DOMAIN objs' = 1..Len(objs)
      <4>1. Silenced(objs', S)
        BY <1>1, <2>1, Silencing
      <4>2. objs' \in Seq(ObjType) /\ Len(objs') = Len(objs)
        BY <4>1 DEF Silenced
      <4>3. DOMAIN objs' = 1..Len(objs')
        BY <4>2
      <4> QED
        BY <4>1, <4>2, <4>3
    <3>2. Todo(c)' \subseteq Hearing' /\ Hearing \subseteq Todo(c)
      <4>1. \A d \in Callers : Removing(d)' => d = c
        BY <1>2, <2>3 DEF Removing
      <4> QED
        BY <1>1, <1>2, <1>4, <2>1, <2>4, <2>7, <4>1 DEF Hearing
    <3>3. ASSUME ~failed, NEW o \in DOMAIN objs', objs'[o].live
          PROVE  \E a \in Hearing' : o = current'[a]
      <4>1. objs[o].live /\ \A a \in S : o # current[a]
        BY <3>1, <3>3 DEF Silenced
      <4>2. PICK a \in Hearing : o = current[a]
        BY <1>3, <3>1, <3>3, <4>1 DEF SocketInv, Live
      <4>3. a \in Todo(c)'
        BY <2>4, <3>2, <4>1, <4>2
      <4> QED
        BY <1>1, <3>2, <4>2, <4>3
    <3> QED
      BY <2>1, <3>3 DEF Live
  <2>10. SocketInv'
    BY <2>5, <2>8, <2>9 DEF SocketInv
  <2> QED
    BY <2>6, <2>10
<1> QED
  BY <1>5, <1>6

\* Every step of a websocket subscriber.
LEMMA SocketInOrder ==
    ASSUME Shape, Shape', ~Polling, Apart, SocketInv, ~raced', [Next]_vars
    PROVE  Apart' /\ SocketInv'
<1>1. LedgerOK /\ CallsOK /\ FlagsOK /\ head \in Nat /\ Slots = 1..head
  BY DEF Shape, LedgerOK, Slots
<1>2. ASSUME UNCHANGED <<who, objs, current, calls, rpcs>>,
             UNCHANGED <<extras, isSubscribed, isSubscribing, failed>>
      PROVE  Apart' /\ SocketInv'
  <2>1. \A d \in Callers : Asked(d)' = Asked(d)
    BY <1>2 DEF Asked
  <2> QED
    BY <1>2, <2>1, ListenersStay
<1>3. ASSUME NEW r \in rpcs, NEW s \in 1..head, rpc_answered(r, s) PROVE Apart' /\ SocketInv'
  <2>1. CASE /\ \/ r.by \notin Callers
                \/ \E q \in rpcs : q # r /\ q.by = r.by
             /\ objs' = answered(r, s) /\ UNCHANGED <<current, calls, flags>>
             /\ rpcs' = rpcs \ {r}
    BY <1>3, <2>1, AnsweredInOrder
  <2>2. CASE /\ r.by \in Callers /\ Asked(r.by) = {r}
             /\ LastAnswer(r.by, answered(r, s))
             /\ rpcs' = (rpcs \ {r}) \cup NextRequests(r.by)
    BY <1>3, <2>2, LastInOrder
  <2> QED
    BY <1>3, <2>1, <2>2, AnsweredParts
<1>4. CASE UNCHANGED vars
  BY <1>2, <1>4 DEF vars
<1>5. CASE Event
  <2>1. ASSUME NEW r \in rpcs, rpc_rejected(r) PROVE Apart' /\ SocketInv'
    BY <2>1, RejectedInOrder
  <2>2. ASSUME NEW o \in DOMAIN objs, NEW s \in Slots, notify(o, s) PROVE Apart' /\ SocketInv'
    BY <1>1, <2>2, NotifiedInOrder
  <2>3. CASE /\ head < MaxSlot /\ head' = head + 1
             /\ UNCHANGED <<who, born, flags, objects, copies, calls, raced>>
    BY <1>2, <2>3 DEF flags, objects
  <2>4. \A s : ~poll(s)
    BY DEF poll
  <2> QED
    BY <1>1, <1>3, <1>5, <2>1, <2>2, <2>3, <2>4 DEF Event
<1>6. ASSUME NEW c \in Callers, Continue(c) PROVE Apart' /\ SocketInv'
  <2>1. /\ \A s : ~keys_answered(c, s)
        /\ \A s : ~load_over(c, s)
    BY <1>1 DEF keys_answered, load_over, CallsOK, CallOK, SocketPcs
  <2>2. ASSUME NEW r \in rpcs, rpc_rejected(r) PROVE Apart' /\ SocketInv'
    BY <2>2, RejectedInOrder
  <2>3. CASE house_ready(c)
    <3> DEFINE none == {}
    <3>1. calls[c].pc \in {"idle", "house"} /\ none \subseteq Extras /\ none = {} /\ enter(c, none)
      BY <2>3 DEF house_ready
    <3> HIDE DEF none
    <3> QED
      BY <3>1, SocketEntered
  <2>4. CASE house_fails(c)
    <3>1. calls[c].pc = "house" /\ Throw(c) /\ UNCHANGED <<who, objs, current, rpcs>>
      BY <2>4 DEF house_fails, ledger, objects
    <3>2. Return(c) /\ failed' /\ UNCHANGED <<isSubscribed, isSubscribing, extras>>
      BY <3>1 DEF Throw
    <3>3. calls'[c] = Idle /\ \A d \in Callers \ {c} : calls'[d] = calls[d]
      BY <1>1, <3>1, <3>2, ReturnCall
    <3> QED
      BY <3>1, <3>2, <3>3, QuietInOrder DEF Idle, QuietPcs
  <2>5. CASE removed(c)
    BY <2>5, RemovedInOrder
  <2> QED
    BY <1>1, <1>3, <1>6, <2>1, <2>2, <2>3, <2>4, <2>5 DEF Continue
<1> QED
  BY <1>4, <1>5, <1>6, SocketCalled DEF Next

(***************************************************************************)
(* What a subscriber promises while its callers keep apart                 *)
(***************************************************************************)
Orderly == Apart /\ (IF Polling THEN PollingInv ELSE SocketInv)

\* At first nobody has called.
LEMMA OrderlyInit == ASSUME Init PROVE Orderly
<1>1. Shape /\ \A c \in Callers : calls[c].pc = "idle"
  BY ShapeInit DEF Init, Idle
<1>2. Apart /\ \A c \in Callers : SocketCall(c)
  BY <1>1, PcFacts DEF Apart, Busy, BusyPcs, InProgress, Removing, SocketCall
<1>3. Empty /\ DOMAIN objs = {} /\ ~isSubscribed
  <2>1. objs = <<>> /\ Len(<<>>) = 0
    BY DEF Init
  <2>2. DOMAIN objs = 1..0
    BY <2>1
  <2> QED
    BY <2>2 DEF Init, Empty, Has
<1>4. PollingInv
  BY <1>1, <1>3 DEF PollingInv, Empty
<1>5. SocketInv
  BY <1>2, <1>3 DEF SocketInv
<1> QED
  BY <1>2, <1>4, <1>5 DEF Orderly

\* Once calls have raced, they have.
LEMMA RacedStays == ASSUME Shape, [Next]_vars, raced PROVE raced'
<1>1. ASSUME NEW c, NEW optional, enter(c, optional) PROVE raced'
  BY <1>1 DEF enter
<1>2. ASSUME NEW c, unsubscribe(c) PROVE raced'
  BY <1>2 DEF unsubscribe
<1> QED
  BY <1>1, <1>2 DEF Next, vars, Event, Call, Continue, poll, rpc_rejected, rpc_answered, notify,
                    subscribe, bulkPollingUserSubscribe, fetch, keys_answered, load_over,
                    house_ready, house_fails, removed

\* As long as calls do not race the subscriber is in order: the inductive
\* invariant behind the two theorems below.
THEOREM OrderHolds == Spec => [](raced \/ Orderly)
<1>1. Init => raced \/ Orderly
  BY OrderlyInit
<1>2. Shape /\ (raced \/ Orderly) /\ [Next]_vars => raced' \/ Orderly'
  <2> SUFFICES ASSUME Shape, raced \/ Orderly, [Next]_vars, ~raced' PROVE Orderly'
    OBVIOUS
  <2>1. Orderly /\ Shape'
    BY RacedStays, ShapeNext
  <2>2. Polling' = Polling
    <3>1. UNCHANGED who
      BY DEF Next, vars, Event, Call, Continue, poll, rpc_rejected, rpc_answered, notify, ledger,
             subscribe, enter, bulkPollingUserSubscribe, fetch, unsubscribe, keys_answered,
             load_over, house_ready, house_fails, removed
    <3> QED
      BY <3>1 DEF Polling
  <2>3. CASE Polling
    BY <2>1, <2>2, <2>3, PollingInOrder DEF Orderly
  <2>4. CASE ~Polling
    BY <2>1, <2>2, <2>4, SocketInOrder DEF Orderly
  <2> QED
    BY <2>3, <2>4
<1> QED
  BY <1>1, <1>2, ShapeHolds, PTL DEF Spec

\* In an orderly state, what a subscriber without users has released.
LEMMA OrderlyReleased == ASSUME Shape, Orderly PROVE ReleasedWhenUnsubscribed
<1> SUFFICES ASSUME ~isSubscribed, ~failed, \A c \in Callers : calls[c] = Idle,
                    NEW o \in DOMAIN objs, Live(o)
             PROVE  FALSE
  BY DEF ReleasedWhenUnsubscribed, Live
<1>1. \A c \in Callers : calls[c].pc = "idle"
  BY DEF Idle
<1>2. o \in 1..Len(objs) /\ o # None
  BY DEF Shape, ObjsOK, ObjectsOK, None
<1>3. CASE Polling
  <2>1. Empty
    BY <1>1, <1>3 DEF Orderly, PollingInv
  <2> QED
    BY <1>2, <1>3, <2>1 DEF Orderly, PollingInv, Empty, Has
<1>4. CASE ~Polling
  <2>1. Hearing = {}
    BY <1>1 DEF Hearing
  <2> QED
    BY <1>4, <2>1 DEF Orderly, SocketInv
<1> QED
  BY <1>3, <1>4

\* What a subscribed one hears.
LEMMA OrderlyLive == ASSUME Shape, Orderly PROVE SubscribedIsLive
<1> SUFFICES ASSUME isSubscribed, \A c \in Callers : calls[c].pc # "removing",
                    NEW k \in BaseAccounts \cup extras
             PROVE  /\ current[k] # None /\ objs[current[k]].live
                    /\ failed \/ Cardinality({o \in DOMAIN objs :
                                                objs[o].live /\ objs[o].account = k}) = 1
  BY DEF SubscribedIsLive
<1>1. k \in Accounts /\ k \in InUse /\ InUse \subseteq Accounts /\ ObjsOK
  BY Kinds DEF Shape, FlagsOK, InUse
<1>2. Has(k) /\ Live(current[k])
  <2>1. CASE Polling
    BY <1>1, <2>1 DEF Orderly, PollingInv, Full
  <2>2. CASE ~Polling
    BY <1>1, <2>2 DEF Orderly, SocketInv, Removing
  <2> QED
    BY <2>1, <2>2
<1>3. current[k] \in DOMAIN objs /\ objs[current[k]].account = k
  BY <1>1, <1>2 DEF ObjsOK, ObjectsOK, Has, None
<1>4. ASSUME ~failed, NEW o \in DOMAIN objs, objs[o].live, objs[o].account = k
      PROVE  o = current[k]
  <2>1. PICK j \in Accounts : o = current[j]
    <3>1. CASE Polling
      BY <1>4, <3>1 DEF Orderly, PollingInv, Live
    <3>2. CASE ~Polling
      <4>1. PICK j \in Hearing : o = current[j]
        BY <1>4, <3>2 DEF Orderly, SocketInv, Live
      <4> QED
        BY <1>1, <4>1 DEF Hearing
    <3> QED
      BY <3>1, <3>2
  <2>2. o # None
    BY <1>1, <1>4 DEF ObjsOK, ObjectsOK, None
  <2>3. objs[o].account = j
    BY <1>1, <2>1, <2>2 DEF ObjsOK, ObjectsOK
  <2> QED
    BY <1>4, <2>1, <2>3
<1>5. ~failed => {o \in DOMAIN objs : objs[o].live /\ objs[o].account = k} = {current[k]}
  BY <1>2, <1>3, <1>4 DEF Live
<1> QED
  BY <1>2, <1>5, FS_Singleton DEF Has, Live

\* Once nobody is subscribed or subscribing, no callback is left at the loader
\* and no listener at the node, for every number of callers and calls, unless
\* calls raced or a subscribe() failed.
THEOREM AlwaysReleased == Spec => []ReleasedWhenUnsubscribed
<1>1. Shape /\ (raced \/ Orderly) => ReleasedWhenUnsubscribed
  BY OrderlyReleased DEF ReleasedWhenUnsubscribed
<1> QED
  BY <1>1, ShapeHolds, OrderHolds, PTL

\* A subscriber that calls itself subscribed hears of each account it has a
\* getter for, from exactly one object unless a subscribe() failed before.
THEOREM SubscribedAlwaysLive == Spec => []SubscribedIsLive
<1>1. Shape /\ (raced \/ Orderly) => SubscribedIsLive
  BY OrderlyLive DEF SubscribedIsLive
<1> QED
  BY <1>1, ShapeHolds, OrderHolds, PTL
====
