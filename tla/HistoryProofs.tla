---------------------------- MODULE HistoryProofs ----------------------------
(***************************************************************************)
(* A history of HISTORY_RECORDS records implements the abstract log, for   *)
(* every length of the array and every number of records, and until they   *)
(* go round the curve histories give every record an id of its own.        *)
(***************************************************************************)
EXTENDS History, WellFoundedInduction, TLAPS

\* The indices of an array of L records.
Indices(L) == 0..(L - 1)

(***************************************************************************)
(* The records below the head were written in the present round, the ones  *)
(* above it in the round before.  d is the number of records of the rounds *)
(* that are over; in the first round nothing is above the head.            *)
(***************************************************************************)
RingOf(h, d, L) ==
    /\ h.head \in Indices(L)
    /\ h.records = [i \in Indices(L) |->
                      IF i < h.head THEN d + i + 1
                      ELSE IF d = 0 THEN 0 ELSE d + i + 1 - L]

Rounds(L) == {d \in Nat : d = 0 \/ d >= L}

RingInv ==
    /\ log = [head |-> log.head, records |-> log.records]
    /\ \E d \in Rounds(HISTORY_RECORDS) : RingOf(log, d, HISTORY_RECORDS)

\* The id of the next record counts all records made so far.
LEMMA NextRecordId ==
    ASSUME NEW L \in Nat \ {0}, NEW h, NEW d \in Rounds(L), RingOf(h, d, L)
    PROVE  next_record_id(h, L) = d + h.head + 1
  <1>1. CASE h.head = 0
    BY <1>1 DEF next_record_id, RingOf, Rounds, Indices
  <1>2. CASE h.head # 0
    BY <1>2 DEF next_record_id, RingOf, Rounds, Indices
  <1>3. QED BY <1>1, <1>2

\* The ids in the array are those of the last HISTORY_RECORDS records.
LEMMA KeptRecords ==
    ASSUME NEW h, NEW d \in Rounds(HISTORY_RECORDS), RingOf(h, d, HISTORY_RECORDS)
    PROVE  RecordIds(h) = Log!Newest(d + h.head)
  <1> DEFINE Kept == Log!Newest(d + h.head)
  <1>1. DOMAIN h.records = Indices(HISTORY_RECORDS)
    BY DEF RingOf
  <1>2. /\ HISTORY_RECORDS \in Nat /\ d \in Nat /\ h.head \in Nat
        /\ h.head < HISTORY_RECORDS
        /\ d = 0 \/ d >= HISTORY_RECORDS
    BY HistoryAssumption DEF RingOf, Rounds, Indices
  <1>3. \A i \in Indices(HISTORY_RECORDS) : i \in Nat /\ i < HISTORY_RECORDS
    BY <1>2 DEF Indices
  <1>4. \A i \in Indices(HISTORY_RECORDS) :
          h.records[i] = IF i < h.head THEN d + i + 1
                         ELSE IF d = 0 THEN 0 ELSE d + i + 1 - HISTORY_RECORDS
    BY DEF RingOf
  <1>5. ASSUME NEW id \in RecordIds(h) PROVE id \in Kept
    <2>1. PICK i \in Indices(HISTORY_RECORDS) : id = h.records[i] /\ id # 0
      BY <1>1 DEF RecordIds
    <2>2. CASE i < h.head
      BY <2>1, <2>2, <1>2, <1>3, <1>4 DEF Log!Newest
    <2>3. CASE ~(i < h.head)
      <3>1. d # 0 /\ id = d + i + 1 - HISTORY_RECORDS
        BY <2>1, <2>3, <1>4
      <3>2. QED BY <3>1, <2>3, <1>2, <1>3 DEF Log!Newest
    <2>4. QED BY <2>2, <2>3
  <1>6. ASSUME NEW id \in Kept PROVE id \in RecordIds(h)
    <2>1. id \in Nat /\ id # 0 /\ id <= d + h.head /\ id > d + h.head - HISTORY_RECORDS
      BY <1>2 DEF Log!Newest
    <2>2. CASE id > d
      <3>1. id - d - 1 \in Indices(HISTORY_RECORDS) /\ id - d - 1 < h.head
        BY <2>1, <2>2, <1>2 DEF Indices
      <3>2. h.records[id - d - 1] = id
        BY <3>1, <2>1, <1>2, <1>4
      <3>3. QED BY <3>1, <3>2, <2>1, <1>1 DEF RecordIds
    <2>3. CASE id <= d
      <3> DEFINE i == id + HISTORY_RECORDS - d - 1
      <3>1. i \in Indices(HISTORY_RECORDS) /\ ~(i < h.head) /\ d # 0
        BY <2>1, <2>3, <1>2 DEF Indices
      <3>2. h.records[i] = d + i + 1 - HISTORY_RECORDS
        BY <3>1, <1>4
      <3>3. h.records[i] = id
        BY <3>2, <2>1, <1>2
      <3>4. QED BY <3>1, <3>3, <2>1, <1>1 DEF RecordIds
    <2>4. QED BY <2>1, <2>2, <2>3, <1>2
  <1>7. QED BY <1>5, <1>6, Zenon

\* Writing one more record keeps the ring in order and counts it once.
LEMMA AppendKeepsRing ==
    ASSUME NEW L \in Nat \ {0}, NEW h, NEW d \in Rounds(L), RingOf(h, d, L),
           NEW h2, h2 = append(h, d + h.head + 1, L)
    PROVE  \E e \in Rounds(L) : RingOf(h2, e, L) /\ e + h2.head = d + h.head + 1
  <1> DEFINE slot(head, r, i) == IF i < head THEN r + i + 1
                                 ELSE IF r = 0 THEN 0 ELSE r + i + 1 - L
  <1>1. /\ h.head \in Nat /\ h.head < L
        /\ L \in Nat /\ L > 0
        /\ d \in Nat /\ (d = 0 \/ d >= L)
    BY DEF RingOf, Rounds, Indices
  <1>2. \A i \in Indices(L) : i \in Nat /\ i < L
    BY <1>1 DEF Indices
  <1>3. h2.records = [i \in Indices(L) |-> IF i = h.head THEN d + h.head + 1
                                        ELSE slot(h.head, d, i)]
    BY DEF append, RingOf
  <1>4. CASE h.head + 1 < L
    <2>1. h2.head = h.head + 1 /\ h2.head \in Indices(L)
      BY <1>1, <1>4 DEF append, Indices
    <2>2. \A i \in Indices(L) : (IF i = h.head THEN d + h.head + 1 ELSE slot(h.head, d, i))
                                = slot(h.head + 1, d, i)
      BY <1>1, <1>2
    <2>3. h2.records = [i \in Indices(L) |-> slot(h2.head, d, i)]
      BY <1>3, <2>1, <2>2
    <2>4. RingOf(h2, d, L)
      BY <2>1, <2>3 DEF RingOf
    <2>5. d + h2.head = d + h.head + 1
      BY <1>1, <2>1
    <2>6. QED BY <2>4, <2>5
  <1>5. CASE h.head + 1 = L
    <2> DEFINE e == d + L
    <2>1. h2.head = 0 /\ h2.head \in Indices(L)
      BY <1>1, <1>5 DEF append, Indices
    <2>2. e \in Rounds(L) /\ e + 0 = d + h.head + 1
      BY <1>1, <1>5 DEF Rounds
    <2>3. \A i \in Indices(L) : (IF i = h.head THEN d + h.head + 1 ELSE slot(h.head, d, i))
                                = slot(0, e, i)
      BY <1>1, <1>2, <1>5
    <2>4. h2.records = [i \in Indices(L) |-> slot(h2.head, e, i)]
      BY <1>3, <2>1, <2>3
    <2>5. RingOf(h2, e, L)
      BY <2>1, <2>4 DEF RingOf
    <2>6. QED BY <2>1, <2>2, <2>5
  <1>6. QED BY <1>1, <1>4, <1>5

LEMMA RingInitially == Init => RingInv
  <1> SUFFICES ASSUME Init PROVE RingInv
    OBVIOUS
  <1>1. RingOf(log, 0, HISTORY_RECORDS)
    BY HistoryAssumption DEF Init, empty_history, RingOf, Indices
  <1>2. log = [head |-> log.head, records |-> log.records]
    BY DEF Init, empty_history
  <1>3. QED BY <1>1, <1>2 DEF RingInv, Rounds

\* The only step that touches the log appends the next id.
LEMMA LogStep ==
    ASSUME RingInv, [Next]_vars
    PROVE  \/ UNCHANGED log
           \/ log' = append(log, next_record_id(log, HISTORY_RECORDS), HISTORY_RECORDS)
  BY DEF Next, vars, append_log, append_curve, append_extended_curve, update_curve_history

LEMMA RingPreserved == RingInv /\ [Next]_vars => RingInv'
  <1> SUFFICES ASSUME RingInv, [Next]_vars PROVE RingInv'
    OBVIOUS
  <1>1. CASE UNCHANGED log
    BY <1>1 DEF RingInv, RingOf
  <1>2. CASE log' = append(log, next_record_id(log, HISTORY_RECORDS), HISTORY_RECORDS)
    <2>1. PICK d \in Rounds(HISTORY_RECORDS) : RingOf(log, d, HISTORY_RECORDS)
      BY DEF RingInv
    <2>2. log' = append(log, d + log.head + 1, HISTORY_RECORDS)
      BY <1>2, <2>1, NextRecordId, HistoryAssumption
    <2>3. \E e \in Rounds(HISTORY_RECORDS) : RingOf(log', e, HISTORY_RECORDS)
      BY <2>1, <2>2, AppendKeepsRing, HistoryAssumption
    <2>4. log' = [head |-> log'.head, records |-> log'.records]
      BY <2>2 DEF append
    <2>5. QED BY <2>3, <2>4 DEF RingInv, RingOf
  <1>3. QED BY <1>1, <1>2, LogStep

\* Every history but the curve's is the log it promises to be.
THEOREM HistoryImplementsLog == Spec => ImplementsLog
  <1>1. Init => Log!Init
    <2> SUFFICES ASSUME Init PROVE Log!Init
      OBVIOUS
    <2>1. 0 \in Rounds(HISTORY_RECORDS) /\ RingOf(log, 0, HISTORY_RECORDS) /\ log.head = 0
      BY HistoryAssumption DEF Init, empty_history, RingOf, Indices, Rounds
    <2>2. next_record_id(log, HISTORY_RECORDS) = 1
      BY <2>1, NextRecordId, HistoryAssumption
    <2>3. RecordIds(log) = Log!Newest(0)
      BY <2>1, KeptRecords
    <2>4. QED BY <2>2, <2>3 DEF Log!Init, Log!Newest
  <1>2. RingInv /\ [Next]_vars =>
            [Log!Record]_<<next_record_id(log, HISTORY_RECORDS) - 1, RecordIds(log)>>
    <2> SUFFICES ASSUME RingInv, [Next]_vars
                 PROVE  [Log!Record]_<<next_record_id(log, HISTORY_RECORDS) - 1, RecordIds(log)>>
      OBVIOUS
    <2>1. CASE UNCHANGED log
      BY <2>1 DEF next_record_id, RecordIds
    <2>2. CASE log' = append(log, next_record_id(log, HISTORY_RECORDS), HISTORY_RECORDS)
      <3>1. PICK d \in Rounds(HISTORY_RECORDS) : RingOf(log, d, HISTORY_RECORDS)
        BY DEF RingInv
      <3>2. next_record_id(log, HISTORY_RECORDS) = d + log.head + 1
        BY <3>1, NextRecordId, HistoryAssumption
      <3>3. PICK e \in Rounds(HISTORY_RECORDS) : RingOf(log', e, HISTORY_RECORDS) /\ e + log'.head = d + log.head + 1
        BY <2>2, <3>1, <3>2, AppendKeepsRing, HistoryAssumption
      <3>4. next_record_id(log', HISTORY_RECORDS) = e + log'.head + 1
        BY <3>3, NextRecordId, HistoryAssumption
      <3>5. RecordIds(log') = Log!Newest(e + log'.head)
        BY <3>3, KeptRecords
      <3>6. d + log.head \in Nat
        BY <3>1, HistoryAssumption DEF RingOf, Rounds, Indices
      <3>7. next_record_id(log, HISTORY_RECORDS)' = d + log.head + 2
        BY <3>3, <3>4, <3>6 DEF next_record_id
      <3>8. RecordIds(log)' = RecordIds(log')
        BY DEF RecordIds
      <3>9. next_record_id(log, HISTORY_RECORDS) - 1 + 1 = d + log.head + 1
        BY <3>2, <3>6
      <3>10. (next_record_id(log, HISTORY_RECORDS) - 1)' = d + log.head + 1
        BY <3>6, <3>7
      <3>11. RecordIds(log)' = Log!Newest(next_record_id(log, HISTORY_RECORDS) - 1 + 1)
        BY <3>3, <3>5, <3>8, <3>9
      <3>12. (next_record_id(log, HISTORY_RECORDS) - 1)'
                = next_record_id(log, HISTORY_RECORDS) - 1 + 1
        BY <3>9, <3>10
      <3>13. Log!Record
        BY <3>11, <3>12, Zenon DEF Log!Record
      <3>14. QED BY <3>13
    <2>3. QED BY <2>1, <2>2, LogStep
  <1>3. QED BY <1>1, <1>2, RingInitially, RingPreserved, PTL DEF Spec, ImplementsLog, Log!Spec
(***************************************************************************)
(* The curve histories                                                     *)
(***************************************************************************)
\* The first n records of the extended curve history are written, with the
\* ids 1 to n.
FirstRecords(n) == [i \in Indices(HISTORY_RECORDS) |-> IF i < n THEN i + 1 ELSE 0]

\* The account after n records, none of them written twice.
Extended(n) == [head |-> n % EXTENDED_WRAP, records |-> FirstRecords(n)]

\* An extended history in its first round; or one that has gone round, which
\* writes the same ids again, since at head 0 it reads the unused last record.
InOrder(h) ==
    \E n \in 0..EXTENDED_WRAP :
        /\ h = [head |-> h.head, records |-> FirstRecords(n)]
        /\ h.head \in Indices(EXTENDED_WRAP)
        /\ n < EXTENDED_WRAP => h.head = n

\* The old ring has not gone round.
OldInFirstRound == \A id \in RecordIds(curve_history) : id <= CURVE_RECORDS

CurveInv ==
    /\ curve_history # NoAccount =>
          \E d \in Rounds(CURVE_RECORDS) : RingOf(curve_history, d, CURVE_RECORDS)
    /\ extended_curve_history # NoAccount /\ OldInFirstRound => InOrder(extended_curve_history)

LEMMA WrapType ==
    /\ EXTENDED_WRAP \in Nat \ {0} /\ EXTENDED_WRAP + 1 = HISTORY_RECORDS
    /\ HISTORY_RECORDS \in Nat /\ CURVE_RECORDS \in Nat \ {0} /\ CURVE_RECORDS <= EXTENDED_WRAP
  BY HistoryAssumption DEF EXTENDED_WRAP

\* Writing the id n + 1 after n records.
LEMMA FirstRecordsGrow ==
    ASSUME NEW n \in Nat, n < EXTENDED_WRAP
    PROVE  [FirstRecords(n) EXCEPT ![n] = n + 1] = FirstRecords(n + 1)
  <1> DEFINE f == [FirstRecords(n) EXCEPT ![n] = n + 1]
             I == Indices(HISTORY_RECORDS)
  <1>1. DOMAIN FirstRecords(n) = I /\ DOMAIN FirstRecords(n + 1) = I
    BY DEF FirstRecords
  <1>2. \A i \in I : /\ FirstRecords(n)[i] = (IF i < n THEN i + 1 ELSE 0)
                    /\ FirstRecords(n + 1)[i] = (IF i < n + 1 THEN i + 1 ELSE 0)
    BY DEF FirstRecords
  <1>3. \A i \in I : i \in Nat
    BY WrapType DEF Indices
  <1>4. f = [i \in I |-> IF i = n THEN n + 1 ELSE FirstRecords(n)[i]]
    BY <1>1
  <1>5. ASSUME NEW i \in I
        PROVE  (IF i = n THEN n + 1 ELSE FirstRecords(n)[i]) = (IF i < n + 1 THEN i + 1 ELSE 0)
    <2>1. CASE i = n
      BY <1>3, <2>1
    <2>2. CASE i # n
      BY <1>2, <1>3, <2>2
    <2>3. QED BY <2>1, <2>2
  <1>6. QED BY <1>4, <1>5, Zenon DEF FirstRecords

\* Appending the id n + 1 to n records.
LEMMA AppendFirst ==
    ASSUME NEW n \in Nat, n < EXTENDED_WRAP
    PROVE  /\ append_extended(Extended(n), n + 1) = Extended(n + 1)
           /\ n % EXTENDED_WRAP = n
  <1>1. n % EXTENDED_WRAP = n
    BY WrapType
  <1>2. [FirstRecords(n) EXCEPT ![n] = n + 1] = FirstRecords(n + 1)
    BY FirstRecordsGrow
  <1>3. QED BY <1>1, <1>2 DEF append_extended, append, Extended

\* A new record keeps the extended history in order.
LEMMA AppendInOrder ==
    ASSUME NEW h, InOrder(h),
           NEW h2, h2 = append_extended(h, next_record_id(h, HISTORY_RECORDS))
    PROVE  InOrder(h2)
  <1> DEFINE id == next_record_id(h, HISTORY_RECORDS)
  <1>1. PICK n \in 0..EXTENDED_WRAP :
           /\ h = [head |-> h.head, records |-> FirstRecords(n)]
           /\ h.head \in Indices(EXTENDED_WRAP)
           /\ n < EXTENDED_WRAP => h.head = n
    BY DEF InOrder
  <1>2. h.records = FirstRecords(n) /\ h.head \in Nat /\ h.head < EXTENDED_WRAP /\ n \in Nat
        /\ n <= EXTENDED_WRAP
    BY <1>1, WrapType DEF Indices
  <1>3. id = h.head + 1
    <2>1. CASE h.head = 0
      <3>1. h.records[HISTORY_RECORDS - 1] = 0
        BY <1>2, WrapType DEF FirstRecords, Indices
      <3>2. QED BY <2>1, <3>1 DEF next_record_id
    <2>2. CASE h.head # 0
      <3>1. h.records[h.head - 1] = h.head
        BY <1>1, <1>2, <2>2, WrapType DEF FirstRecords, Indices
      <3>2. QED BY <2>2, <3>1 DEF next_record_id
    <2>3. QED BY <2>1, <2>2
  <1>4. h2 = [head |-> (h.head + 1) % EXTENDED_WRAP,
              records |-> [FirstRecords(n) EXCEPT ![h.head] = h.head + 1]]
    BY <1>2, <1>3 DEF append_extended, append
  <1>5. (h.head + 1) % EXTENDED_WRAP \in Indices(EXTENDED_WRAP)
    BY <1>2, WrapType DEF Indices
  <1>6. CASE n < EXTENDED_WRAP
    <2>1. h.head = n
      BY <1>1, <1>6
    <2>2. [FirstRecords(n) EXCEPT ![n] = n + 1] = FirstRecords(n + 1)
      BY <1>2, <1>6, FirstRecordsGrow
    <2>3. n + 1 < EXTENDED_WRAP => (n + 1) % EXTENDED_WRAP = n + 1
      BY <1>2, WrapType
    <2>4. n + 1 \in 0..EXTENDED_WRAP
      BY <1>2, <1>6, WrapType
    <2>5. /\ h2 = [head |-> h2.head, records |-> FirstRecords(n + 1)]
          /\ h2.head \in Indices(EXTENDED_WRAP)
          /\ n + 1 < EXTENDED_WRAP => h2.head = n + 1
      <3>1. h2 = [head |-> (n + 1) % EXTENDED_WRAP, records |-> FirstRecords(n + 1)]
        BY <1>4, <2>1, <2>2
      <3>2. h2.head = (n + 1) % EXTENDED_WRAP
        BY <3>1
      <3>3. QED BY <1>5, <2>1, <2>3, <3>1, <3>2
    <2>6. QED BY <2>4, <2>5 DEF InOrder
  <1>7. CASE n = EXTENDED_WRAP
    <2>1. [FirstRecords(n) EXCEPT ![h.head] = h.head + 1] = FirstRecords(n)
      BY <1>2, <1>7, WrapType DEF FirstRecords, Indices
    <2>2. /\ h2 = [head |-> h2.head, records |-> FirstRecords(n)]
          /\ h2.head \in Indices(EXTENDED_WRAP)
      BY <1>4, <1>5, <2>1
    <2>3. QED BY <1>7, <2>2, WrapType DEF InOrder
  <1>8. QED BY <1>2, <1>6, <1>7, WrapType

\* An extended history with n records is in order.
LEMMA ExtendedInOrder ==
    ASSUME NEW n \in 0..EXTENDED_WRAP
    PROVE  InOrder(Extended(n))
  <1>1. n % EXTENDED_WRAP \in Indices(EXTENDED_WRAP) /\ (n < EXTENDED_WRAP => n % EXTENDED_WRAP = n)
    BY WrapType DEF Indices
  <1>2. QED BY <1>1 DEF InOrder, Extended

\* An old ring that has not gone round holds the ids 1 to n, in this order.
LEMMA OldRecords ==
    ASSUME NEW d \in Rounds(CURVE_RECORDS), RingOf(curve_history, d, CURVE_RECORDS),
           OldInFirstRound
    PROVE  \E n \in 0..CURVE_RECORDS :
             \A i \in Indices(CURVE_RECORDS) :
                curve_history.records[i] = IF i < n THEN i + 1 ELSE 0
  <1> DEFINE n == d + curve_history.head
             rec == curve_history.records
  <1>1. /\ d \in Nat /\ (d = 0 \/ d >= CURVE_RECORDS) /\ CURVE_RECORDS \in Nat
        /\ CURVE_RECORDS > 0 /\ curve_history.head \in Nat /\ curve_history.head < CURVE_RECORDS
    BY WrapType DEF RingOf, Rounds, Indices
  <1>2. /\ DOMAIN rec = Indices(CURVE_RECORDS)
        /\ \A i \in Indices(CURVE_RECORDS) :
              rec[i] = IF i < curve_history.head THEN d + i + 1
                       ELSE IF d = 0 THEN 0 ELSE d + i + 1 - CURVE_RECORDS
    BY DEF RingOf
  <1>3. \A i \in Indices(CURVE_RECORDS) : rec[i] # 0 => rec[i] <= CURVE_RECORDS
    BY <1>2 DEF OldInFirstRound, RecordIds
  <1>4. n <= CURVE_RECORDS
    <2>1. CASE curve_history.head = 0
      <3>1. CURVE_RECORDS - 1 \in Indices(CURVE_RECORDS)
        BY <1>1 DEF Indices
      <3>2. d # 0 => rec[CURVE_RECORDS - 1] = d
        BY <1>1, <1>2, <2>1, <3>1
      <3>3. QED BY <1>1, <1>3, <2>1, <3>1, <3>2
    <2>2. CASE curve_history.head # 0
      <3>1. curve_history.head - 1 \in Indices(CURVE_RECORDS)
        BY <1>1, <2>2 DEF Indices
      <3>2. rec[curve_history.head - 1] = n
        BY <1>1, <1>2, <2>2, <3>1
      <3>3. QED BY <1>1, <1>3, <2>2, <3>1, <3>2
    <2>3. QED BY <2>1, <2>2
  <1>5. \A i \in Indices(CURVE_RECORDS) : i \in Nat /\ i < CURVE_RECORDS
    BY <1>1 DEF Indices
  <1>6. ASSUME NEW i \in Indices(CURVE_RECORDS) PROVE rec[i] = IF i < n THEN i + 1 ELSE 0
    <2>1. CASE d = 0
      BY <1>1, <1>2, <1>5, <2>1
    <2>2. CASE d # 0
      <3>1. d = CURVE_RECORDS /\ curve_history.head = 0
        BY <1>1, <1>4, <2>2
      <3>2. QED BY <1>1, <1>2, <1>5, <2>2, <3>1
    <2>3. QED BY <2>1, <2>2
  <1>7. n \in 0..CURVE_RECORDS
    BY <1>1, <1>4
  <1>8. QED BY <1>6, <1>7

\* Induction over the natural numbers, with a set for the predicate.
LEMMA NatSetInduction ==
    ASSUME NEW B, 0 \in B, \A n \in Nat : n \in B => n + 1 \in B
    PROVE  \A n \in Nat : n \in B
  <1> DEFINE T == {n \in Nat : n \notin B}
             R == OpToRel(<, Nat)
  <1>1. SUFFICES ASSUME T # {} PROVE FALSE
    OBVIOUS
  <1>2. T \subseteq Nat /\ IsWellFoundedOn(R, Nat)
    BY NatLessThanWellFounded
  <1>3. \A a, b \in Nat : a < b => <<a, b>> \in R
    BY DEF OpToRel
  <1> HIDE DEF T, R
  <1>4. PICK n \in T : \A y \in T : ~(<<y, n>> \in R)
    BY <1>1, <1>2, WFMin
  <1>5. n \in Nat /\ n \notin B /\ n # 0
    BY <1>4 DEF T
  <1>6. n - 1 \in Nat /\ n - 1 < n /\ (n - 1) + 1 = n
    BY <1>5
  <1>7. n - 1 \in B
    BY <1>3, <1>4, <1>5, <1>6 DEF T
  <1>8. QED BY <1>5, <1>6, <1>7

\* c is the account after each round of the loop of update_curve_history.
Copies(c) ==
    c = [n \in 0..CURVE_RECORDS |->
            IF n = 0 THEN empty_history(HISTORY_RECORDS)
            ELSE copy_record(c[n - 1], curve_history.records[n - 1])]

LEMMA CopiedHistory == copied_history = (CHOOSE c : Copies(c))[CURVE_RECORDS]
  BY Zenon DEF copied_history, Copies

\* The copy of an old ring that has not gone round has its records in order.
LEMMA CopyInOrder ==
    ASSUME NEW m \in 0..CURVE_RECORDS,
           \A i \in Indices(CURVE_RECORDS) :
                curve_history.records[i] = IF i < m THEN i + 1 ELSE 0
    PROVE  copied_history = Extended(m)
  <1> DEFINE Least(n) == IF n < m THEN n ELSE m
             g == [n \in 0..CURVE_RECORDS |-> Extended(Least(n))]
  <1>1. m \in Nat /\ m <= CURVE_RECORDS
    BY WrapType
  <1>2. empty_history(HISTORY_RECORDS) = Extended(0)
    <2>1. 0 % EXTENDED_WRAP = 0
      BY WrapType
    <2>2. [i \in 0..(HISTORY_RECORDS - 1) |-> 0] = FirstRecords(0)
      BY WrapType DEF FirstRecords, Indices
    <2>3. QED BY <2>1, <2>2 DEF empty_history, Extended
  <1>3. ASSUME NEW n \in 0..CURVE_RECORDS, n # 0
        PROVE  copy_record(Extended(Least(n - 1)), curve_history.records[n - 1])
                  = Extended(Least(n))
    <2>1. n \in Nat /\ n - 1 \in Indices(CURVE_RECORDS) /\ n - 1 \in Nat
      BY <1>3, WrapType DEF Indices
    <2>2. CASE n - 1 < m
      <3>1. Least(n - 1) = n - 1 /\ Least(n) = n /\ curve_history.records[n - 1] = n
        BY <1>1, <2>1, <2>2
      <3>2. append_extended(Extended(n - 1), (n - 1) + 1) = Extended((n - 1) + 1)
        BY <1>1, <2>1, <2>2, AppendFirst, WrapType
      <3>3. (n - 1) + 1 = n /\ n # 0
        BY <1>3, <2>1
      <3>4. QED BY <3>1, <3>2, <3>3 DEF copy_record
    <2>3. CASE ~(n - 1 < m)
      <3>1. Least(n - 1) = m /\ Least(n) = m /\ curve_history.records[n - 1] = 0
        BY <1>1, <2>1, <2>3
      <3>2. QED BY <3>1 DEF copy_record
    <2>4. QED BY <2>2, <2>3
  <1>4. Least(0) = 0
    BY <1>1
  <1>5. \A n \in 0..CURVE_RECORDS : n # 0 => n - 1 \in 0..CURVE_RECORDS
    BY WrapType
  <1>6. Copies(g)
    <2>1. ASSUME NEW n \in 0..CURVE_RECORDS
          PROVE  Extended(Least(n)) = IF n = 0 THEN empty_history(HISTORY_RECORDS)
                                      ELSE copy_record(g[n - 1], curve_history.records[n - 1])
      <3>1. CASE n = 0
        BY <1>2, <1>4, <3>1
      <3>2. CASE n # 0
        <4>1. g[n - 1] = Extended(Least(n - 1))
          BY <1>5, <3>2
        <4> HIDE DEF g, Least
        <4>2. QED BY <1>3, <3>2, <4>1
      <3>3. QED BY <3>1, <3>2
    <2>2. QED BY <2>1, Zenon DEF Copies
  <1> HIDE DEF g, Least
  <1>7. PICK c : Copies(c) /\ copied_history = c[CURVE_RECORDS]
    <2>1. Copies(CHOOSE c : Copies(c))
      BY <1>6, Zenon
    <2>2. QED BY <2>1, CopiedHistory, Zenon
  <1> DEFINE B == {n \in Nat : n <= CURVE_RECORDS => c[n] = Extended(Least(n))}
  <1>8. 0 \in B
    <2>1. 0 \in 0..CURVE_RECORDS
      BY WrapType
    <2>2. c[0] = empty_history(HISTORY_RECORDS)
      BY <1>7, <2>1 DEF Copies
    <2>3. QED BY <1>2, <1>4, <2>2
  <1>9. ASSUME NEW n \in Nat, n \in B PROVE n + 1 \in B
    <2>1. ASSUME n + 1 <= CURVE_RECORDS PROVE c[n + 1] = Extended(Least(n + 1))
      <3>1. n + 1 \in 0..CURVE_RECORDS /\ n + 1 # 0 /\ (n + 1) - 1 = n /\ n <= CURVE_RECORDS
        BY <2>1, WrapType
      <3>2. c[n + 1] = copy_record(c[n], curve_history.records[n])
        BY <1>7, <3>1 DEF Copies
      <3>3. c[n] = Extended(Least(n))
        BY <1>9, <3>1
      <3>4. copy_record(Extended(Least(n)), curve_history.records[n]) = Extended(Least(n + 1))
        BY <1>3, <3>1
      <3>5. QED BY <3>2, <3>3, <3>4
    <2>2. QED BY <2>1
  <1>10. CURVE_RECORDS \in B
    <2> HIDE DEF B
    <2>1. QED BY <1>8, <1>9, NatSetInduction, WrapType
  <1>11. c[CURVE_RECORDS] = Extended(Least(CURVE_RECORDS))
    BY <1>10, WrapType
  <1>12. Least(CURVE_RECORDS) = m
    BY <1>1, WrapType DEF Least
  <1>13. QED BY <1>7, <1>11, <1>12

LEMMA CurveInitially == Init => CurveInv
  <1> SUFFICES ASSUME Init PROVE CurveInv
    OBVIOUS
  <1>1. curve_history # NoAccount =>
           \E d \in Rounds(CURVE_RECORDS) : RingOf(curve_history, d, CURVE_RECORDS)
    <2>1. 0 \in Rounds(CURVE_RECORDS)
      BY DEF Rounds
    <2>2. RingOf(empty_history(CURVE_RECORDS), 0, CURVE_RECORDS)
      BY WrapType DEF RingOf, empty_history, Indices
    <2>3. QED BY <2>1, <2>2 DEF Init
  <1>2. InOrder(empty_history(HISTORY_RECORDS))
    <2>1. [i \in 0..(HISTORY_RECORDS - 1) |-> 0] = FirstRecords(0)
      BY WrapType DEF FirstRecords, Indices
    <2>2. 0 \in Indices(EXTENDED_WRAP) /\ 0 \in 0..EXTENDED_WRAP
      BY WrapType DEF Indices
    <2>3. QED BY <2>1, <2>2 DEF empty_history, InOrder
  <1>3. QED BY <1>1, <1>2 DEF Init, CurveInv

LEMMA CurvePreserved == CurveInv /\ [Next]_vars => CurveInv'
  <1> SUFFICES ASSUME CurveInv, [Next]_vars PROVE CurveInv'
    OBVIOUS
  <1>1. CASE UNCHANGED <<curve_history, extended_curve_history>>
    BY <1>1 DEF CurveInv, OldInFirstRound, RecordIds, RingOf, InOrder
  <1>2. CASE append_curve
    <2> DEFINE h2 == append(curve_history, next_record_id(curve_history, CURVE_RECORDS),
                            CURVE_RECORDS)
    <2>1. curve_history # NoAccount /\ extended_curve_history' = NoAccount /\ curve_history' = h2
      BY <1>2 DEF append_curve
    <2>2. PICK d \in Rounds(CURVE_RECORDS) : RingOf(curve_history, d, CURVE_RECORDS)
      BY <2>1 DEF CurveInv
    <2>3. next_record_id(curve_history, CURVE_RECORDS) = d + curve_history.head + 1
      BY <2>2, NextRecordId, WrapType
    <2>4. \E e \in Rounds(CURVE_RECORDS) : RingOf(h2, e, CURVE_RECORDS)
      BY <2>2, <2>3, AppendKeepsRing, WrapType
    <2>5. \E e \in Rounds(CURVE_RECORDS) : RingOf(curve_history', e, CURVE_RECORDS)
      BY <2>1, <2>4
    <2>6. QED BY <2>1, <2>5 DEF CurveInv, RingOf
  <1>3. CASE append_extended_curve
    <2>1. /\ extended_curve_history # NoAccount /\ UNCHANGED curve_history
          /\ extended_curve_history' = append_extended(extended_curve_history,
                next_record_id(extended_curve_history, HISTORY_RECORDS))
      BY <1>3 DEF append_extended_curve
    <2>2. InOrder(extended_curve_history) => InOrder(extended_curve_history')
      BY <2>1, AppendInOrder
    <2>3. OldInFirstRound' <=> OldInFirstRound
      BY <2>1 DEF OldInFirstRound, RecordIds
    <2>4. InOrder(extended_curve_history)' <=> InOrder(extended_curve_history')
      BY DEF InOrder
    <2>5. QED BY <2>1, <2>2, <2>3, <2>4 DEF CurveInv, RingOf
  <1>4. CASE update_curve_history
    <2>1. /\ curve_history # NoAccount /\ UNCHANGED curve_history
          /\ extended_curve_history' = copied_history
      BY <1>4 DEF update_curve_history
    <2>2. PICK d \in Rounds(CURVE_RECORDS) : RingOf(curve_history, d, CURVE_RECORDS)
      BY <2>1 DEF CurveInv
    <2>3. ASSUME OldInFirstRound PROVE InOrder(copied_history)
      <3>1. PICK m \in 0..CURVE_RECORDS :
              \A i \in Indices(CURVE_RECORDS) :
                curve_history.records[i] = IF i < m THEN i + 1 ELSE 0
        BY <2>2, <2>3, OldRecords
      <3>2. copied_history = Extended(m)
        BY <3>1, CopyInOrder
      <3>3. m \in 0..EXTENDED_WRAP
        BY <3>1, WrapType
      <3>4. QED BY <3>2, <3>3, ExtendedInOrder
    <2>4. OldInFirstRound' <=> OldInFirstRound
      BY <2>1 DEF OldInFirstRound, RecordIds
    <2>5. InOrder(extended_curve_history)' <=> InOrder(extended_curve_history')
      BY DEF InOrder
    <2>6. QED BY <2>1, <2>2, <2>3, <2>4, <2>5 DEF CurveInv, RingOf
  <1>5. CASE append_log
    BY <1>1, <1>5 DEF append_log
  <1>6. QED BY <1>1, <1>2, <1>3, <1>4, <1>5 DEF Next, vars

\* Until one of the two curve rings has gone round, a change of the curve gets
\* an id that no record of the extended history has, copied ones included.
THEOREM CurveIdsAlwaysNew == Spec => []CurveIdsAreNew
  <1>1. CurveInv => CurveIdsAreNew
    <2> SUFFICES ASSUME CurveInv, extended_curve_history # NoAccount, OldInFirstRound,
                        \A id \in RecordIds(extended_curve_history) : id < EXTENDED_WRAP
                 PROVE  next_record_id(extended_curve_history, HISTORY_RECORDS)
                            \notin RecordIds(extended_curve_history)
      BY DEF CurveIdsAreNew, OldInFirstRound
    <2> DEFINE h == extended_curve_history
    <2>1. PICK n \in 0..EXTENDED_WRAP :
             /\ h = [head |-> h.head, records |-> FirstRecords(n)]
             /\ h.head \in Indices(EXTENDED_WRAP)
             /\ n < EXTENDED_WRAP => h.head = n
      BY DEF CurveInv, InOrder
    <2>2. h.records = FirstRecords(n) /\ n \in Nat /\ n <= EXTENDED_WRAP
      BY <2>1, WrapType
    <2> HIDE DEF h
    <2>3. RecordIds(h) = {FirstRecords(n)[i] : i \in Indices(HISTORY_RECORDS)} \ {0}
      BY <2>2 DEF RecordIds, FirstRecords
    <2>4. n < EXTENDED_WRAP
      <3>1. SUFFICES ASSUME n = EXTENDED_WRAP PROVE FALSE
        BY <2>2, WrapType
      <3>2. EXTENDED_WRAP - 1 \in Indices(HISTORY_RECORDS)
        BY WrapType DEF Indices
      <3>3. FirstRecords(n)[EXTENDED_WRAP - 1] = EXTENDED_WRAP
        BY <3>1, <3>2, WrapType DEF FirstRecords
      <3>4. EXTENDED_WRAP \in RecordIds(h)
        BY <2>3, <3>2, <3>3, WrapType
      <3>5. QED BY <3>4, WrapType DEF h
    <2>5. h.head = n
      BY <2>1, <2>4 DEF h
    <2>6. next_record_id(h, HISTORY_RECORDS) = n + 1
      <3>1. CASE n = 0
        <4>1. h.records[HISTORY_RECORDS - 1] = 0
          BY <2>2, <3>1, WrapType DEF FirstRecords, Indices
        <4>2. QED BY <2>5, <3>1, <4>1 DEF next_record_id
      <3>2. CASE n # 0
        <4>1. h.records[n - 1] = n
          BY <2>2, <2>4, <3>2, WrapType DEF FirstRecords, Indices
        <4>2. QED BY <2>5, <3>2, <4>1 DEF next_record_id
      <3>3. QED BY <3>1, <3>2
    <2>7. \A i \in Indices(HISTORY_RECORDS) : FirstRecords(n)[i] # n + 1
      BY <2>2, WrapType DEF FirstRecords, Indices
    <2>8. QED BY <2>3, <2>6, <2>7 DEF h
  <1>2. QED BY <1>1, CurveInitially, CurvePreserved, PTL DEF Spec
=============================================================================
