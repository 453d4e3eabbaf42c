------------------------------- MODULE History -------------------------------
(***************************************************************************)
(* The history accounts of the clearing house are ring buffers: an array   *)
(* of records and the index (head) of the next one to write.  The id of a  *)
(* new record is not stored anywhere, it is read off the record written    *)
(* last.  Five histories (trades, deposits, funding payments, funding      *)
(* rates, liquidations) have the same code over HISTORY_RECORDS records;   *)
(* log is any one of them.  The curve history exists in two versions: the  *)
(* small CurveHistory of an earlier program, which the present one only    *)
(* reads, and the ExtendedCurveHistory it is copied into.                  *)
(*                                                                         *)
(* Of a record only its id is kept; 0 is the id of a record that was never *)
(* written.                                                                *)
(***************************************************************************)
EXTENDS Integers

CONSTANTS
    HISTORY_RECORDS,        \* length of the arrays, 1024 in the program
    CURVE_RECORDS,          \* length of the old curve history, 32 in the program
    MaxRecordId             \* bound on the ids of a run

ASSUME HistoryAssumption ==
    /\ HISTORY_RECORDS \in Nat \ {0, 1}
    /\ CURVE_RECORDS \in Nat \ {0}
    /\ CURVE_RECORDS < HISTORY_RECORDS
    /\ MaxRecordId \in Nat

VARIABLES
    log,                    \* one of the five histories of HISTORY_RECORDS records
    curve_history,          \* the old curve history
    extended_curve_history  \* the curve history the State points to

vars == <<log, curve_history, extended_curve_history>>

\* The account does not exist.
NoAccount == [head |-> 0, records |-> <<>>]

empty_history(length) == [head |-> 0, records |-> [i \in 0..(length - 1) |-> 0]]

\* Write at the head and advance it modulo wrap.
append(h, record_id, wrap) ==
    [head |-> (h.head + 1) % wrap, records |-> [h.records EXCEPT ![h.head] = record_id]]

next_record_id(h, length) ==
    h.records[IF h.head = 0 THEN length - 1 ELSE h.head - 1] + 1

\* ExtendedCurveHistory wraps one record before the end of its array.
EXTENDED_WRAP == HISTORY_RECORDS - 1

append_extended(h, record_id) == append(h, record_id, EXTENDED_WRAP)

Bug_copy_record(h, old_record) == append_extended(h, old_record)

\* The old records that were never written are not copied.
copy_record(h, old_record) ==
    IF old_record # 0 THEN append_extended(h, old_record) ELSE h

\* A new account after the loop over the old records, in array order.
copied_history ==
    LET copy[n \in 0..CURVE_RECORDS] ==
            IF n = 0 THEN empty_history(HISTORY_RECORDS)
            ELSE copy_record(copy[n - 1], curve_history.records[n - 1])
    IN  copy[CURVE_RECORDS]

Init ==
    /\ log = empty_history(HISTORY_RECORDS)
    /\ \/ /\ curve_history = NoAccount
          /\ extended_curve_history = empty_history(HISTORY_RECORDS)
       \/ /\ curve_history = empty_history(CURVE_RECORDS)
          /\ extended_curve_history = NoAccount

Bug_append_log ==
    LET id == next_record_id(log, HISTORY_RECORDS) IN
    /\ id <= MaxRecordId
    /\ log' = append(log, id, EXTENDED_WRAP)
    /\ UNCHANGED <<curve_history, extended_curve_history>>

\* A handler of the program records what it did.
append_log ==
    LET id == next_record_id(log, HISTORY_RECORDS) IN
    /\ id <= MaxRecordId
    /\ log' = append(log, id, HISTORY_RECORDS)
    /\ UNCHANGED <<curve_history, extended_curve_history>>

\* The earlier program records a change of the curve.
append_curve ==
    /\ curve_history # NoAccount
    /\ extended_curve_history = NoAccount
    /\ LET id == next_record_id(curve_history, CURVE_RECORDS) IN
       /\ id <= MaxRecordId
       /\ curve_history' = append(curve_history, id, CURVE_RECORDS)
    /\ UNCHANGED <<log, extended_curve_history>>

\* repeg_amm_curve and update_k record a change of the curve.
append_extended_curve ==
    /\ extended_curve_history # NoAccount
    /\ LET id == next_record_id(extended_curve_history, HISTORY_RECORDS) IN
       /\ id <= MaxRecordId
       /\ extended_curve_history' = append_extended(extended_curve_history, id)
    /\ UNCHANGED <<log, curve_history>>

\* A new account receives the old records; nothing prevents a second call.
update_curve_history ==
    /\ curve_history # NoAccount
    /\ extended_curve_history' = copied_history
    /\ UNCHANGED <<log, curve_history>>

Next == append_log \/ append_curve \/ append_extended_curve \/ update_curve_history

Spec == Init /\ [][Next]_vars

------------------------------------------------------------------------------

RecordIds(h) == {h.records[i] : i \in DOMAIN h.records} \ {0}

\* A history of trades, deposits, funding or liquidations is a log: ids count
\* up without a gap for ever, and the account holds exactly the last
\* HISTORY_RECORDS of them, however often the ring has gone round.
Log == INSTANCE RecordLog WITH
          Capacity <- HISTORY_RECORDS,
          issued <- next_record_id(log, HISTORY_RECORDS) - 1,
          kept <- RecordIds(log)

ImplementsLog == Log!Spec

\* Before either ring of the curve histories has gone round once, a record of
\* the extended curve history gets an id that no record in it has, the copied
\* ones included.
CurveIdsAreNew ==
    extended_curve_history # NoAccount
        /\ (\A id \in RecordIds(curve_history) : id <= CURVE_RECORDS)
        /\ (\A id \in RecordIds(extended_curve_history) : id < EXTENDED_WRAP)
    => next_record_id(extended_curve_history, HISTORY_RECORDS)
            \notin RecordIds(extended_curve_history)
=============================================================================
