------------------------------ MODULE RecordLog ------------------------------
(***************************************************************************)
(* What a reader of a history account may rely on: records are numbered    *)
(* 1, 2, 3, ... and the account keeps the last Capacity of them.           *)
(***************************************************************************)
EXTENDS Integers

CONSTANT Capacity   \* how many records are kept

VARIABLES
    issued,         \* the number of records made so far
    kept            \* the ids of the records that can be read

Init == issued = 0 /\ kept = {}

\* The last Capacity of n records.
Newest(n) == {id \in 1..n : id > n - Capacity}

Record ==
    /\ issued' = issued + 1
    /\ kept' = Newest(issued + 1)

Spec == Init /\ [][Record]_<<issued, kept>>
=============================================================================
