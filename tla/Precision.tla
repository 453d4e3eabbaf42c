------------------------------ MODULE Precision ------------------------------
(***************************************************************************)
(* The fixed-point precisions of the clearing house program and the        *)
(* integer arithmetic all its calculations are made of                     *)
(* (math/constants.rs).  The precisions are CONSTANTS: a model-checking    *)
(* run gives them small values, a theorem holds for all of them.           *)
(*                                                                         *)
(* Amounts are unbounded integers here.  Every multiplication of the       *)
(* program is checked (or carried out in U192/U256), so an overflow aborts *)
(* the transaction and never changes the state; underflow of an unsigned   *)
(* subtraction and division by zero, which abort it too, are kept: they    *)
(* are the "_ok" operators of the other modules.                           *)
(***************************************************************************)
EXTENDS Integers

CONSTANTS
    AMM_RESERVE_PRECISION, MARK_PRICE_PRECISION, QUOTE_PRECISION,
    FUNDING_PAYMENT_PRECISION, MARGIN_PRECISION, PEG_PRECISION, ONE_HOUR

\* A finer precision is a multiple of a coarser one, as powers of ten are.
ASSUME PrecisionAssumption ==
    /\ AMM_RESERVE_PRECISION \in Nat \ {0}
    /\ MARK_PRICE_PRECISION \in Nat \ {0}
    /\ QUOTE_PRECISION \in Nat \ {0}
    /\ FUNDING_PAYMENT_PRECISION \in Nat \ {0}
    /\ MARGIN_PRECISION \in Nat \ {0}
    /\ PEG_PRECISION \in Nat \ {0}
    /\ ONE_HOUR \in Nat \ {0}
    /\ QUOTE_PRECISION <= AMM_RESERVE_PRECISION
    /\ AMM_RESERVE_PRECISION % QUOTE_PRECISION = 0
    /\ PEG_PRECISION <= MARK_PRICE_PRECISION

PRICE_TO_PEG_PRECISION_RATIO == MARK_PRICE_PRECISION \div PEG_PRECISION
AMM_TO_QUOTE_PRECISION_RATIO == AMM_RESERVE_PRECISION \div QUOTE_PRECISION
AMM_TIMES_PEG_TO_QUOTE_PRECISION_RATIO ==
    (AMM_RESERVE_PRECISION * PEG_PRECISION) \div QUOTE_PRECISION
QUOTE_TO_BASE_AMT_FUNDING_PRECISION ==
    (AMM_RESERVE_PRECISION * MARK_PRICE_PRECISION * FUNDING_PAYMENT_PRECISION)
        \div QUOTE_PRECISION

SHARE_OF_FEES_ALLOCATED_TO_CLEARING_HOUSE_NUMERATOR == 1
SHARE_OF_FEES_ALLOCATED_TO_CLEARING_HOUSE_DENOMINATOR == 2
UPDATE_K_ALLOWED_PRICE_CHANGE == MARK_PRICE_PRECISION \div 10

Larger(a, b) == IF a >= b THEN a ELSE b
Smaller(a, b) == IF a <= b THEN a ELSE b
unsigned_abs(a) == IF a >= 0 THEN a ELSE -a

\* checked_div of signed integers: the quotient is truncated towards zero.
Quot(a, b) ==
    LET q == unsigned_abs(a) \div unsigned_abs(b)
    IN  IF (a < 0) = (b < 0) THEN q ELSE -q

\* The first element of a set of slot numbers, as Iterator::find and
\* Iterator::position return it.
First(S) == CHOOSE s \in S : \A t \in S : s <= t
=============================================================================
