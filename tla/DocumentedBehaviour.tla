-------------------------- MODULE DocumentedBehaviour --------------------------
(***************************************************************************)
(* What comments of the program say of it and its code does not do.  A run *)
(* for each of them shows a behaviour of the code that contradicts it.     *)
(***************************************************************************)
EXTENDS ClientProps

\* "A portion of fees must always remain in protocol to be used to keep
\* markets optimal" (withdraw_fees): the admin never takes out more than the
\* fee pool still holds.  The code limits the withdrawals by half of the fees
\* ever collected, and repegging, update_k and funding spend the pool as well.
PortionOfFeesRemains ==
    \A i \in Markets :
        market[i].total_fee_withdrawn <= market[i].total_fee_minus_distributions
=============================================================================
