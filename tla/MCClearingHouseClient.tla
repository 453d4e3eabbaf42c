------------------------ MODULE MCClearingHouseClient ------------------------
(***************************************************************************)
(* Two wallets, two calls at a time, and a house that does not exist yet   *)
(* or comes from the version with the first kind of curve history.         *)
(***************************************************************************)
EXTENDS ClearingHouseClient, TLC

LegacyHouse ==
    [admin |-> "alice",
     refs |-> [f \in Fields |-> IF f = "extendedCurveHistory" THEN 0 ELSE 1]]
CONSTANTS app, bot, feed, backup
Symmetry == Permutations({app, bot}) \cup Permutations({feed, backup})
MCHouses == {NoHouse, LegacyHouse}
=============================================================================
