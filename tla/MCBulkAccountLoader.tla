------------------------- MODULE MCBulkAccountLoader -------------------------
(***************************************************************************)
(* A small instance of the loader.  The account of the user exists and is  *)
(* changed once, the one with the positions is not there.                  *)
(***************************************************************************)
EXTENDS BulkAccountLoader

MCWatched == {<<"alice", "user">>, <<"alice", "positions">>, <<"bob", "user">>}
MCAccounts == <<"positions", "user">>
MCCallbacks == [k \in Accounts |-> {"alice"}]
MCGenesis == [positions |-> Absent, user |-> "old"]
MCWrites == {<<"user", "new">>}
=============================================================================
