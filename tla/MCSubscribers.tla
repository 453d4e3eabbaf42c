---------------------------- MODULE MCSubscribers ----------------------------
(***************************************************************************)
(* Two callers of each of the five subscribers, and one optional account.  *)
(***************************************************************************)
EXTENDS Subscribers

MCSubjects ==
    {<<"polling", "clearingHouse">>, <<"polling", "user">>, <<"polling", "token">>,
     <<"websocket", "clearingHouse">>, <<"websocket", "user">>}

\* The second slot changes every account but the markets and the positions, and
\* the third one changes them back.
MCContents(k, s) == IF k \in {"markets", "userPositions"} \/ s # 2 THEN "a" ELSE "b"
=============================================================================
