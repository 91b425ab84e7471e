----------------------------- MODULE MCTimeSync -----------------------------
(***************************************************************************)
(* A small instance of TimeSync: alice synchronises her two blocks while   *)
(* both are updated, one of them twice, and the other is taken from her.   *)
(***************************************************************************)
EXTENDS TimeSync, MCSyncStore

CONSTANT p1

AliceHasAll == {alice} \X Block

\* The update of b1 falls into the second of the row the client may hold; b2
\* gets a row without a time and one of a later second, in either order.
Times ==
  1 :> <<"number", 2>> @@ 2 :> <<"number", 3>> @@ 3 :> <<"None">> @@ 4 :> <<"text", <<"number", 5>>>>

TimeMessages ==
  {Update(1, "update_blocks", b1 :> Plain(2) @@ b2 :> Plain(3), <<>>),
   Update(2, "update_block", b2 :> Plain(4), <<>>),
   Access(3, alice, "deny", {b1}, {})}
=============================================================================
