---------------------------- MODULE MCCursorSync ----------------------------
(***************************************************************************)
(* Small instances of CursorSync: the messages of each run.                *)
(***************************************************************************)
EXTENDS CursorSync, MCSyncStore

AliceHasBoth == {<<alice, b1>>, <<alice, b2>>}
AliceHasB1   == {<<alice, b1>>}

\* Updates run: a batch of three, one block of which alice is not subscribed
\* to, races an update of her block, with room for two entries.
UpdateMessages ==
  {Update(1, "update_blocks", b1 :> Plain(2) @@ b2 :> Plain(3) @@ b3 :> Plain(4), <<>>),
   Update(2, "update_block", b1 :> Plain(5), <<>>)}

\* Access run: a subscription races a deletion of that block and another.
AclMessages ==
  {Subscribe(1, alice, {b2}), Unsubscribe(2, {b1, b2})}

\* Two updates of different blocks.
GapMessages ==
  {Update(1, "update_block", b1 :> Plain(2), <<>>),
   Update(2, "update_block", b2 :> Plain(3), <<>>)}
=============================================================================
