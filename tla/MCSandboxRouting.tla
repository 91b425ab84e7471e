-------------------------- MODULE MCSandboxRouting --------------------------
(***************************************************************************)
(* A small instance of SandboxRouting: b1 is a container of alice's whose  *)
(* mode changes while updates of the blocks inside it are handled.         *)
(***************************************************************************)
EXTENDS SandboxRouting, MCSyncStore

B1IsOpen == [b \in Block |-> IF b = b1 THEN Info("open", alice) ELSE NoSandbox]
RoutingSubscriptions == {<<alice, b2>>, <<bob, b2>>, <<bob, b3>>}

\* b1 becomes private, blocks inside it change, looked up, with a context and
\* in a batch, and an update of b1 itself says that it is no sandbox.
RoutingMessages ==
  {Update(1, "sandbox_mode_changed", b1 :> Container(1, "private", alice), <<>>),
   Update(2, "update_block", b2 :> Inside(2, b1, alice), <<>>),
   Update(3, "update_block", b2 :> Inside(3, b1, alice), b1 :> Info("private", alice)),
   Update(4, "update_blocks", b3 :> Inside(4, b1, alice), <<>>),
   Update(5, "update_block", b1 :> Container(5, "none", alice), <<>>)}
=============================================================================
