----------------------------- MODULE MCMessaging -----------------------------
(***************************************************************************)
(* A small instance of Messaging: a direct message of bob's to alice, who  *)
(* may connect a second socket, and a message to a group of the two.       *)
(***************************************************************************)
EXTENDS Messaging

CONSTANTS alice, bob, anonymous, s1, s2, t1

OwnerOf == [s \in Socket |-> IF s = t1 THEN bob ELSE alice]

Dm(sender, recipient) ==
  [kind |-> "dm", sender |-> sender, recipient |-> recipient, members |-> {}]
Group(kind, sender, members) ==
  [kind |-> kind, sender |-> sender, recipient |-> NoUser, members |-> members]

Events == {Dm(bob, alice), Group("group_message", alice, {alice, bob})}
Pushes == Events \X {alice, bob}
=============================================================================
