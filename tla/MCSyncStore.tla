---------------------------- MODULE MCSyncStore ----------------------------
(***************************************************************************)
(* Small instances of SyncStore: the messages of each run.                 *)
(***************************************************************************)
EXTENDS SyncStore, TLC

CONSTANTS alice, bob, b1, b2, b3

NoSubscriptions == {}

Access(id, user, permission, blocks, start) ==
  [id |-> id, action |-> "update_access", user |-> user, permission |-> permission,
   blocks |-> blocks, start |-> start, withData |-> FALSE, data |-> <<>>, context |-> <<>>]

Subscribe(id, user, blocks) ==
  [id |-> id, action |-> "subscribe", user |-> user, permission |-> "allow",
   blocks |-> blocks, start |-> {}, withData |-> FALSE, data |-> <<>>, context |-> <<>>]

Unsubscribe(id, blocks) ==
  [id |-> id, action |-> "unsubscribe", user |-> NoUser, permission |-> "allow",
   blocks |-> blocks, start |-> {}, withData |-> FALSE, data |-> <<>>, context |-> <<>>]

Update(id, action, data, context) ==
  [id |-> id, action |-> action, user |-> NoUser, permission |-> "allow",
   blocks |-> DOMAIN data, start |-> {}, withData |-> FALSE, data |-> data,
   context |-> context]

Plain(stamp) == [stamp |-> stamp, mode |-> "unset", creator |-> alice, parent |-> NoBlock]
Inside(stamp, parent, creator) ==
  [stamp |-> stamp, mode |-> "unset", creator |-> creator, parent |-> parent]
Container(stamp, mode, owner) ==
  [stamp |-> stamp, mode |-> mode, creator |-> owner, parent |-> NoBlock]
Info(mode, owner) == [mode |-> mode, owner |-> owner]

NothingCached == [b \in Block |-> NoSandbox]

\* Access run: a grant, a revocation and a deletion in two portions, all
\* touching b1.
AccessMessages ==
  {Access(1, alice, "allow", {b1}, {b1}), Access(2, bob, "deny", {b1}, {b1}),
   Unsubscribe(3, {b1, b2})}
AccessSubscriptions == {<<bob, b1>>}

\* A grant in two portions, then a revocation.
DenyMessages ==
  {Access(1, alice, "allow", {b1, b2}, {}), Access(2, alice, "deny", {b1}, {b1})}
=============================================================================
