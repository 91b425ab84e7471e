------------------------------ MODULE Registry ------------------------------
(***************************************************************************)
(* What the access handlers promise of the two subscription indexes,       *)
(* without portions, versions, failures or redelivery: who can pull a      *)
(* block, who is notified of it, and to whom its deletion was announced.   *)
(***************************************************************************)
CONSTANTS User, Block

VARIABLES
  subs,      \* the pairs <<user, block>> that can be pulled
  reach,     \* the pairs <<user, block>> that are notified
  announced  \* the pairs <<user, block>> whose notice of deletion has its task

vars == <<subs, reach, announced>>

Init ==
  /\ subs \in SUBSET (User \X Block)
  /\ reach = subs
  /\ announced = {}

\* Access is given and taken in both indexes at once.
Grant(u, blocks) ==
  /\ subs' = subs \union ({u} \X blocks)
  /\ reach' = reach \union ({u} \X blocks)
  /\ UNCHANGED announced

Revoke(u, blocks) ==
  /\ subs' = subs \ ({u} \X blocks)
  /\ reach' = reach \ ({u} \X blocks)
  /\ UNCHANGED announced

Announce(users, blocks) ==
  /\ announced' = announced \union (users \X blocks)
  /\ UNCHANGED <<subs, reach>>

\* A deletion silences the blocks for everyone at once; of those who can pull
\* them it may take only the ones to whom it was announced.
Delete(blocks) ==
  /\ subs' \subseteq subs
  /\ subs \ subs' \subseteq announced \intersect (User \X blocks)
  /\ reach' = reach \ (User \X blocks)
  /\ UNCHANGED announced

Next ==
  \E blocks \in SUBSET Block :
    \/ \E u \in User : Grant(u, blocks) \/ Revoke(u, blocks)
    \/ \E users \in SUBSET User : Announce(users, blocks)
    \/ Delete(blocks)

Spec == Init /\ [][Next]_vars
=============================================================================
