--------------------------- MODULE DeletionNotices ---------------------------
(***************************************************************************)
(* The notices of a deletion (action_unsubscribe in                        *)
(* src/app/rabbitmq_consumer.py).  SyncStore hands them to a send;         *)
(* send_message_to_subscribers (src/app/connection_manager.py) only        *)
(* creates a task for it, which runs when the event loop gets to it, be it *)
(* before or after the handler's removal, and is lost with the process.    *)
(***************************************************************************)
EXTENDS SyncStore

VARIABLES
  due,      \* the pairs <<user, block>> whose notice is a task yet to run
  told,     \* history: the pairs whose notice has been sent
  missed,   \* history: the pairs whose task died with the process
  removed   \* history: the pairs a deletion has taken out of the pull index

noticeVars == <<vars, due, told, missed, removed>>

NoticesInit ==
  /\ Init
  /\ due = {}
  /\ told = {}
  /\ missed = {}
  /\ removed = {}

Reads(m)   == pc[m] = "members" /\ pc'[m] = "delete"
Deletes(m) == pc[m] = "delete" /\ pc'[m] # "delete" /\ crashes' = crashes

\* A task for every block of the portion and every reader of any of them.
Spawned == UNION {Notices(seen'[m], chunk'[m]) : m \in {n \in Message : Reads(n)}}

Removals ==
  {p \in User \X Block :
     (\E m \in Message : Deletes(m)) /\ p[2] \in userBlocks[p[1]] \ userBlocks'[p[1]]}

\* What a step of the consumer does to the notices; a restart ends their tasks.
Follow ==
  /\ removed' = removed \union Removals
  /\ IF crashes' = crashes THEN due' = due \union Spawned /\ UNCHANGED missed
                           ELSE due' = {} /\ missed' = missed \union due
  /\ UNCHANGED told

\* _send_message_to_subscribers_impl reaches the user.
SendNotice(u, b) ==
  /\ <<u, b>> \in due
  /\ due' = due \ {<<u, b>>}
  /\ told' = told \union {<<u, b>>}
  /\ UNCHANGED <<vars, missed, removed>>

NoticesNext ==
  \/ Next /\ Follow
  \/ \E u \in User, b \in Block : SendNotice(u, b)

NoticesSpec == NoticesInit /\ [][NoticesNext]_noticeVars

\* As in SyncStore; the event loop runs every task that is ready, and a send
\* to a socket ends.
FairNoticesSpec ==
  /\ NoticesSpec
  /\ \A m \in Message : WF_noticeVars(Step(m) /\ Follow)
  /\ \A u \in User, b \in Block : WF_noticeVars(SendNotice(u, b))
-----------------------------------------------------------------------------
(* Properties.                                                             *)

\* Whoever loses a block to a deletion has been told, is about to be, or was
\* until the process died: nobody is removed unannounced, whatever a grant, a
\* redelivery or a second deletion does between the read of the subscribers
\* and the removal.
LosersNoticed == removed \subseteq told \union due \union missed

\* In the end they have all been told, except those whose notice died with the
\* process.
LosersTold == <>[](removed \subseteq told \union missed)

\* "Send deletion notifications to all subscribers BEFORE removing from Redis"
\* (rabbitmq_consumer.py:505): whoever has lost a block to a deletion had been
\* sent its notice.
NoticedBeforeRemoved == removed \subseteq told
=============================================================================
