------------------------- MODULE MCDeletionNotices -------------------------
(***************************************************************************)
(* Small instances of DeletionNotices: the messages of each run.           *)
(***************************************************************************)
EXTENDS DeletionNotices, MCSyncStore

\* A deletion and nothing else.
DeletionMessages == {Unsubscribe(1, {b1, b2})}
DeletionSubscriptions == {<<alice, b1>>, <<alice, b2>>, <<bob, b2>>}
=============================================================================
