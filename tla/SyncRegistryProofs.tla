------------------------- MODULE SyncRegistryProofs -------------------------
(***************************************************************************)
(* The handlers of SyncStore implement the Registry, for every set of      *)
(* users, blocks and messages: access changes in both indexes at once, and *)
(* a deletion takes a block only from those it was announced to.  And a    *)
(* notice is never forgotten while the process lives.                      *)
(***************************************************************************)
EXTENDS SyncStoreProofs, DeletionNotices

\* A handler's own moves: what Next does besides expiry, restart and idling.
Move(m) == Step(m) \/ CommandLost(m) \/ LookupFails(m)

\* The strengthening that carries an announcement from the step that makes it
\* to the step that removes.
Announced == \A m \in Message : pc[m] = "delete" => seen[m] \subseteq handed[m]

\* A call that aims elsewhere does not end at the deletion, failed or not.
LEMMA RepliedElsewhere ==
  ASSUME Inv, NEW m \in Message, NEW label, label # "delete", Replied(m, label)
  PROVE  pc'[m] # "delete"
<1>1. OnError(m) # "delete"
  BY ErrorLabels DEF Inv, HandlerInv, Exits
<1> QED
  BY <1>1 DEF Replied, Goto, Inv, TypeOK

\* Reading the subscribers is the one way into the deletion.
LEMMA OnlyMembersDelete ==
  ASSUME Inv, NEW m \in Message, Move(m), ~ReadMembers(m)
  PROVE  pc'[m] # "delete"
<1> USE DEF Inv
<1>1. pc \in [Message -> Labels]
  BY DEF TypeOK
<1>2. pc[m] \in LabelsOf(m) \union {"queued", "ack", "settled"}
  BY DEF HandlerInv, LabelInv
<1>3. CASE Deliver(m)
  BY <1>1, <1>3, NextLabels DEF Deliver, Goto, Exits
<1>4. CASE Ack(m) \/ Notify(m) \/ SendToUser(m) \/ CacheSandbox(m)
  BY <1>1, <1>4 DEF Ack, Notify, SendToUser, CacheSandbox, Goto
<1>5. CASE ReadSubscribers(m) \/ Lookup(m) \/ LookupFails(m)
  BY <1>1, <1>5 DEF ReadSubscribers, Lookup, LookupFails, Dispatch, Goto
<1>6. CASE Save(m) \/ DeleteBlocks(m)
  <2>1. m.action \in UpdateActions \union {"unsubscribe"}
    BY <1>2, <1>6 DEF Save, DeleteBlocks, LabelsOf
  <2>2. EnterAppend(m) # "delete"
    BY <2>1, NextLabels DEF Exits
  <2> QED
    BY <1>6, <2>2, RepliedElsewhere DEF Save, DeleteBlocks
<1>7. CASE Incr(m)
  BY <1>7, RepliedElsewhere DEF Incr
<1>8. CASE AppendEntries(m)
  <2>1. m.action \in UpdateActions \union {"unsubscribe"}
    BY <1>2, <1>8 DEF AppendEntries, LabelsOf
  <2>2. AfterAppend(m) # "delete"
    BY <2>1, NextLabels DEF Exits
  <2> QED
    BY <1>8, <2>2, RepliedElsewhere DEF AppendEntries
<1>9. CASE WriteIndexes(m) \/ BumpVersions(m)
  <2>1. m.action \in AclActions
    BY <1>2, <1>9 DEF WriteIndexes, BumpVersions, LabelsOf, UpdateActions, AclActions
  <2>2. EnterBump(m) # "delete" /\ AfterBump(m) # "delete"
    BY <2>1, NextLabels DEF Exits
  <2>3. PICK label \in {EnterBump(m), AfterBump(m), "write"} : Replied(m, label)
    BY <1>9 DEF WriteIndexes, BumpVersions
  <2> QED
    BY <2>2, <2>3, RepliedElsewhere
<1>10. CASE CommandLost(m)
  <2>1. OnError(m) # "delete"
    BY ErrorLabels DEF HandlerInv, Exits
  <2> QED
    BY <1>1, <1>10, <2>1 DEF CommandLost, Goto
<1> QED
  BY <1>3, <1>4, <1>5, <1>6, <1>7, <1>8, <1>9, <1>10 DEF Move, Step

\* A handler moves no other handler and sends on no other's behalf.
LEMMA OthersUntouched ==
  ASSUME Inv, NEW m \in Message, NEW n \in Message \ {m}, Move(m)
  PROVE  pc'[n] = pc[n] /\ seen'[n] = seen[n] /\ handed'[n] = handed[n]
<1> USE DEF Inv, TypeOK
<1>1. CASE CommandLost(m) \/ LookupFails(m)
  BY <1>1 DEF CommandLost, LookupFails, Goto, HandOver
<1>2. CASE Deliver(m) \/ Ack(m) \/ CacheSandbox(m)
  BY <1>2 DEF Deliver, Ack, CacheSandbox, Goto
<1>3. CASE ReadSubscribers(m) \/ Lookup(m) \/ SendToUser(m) \/ Notify(m) \/ ReadMembers(m)
  BY <1>3 DEF ReadSubscribers, Lookup, SendToUser, Notify, ReadMembers, Dispatch, Goto, HandOver
<1>4. CASE Save(m) \/ Incr(m) \/ AppendEntries(m) \/ WriteIndexes(m) \/ BumpVersions(m)
           \/ DeleteBlocks(m)
  <2>1. pc' = [pc EXCEPT ![m] = pc'[m]]
    BY <1>4 DEF Save, Incr, AppendEntries, WriteIndexes, BumpVersions, DeleteBlocks,
                Replied, Goto
  <2>2. UNCHANGED <<seen, handed>>
    BY <1>4 DEF Save, Incr, AppendEntries, WriteIndexes, BumpVersions, DeleteBlocks
  <2> QED
    BY <2>1, <2>2
<1> QED
  BY <1>1, <1>2, <1>3, <1>4 DEF Move, Step

\* Reading the members of a portion announces it to every one of them.
LEMMA MembersAnnounced ==
  ASSUME Inv, NEW m \in Message, ReadMembers(m)
  PROVE  seen'[m] \subseteq handed'[m]
<1>1. PICK blocks \in Portions(todo[m]) :
        /\ seen' = [seen EXCEPT ![m] = PairsOf(blocks)]
        /\ HandOver(m, Notices(PairsOf(blocks), blocks))
  BY DEF ReadMembers
<1>2. PairsOf(blocks) \subseteq Notices(PairsOf(blocks), blocks)
  BY DEF PairsOf, Notices, UsersOf
<1> QED
  BY <1>1, <1>2 DEF HandOver, Inv, TypeOK

LEMMA AnnouncedStep ==
  ASSUME Inv, Announced, [Next]_vars
  PROVE  Announced'
<1>1. ASSUME NEW m \in Message, Move(m)
      PROVE  Announced'
  <2> SUFFICES ASSUME NEW n \in Message, pc'[n] = "delete"
               PROVE  seen'[n] \subseteq handed'[n]
    BY DEF Announced
  <2>1. CASE n = m
    BY <1>1, <2>1, OnlyMembersDelete, MembersAnnounced
  <2>2. CASE n # m
    BY <1>1, <2>2, OthersUntouched DEF Announced
  <2> QED
    BY <2>1, <2>2
<1>2. CASE \E b \in Block : ExpireSandbox(b)
  BY <1>2 DEF ExpireSandbox, handler, Announced
<1>3. CASE Crash
  BY <1>3 DEF Crash, InFlight, Announced
<1>4. CASE UNCHANGED vars
  BY <1>4 DEF vars, handler, Announced
<1> QED
  BY <1>1, <1>2, <1>3, <1>4 DEF Next, Idle, Move

LEMMA AnnouncedInvariant == Spec => [](Inv /\ Announced)
<1>1. Init => Inv /\ Announced
  BY InitInv DEF Init, Announced
<1>2. Inv /\ Announced /\ [Next]_vars => (Inv /\ Announced)'
  BY NextInv, AnnouncedStep
<1> QED
  BY <1>1, <1>2, PTL DEF Spec
-----------------------------------------------------------------------------
(* The notices.                                                            *)

\* The strengthening: whom a deletion is about to remove has a notice, sent,
\* due or lost with the process.
NoticeKept == told \union due \union missed
NoticesInv == /\ \A m \in Message : pc[m] = "delete" => seen[m] \subseteq NoticeKept
              /\ LosersNoticed

\* A handler that is at its removal has either just read its subscribers, and
\* a task was created for each, or was there already.
LEMMA ReadersSpawn ==
  ASSUME Inv, [Next]_vars, NEW m \in Message, pc'[m] = "delete"
  PROVE  \/ pc[m] = "delete" /\ seen'[m] = seen[m]
         \/ crashes' = crashes /\ seen'[m] \subseteq Spawned
<1>1. CASE ReadMembers(m)
  <2>1. pc[m] = "members" /\ crashes' = crashes
    BY <1>1 DEF ReadMembers
  <2>2. PICK blocks \in Portions(todo[m]) :
          seen'[m] = PairsOf(blocks) /\ chunk'[m] = blocks
    BY <1>1 DEF ReadMembers, Inv, TypeOK
  <2>3. PairsOf(blocks) \subseteq Notices(PairsOf(blocks), blocks)
    BY DEF PairsOf, Notices, UsersOf
  <2>4. Reads(m)
    BY <2>1 DEF Reads
  <2>5. Notices(seen'[m], chunk'[m]) \subseteq Spawned
    BY <2>4 DEF Spawned
  <2> QED
    BY <2>1, <2>2, <2>3, <2>5
<1>2. ASSUME NEW n \in Message, Move(n), ~ReadMembers(m)
      PROVE  pc[m] = "delete" /\ seen'[m] = seen[m]
  <2>1. n # m
    BY <1>2, OnlyMembersDelete
  <2> QED
    BY <1>2, <2>1, OthersUntouched
<1>3. CASE \E b \in Block : ExpireSandbox(b)
  BY <1>3 DEF ExpireSandbox, handler
<1>4. ~Crash
  BY DEF Crash, InFlight
<1>5. CASE UNCHANGED vars
  BY <1>5 DEF vars, handler
<1> QED
  BY <1>1, <1>2, <1>3, <1>4, <1>5 DEF Next, Idle, Move

\* A deletion takes blocks only from those it has read.
LEMMA RemovalsWereSeen ==
  ASSUME Inv, [Next]_vars, NEW p \in Removals
  PROVE  \E m \in Message : pc[m] = "delete" /\ p \in seen[m]
<1>1. p \in User \X Block /\ p[2] \in userBlocks[p[1]] \ userBlocks'[p[1]]
  BY DEF Removals
<1>2. PICK m \in Message : Deletes(m)
  BY DEF Removals
<1>3. PICK k \in Message : WriteIndexes(k) \/ DeleteBlocks(k)
  BY <1>1, IndexWriters
<1>4. k = m
  BY <1>2, <1>3, OthersUntouched DEF Deletes, Move, Step
<1>5. DeleteBlocks(m)
  BY <1>2, <1>3, <1>4 DEF WriteIndexes, Deletes
<1>6. <<p[1], p[2]>> \in seen[m]
  BY <1>1, <1>5 DEF DeleteBlocks
<1> QED
  BY <1>1, <1>5, <1>6 DEF DeleteBlocks

LEMMA NoticesStep ==
  ASSUME Inv, NoticesInv, [NoticesNext]_noticeVars
  PROVE  NoticesInv'
<1>1. CASE Next /\ Follow
  <2>1. NoticeKept \subseteq NoticeKept'
    BY <1>1 DEF Follow, NoticeKept
  <2>2. ASSUME NEW m \in Message, pc'[m] = "delete"
        PROVE  seen'[m] \subseteq NoticeKept'
    BY <1>1, <2>1, <2>2, ReadersSpawn DEF Follow, NoticeKept, NoticesInv
  <2>3. Removals \subseteq NoticeKept
    BY <1>1, RemovalsWereSeen DEF NoticesInv
  <2>4. LosersNoticed'
    BY <1>1, <2>1, <2>3 DEF NoticesInv, LosersNoticed, Follow, NoticeKept
  <2> QED
    BY <2>2, <2>4 DEF NoticesInv
<1>2. CASE \E u \in User, b \in Block : SendNotice(u, b)
  <2>1. UNCHANGED <<pc, seen, removed>> /\ NoticeKept' = NoticeKept
    BY <1>2 DEF SendNotice, vars, handler, NoticeKept
  <2> QED
    BY <2>1 DEF NoticesInv, LosersNoticed, NoticeKept
<1>3. CASE UNCHANGED noticeVars
  BY <1>3 DEF noticeVars, vars, handler, NoticesInv, LosersNoticed, NoticeKept
<1> QED
  BY <1>1, <1>2, <1>3 DEF NoticesNext

\* Nobody loses a block to a deletion unannounced: for any messages, in any
\* interleaving of the handlers and of the tasks that send the notices, with
\* commands and replies lost, the notice has been sent, is still to be, or
\* died with the process.
THEOREM LosersAreNoticed == NoticesSpec => []LosersNoticed
<1>1. NoticesInit => Inv /\ NoticesInv
  BY InitInv DEF NoticesInit, Init, NoticesInv, LosersNoticed
<1>2. Inv /\ NoticesInv /\ [NoticesNext]_noticeVars => (Inv /\ NoticesInv)'
  <2> SUFFICES ASSUME Inv, NoticesInv, [NoticesNext]_noticeVars
               PROVE  Inv' /\ NoticesInv'
    OBVIOUS
  <2>1. [Next]_vars
    BY DEF NoticesNext, SendNotice, noticeVars
  <2> QED
    BY <2>1, NextInv, NoticesStep
<1>3. NoticesInv => LosersNoticed
  BY DEF NoticesInv
<1> QED
  BY <1>1, <1>2, <1>3, PTL DEF NoticesSpec
-----------------------------------------------------------------------------
(* The refinement.                                                         *)

Pullable == {p \in User \X Block : p[2] \in userBlocks[p[1]]}
Notified == {p \in User \X Block : p[1] \in blockSubscribers[p[2]]}
AnnouncedTo     == UNION {handed[m] : m \in {n \in Message : n.action = "unsubscribe"}}

\* Only an unsubscribe that reads its members announces a deletion.
LEMMA TellersRead ==
  ASSUME Inv, [Next]_vars, ~\E m \in Message : ReadMembers(m),
         NEW n \in Message, n.action = "unsubscribe"
  PROVE  handed'[n] = handed[n]
<1>1. ASSUME NEW m \in Message, Move(m)
      PROVE  handed'[n] = handed[n]
  <2>1. CASE m # n
    BY <1>1, <2>1, OthersUntouched
  <2>2. CASE m = n
    <3>1. pc[m] \notin {"subscribers", "lookup", "send", "notify"}
      BY <2>2 DEF Inv, HandlerInv, LabelInv, LabelsOf, UpdateActions
    <3>2. UNCHANGED handed
      BY <1>1, <3>1 DEF Move, Step, CommandLost, LookupFails, Deliver, Ack, Save, Incr,
         AppendEntries, CacheSandbox, ReadSubscribers, Lookup, SendToUser, WriteIndexes,
         BumpVersions, Notify, DeleteBlocks
    <3> QED
      BY <3>2
  <2> QED
    BY <2>1, <2>2
<1>2. CASE \E b \in Block : ExpireSandbox(b)
  BY <1>2 DEF ExpireSandbox, handler
<1>3. CASE Crash \/ UNCHANGED vars
  BY <1>3 DEF Crash, vars, handler
<1> QED
  BY <1>1, <1>2, <1>3 DEF Next, Idle, Move

\* One MULTI of an access handler is a grant or a revocation of the registry.
LEMMA WriteImplements ==
  ASSUME Inv, NEW m \in Message, WriteIndexes(m)
  PROVE  \E blocks \in SUBSET Block : Indexed!Grant(m.user, blocks) \/ Indexed!Revoke(m.user, blocks)
<1>1. m.user \in User
  BY MessageAssumption DEF WriteIndexes, Inv, HandlerInv, LabelInv, LabelsOf, UpdateActions
<1>2. PICK p \in AccessPortions(m) :
        /\ blockSubscribers' = PushIndex(m, p[1] \union p[2])
        /\ userBlocks' = PullIndex(m, p[1] \union p[2])
  BY DEF WriteIndexes
<1> DEFINE blocks == p[1] \union p[2]
<1>3. blocks \in SUBSET Block
  BY <1>2 DEF AccessPortions, Inv, TypeOK
<1>4. AnnouncedTo' = AnnouncedTo
  BY DEF WriteIndexes, AnnouncedTo
<1>5. \A u \in User, b \in Block :
        /\ b \in userBlocks'[u] <=>
             IF u = m.user /\ b \in blocks THEN ~Denies(m) ELSE b \in userBlocks[u]
        /\ u \in blockSubscribers'[b] <=>
             IF u = m.user /\ b \in blocks THEN ~Denies(m) ELSE u \in blockSubscribers[b]
  BY <1>1, <1>2 DEF PushIndex, PullIndex, Inv, TypeOK
<1>6. CASE ~Denies(m)
  <2>1. Pullable' = Pullable \union ({m.user} \X blocks)
    BY <1>1, <1>3, <1>5, <1>6 DEF Pullable
  <2>2. Notified' = Notified \union ({m.user} \X blocks)
    BY <1>1, <1>3, <1>5, <1>6 DEF Notified
  <2> QED
    BY <1>3, <1>4, <2>1, <2>2 DEF Indexed!Grant, Pullable, Notified, AnnouncedTo
<1>7. CASE Denies(m)
  <2>1. Pullable' = Pullable \ ({m.user} \X blocks)
    BY <1>1, <1>3, <1>5, <1>7 DEF Pullable
  <2>2. Notified' = Notified \ ({m.user} \X blocks)
    BY <1>1, <1>3, <1>5, <1>7 DEF Notified
  <2> QED
    BY <1>3, <1>4, <2>1, <2>2 DEF Indexed!Revoke, Pullable, Notified, AnnouncedTo
<1> QED
  BY <1>6, <1>7

\* Reading the members of a portion is an announcement to its readers.
LEMMA MembersImplement ==
  ASSUME Inv, NEW m \in Message, ReadMembers(m)
  PROVE  \E users \in SUBSET User, blocks \in SUBSET Block : Indexed!Announce(users, blocks)
<1>1. m.action = "unsubscribe"
  BY DEF ReadMembers, Inv, HandlerInv, LabelInv, LabelsOf, UpdateActions
<1>2. PICK blocks \in Portions(todo[m]) : HandOver(m, Notices(PairsOf(blocks), blocks))
  BY DEF ReadMembers
<1> DEFINE users == UsersOf(PairsOf(blocks))
<1>3. blocks \in SUBSET Block
  BY <1>2 DEF Portions, Inv, TypeOK
<1>4. users \in SUBSET User
  BY DEF UsersOf, PairsOf
<1> HIDE DEF users
<1>5. handed' = [handed EXCEPT ![m] = @ \union (users \X blocks)]
  BY <1>2 DEF HandOver, Notices, users
<1>6. AnnouncedTo' = AnnouncedTo \union (users \X blocks)
  <2>1. \A n \in Message : handed'[n] = IF n = m THEN handed[n] \union (users \X blocks) ELSE handed[n]
    BY <1>5 DEF Inv, TypeOK
  <2>2. \A p : p \in AnnouncedTo <=>
                \E n \in Message : n.action = "unsubscribe" /\ p \in handed[n]
    BY DEF AnnouncedTo
  <2>3. \A p : p \in AnnouncedTo' <=>
                \E n \in Message : n.action = "unsubscribe" /\ p \in handed'[n]
    BY DEF AnnouncedTo
  <2>4. \A p : p \in AnnouncedTo' <=> p \in AnnouncedTo \/ p \in users \X blocks
    <3> HIDE DEF AnnouncedTo
    <3> QED
      BY <1>1, <2>1, <2>2, <2>3
  <2> QED
    BY <2>4
<1>7. Pullable' = Pullable /\ Notified' = Notified
  BY DEF ReadMembers, store, Pullable, Notified
<1> QED
  BY <1>3, <1>4, <1>6, <1>7 DEF Indexed!Announce, Pullable, Notified, AnnouncedTo

\* A removal silences its blocks for everyone and takes them only from those
\* it was announced to.
LEMMA DeletionImplements ==
  ASSUME Inv, Announced, NEW m \in Message, DeleteBlocks(m)
  PROVE  \E blocks \in SUBSET Block : Indexed!Delete(blocks)
<1>1. m.action = "unsubscribe"
  BY DEF DeleteBlocks, Inv, HandlerInv, LabelInv, LabelsOf, UpdateActions
<1>2. seen[m] \subseteq handed[m] /\ seen[m] \subseteq User \X chunk[m]
  BY DEF DeleteBlocks, Announced, Inv, HandlerInv, LocalInv
<1>3. PICK blocks \in SUBSET Block : blocks = chunk[m]
  BY DEF Inv, TypeOK
<1>4. handed[m] \subseteq AnnouncedTo
  BY <1>1 DEF AnnouncedTo
<1>5. AnnouncedTo' = AnnouncedTo
  BY DEF DeleteBlocks, AnnouncedTo
<1>6. \A u \in User, b \in Block :
        /\ b \in userBlocks'[u] <=> b \in userBlocks[u] /\ <<u, b>> \notin seen[m]
        /\ u \in blockSubscribers'[b] <=> u \in blockSubscribers[b] /\ b \notin blocks
  BY <1>3 DEF DeleteBlocks, Cleared
<1>7. Pullable' \subseteq Pullable
  BY <1>6 DEF Pullable
<1>8. Pullable \ Pullable' \subseteq seen[m]
  BY <1>6 DEF Pullable
<1>9. Notified' = Notified \ (User \X blocks)
  BY <1>3, <1>6 DEF Notified
<1>10. Pullable \ Pullable' \subseteq AnnouncedTo \intersect (User \X blocks)
  BY <1>2, <1>3, <1>4, <1>8
<1> QED
  BY <1>5, <1>7, <1>9, <1>10 DEF Indexed!Delete, Pullable, Notified, AnnouncedTo

LEMMA StepImplements ==
  ASSUME Inv, Announced, [Next]_vars
  PROVE  [Indexed!Next]_(Indexed!vars)
<1>1. CASE \E m \in Message : WriteIndexes(m)
  <2>1. PICK m \in Message : WriteIndexes(m)
    BY <1>1
  <2>2. m.user \in User
    BY <2>1, MessageAssumption DEF WriteIndexes, Inv, HandlerInv, LabelInv, LabelsOf, UpdateActions
  <2> QED
    BY <2>1, <2>2, WriteImplements DEF Indexed!Next
<1>2. CASE \E m \in Message : DeleteBlocks(m)
  BY <1>2, DeletionImplements DEF Indexed!Next
<1>3. CASE \E m \in Message : ReadMembers(m)
  BY <1>3, MembersImplement DEF Indexed!Next
<1>4. CASE ~\E m \in Message : WriteIndexes(m) \/ DeleteBlocks(m) \/ ReadMembers(m)
  <2>1. UNCHANGED <<blockSubscribers, userBlocks>>
    BY <1>4, IndexWriters
  <2>2. Pullable' = Pullable /\ Notified' = Notified
    BY <2>1 DEF Pullable, Notified
  <2>3. \A n \in Message : n.action = "unsubscribe" => handed'[n] = handed[n]
    BY <1>4, TellersRead
  <2>4. AnnouncedTo' = AnnouncedTo
    BY <2>3 DEF AnnouncedTo
  <2> QED
    BY <2>2, <2>4 DEF Indexed!vars, Pullable, Notified, AnnouncedTo
<1> QED
  BY <1>1, <1>2, <1>3, <1>4

\* The initial subscriptions are the same pairs in both indexes, and no
\* deletion has been announced.
LEMMA InitImplements ==
  ASSUME Init
  PROVE  Indexed!Init
<1>1. Pullable = InitialSubscriptions /\ Notified = InitialSubscriptions
  BY InitialAssumption DEF Init, Pullable, Notified
<1>2. AnnouncedTo = {}
  BY DEF Init, AnnouncedTo
<1> QED
  BY <1>1, <1>2, InitialAssumption DEF Indexed!Init, Pullable, Notified, AnnouncedTo

\* The handlers, portion by portion, with commands and replies lost, restarts
\* and redelivery, implement the registry: access changes in both indexes at
\* once, and a deletion takes a block only from those it was announced to.
THEOREM RegistryImplemented == Spec => ImplementsRegistry
<1>1. Init => Indexed!Init
  BY InitImplements
<1>2. Inv /\ Announced /\ [Next]_vars => [Indexed!Next]_(Indexed!vars)
  BY StepImplements
<1>3. Spec => [](Inv /\ Announced)
  BY AnnouncedInvariant
<1> QED
  BY <1>1, <1>2, <1>3, PTL DEF Spec, ImplementsRegistry, Indexed!Spec
=============================================================================
