-------------------------- MODULE CursorSyncProofs --------------------------
(***************************************************************************)
(* What is proved of CursorSync for every set of users, clients, blocks    *)
(* and messages, any page limit and any settings: the types; that no       *)
(* answer moves a cursor back; that a client with the current version      *)
(* knows its subscriptions unless a bump is due or was dropped; and that   *)
(* a client that has caught up has missed nothing but what is recorded.    *)
(***************************************************************************)
EXTENDS CursorSync, SyncStoreProofs

-----------------------------------------------------------------------------
(* The steps of the system as steps of the store.                          *)

\* A step of the consumer is a step of the store that no client takes part in.
LEMMA StoreStepIsNext ==
  ASSUME StoreStep
  PROVE  [Next]_vars /\ UNCHANGED client
BY DEF StoreStep, Next

\* A request leaves the store alone.
LEMMA SyncStepKeepsStore ==
  ASSUME NEW u \in Client, SyncStep(u)
  PROVE  UNCHANGED vars
BY DEF SyncStep, Request, ReadVersion, CountSubscriptions, CheckRetention, ReadPage,
   CheckMembership, ReadData, Respond, ReadSeq, Reload

\* A failed request counts as a failure and leaves the rest of the store alone.
LEMMA DisconnectKeepsStore ==
  ASSUME Inv, NumbersInv, NEW u \in Client, Disconnect(u)
  PROVE  Inv' /\ NumbersInv' /\ UNCHANGED <<store, handler>>
<1>1. UNCHANGED <<store, handler, crashes>> /\ failures' \in 0..MaxFailures
  BY SettingsAssumption DEF Disconnect, Fail, Inv, TypeOK
<1>2. UNCHANGED <<blockSubscribers, userBlocks, subVersion, seq, changelog, blockData,
                  sandbox, pc, todo, chunk, seen, seqEnd, handed, crashes>>
  BY <1>1 DEF store, handler
<1>3. TypeOK'
  BY <1>1, <1>2 DEF Inv, TypeOK
<1>4. LabelInv' /\ LocalInv'
  BY <1>2 DEF Inv, HandlerInv, LabelInv, LocalInv, LabelsOf
<1>5. AllocationInv'
  BY <1>2 DEF Inv, HandlerInv, AllocationInv, Events
<1>6. NumbersKept
  BY <1>2 DEF NumbersKept
<1> QED
  BY <1>1, <1>3, <1>4, <1>5, <1>6, NumbersKeptStep DEF Inv, HandlerInv

LEMMA StoreInvStep ==
  ASSUME Inv, NumbersInv, [SyncNext]_syncVars
  PROVE  Inv' /\ NumbersInv'
<1>1. ASSUME [Next]_vars
      PROVE  Inv' /\ NumbersInv'
  BY <1>1, NextInv, NumberWriters, IncrNumbers, AppendNumbers, NumbersKeptStep
<1>2. CASE StoreStep
  BY <1>1, <1>2, StoreStepIsNext
<1>3. CASE \E u \in Client : SyncStep(u)
  BY <1>1, <1>3, SyncStepKeepsStore
<1>4. CASE \E u \in Client : Disconnect(u)
  BY <1>4, DisconnectKeepsStore
<1>5. CASE UNCHANGED syncVars
  BY <1>1, <1>5 DEF syncVars
<1> QED
  BY <1>2, <1>3, <1>4, <1>5 DEF SyncNext

\* Only the access handlers' INCR writes the versions.
LEMMA VersionWriters ==
  ASSUME [Next]_vars
  PROVE  (\E m \in Message : BumpVersions(m)) \/ UNCHANGED subVersion
<1>1. ASSUME NEW m \in Message, Step(m), ~BumpVersions(m)
      PROVE  UNCHANGED subVersion
  BY <1>1 DEF Step, Deliver, Ack, Save, Incr, AppendEntries, CacheSandbox, ReadSubscribers,
     Lookup, SendToUser, WriteIndexes, Notify, ReadMembers, DeleteBlocks, store
<1>2. ASSUME NEW m \in Message, CommandLost(m) \/ LookupFails(m)
      PROVE  UNCHANGED subVersion
  BY <1>2 DEF CommandLost, LookupFails, store
<1>3. ASSUME NEW b \in Block, ExpireSandbox(b)
      PROVE  UNCHANGED subVersion
  BY <1>3 DEF ExpireSandbox
<1>4. Crash \/ UNCHANGED vars => UNCHANGED subVersion
  BY DEF Crash, vars, store
<1> QED
  BY <1>1, <1>2, <1>3, <1>4 DEF Next, Idle

\* The counter and the versions only grow.
LEMMA StoreGrows ==
  ASSUME Inv, [SyncNext]_syncVars
  PROVE  seq' >= seq /\ \A u \in User : subVersion'[u] >= subVersion[u]
<1>1. seq \in Nat /\ subVersion \in [User -> Nat]
  BY DEF Inv, TypeOK
<1>2. ASSUME [Next]_vars
      PROVE  seq' >= seq /\ \A u \in User : subVersion'[u] >= subVersion[u]
  <2>1. ASSUME NEW m \in Message, Incr(m)
        PROVE  seq' >= seq
    <3>1. Allocation(m) \in Nat
      BY EventsFinite DEF Allocation, Inv
    <3> QED
      BY <1>1, <2>1, <3>1 DEF Incr
  <2>2. ASSUME NEW m \in Message, AppendEntries(m)
        PROVE  seq' >= seq
    BY <1>1, <2>2 DEF AppendEntries
  <2>3. seq' >= seq
    BY <1>1, <1>2, <2>1, <2>2, NumberWriters DEF NumbersKept
  <2>4. (\E m \in Message : BumpVersions(m)) \/ UNCHANGED subVersion
    BY <1>2, VersionWriters
  <2> QED
    BY <1>1, <2>3, <2>4 DEF BumpVersions
<1>3. CASE StoreStep
  BY <1>2, <1>3, StoreStepIsNext
<1>4. CASE \E u \in Client : SyncStep(u)
  BY <1>2, <1>4, SyncStepKeepsStore
<1>5. CASE \E u \in Client : Disconnect(u)
  BY <1>1, <1>5 DEF Disconnect, store
<1>6. CASE UNCHANGED syncVars
  BY <1>2, <1>6 DEF syncVars
<1> QED
  BY <1>3, <1>4, <1>5, <1>6 DEF SyncNext
-----------------------------------------------------------------------------
(* The cursor.                                                             *)

\* The next cursor is the highest number on the page: above the client's and
\* never above the counter.
LEMMA NextCursorHighest ==
  ASSUME Inv, NumbersInv, SyncTypeOK, NEW u \in Client, Page(u) # {}
  PROVE  /\ NextCursor(Page(u)) \in Nat
         /\ cursor[u] < NextCursor(Page(u))
         /\ NextCursor(Page(u)) <= seq
         /\ \A e \in Page(u) : e.seq <= NextCursor(Page(u))
         /\ \E e \in Page(u) : e.seq = NextCursor(Page(u))
<1> DEFINE S == {e.seq : e \in Page(u)}
<1>1. seq \in Nat /\ cursor[u] \in Nat
  BY DEF Inv, TypeOK, SyncTypeOK
<1>2. \A e \in Page(u) : e.seq \in 1..seq /\ e.seq > cursor[u]
  BY DEF Page, NumbersInv, SeqsUnique
<1>3. S \subseteq 0..seq /\ S # {}
  BY <1>1, <1>2
<1>4. PICK n \in S : \A k \in S : k <= n
  <2> HIDE DEF S
  <2> QED
    BY <1>1, <1>3, HasGreatest
<1>5. \E k \in S : \A e \in Page(u) : e.seq <= k
  BY <1>4
<1>6. NextCursor(Page(u)) \in S /\ \A e \in Page(u) : e.seq <= NextCursor(Page(u))
  BY <1>5 DEF NextCursor
<1>7. PICK e \in Page(u) : e.seq = NextCursor(Page(u))
  BY <1>6
<1>8. NextCursor(Page(u)) \in 1..seq /\ NextCursor(Page(u)) > cursor[u]
  BY <1>2, <1>7
<1> QED
  BY <1>1, <1>6, <1>7, <1>8

\* The types, step by step.  The latest event of each block is on the page.
LEMMA PageTypes ==
  ASSUME Inv, NEW u \in Client
  PROVE  /\ LatestByBlock(Page(u)) \in SUBSET ChangelogEntry
         /\ {e.block : e \in Page(u)} \in SUBSET Block
<1>1. Page(u) \subseteq ChangelogEntry
  BY DEF Page, Inv, TypeOK
<1> QED
  BY <1>1 DEF LatestByBlock, ChangelogEntry

LEMMA TypesOfInit ==
  ASSUME SyncInit
  PROVE  SyncTypeOK
<1>1. userBlocks \in [User -> SUBSET Block] /\ subVersion \in [User -> Nat]
      /\ blockData \in [Block -> Nat] /\ Client \subseteq User
  BY InitInv, ClientAssumption DEF SyncInit, Inv, TypeOK
<1>2. /\ cursor \in [Client -> Nat]
      /\ clientVer \in [Client -> Nat]
      /\ known \in [Client -> SUBSET Block]
      /\ rpc \in [Client -> RequestLabels]
      /\ rver \in [Client -> Nat]
      /\ rcur \in [Client -> Nat]
      /\ revents \in [Client -> SUBSET ChangelogEntry]
      /\ rleft \in [Client -> SUBSET Block]
      /\ lost \subseteq Client \X Block
      /\ unbumped \subseteq Client
      /\ gone \subseteq Block
  BY <1>1 DEF SyncInit, RequestLabels
<1>3. view \in [Client -> [Block -> Nat]] /\ rdata \in [Client -> [Block -> Nat]]
  BY <1>1 DEF SyncInit
<1> QED
  BY <1>2, <1>3 DEF SyncTypeOK

\* The history variables only ever name clients and blocks.
LEMMA TypesOfStoreStep ==
  ASSUME Inv, SyncTypeOK, StoreStep
  PROVE  SyncTypeOK'
<1>1. UNCHANGED <<cursor, clientVer, view, known, rpc, rver, rcur, revents, rleft, rdata>>
  BY DEF StoreStep, client
<1>2. lost' \subseteq Client \X Block /\ unbumped' \subseteq Client
  BY DEF StoreStep, SyncTypeOK
<1>3. changelog' \subseteq ChangelogEntry
  BY StoreStepIsNext, NextInv DEF Inv, TypeOK
<1>4. Deletes(LatestByBlock(changelog')) \subseteq Block
  BY <1>3 DEF Deletes, LatestByBlock, ChangelogEntry
<1>5. gone' \subseteq Block
  BY <1>4 DEF StoreStep, NewestDeletes, SyncTypeOK
<1> QED
  BY <1>1, <1>2, <1>5 DEF SyncTypeOK

\* What ends a request.
LEMMA TypesOfDone ==
  ASSUME SyncTypeOK, NEW u \in Client, Done(u)
  PROVE  /\ rpc' \in [Client -> RequestLabels]
         /\ rver' \in [Client -> Nat]
         /\ rcur' \in [Client -> Nat]
         /\ revents' \in [Client -> SUBSET ChangelogEntry]
         /\ rleft' \in [Client -> SUBSET Block]
         /\ rdata' \in [Client -> [Block -> Nat]]
BY DEF SyncTypeOK, Done, Proceed, RequestLabels

\* A step that moves the request and touches nothing a client keeps.
LEMMA TypesOfMove ==
  ASSUME SyncTypeOK, NEW u \in Client, NEW label \in RequestLabels, Proceed(u, label)
  PROVE  rpc' \in [Client -> RequestLabels]
BY DEF SyncTypeOK, Proceed

LEMMA TypesOfSyncStep ==
  ASSUME Inv, NumbersInv, SyncTypeOK, NEW u \in Client, SyncStep(u)
  PROVE  SyncTypeOK'
<1> USE DEF SyncTypeOK
<1>1. Client \subseteq User /\ subVersion \in [User -> Nat] /\ seq \in Nat
      /\ userBlocks \in [User -> SUBSET Block] /\ blockData \in [Block -> Nat]
  BY ClientAssumption DEF Inv, TypeOK
<1>2. CASE Request(u)
  BY <1>2, TypesOfMove DEF Request, RequestLabels, history
<1>3. CASE ReadVersion(u)
  <2>1. rpc' \in [Client -> RequestLabels]
    BY <1>3, TypesOfMove DEF ReadVersion, RequestLabels
  <2> QED
    BY <1>1, <1>3, <2>1 DEF ReadVersion, history
<1>4. CASE CountSubscriptions(u)
  <2>1. rpc' \in [Client -> RequestLabels]
    BY <1>4, TypesOfMove DEF CountSubscriptions, RequestLabels
  <2> QED
    BY <1>4, <2>1 DEF CountSubscriptions, history
<1>5. CASE CheckRetention(u)
  <2>1. rpc' \in [Client -> RequestLabels]
    BY <1>5, TypesOfMove DEF CheckRetention, RequestLabels
  <2> QED
    BY <1>5, <2>1 DEF CheckRetention, history
<1>6. CASE ReadPage(u)
  <2>1. rpc' \in [Client -> RequestLabels]
    BY <1>6, TypesOfMove DEF ReadPage, RequestLabels
  <2>2. /\ rcur' \in [Client -> Nat]
        /\ revents' \in [Client -> SUBSET ChangelogEntry]
        /\ rleft' \in [Client -> SUBSET Block]
    <3>1. CASE Page(u) = {}
      BY <1>6, <3>1 DEF ReadPage
    <3>2. CASE Page(u) # {}
      <4>1. NextCursor(Page(u)) \in Nat
        BY <3>2, NextCursorHighest
      <4>2. /\ rcur' = [rcur EXCEPT ![u] = NextCursor(Page(u))]
            /\ revents' = [revents EXCEPT ![u] = LatestByBlock(Page(u))]
            /\ rleft' = [rleft EXCEPT ![u] = {e.block : e \in Page(u)}]
        BY <1>6, <3>2 DEF ReadPage
      <4> QED
        BY <4>1, <4>2, PageTypes
    <3> QED
      BY <3>1, <3>2
  <2> QED
    BY <1>6, <2>1, <2>2 DEF ReadPage, history
<1>7. ASSUME NEW c \in Block, CheckMembership(u, c)
      PROVE  SyncTypeOK'
  <2>1. rpc' \in [Client -> RequestLabels]
    BY <1>7, TypesOfMove DEF CheckMembership, RequestLabels
  <2>2. PICK relevant \in SUBSET revents[u] :
          /\ revents' = [revents EXCEPT ![u] = relevant]
          /\ rleft' = [rleft EXCEPT ![u] = IF rleft[u] \ {c} # {} THEN rleft[u] \ {c}
                                           ELSE Upserts(relevant)]
    BY <1>7 DEF CheckMembership
  <2>3. Upserts(relevant) \subseteq Block
    BY DEF Upserts, ChangelogEntry
  <2>4. revents' \in [Client -> SUBSET ChangelogEntry] /\ rleft' \in [Client -> SUBSET Block]
    BY <2>2, <2>3
  <2> QED
    BY <1>7, <2>1, <2>4 DEF CheckMembership, history
<1>8. ASSUME NEW c \in Block, ReadData(u, c)
      PROVE  SyncTypeOK'
  <2>1. rpc' \in [Client -> RequestLabels]
    BY <1>8, TypesOfMove DEF ReadData, RequestLabels
  <2>2. rdata' \in [Client -> [Block -> Nat]] /\ rleft' \in [Client -> SUBSET Block]
    BY <1>1, <1>8 DEF ReadData
  <2> QED
    BY <1>8, <2>1, <2>2 DEF ReadData, history
<1>9. CASE Respond(u)
  <2>1. Applied(u) \in [Block -> Nat]
    BY DEF Applied
  <2>2. /\ view' \in [Client -> [Block -> Nat]]
        /\ cursor' \in [Client -> Nat]
        /\ clientVer' \in [Client -> Nat]
    BY <1>9, <2>1 DEF Respond
  <2> QED
    BY <1>9, <2>2, TypesOfDone DEF Respond, history
<1>10. CASE ReadSeq(u)
  <2>1. rpc' \in [Client -> RequestLabels]
    BY <1>10, TypesOfMove DEF ReadSeq, RequestLabels
  <2>2. rcur' \in [Client -> Nat]
    BY <1>1, <1>10 DEF ReadSeq, ResyncCursor
  <2> QED
    BY <1>10, <2>1, <2>2 DEF ReadSeq, history
<1>11. CASE Reload(u)
  <2>1. /\ view' \in [Client -> [Block -> Nat]]
        /\ known' \in [Client -> SUBSET Block]
        /\ cursor' \in [Client -> Nat]
        /\ clientVer' \in [Client -> Nat]
    BY <1>1, <1>11 DEF Reload
  <2>2. lost' \subseteq Client \X Block /\ unbumped' \subseteq Client
    BY <1>11 DEF Reload
  <2> QED
    BY <1>11, <2>1, <2>2, TypesOfDone DEF Reload
<1> QED
  BY <1>2, <1>3, <1>4, <1>5, <1>6, <1>7, <1>8, <1>9, <1>10, <1>11 DEF SyncStep

LEMMA TypesStep ==
  ASSUME Inv, NumbersInv, SyncTypeOK, [SyncNext]_syncVars
  PROVE  SyncTypeOK'
<1>1. CASE \E u \in Client : Disconnect(u)
  BY <1>1, TypesOfDone DEF Disconnect, SyncTypeOK, history
<1>2. CASE UNCHANGED syncVars
  BY <1>2 DEF syncVars, client, history, SyncTypeOK
<1> QED
  BY <1>1, <1>2, TypesOfStoreStep, TypesOfSyncStep DEF SyncNext

\* No cursor, and none about to be answered, is above the counter; the one
\* about to be answered is not below the client's.
PositionInv ==
  \A u \in Client :
    /\ cursor[u] <= seq
    /\ rpc[u] \in {"member", "data", "respond", "reload"} =>
         cursor[u] <= rcur[u] /\ rcur[u] <= seq

LEMMA PositionStep ==
  ASSUME Inv, NumbersInv, SyncTypeOK, PositionInv, [SyncNext]_syncVars
  PROVE  PositionInv' /\ \A u \in Client : cursor'[u] >= cursor[u]
<1>1. /\ seq \in Nat /\ seq' \in Nat /\ seq' >= seq
      /\ cursor \in [Client -> Nat] /\ rcur \in [Client -> Nat]
      /\ rpc \in [Client -> RequestLabels]
  BY StoreInvStep, StoreGrows DEF Inv, TypeOK, SyncTypeOK
<1> SUFFICES ASSUME NEW u \in Client
             PROVE  /\ cursor'[u] <= seq'
                    /\ rpc'[u] \in {"member", "data", "respond", "reload"} =>
                         cursor'[u] <= rcur'[u] /\ rcur'[u] <= seq'
                    /\ cursor'[u] >= cursor[u]
  BY DEF PositionInv
<1>2. /\ cursor[u] \in Nat /\ rcur[u] \in Nat /\ cursor[u] <= seq
      /\ rpc[u] \in {"member", "data", "respond", "reload"} =>
           cursor[u] <= rcur[u] /\ rcur[u] <= seq
  BY <1>1 DEF PositionInv
<1>3. CASE UNCHANGED <<cursor[u], rcur[u], rpc[u]>>
  BY <1>1, <1>2, <1>3
<1>4. ASSUME NEW v \in Client, Disconnect(v)
      PROVE  /\ cursor'[u] = cursor[u]
             /\ rpc'[u] = "idle" \/ UNCHANGED <<rcur[u], rpc[u]>>
  BY <1>1, <1>4 DEF Disconnect, Done, Proceed
<1>5. ASSUME NEW v \in Client, SyncStep(v), v # u
      PROVE  UNCHANGED <<cursor[u], rcur[u], rpc[u]>>
  BY <1>1, <1>5 DEF SyncStep, Request, ReadVersion, CountSubscriptions, CheckRetention,
     ReadPage, CheckMembership, ReadData, Respond, ReadSeq, Reload, Done, Proceed
<1>6. CASE SyncStep(u)
  <2>1. CASE ReadPage(u)
    BY <1>1, <1>2, <2>1, NextCursorHighest DEF ReadPage, Proceed
  <2>2. CASE ReadSeq(u)
    BY <1>1, <1>2, <2>2 DEF ReadSeq, Proceed, ResyncCursor
  <2>3. CASE Respond(u) \/ Reload(u)
    BY <1>1, <1>2, <2>3 DEF Respond, Reload, Done, Proceed, At
  <2>4. CASE Request(u) \/ ReadVersion(u) \/ CountSubscriptions(u) \/ CheckRetention(u)
    BY <1>1, <1>2, <2>4
       DEF Request, ReadVersion, CountSubscriptions, CheckRetention, Proceed, At
  <2>5. CASE \E c \in Block : CheckMembership(u, c) \/ ReadData(u, c)
    BY <1>1, <1>2, <2>5 DEF CheckMembership, ReadData, Proceed, At
  <2> QED
    BY <1>6, <2>1, <2>2, <2>3, <2>4, <2>5 DEF SyncStep
<1>7. CASE StoreStep \/ UNCHANGED syncVars
  BY <1>3, <1>7 DEF StoreStep, syncVars, client
<1> QED
  BY <1>1, <1>2, <1>3, <1>4, <1>5, <1>6, <1>7 DEF SyncNext

\* The invariant of every behaviour, fair or not.
CursorInv == Inv /\ NumbersInv /\ SyncTypeOK /\ PositionInv

LEMMA CursorInvInit ==
  ASSUME SyncInit
  PROVE  CursorInv
<1>1. Inv /\ NumbersInv
  BY InitInv DEF SyncInit, Init, NumbersInv, SeqsUnique, AllocationsDisjoint
<1>2. PositionInv
  BY DEF SyncInit, Init, PositionInv
<1> QED
  BY <1>1, <1>2, TypesOfInit DEF CursorInv

LEMMA CursorInvStep ==
  ASSUME CursorInv, [SyncNext]_syncVars
  PROVE  CursorInv'
BY StoreInvStep, TypesStep, PositionStep DEF CursorInv

\* Every variable of the clients and of their requests keeps its type: the next
\* cursor, chosen as the highest number on a page, always exists.
THEOREM SyncTypeCorrect == SyncSpec => []SyncTypeOK
<1>1. CursorInv => SyncTypeOK
  BY DEF CursorInv
<1> QED
  BY <1>1, CursorInvInit, CursorInvStep, PTL DEF SyncSpec

\* No answer moves a client's cursor back: not a page, not a resync, however
\* the consumer's handlers, failures and restarts fall between the round trips.
THEOREM CursorsAdvance == SyncSpec => CursorMonotone
<1>1. CursorInv /\ [SyncNext]_syncVars => [\A u \in Client : cursor'[u] >= cursor[u]]_syncVars
  BY PositionStep DEF CursorInv
<1> QED
  BY <1>1, CursorInvInit, CursorInvStep, PTL DEF SyncSpec, CursorMonotone
-----------------------------------------------------------------------------
(* The subscription versions.                                              *)

\* What a client was told of its version was counted; and a request that has
\* passed the version check carries the version the client already has.
VersionInv ==
  \A u \in Client :
    /\ clientVer[u] <= subVersion[u]
    /\ rver[u] <= subVersion[u]
    /\ rpc[u] \in {"count", "retention", "page", "member", "data", "respond"} =>
         rver[u] = clientVer[u]

LEMMA VersionStep ==
  ASSUME CursorInv, VersionInv, [SyncNext]_syncVars
  PROVE  VersionInv'
<1>1. /\ subVersion \in [User -> Nat] /\ subVersion' \in [User -> Nat]
      /\ \A u \in User : subVersion'[u] >= subVersion[u]
      /\ clientVer \in [Client -> Nat] /\ rver \in [Client -> Nat]
      /\ rpc \in [Client -> RequestLabels]
  BY StoreInvStep, StoreGrows DEF CursorInv, Inv, TypeOK, SyncTypeOK
<1> SUFFICES ASSUME NEW u \in Client
             PROVE  /\ clientVer'[u] <= subVersion'[u]
                    /\ rver'[u] <= subVersion'[u]
                    /\ rpc'[u] \in {"count", "retention", "page", "member", "data", "respond"} =>
                         rver'[u] = clientVer'[u]
  BY DEF VersionInv
<1>2. /\ u \in User /\ clientVer[u] \in Nat /\ rver[u] \in Nat
      /\ subVersion[u] \in Nat /\ subVersion'[u] \in Nat /\ subVersion'[u] >= subVersion[u]
      /\ clientVer[u] <= subVersion[u] /\ rver[u] <= subVersion[u]
      /\ rpc[u] \in {"count", "retention", "page", "member", "data", "respond"} =>
           rver[u] = clientVer[u]
  BY <1>1, ClientAssumption DEF VersionInv
<1>3. CASE UNCHANGED <<clientVer[u], rver[u], rpc[u]>>
  BY <1>2, <1>3
<1>4. ASSUME NEW v \in Client, Disconnect(v), v = u
      PROVE  clientVer'[u] = clientVer[u] /\ rver'[u] = 0 /\ rpc'[u] = "idle"
  BY <1>1, <1>4 DEF Disconnect, Done, Proceed
<1>5. ASSUME NEW v \in Client, SyncStep(v) \/ Disconnect(v), v # u
      PROVE  UNCHANGED <<clientVer[u], rver[u], rpc[u]>>
  BY <1>1, <1>5 DEF SyncStep, Request, ReadVersion, CountSubscriptions, CheckRetention,
     ReadPage, CheckMembership, ReadData, Respond, ReadSeq, Reload, Disconnect, Done, Proceed
<1>6. CASE SyncStep(u)
  <2>1. CASE ReadVersion(u)
    <3>1. rver'[u] = subVersion[u] /\ clientVer'[u] = clientVer[u]
          /\ rpc'[u] = IF clientVer[u] = subVersion[u] THEN "count" ELSE "resync"
      BY <1>1, <2>1 DEF ReadVersion, Proceed
    <3> QED
      BY <1>2, <3>1
  <2>2. CASE Respond(u) \/ Reload(u)
    <3>1. rver'[u] = 0 /\ clientVer'[u] = rver[u] /\ rpc'[u] = "idle"
      BY <1>1, <2>2 DEF Respond, Reload, Done, Proceed
    <3> QED
      BY <1>2, <3>1
  <2>3. CASE Request(u) \/ CountSubscriptions(u) \/ CheckRetention(u) \/ ReadPage(u)
    <3>1. /\ UNCHANGED <<clientVer[u], rver[u]>>
          /\ \/ rpc'[u] = "version"
             \/ rpc[u] \in {"count", "retention", "page"}
      BY <1>1, <2>3 DEF Request, CountSubscriptions, CheckRetention, ReadPage, Proceed, At
    <3> QED
      BY <1>2, <3>1
  <2>4. CASE ReadSeq(u) \/ \E c \in Block : CheckMembership(u, c) \/ ReadData(u, c)
    <3>1. /\ UNCHANGED <<clientVer[u], rver[u]>>
          /\ \/ rpc'[u] = "reload"
             \/ rpc[u] \in {"member", "data"}
      BY <1>1, <2>4 DEF CheckMembership, ReadData, ReadSeq, Proceed, At
    <3> QED
      BY <1>2, <3>1
  <2> QED
    BY <1>6, <2>1, <2>2, <2>3, <2>4 DEF SyncStep
<1>7. CASE StoreStep \/ UNCHANGED syncVars
  BY <1>3, <1>7 DEF StoreStep, syncVars, client
<1> QED
  BY <1>2, <1>3, <1>4, <1>5, <1>6, <1>7 DEF SyncNext

\* Whoever has somebody's version to bump goes to the counter.
LEMMA BumpsAhead ==
  ASSUME NEW m \in Message
  PROVE  /\ m.action \in {"update_access", "subscribe"} =>
              EnterBump(m) = "bump" /\ FirstStep(m) \in {"write", "bump"}
         /\ m.action = "unsubscribe" /\ UsersOf(seen[m]) # {} => EnterBump(m) = "bump"
<1>1. m.action \in {"update_access", "subscribe"} => EnterBump(m) = "bump"
  BY EnabledAssumption DEF EnterBump, Affected
<1>2. m.action \in {"update_access", "subscribe"} => FirstStep(m) \in {"write", "bump"}
  BY <1>1 DEF FirstStep
<1>3. m.action = "unsubscribe" /\ UsersOf(seen[m]) # {} => EnterBump(m) = "bump"
  BY EnabledAssumption DEF EnterBump, Affected
<1> QED
  BY <1>1, <1>2, <1>3

\* A debt lasts until it is paid, unless a failure or a crash cancels it.
LEMMA OwedUntilBumped ==
  ASSUME Inv, NEW u \in User, NEW m \in Message, Owes(m, u), StoreStep
  PROVE  \/ Owes(m, u)'
         \/ subVersion'[u] # subVersion[u]
         \/ failures' # failures
         \/ crashes' # crashes
<1>1. /\ pc \in [Message -> Labels] /\ failures \in Nat /\ crashes \in Nat
      /\ seen \in [Message -> SUBSET (User \X Block)] /\ subVersion \in [User -> Nat]
  BY SettingsAssumption DEF Inv, TypeOK
<1>2. \A label : Replied(m, label) => pc'[m] = label \/ failures' # failures
  BY <1>1 DEF Replied, Goto, Fail
<1>3. ASSUME NEW n \in Message, Step(n) \/ CommandLost(n) \/ LookupFails(n), n # m
      PROVE  Owes(m, u)'
  <2>1. pc'[m] = pc[m] /\ seen'[m] = seen[m]
    BY <1>3, OthersStay
  <2> QED
    BY <2>1 DEF Owes, UsersOf
<1>4. CASE CommandLost(m) \/ LookupFails(m) \/ Crash
  BY <1>1, <1>4 DEF CommandLost, LookupFails, Crash, Fail
<1>5. CASE Step(m)
  <2>1. CASE Deliver(m)
    <3>1. m.action \in {"update_access", "subscribe"} /\ m.user = u
      BY <2>1 DEF Owes, Deliver
    <3>2. pc'[m] \in {"write", "bump"}
      BY <1>1, <2>1, <3>1, BumpsAhead DEF Deliver, Goto
    <3> QED
      BY <3>1, <3>2 DEF Owes
  <2>2. CASE WriteIndexes(m)
    <3>1. m.action \in {"update_access", "subscribe"} /\ m.user = u
      BY <2>2 DEF Owes, WriteIndexes
    <3>2. EnterBump(m) = "bump"
      BY <3>1, BumpsAhead
    <3>3. pc'[m] \in {"write", "bump"} \/ failures' # failures
      BY <1>2, <2>2, <3>2 DEF WriteIndexes
    <3> QED
      BY <3>1, <3>3 DEF Owes
  <2>3. CASE BumpVersions(m)
    <3>1. u \in Affected(m)
      BY <2>3 DEF Owes, BumpVersions, Affected
    <3> QED
      BY <1>1, <2>3, <3>1 DEF BumpVersions
  <2>4. CASE Incr(m)
    <3>1. m.action = "unsubscribe" /\ u \in UsersOf(seen[m]) /\ seen' = seen
      BY <2>4 DEF Owes, Incr
    <3>2. pc'[m] = "append" \/ failures' # failures
      BY <1>2, <2>4 DEF Incr
    <3> QED
      BY <3>1, <3>2 DEF Owes, UsersOf
  <2>5. CASE AppendEntries(m)
    <3>1. m.action = "unsubscribe" /\ u \in UsersOf(seen[m]) /\ seen' = seen
      BY <2>5 DEF Owes, AppendEntries
    <3>2. AfterAppend(m) = "bump"
      BY <3>1, BumpsAhead DEF AfterAppend
    <3>3. pc'[m] = "bump" \/ failures' # failures
      BY <1>2, <2>5, <3>2 DEF AppendEntries
    <3> QED
      BY <3>1, <3>3 DEF Owes, UsersOf
  <2>6. CASE \/ Ack(m) \/ Save(m) \/ CacheSandbox(m) \/ ReadSubscribers(m) \/ Lookup(m)
             \/ SendToUser(m) \/ Notify(m) \/ ReadMembers(m) \/ DeleteBlocks(m)
    BY <2>6 DEF Owes, Ack, Save, CacheSandbox, ReadSubscribers, Lookup, SendToUser, Notify,
       ReadMembers, DeleteBlocks
  <2> QED
    BY <1>5, <2>1, <2>2, <2>3, <2>4, <2>5, <2>6 DEF Step
<1> QED
  BY <1>3, <1>4, <1>5 DEF StoreStep

\* Whoever changes a user's subscriptions owes the user a version, unless a
\* failure takes the handler elsewhere.
LEMMA ChangedIsOwed ==
  ASSUME Inv, NEW u \in User, StoreStep, userBlocks'[u] # userBlocks[u]
  PROVE  (\E m \in Message : Owes(m, u)') \/ failures' # failures
<1>1. /\ pc \in [Message -> Labels] /\ failures \in Nat
      /\ seen \in [Message -> SUBSET (User \X Block)]
      /\ userBlocks \in [User -> SUBSET Block]
  BY SettingsAssumption DEF Inv, TypeOK
<1>2. ASSUME NEW m \in Message, NEW label, Replied(m, label)
      PROVE  pc'[m] = label \/ failures' # failures
  BY <1>1, <1>2 DEF Replied, Goto, Fail
<1>3. PICK m \in Message : WriteIndexes(m) \/ DeleteBlocks(m)
  BY StoreStepIsNext, IndexWriters
<1>4. CASE WriteIndexes(m)
  <2>1. m.action \in {"update_access", "subscribe"}
    BY <1>4 DEF WriteIndexes, Inv, HandlerInv, LabelInv, LabelsOf, UpdateActions
  <2>2. m.user = u
    BY <1>1, <1>4 DEF WriteIndexes, PullIndex
  <2>3. EnterBump(m) = "bump"
    BY <2>1, BumpsAhead
  <2>4. pc'[m] \in {"write", "bump"} \/ failures' # failures
    BY <1>2, <1>4, <2>3 DEF WriteIndexes
  <2> QED
    BY <2>1, <2>2, <2>4 DEF Owes
<1>5. CASE DeleteBlocks(m)
  <2>1. m.action = "unsubscribe"
    BY <1>5 DEF DeleteBlocks, Inv, HandlerInv, LabelInv, LabelsOf, UpdateActions
  <2>2. PICK b \in Block : <<u, b>> \in seen[m]
    BY <1>1, <1>5 DEF DeleteBlocks
  <2>3. u \in UsersOf(seen[m]) /\ seen' = seen
    BY <1>5, <2>2 DEF DeleteBlocks, UsersOf
  <2>4. pc'[m] = "incr" \/ failures' # failures
    BY <1>2, <1>5, EnabledAssumption DEF DeleteBlocks, EnterAppend
  <2> QED
    BY <2>1, <2>3, <2>4 DEF Owes, UsersOf
<1> QED
  BY <1>3, <1>4, <1>5

\* A client no handler owes a version, with the current one and no bump
\* dropped, will not be told to reload.
Current(u) ==
  /\ clientVer[u] = subVersion[u]
  /\ \A m \in Message : ~Owes(m, u)
  /\ u \notin unbumped

\* It is a settled state of affairs: a client that is current after a step of the
\* consumer was so before, and its subscriptions have not changed.
LEMMA CurrentBefore ==
  ASSUME CursorInv, VersionInv, StoreStep, NEW u \in Client, Current(u)'
  PROVE  Current(u) /\ userBlocks'[u] = userBlocks[u] /\ subVersion'[u] = subVersion[u]
<1>1. u \in User /\ Inv
  BY ClientAssumption DEF CursorInv
<1>2. clientVer'[u] = clientVer[u] /\ [SyncNext]_syncVars
  BY DEF StoreStep, client, SyncNext
<1>3. subVersion'[u] = subVersion[u] /\ clientVer[u] = subVersion[u]
  <2>1. clientVer[u] <= subVersion[u] /\ subVersion'[u] >= subVersion[u]
        /\ clientVer[u] = subVersion'[u]
    BY <1>1, <1>2, StoreGrows DEF VersionInv, Current
  <2>2. subVersion[u] \in Nat /\ subVersion'[u] \in Nat /\ clientVer[u] \in Nat
    BY <1>1, <1>2, StoreInvStep DEF CursorInv, Inv, TypeOK, SyncTypeOK
  <2> QED
    BY <2>1, <2>2
<1>4. ~DropsBump(u) /\ u \notin unbumped
  BY DEF StoreStep, Current
<1>5. userBlocks'[u] = userBlocks[u]
  <2>1. (\E m \in Message : Owes(m, u)') \/ failures' # failures
          \/ userBlocks'[u] = userBlocks[u]
    BY <1>1, ChangedIsOwed
  <2> QED
    BY <1>3, <1>4, <2>1 DEF DropsBump, Current
<1>6. ASSUME NEW m \in Message, Owes(m, u)
      PROVE  FALSE
  <2>1. ~Owes(m, u)'
    BY DEF Current
  <2>2. failures' # failures \/ crashes' # crashes
    BY <1>1, <1>3, <1>6, <2>1, OwedUntilBumped
  <2> QED
    BY <1>3, <1>4, <1>6, <2>1, <2>2 DEF DropsBump
<1> QED
  BY <1>3, <1>4, <1>5, <1>6 DEF Current

KnowsInv == \A u \in Client : Current(u) => known[u] = userBlocks[u]

LEMMA KnowsStep ==
  ASSUME CursorInv, VersionInv, KnowsInv, [SyncNext]_syncVars
  PROVE  KnowsInv'
<1> SUFFICES ASSUME NEW u \in Client, Current(u)'
             PROVE  known'[u] = userBlocks'[u]
  BY DEF KnowsInv
<1>1. /\ clientVer \in [Client -> Nat] /\ known \in [Client -> SUBSET Block]
      /\ rpc \in [Client -> RequestLabels]
  BY DEF CursorInv, SyncTypeOK
<1>2. CASE StoreStep
  BY <1>2, CurrentBefore DEF KnowsInv, StoreStep, client
<1>3. CASE UNCHANGED <<subVersion, userBlocks, pc, seen>>
  <2>1. \A m \in Message : Owes(m, u)' <=> Owes(m, u)
    BY <1>3 DEF Owes, UsersOf
  <2>2. CASE UNCHANGED <<clientVer[u], known[u]>> /\ (u \in unbumped => u \in unbumped')
    BY <1>3, <2>1, <2>2 DEF Current, KnowsInv
  <2>3. CASE known'[u] = userBlocks[u]
    BY <1>3, <2>3
  <2>4. ASSUME NEW v \in Client, SyncStep(v) \/ Disconnect(v)
        PROVE  \/ UNCHANGED <<clientVer[u], known[u]>> /\ (u \in unbumped => u \in unbumped')
               \/ known'[u] = userBlocks[u]
    <3>1. CASE Reload(v)
      BY <1>1, <3>1 DEF Reload
    <3>2. CASE Respond(v)
      <4>1. v = u => clientVer'[u] = rver[u] /\ rver[u] = clientVer[u]
        BY <1>1, <3>2 DEF Respond, VersionInv, At
      <4> QED
        BY <1>1, <3>2, <4>1 DEF Respond, history
    <3>3. CASE Disconnect(v)
      BY <3>3 DEF Disconnect, history
    <3>4. CASE \/ Request(v) \/ ReadVersion(v) \/ CountSubscriptions(v) \/ CheckRetention(v)
               \/ ReadPage(v) \/ ReadSeq(v)
               \/ \E c \in Block : CheckMembership(v, c) \/ ReadData(v, c)
      BY <3>4 DEF Request, ReadVersion, CountSubscriptions, CheckRetention, ReadPage,
         CheckMembership, ReadData, ReadSeq, history
    <3> QED
      BY <2>4, <3>1, <3>2, <3>3, <3>4 DEF SyncStep
  <2>5. CASE UNCHANGED syncVars
    BY <2>2, <2>5 DEF syncVars, client, history
  <2>6. CASE StoreStep
    BY <1>2, <2>6
  <2> QED
    BY <2>2, <2>3, <2>4, <2>5, <2>6 DEF SyncNext
<1>4. ASSUME NEW v \in Client, SyncStep(v) \/ Disconnect(v)
      PROVE  UNCHANGED <<subVersion, userBlocks, pc, seen>>
  BY <1>4, SyncStepKeepsStore DEF Disconnect, vars, store, handler
<1>5. CASE UNCHANGED syncVars
  BY <1>3, <1>5 DEF syncVars, vars, store, handler
<1> QED
  BY <1>2, <1>3, <1>4, <1>5 DEF SyncNext

\* A client with the current version knows its subscriptions, or a handler is
\* still on its way to the counter, or a failure or a crash dropped the bump:
\* for any handlers and clients, in any interleaving.
THEOREM UnawareIsOwed == SyncSpec => []UnawareOnlyIfUnbumped
<1>1. SyncInit => CursorInv /\ VersionInv /\ KnowsInv
  <2> SUFFICES ASSUME SyncInit
               PROVE  VersionInv /\ KnowsInv
    BY CursorInvInit
  <2>1. subVersion \in [User -> Nat]
    BY InitInv DEF SyncInit, Inv, TypeOK
  <2> QED
    BY <2>1, ClientAssumption DEF SyncInit, VersionInv, KnowsInv
<1>2. CursorInv /\ VersionInv /\ KnowsInv /\ [SyncNext]_syncVars
        => (CursorInv /\ VersionInv /\ KnowsInv)'
  BY CursorInvStep, VersionStep, KnowsStep
<1>3. KnowsInv => UnawareOnlyIfUnbumped
  BY DEF KnowsInv, Current, UnawareOnlyIfUnbumped
<1> QED
  BY <1>1, <1>2, <1>3, PTL DEF SyncSpec
-----------------------------------------------------------------------------
(* What a client that has caught up can have missed.                       *)

\* A deletion walks its own blocks only, so redelivery repeats all it has left.
PendingInv ==
  \A m \in Message : m.action = "unsubscribe" => todo[m] \union chunk[m] \subseteq m.blocks

\* The newest retained event of a block tells whether its last one deleted it.
GoneInv == \A e \in LatestByBlock(changelog) : e.block \in gone <=> e.op = "delete"

\* What the server holds of a page is still retained or outrun.
PageInv ==
  \A u \in Client : rpc[u] \in {"member", "data", "respond"} =>
    \A e \in revents[u] :
      /\ e \in ChangelogEntry /\ cursor[u] < e.seq /\ e.seq <= rcur[u]
      /\ e \in changelog \/ Outrun(changelog, e.seq)

\* The number up to which the client will have been told when the answer that
\* is being prepared arrives.
Base(u) == IF rpc[u] \in {"member", "data", "respond"} THEN rcur[u] ELSE cursor[u]

\* A newer event of b waits for the client; or one has been trimmed before it
\* could be read, so that the retention check will fail.
Ahead(u, b) == \E e \in changelog : e.block = b /\ e.seq > Base(u)
MustReload(u) ==
  rpc[u] # "page" /\ \E n \in 1..seq : n > Base(u) /\ Outrun(changelog, n)

\* The client's copy of b will agree with the row when the answer arrives.
Unread(u, b) == rpc[u] = "member" \/ (rpc[u] = "data" /\ b \in rleft[u])
Right(u, b) ==
  IF Unread(u, b)
    THEN \/ b \in Upserts(revents[u])
         \/ b \notin Upserts(revents[u]) /\ b \in Deletes(revents[u]) /\ blockData[b] = 0
         \/ b \notin Upserts(revents[u]) \union Deletes(revents[u]) /\ view[u][b] = blockData[b]
  ELSE IF rpc[u] \in {"data", "respond"} THEN Applied(u)[b] = blockData[b]
  ELSE view[u][b] = blockData[b]

Fresh(u, b) ==
  \/ <<u, b>> \in lost
  \/ b \in gone /\ blockData[b] # 0
  \/ \E m \in Message : b \in Pending(m)
  \/ Ahead(u, b)
  \/ MustReload(u)
  \/ Right(u, b)

FreshInv == \A u \in Client : Current(u) => \A b \in userBlocks[u] : Fresh(u, b)

LEMMA PendingBlocksStep ==
  ASSUME Inv, PendingInv, [Next]_vars
  PROVE  PendingInv'
<1> SUFFICES ASSUME NEW n \in Message, n.action = "unsubscribe"
             PROVE  todo'[n] \union chunk'[n] \subseteq n.blocks
  BY DEF PendingInv
<1>1. /\ todo \in [Message -> SUBSET Block] /\ chunk \in [Message -> SUBSET Block]
      /\ todo[n] \union chunk[n] \subseteq n.blocks
  BY DEF Inv, TypeOK, PendingInv
<1>2. ASSUME NEW m \in Message, Step(m) \/ CommandLost(m) \/ LookupFails(m), m # n
      PROVE  UNCHANGED <<todo[n], chunk[n]>>
  BY <1>2, OthersStay
<1>3. CASE Deliver(n)
  BY <1>1, <1>3 DEF Deliver, AccessBlocks, AclActions
<1>4. CASE Ack(n)
  BY <1>1, <1>4 DEF Ack
<1>5. CASE CacheSandbox(n) \/ WriteIndexes(n)
  BY <1>1, <1>5 DEF CacheSandbox, WriteIndexes
<1>6. CASE ReadMembers(n)
  <2>1. PICK blocks \in SUBSET todo[n] :
          /\ todo' = [todo EXCEPT ![n] = @ \ blocks]
          /\ chunk' = [chunk EXCEPT ![n] = blocks]
    BY <1>6 DEF ReadMembers, Portions
  <2> QED
    BY <1>1, <2>1
<1>7. CASE \/ Save(n) \/ Incr(n) \/ AppendEntries(n) \/ ReadSubscribers(n) \/ Lookup(n)
           \/ SendToUser(n) \/ BumpVersions(n) \/ Notify(n) \/ DeleteBlocks(n)
           \/ CommandLost(n) \/ LookupFails(n)
  BY <1>1, <1>7 DEF Save, Incr, AppendEntries, ReadSubscribers, Lookup, SendToUser,
     BumpVersions, Notify, DeleteBlocks, CommandLost, LookupFails
<1>8. CASE Crash
  BY <1>8 DEF Crash
<1>9. CASE (\E b \in Block : ExpireSandbox(b)) \/ UNCHANGED vars
  BY <1>1, <1>9 DEF ExpireSandbox, vars, handler
<1> QED
  BY <1>1, <1>2, <1>3, <1>4, <1>5, <1>6, <1>7, <1>8, <1>9 DEF Next, Idle, Step

\* An event a handler has to log stays to be logged until it is added, or until
\* an error keeps it out.
LEMMA PendingEnds ==
  ASSUME Inv, PendingInv, StoreStep, NEW m \in Message, NEW b \in Pending(m)
  PROVE  \/ b \in Pending(m)'
         \/ b \in Unlogged(m)
         \/ AppendEntries(m) /\ b \in Events(m)
<1>1. /\ pc \in [Message -> Labels] /\ failures \in Nat
      /\ todo \in [Message -> SUBSET Block] /\ chunk \in [Message -> SUBSET Block]
  BY SettingsAssumption DEF Inv, TypeOK
<1>2. m.action \in UpdateActions \/ m.action = "unsubscribe"
  BY DEF Pending
<1>3. CASE failures' # failures /\ changelog' = changelog
  BY <1>3 DEF Unlogged
<1>4. ASSUME NEW n \in Message, Step(n) \/ CommandLost(n) \/ LookupFails(n), n # m
      PROVE  b \in Pending(m)'
  <2>1. UNCHANGED <<pc[m], todo[m], chunk[m]>>
    BY <1>4, OthersStay
  <2> QED
    BY <2>1 DEF Pending
<1>5. CASE CommandLost(m) \/ LookupFails(m)
  BY <1>1, <1>3, <1>5 DEF CommandLost, LookupFails, Fail, store
<1>6. CASE Crash
  <2>1. pc[m] # "settled"
    BY <1>2 DEF Pending, UpdateActions
  <2>2. pc'[m] = "queued"
    BY <1>6, <2>1 DEF Crash, InFlight
  <2>3. b \in m.blocks
    BY <1>2 DEF Pending, PendingInv, UpdateActions
  <2> QED
    BY <1>2, <2>2, <2>3 DEF Pending, UpdateActions
<1>7. ASSUME NEW label, Replied(m, label), changelog' = changelog, b \notin Unlogged(m)
      PROVE  pc'[m] = label \/ b \in Pending(m)'
  <2>1. pc'[m] = label \/ failures' # failures
    BY <1>1, <1>7 DEF Replied, Goto, Fail
  <2> QED
    BY <1>7, <2>1 DEF Unlogged
<1>8. CASE Deliver(m)
  <2>1. pc[m] = "queued" /\ b \in m.blocks
    BY <1>2, <1>8 DEF Deliver, Pending, UpdateActions
  <2>2. pc'[m] = IF m.action = "unsubscribe" THEN "members" ELSE "save"
    BY <1>1, <1>2, <1>8, <2>1 DEF Deliver, Goto, FirstStep, UpdateActions
  <2>3. m.action = "unsubscribe" => todo'[m] = m.blocks
    BY <1>1, <1>8 DEF Deliver, AclActions, AccessBlocks
  <2> QED
    BY <1>2, <2>1, <2>2, <2>3 DEF Pending, UpdateActions
<1>9. CASE Save(m)
  <2>1. m.action \in UpdateActions /\ b \in m.blocks
    BY <1>9 DEF Save, Pending, Inv, HandlerInv, LabelInv, LabelsOf
  <2>2. pc'[m] = "incr" \/ b \in Pending(m)' \/ b \in Unlogged(m)
    BY <1>7, <1>9, EnabledAssumption DEF Save, EnterAppend
  <2> QED
    BY <2>1, <2>2 DEF Pending
<1>10. CASE Incr(m)
  <2>1. pc'[m] = "append" \/ b \in Pending(m)' \/ b \in Unlogged(m)
    BY <1>7, <1>10 DEF Incr
  <2>2. UNCHANGED <<todo, chunk>> /\ pc[m] = "incr"
    BY <1>10 DEF Incr
  <2> QED
    BY <1>2, <2>1, <2>2 DEF Pending, UpdateActions
<1>11. CASE AppendEntries(m)
  <2>1. b \in Events(m) \/ (m.action = "unsubscribe" /\ b \in todo[m])
    BY <1>2, <1>11 DEF AppendEntries, Pending, Events, UpdateActions
  <2>2. CASE m.action = "unsubscribe" /\ b \in todo[m]
    <3>1. AfterBump(m) = "members"
      BY <2>2 DEF AfterBump
    <3>2. AfterAppend(m) \in {"bump", "members"}
      BY <2>2, <3>1 DEF AfterAppend, EnterBump
    <3>3. OnError(m) = AfterAppend(m) /\ todo' = todo
      BY <1>11 DEF AppendEntries, OnError
    <3>4. pc'[m] \in {"bump", "members"}
      BY <1>1, <1>11, <3>2, <3>3 DEF AppendEntries, Replied, Goto
    <3> QED
      BY <2>2, <3>3, <3>4 DEF Pending, UpdateActions
  <2> QED
    BY <1>11, <2>1, <2>2
<1>12. CASE ReadMembers(m)
  <2>1. PICK blocks \in SUBSET todo[m] :
          /\ todo' = [todo EXCEPT ![m] = @ \ blocks]
          /\ chunk' = [chunk EXCEPT ![m] = blocks]
    BY <1>12 DEF ReadMembers, Portions
  <2>2. pc[m] = "members" /\ pc'[m] = "delete"
    BY <1>1, <1>12 DEF ReadMembers, Goto
  <2>3. m.action = "unsubscribe" /\ b \in todo[m]
    BY <1>2, <2>2 DEF Pending, UpdateActions
  <2>4. b \in todo'[m] \union chunk'[m]
    BY <1>1, <2>1, <2>3
  <2> QED
    BY <2>2, <2>3, <2>4 DEF Pending, UpdateActions
<1>13. CASE DeleteBlocks(m)
  <2>1. pc'[m] = "incr" \/ b \in Pending(m)' \/ b \in Unlogged(m)
    BY <1>7, <1>13, EnabledAssumption DEF DeleteBlocks, EnterAppend
  <2>2. UNCHANGED <<todo, chunk>> /\ pc[m] = "delete" /\ m.action = "unsubscribe"
    BY <1>2, <1>13 DEF DeleteBlocks, Pending, UpdateActions
  <2> QED
    BY <2>1, <2>2 DEF Pending, UpdateActions
<1>14. CASE BumpVersions(m)
  <2>1. m.action = "unsubscribe" /\ b \in todo[m] /\ todo' = todo /\ pc[m] = "bump"
    BY <1>2, <1>14 DEF BumpVersions, Pending, UpdateActions
  <2>2. AfterBump(m) = "members"
    BY <2>1 DEF AfterBump
  <2>3. pc'[m] = "members" \/ b \in Pending(m)' \/ b \in Unlogged(m)
    BY <1>7, <1>14, <2>2 DEF BumpVersions
  <2> QED
    BY <2>1, <2>3 DEF Pending, UpdateActions
<1>15. CASE \/ Ack(m) \/ CacheSandbox(m) \/ ReadSubscribers(m) \/ Lookup(m) \/ SendToUser(m)
            \/ WriteIndexes(m) \/ Notify(m)
  BY <1>2, <1>15 DEF Ack, CacheSandbox, ReadSubscribers, Lookup, SendToUser, WriteIndexes,
     Notify, Pending, UpdateActions
<1> QED
  BY <1>4, <1>5, <1>6, <1>8, <1>9, <1>10, <1>11, <1>12, <1>13, <1>14, <1>15
     DEF StoreStep, Step

\* Nobody writes or deletes a row without an event of it to log.
LEMMA RowsHaveEvents ==
  ASSUME Inv, StoreStep, NEW b \in Block, blockData'[b] # blockData[b]
  PROVE  \E m \in Message : b \in Pending(m)
<1>1. blockData \in [Block -> Nat]
  BY DEF Inv, TypeOK
<1>2. ASSUME NEW m \in Message, Save(m)
      PROVE  b \in Pending(m)
  <2>1. m.action \in UpdateActions /\ pc[m] = "save"
    BY <1>2 DEF Save, Inv, HandlerInv, LabelInv, LabelsOf
  <2>2. b \in m.blocks
    BY <1>1, <1>2 DEF Save
  <2> QED
    BY <2>1, <2>2 DEF Pending
<1>3. ASSUME NEW m \in Message, DeleteBlocks(m)
      PROVE  b \in Pending(m)
  <2>1. m.action = "unsubscribe" /\ pc[m] = "delete"
    BY <1>3 DEF DeleteBlocks, Inv, HandlerInv, LabelInv, LabelsOf, UpdateActions
  <2>2. b \in chunk[m]
    BY <1>1, <1>3 DEF DeleteBlocks
  <2> QED
    BY <2>1, <2>2 DEF Pending, UpdateActions
<1>4. ASSUME NEW m \in Message, Step(m), ~Save(m), ~DeleteBlocks(m)
      PROVE  UNCHANGED blockData
  BY <1>4 DEF Step, Deliver, Ack, Incr, AppendEntries, CacheSandbox, ReadSubscribers,
     Lookup, SendToUser, WriteIndexes, BumpVersions, Notify, ReadMembers, store
<1>5. ASSUME NEW m \in Message, CommandLost(m) \/ LookupFails(m)
      PROVE  UNCHANGED blockData
  BY <1>5 DEF CommandLost, LookupFails, store
<1>6. Crash => UNCHANGED blockData
  BY DEF Crash, store
<1> QED
  BY <1>2, <1>3, <1>4, <1>5, <1>6 DEF StoreStep

\* What the changelog retains, as the clients' steps leave it.
LEMMA RetentionSyncStep ==
  ASSUME Inv, NumbersInv, RetentionInv, [SyncNext]_syncVars
  PROVE  RetentionInv'
<1>1. ASSUME [Next]_vars
      PROVE  RetentionInv'
  BY <1>1, RetentionStep
<1>2. ASSUME NEW u \in Client, Disconnect(u)
      PROVE  RetentionInv'
  <2>1. changelog' = changelog
    BY <1>2 DEF Disconnect, store
  <2>2. failures' # 0
    BY <1>2, SettingsAssumption DEF Disconnect, Fail, Inv, TypeOK
  <2> QED
    BY <2>1, <2>2 DEF RetentionInv
<1>3. CASE UNCHANGED syncVars
  BY <1>1, <1>3 DEF syncVars
<1> QED
  BY <1>1, <1>2, <1>3, StoreStepIsNext, SyncStepKeepsStore DEF SyncNext

\* Every block with an entry in a log has a newest one there, and only one.
LEMMA NewestOf ==
  ASSUME NEW log, NEW top \in Nat, Numbered(log, top), NEW e \in log
  PROVE  \E f \in LatestByBlock(log) : f.block = e.block /\ f.seq >= e.seq
<1> DEFINE S == {f.seq : f \in {g \in log : g.block = e.block}}
<1>1. S \subseteq 0..top /\ S # {} /\ e.seq \in S
  BY DEF Numbered
<1>2. PICK n \in S : \A k \in S : k <= n
  <2> HIDE DEF S
  <2> QED
    BY <1>1, HasGreatest
<1>3. PICK f \in log : f.block = e.block /\ f.seq = n
  OBVIOUS
<1>4. \A g \in log : g.block = f.block => g.seq <= f.seq
  BY <1>2, <1>3
<1>5. n \in Nat /\ e.seq \in Nat /\ e.seq <= n
  BY <1>1, <1>2
<1> QED
  BY <1>3, <1>4, <1>5 DEF LatestByBlock

LEMMA NewestUnique ==
  ASSUME NEW log, NEW top \in Nat, Numbered(log, top),
         NEW e \in LatestByBlock(log), NEW f \in LatestByBlock(log), e.block = f.block
  PROVE  e = f
<1>1. e \in log /\ f \in log /\ e.seq \in Nat /\ f.seq \in Nat
  BY DEF LatestByBlock, Numbered
<1>2. e.seq <= f.seq /\ f.seq <= e.seq
  BY DEF LatestByBlock
<1>3. e.seq = f.seq
  BY <1>1, <1>2
<1> QED
  BY <1>1, <1>3 DEF Numbered

LEMMA GoneStep ==
  ASSUME Inv, NumbersInv, GoneInv, [SyncNext]_syncVars
  PROVE  GoneInv'
<1>1. CASE StoreStep
  <2>1. changelog' \subseteq ChangelogEntry /\ seq' \in Nat /\ Numbered(changelog', seq')
    BY StoreInvStep DEF Inv, TypeOK, NumbersInv, SeqsUnique, Numbered
  <2> DEFINE newest == LatestByBlock(changelog')
  <2>2. gone' = Deletes(newest) \union (gone \ Upserts(newest))
    BY <1>1 DEF StoreStep, NewestDeletes
  <2>3. ASSUME NEW e \in newest
        PROVE  e.block \in gone' <=> e.op = "delete"
    <3>1. e.op \in {"upsert", "delete"}
      BY <2>1 DEF LatestByBlock, ChangelogEntry
    <3>2. CASE e.op = "delete"
      BY <2>2, <3>2 DEF Deletes
    <3>3. CASE e.op = "upsert"
      <4>1. e.block \in Upserts(newest)
        BY <3>3 DEF Upserts
      <4>2. ASSUME NEW f \in newest, f.block = e.block
            PROVE  f = e
        <5> HIDE DEF newest
        <5> QED
          BY <2>1, <4>2, NewestUnique DEF newest
      <4>3. e.block \notin Deletes(newest)
        BY <3>3, <4>2 DEF Deletes
      <4> QED
        BY <2>2, <3>3, <4>1, <4>3
    <3> QED
      BY <3>1, <3>2, <3>3
  <2>4. newest = LatestByBlock(changelog)'
    BY DEF LatestByBlock
  <2> QED
    BY <2>3, <2>4 DEF GoneInv
<1>2. ASSUME NEW u \in Client, SyncStep(u)
      PROVE  UNCHANGED <<changelog, gone>>
  BY <1>2 DEF SyncStep, Request, ReadVersion, CountSubscriptions, CheckRetention, ReadPage,
     CheckMembership, ReadData, Respond, ReadSeq, Reload, vars, store, history
<1>3. ASSUME NEW u \in Client, Disconnect(u)
      PROVE  UNCHANGED <<changelog, gone>>
  BY <1>3 DEF Disconnect, store, history
<1>4. UNCHANGED syncVars => UNCHANGED <<changelog, gone>>
  BY DEF syncVars, vars, store, history
<1>5. CASE UNCHANGED <<changelog, gone>>
  BY <1>5 DEF GoneInv, LatestByBlock
<1> QED
  BY <1>1, <1>2, <1>3, <1>4, <1>5 DEF SyncNext

\* A client's request leaves the other clients alone.
LEMMA OtherClients ==
  ASSUME SyncTypeOK, NEW u \in Client, NEW v \in Client, v # u, SyncStep(v) \/ Disconnect(v)
  PROVE  /\ UNCHANGED <<cursor[u], clientVer[u], view[u], rpc[u], rver[u], rcur[u],
                        revents[u], rleft[u], rdata[u]>>
         /\ \A b : <<u, b>> \in lost => <<u, b>> \in lost'
         /\ u \in unbumped => u \in unbumped'
<1> USE DEF SyncTypeOK
<1>1. CASE \/ Request(v) \/ ReadVersion(v) \/ CountSubscriptions(v) \/ CheckRetention(v)
           \/ ReadPage(v) \/ ReadSeq(v)
  BY <1>1 DEF Request, ReadVersion, CountSubscriptions, CheckRetention, ReadPage, ReadSeq,
     Proceed, history
<1>2. ASSUME NEW c \in Block, CheckMembership(v, c) \/ ReadData(v, c)
      PROVE  /\ UNCHANGED <<cursor[u], clientVer[u], view[u], rpc[u], rver[u], rcur[u],
                             revents[u], rleft[u], rdata[u]>>
             /\ UNCHANGED history
  BY <1>2 DEF CheckMembership, ReadData, Proceed
<1>3. CASE Respond(v) \/ Reload(v) \/ Disconnect(v)
  BY <1>3 DEF Respond, Reload, Disconnect, Done, Proceed, history
<1> QED
  BY <1>1, <1>2, <1>3 DEF SyncStep, history

LEMMA ClientsKeepStore ==
  ASSUME NEW u \in Client, SyncStep(u) \/ Disconnect(u)
  PROVE  UNCHANGED <<store, handler, gone>>
<1>1. SyncStep(u) => UNCHANGED gone
  BY DEF SyncStep, Request, ReadVersion, CountSubscriptions, CheckRetention, ReadPage,
     CheckMembership, ReadData, Respond, ReadSeq, Reload, history
<1> QED
  BY <1>1, SyncStepKeepsStore DEF Disconnect, vars, history

LEMMA PageStep ==
  ASSUME CursorInv, PageInv, [SyncNext]_syncVars
  PROVE  PageInv'
<1> USE DEF CursorInv
<1>1. /\ seq \in Nat /\ changelog \subseteq ChangelogEntry
      /\ rpc \in [Client -> RequestLabels] /\ rcur \in [Client -> Nat]
      /\ revents \in [Client -> SUBSET ChangelogEntry]
  BY DEF Inv, TypeOK, SyncTypeOK
<1> DEFINE Good(e, u) == /\ e \in ChangelogEntry /\ cursor[u] < e.seq /\ e.seq <= rcur[u]
                         /\ e \in changelog \/ Outrun(changelog, e.seq)
<1> SUFFICES ASSUME NEW u \in Client, rpc'[u] \in {"member", "data", "respond"},
                    NEW e \in revents'[u]
             PROVE  Good(e, u)'
  BY DEF PageInv
<1>2. CASE StoreStep
  <2>1. UNCHANGED <<cursor[u], rcur[u], rpc[u], revents[u]>>
    BY <1>2 DEF StoreStep, client
  <2>2. Good(e, u)
    BY <2>1 DEF PageInv
  <2>3. e.seq \in Nat
    BY <2>2 DEF ChangelogEntry
  <2>4. e \in changelog' \/ Outrun(changelog', e.seq)
    BY <1>2, <2>2, <2>3, OutrunStays, StoreStepIsNext
  <2> QED
    BY <2>1, <2>2, <2>4 DEF Outrun, Above
<1>3. ASSUME UNCHANGED <<changelog, cursor[u], rcur[u]>>,
             rpc[u] \in {"member", "data", "respond"}, e \in revents[u]
      PROVE  Good(e, u)'
  BY <1>3 DEF PageInv, Outrun, Above
<1>4. ASSUME NEW v \in Client, SyncStep(v) \/ Disconnect(v), v # u
      PROVE  Good(e, u)'
  <2>1. UNCHANGED <<changelog, cursor[u], rcur[u], rpc[u], revents[u]>>
    BY <1>4, OtherClients, ClientsKeepStore DEF store
  <2> QED
    BY <1>3, <2>1
<1>5. CASE ReadPage(u)
  <2>1. Page(u) # {}
    BY <1>1, <1>5 DEF ReadPage, Proceed
  <2>2. e \in LatestByBlock(Page(u)) /\ rcur'[u] = NextCursor(Page(u)) /\ cursor' = cursor
        /\ changelog' = changelog
    BY <1>1, <1>5, <2>1 DEF ReadPage, vars, store
  <2>3. e \in Page(u) /\ e \in changelog /\ e.seq > cursor[u]
    BY <2>2 DEF LatestByBlock, Page
  <2>4. e.seq <= NextCursor(Page(u))
    BY <2>1, <2>3, NextCursorHighest
  <2>5. cursor[u] \in Nat /\ e.seq \in Nat /\ e \in ChangelogEntry
    BY <1>1, <2>3 DEF SyncTypeOK, ChangelogEntry
  <2> QED
    BY <2>2, <2>3, <2>4, <2>5
<1>6. CASE \E c \in Block : CheckMembership(u, c) \/ ReadData(u, c)
  <2>1. /\ rpc[u] \in {"member", "data"} /\ e \in revents[u]
        /\ UNCHANGED <<changelog, cursor[u], rcur[u]>>
    BY <1>1, <1>6 DEF CheckMembership, ReadData, At, vars, store
  <2> QED
    BY <1>3, <2>1
<1>7. CASE \/ Request(u) \/ ReadVersion(u) \/ CountSubscriptions(u) \/ CheckRetention(u)
           \/ ReadSeq(u)
  BY <1>1, <1>7 DEF Request, ReadVersion, CountSubscriptions, CheckRetention, ReadSeq, Proceed
<1>8. CASE Respond(u) \/ Reload(u) \/ Disconnect(u)
  BY <1>1, <1>8 DEF Respond, Reload, Disconnect, Done, Proceed
<1>9. CASE UNCHANGED syncVars
  <2>1. UNCHANGED <<changelog, cursor[u], rcur[u], rpc[u], revents[u]>>
    BY <1>9 DEF syncVars, vars, store, client
  <2> QED
    BY <1>3, <2>1
<1> QED
  BY <1>2, <1>4, <1>5, <1>6, <1>7, <1>8, <1>9 DEF SyncNext, SyncStep

LEMMA PendingSyncStep ==
  ASSUME Inv, PendingInv, [SyncNext]_syncVars
  PROVE  PendingInv'
<1>1. ASSUME UNCHANGED <<todo, chunk>>
      PROVE  PendingInv'
  BY <1>1 DEF PendingInv
<1>2. ASSUME NEW u \in Client, SyncStep(u) \/ Disconnect(u)
      PROVE  UNCHANGED <<todo, chunk>>
  BY <1>2, ClientsKeepStore DEF handler
<1>3. UNCHANGED syncVars => UNCHANGED <<todo, chunk>>
  BY DEF syncVars, vars, handler
<1> QED
  BY <1>1, <1>2, <1>3, PendingBlocksStep, StoreStepIsNext DEF SyncNext

\* A number that is outrun has an entry above it, and no retained entry is
\* outrun.
LEMMA OutrunHasAbove ==
  ASSUME NEW log, NEW n, Outrun(log, n)
  PROVE  \E e \in log : e.seq > n
<1>1. ChangelogMaxLen \in Nat /\ ChangelogMaxLen # 0
      /\ Cardinality(Above(log, n)) >= ChangelogMaxLen
  BY SettingsAssumption DEF Outrun
<1>2. Above(log, n) # {}
  <2>1. Cardinality({}) = 0
    BY FS_EmptySet
  <2> QED
    BY <1>1, <2>1
<1> QED
  BY <1>2 DEF Above

LEMMA OutrunBelow ==
  ASSUME NEW log, NEW top \in Nat, Numbered(log, top), NEW n \in Nat, Outrun(log, n),
         \A e \in log : Cardinality(Above(log, e.seq)) < ChangelogMaxLen
  PROVE  \A e \in log : e.seq > n
<1> SUFFICES ASSUME NEW e \in log, e.seq <= n
             PROVE  FALSE
  BY DEF Numbered
<1>1. Above(log, n) \subseteq Above(log, e.seq)
  BY DEF Above, Numbered
<1>2. IsFiniteSet(Above(log, e.seq)) /\ Cardinality(Above(log, e.seq)) \in Nat
  BY AboveFinite
<1>3. /\ IsFiniteSet(Above(log, n))
      /\ Cardinality(Above(log, n)) <= Cardinality(Above(log, e.seq))
  BY <1>1, <1>2, FS_Subset
<1>4. Cardinality(Above(log, n)) \in Nat /\ ChangelogMaxLen \in Nat
  BY <1>3, FS_CardinalityType, SettingsAssumption
<1> QED
  BY <1>2, <1>3, <1>4 DEF Outrun

\* A client for whom something above its cursor has been trimmed is told so by
\* the retention check.
LEMMA OutrunIsStale ==
  ASSUME Inv, NumbersInv, RetentionInv, SyncTypeOK, NEW u \in Client,
         NEW n \in 1..seq, n > cursor[u], Outrun(changelog, n)
  PROVE  IsStale(u)
<1>1. cursor[u] \in Nat /\ seq \in Nat /\ n \in Nat /\ Numbered(changelog, seq)
  BY DEF SyncTypeOK, Inv, TypeOK, NumbersInv, SeqsUnique, Numbered
<1>2. \E e \in changelog : e.seq > n
  BY OutrunHasAbove
<1>3. \A e \in changelog : e.seq > n
  BY <1>1, OutrunBelow DEF RetentionInv, Outrun
<1>4. \A e \in changelog : e.seq \in Nat
  BY <1>1 DEF Numbered
<1> QED
  BY <1>1, <1>2, <1>3, <1>4 DEF IsStale

\* A handler that has sent its entries does not send them again, whether or not
\* the reply arrives.
LEMMA AppendLands ==
  ASSUME Inv, NEW m \in Message, AppendEntries(m)
  PROVE  Lands(m)
<1>1. pc[m] = "append" /\ crashes' = crashes /\ pc \in [Message -> Labels]
  BY DEF AppendEntries, Inv, TypeOK
<1>2. AfterAppend(m) # "append"
  BY DEF AfterAppend, EnterBump, AfterBump
<1>3. OnError(m) # "append"
  BY <1>1, <1>2 DEF OnError
<1> QED
  BY <1>1, <1>2, <1>3 DEF AppendEntries, Replied, Goto, Lands

\* An event that lands is ahead of a reader, or trimmed already so that the
\* reader will have to reload, or recorded as lost.
LEMMA Landed ==
  ASSUME CursorInv, StoreStep, NEW u \in Client,
         NEW m \in Message, AppendEntries(m), NEW b \in Events(m)
  PROVE  <<u, b>> \in lost' \/ Ahead(u, b)' \/ MustReload(u)'
<1> USE DEF CursorInv
<1>1. UNCHANGED <<cursor[u], rcur[u], rpc[u]>>
  BY DEF StoreStep, client
<1>2. PICK number \in Injection(Events(m), AllocatedTo(m)) :
        changelog' = Trimmed(changelog \union NewEntries(m, number))
  BY DEF AppendEntries
<1> DEFINE log == changelog \union NewEntries(m, number)
           n == number[b]
           new == [seq |-> n, op |-> Op(m), block |-> b]
<1>3. pc[m] = "append" /\ seq' = seq /\ seq \in Nat /\ crashes' = crashes
  BY DEF AppendEntries, Inv, TypeOK
<1>4. n \in AllocatedTo(m) /\ new \in log
  BY DEF NewEntries, Injection
<1>5. n \in 1..seq /\ n \in Nat
  BY <1>3, <1>4, AllocatedCounted
<1>6. Numbered(log, seq)
  BY <1>2, <1>3, AppendedNumbered
<1>7. Lands(m)
  BY AppendLands
<1>8. b \in Block
  BY MessageAssumption DEF Events, Inv, TypeOK
<1>9. CASE b \in Overtaken(m, u) \union TrimmedUnder(m, u)
  BY <1>7, <1>8, <1>9 DEF StoreStep
<1>10. CASE b \notin Overtaken(m, u) /\ b \notin TrimmedUnder(m, u)
  <2>1. \A k \in AllocatedTo(m) : k > Base(u)
    <3>1. Cardinality(Events(m)) \in Nat /\ seqEnd[m] \in Nat
      BY EventsFinite DEF Inv, TypeOK
    <3>2. ~(seqEnd[m] - Cardinality(Events(m)) < Position(u))
      BY <1>10 DEF Overtaken
    <3>3. Position(u) \in Nat /\ Base(u) \in Nat /\ Base(u) <= Position(u)
      BY DEF Position, Base, PositionInv, SyncTypeOK
    <3> QED
      BY <3>1, <3>2, <3>3 DEF AllocatedTo
  <2>2. Base(u)' = Base(u)
    BY <1>1 DEF Base
  <2>3. CASE \E e \in changelog' : e.block = b /\ e.seq \in AllocatedTo(m)
    BY <2>1, <2>2, <2>3 DEF Ahead
  <2>4. CASE \A e \in changelog' : ~(e.block = b /\ e.seq \in AllocatedTo(m))
    <3>1. rpc[u] # "page"
      BY <1>10, <2>4 DEF TrimmedUnder, At
    <3>2. InLog(changelog', n) \/ Outrun(changelog', n)
      <4>1. InLog(log, n)
        BY <1>4 DEF InLog
      <4> HIDE DEF log, n
      <4> QED
        BY <1>2, <1>3, <1>5, <1>6, <4>1, TrimAccounts DEF log
    <3>3. ~InLog(changelog', n)
      <4> SUFFICES ASSUME NEW e \in changelog', e.seq = n
                   PROVE  FALSE
        BY DEF InLog
      <4>1. e \in log
        BY <1>2, TrimSubset
      <4>2. e = new
        BY <1>4, <1>6, <4>1 DEF Numbered
      <4> QED
        BY <1>4, <2>4, <4>2
    <3>4. Outrun(changelog', n) /\ n > Base(u) /\ rpc'[u] # "page" /\ n \in 1..seq'
      BY <1>1, <1>3, <1>4, <1>5, <2>1, <3>1, <3>2, <3>3
    <3> QED
      BY <2>2, <3>4 DEF MustReload, Outrun, Above
  <2> QED
    BY <2>3, <2>4
<1> QED
  BY <1>9, <1>10

\* What a current client has of its blocks, after a step of the consumer.
LEMMA FreshStore ==
  ASSUME CursorInv, VersionInv, RetentionInv, PendingInv, GoneInv, FreshInv, StoreStep,
         NEW u \in Client, Current(u)', NEW b \in userBlocks'[u]
  PROVE  Fresh(u, b)'
<1> USE DEF CursorInv
<1>1. UNCHANGED <<cursor[u], rcur[u], rpc[u], view[u], revents[u], rleft[u], rdata[u]>>
  BY DEF StoreStep, client
<1>2. b \in userBlocks[u] /\ Fresh(u, b) /\ u \in User
  BY CurrentBefore, ClientAssumption DEF FreshInv
<1>3. b \in Block
  BY <1>2 DEF Inv, TypeOK
<1>4. /\ [SyncNext]_syncVars /\ [Next]_vars
      /\ seq \in Nat /\ seq' \in Nat /\ seq' >= seq
      /\ RetentionInv' /\ Numbered(changelog, seq) /\ Numbered(changelog', seq')
  <2>1. [SyncNext]_syncVars /\ [Next]_vars
    BY StoreStepIsNext DEF SyncNext
  <2>2. Inv' /\ NumbersInv' /\ RetentionInv' /\ seq' >= seq
    BY <2>1, StoreInvStep, StoreGrows, RetentionSyncStep
  <2> QED
    BY <2>1, <2>2 DEF Inv, TypeOK, NumbersInv, SeqsUnique, Numbered
<1>5. Base(u)' = Base(u)
  BY <1>1 DEF Base
<1>6. ASSUME <<u, b>> \in lost' \/ Ahead(u, b)' \/ MustReload(u)'
      PROVE  Fresh(u, b)'
  BY <1>6 DEF Fresh
<1>7. ASSUME NEW m \in Message, b \in Pending(m)
      PROVE  Fresh(u, b)'
  <2>1. CASE b \in Pending(m)'
    BY <2>1 DEF Fresh
  <2>2. CASE b \in Unlogged(m)
    BY <1>3, <1>6, <2>2 DEF StoreStep
  <2>3. CASE AppendEntries(m) /\ b \in Events(m)
    BY <1>6, <2>3, Landed
  <2> QED
    BY <1>7, <2>1, <2>2, <2>3, PendingEnds
<1>8. CASE blockData'[b] # blockData[b]
  BY <1>3, <1>7, <1>8, RowsHaveEvents
<1>9. CASE <<u, b>> \in lost
  BY <1>6, <1>9 DEF StoreStep
<1>10. CASE Ahead(u, b)
  <2>1. PICK e \in changelog : e.block = b /\ e.seq > Base(u)
    BY <1>10 DEF Ahead
  <2>2. CASE e \in changelog'
    BY <1>5, <1>6, <2>1, <2>2 DEF Ahead
  <2>3. CASE e \notin changelog'
    <3>1. Outrun(changelog', e.seq) /\ e.seq \in 1..seq /\ e.seq \in 1..seq'
      BY <1>4, <2>3, OutrunStays DEF Numbered
    <3>2. CASE rpc[u] # "page"
      BY <1>1, <1>5, <1>6, <2>1, <3>1, <3>2 DEF MustReload, Outrun, Above
    <3>3. CASE rpc[u] = "page"
      <4>1. PICK m \in Message : AppendEntries(m)
        BY <1>4, <2>3, NumberWriters DEF NumbersKept, Incr
      <4>2. Lands(m)
        BY <4>1, AppendLands
      <4>3. b \in TrimmedUnder(m, u)
        BY <2>1, <2>3, <3>3 DEF TrimmedUnder, At, Base
      <4> QED
        BY <1>3, <1>6, <4>2, <4>3 DEF StoreStep
    <3> QED
      BY <3>2, <3>3
  <2> QED
    BY <2>2, <2>3
<1>11. CASE MustReload(u)
  <2>1. PICK n \in 1..seq : n > Base(u) /\ Outrun(changelog, n)
    BY <1>11 DEF MustReload
  <2>2. n \in Nat /\ n \in 1..seq'
    BY <1>4
  <2>3. Outrun(changelog', n)
    BY <1>4, <2>1, <2>2, OutrunStays
  <2> QED
    BY <1>1, <1>5, <1>6, <1>11, <2>1, <2>2, <2>3 DEF MustReload, Outrun, Above
<1>12. CASE Right(u, b) /\ blockData'[b] = blockData[b]
  <2>1. Right(u, b)'
    BY <1>1, <1>12 DEF Right, Unread, Applied
  <2> QED
    BY <2>1 DEF Fresh
<1>13. CASE b \in gone /\ blockData[b] # 0 /\ blockData'[b] = blockData[b]
  <2>1. CASE b \in gone'
    BY <1>13, <2>1 DEF Fresh
  <2>2. CASE b \notin gone'
    <3>1. PICK e \in LatestByBlock(changelog') : e.op = "upsert" /\ e.block = b
      BY <1>13, <2>2 DEF StoreStep, NewestDeletes, Upserts
    <3>2. e \in changelog' /\ e.seq \in Nat
      BY <1>4, <3>1 DEF LatestByBlock, Numbered
    <3>3. CASE e \in changelog
      <4>1. PICK f \in LatestByBlock(changelog) : f.block = b /\ f.seq >= e.seq
        BY <1>4, <3>1, <3>3, NewestOf
      <4>2. f \in changelog /\ f.op = "delete" /\ f.seq \in Nat
        BY <1>4, <1>13, <4>1 DEF GoneInv, LatestByBlock, Numbered
      <4>3. f.seq > e.seq
        BY <1>4, <3>1, <3>2, <3>3, <4>1, <4>2 DEF Numbered
      <4>4. f \notin changelog'
        BY <3>1, <3>2, <4>1, <4>2, <4>3 DEF LatestByBlock
      <4>5. Outrun(changelog', f.seq)
        BY <1>4, <4>2, <4>4, OutrunStays
      <4>6. \A g \in changelog' : g.seq > f.seq
        BY <1>4, <4>2, <4>5, OutrunBelow DEF RetentionInv, Outrun, Above
      <4> QED
        BY <3>2, <4>2, <4>3, <4>6
    <3>4. CASE e \notin changelog
      <4>1. PICK m \in Message : AppendEntries(m)
        BY <1>4, <3>2, <3>4, NumberWriters DEF NumbersKept, Incr
      <4>2. PICK number \in Injection(Events(m), AllocatedTo(m)) :
              changelog' = Trimmed(changelog \union NewEntries(m, number))
        BY <4>1 DEF AppendEntries
      <4>3. e \in NewEntries(m, number)
        BY <3>2, <3>4, <4>2, TrimSubset
      <4>4. b \in Events(m)
        BY <3>1, <4>3 DEF NewEntries
      <4> QED
        BY <1>6, <4>1, <4>4, Landed
    <3> QED
      BY <3>3, <3>4
  <2> QED
    BY <2>1, <2>2
<1> QED
  BY <1>2, <1>7, <1>8, <1>9, <1>10, <1>11, <1>12, <1>13 DEF Fresh

\* Nothing between the cursor and the next one is missing from the page.
LEMMA PageComplete ==
  ASSUME Inv, NumbersInv, SyncTypeOK, NEW u \in Client, Page(u) # {},
         NEW e \in changelog, e.seq > cursor[u], e.seq <= NextCursor(Page(u))
  PROVE  e \in Page(u)
<1> DEFINE after == {f \in changelog : f.seq > cursor[u]}
           Below(n) == {f \in after : f.seq < n}
<1>1. Numbered(changelog, seq) /\ seq \in Nat /\ PageLimit \in Nat
  BY ClientAssumption DEF Inv, TypeOK, NumbersInv, SeqsUnique, Numbered
<1>2. PICK p \in Page(u) : p.seq = NextCursor(Page(u))
  BY NextCursorHighest
<1>3. p \in after /\ Cardinality(Below(p.seq)) < PageLimit
  BY <1>2 DEF Page
<1>4. e.seq \in Nat /\ p.seq \in Nat /\ e.seq <= p.seq
  BY <1>1, <1>2, <1>3 DEF Numbered
<1>5. Below(e.seq) \subseteq Below(p.seq)
  BY <1>1, <1>4 DEF Numbered
<1>6. IsFiniteSet(Below(p.seq))
  <2>1. IsFiniteSet(changelog)
    BY <1>1, EntriesFinite DEF Numbered
  <2>2. Below(p.seq) \subseteq changelog
    OBVIOUS
  <2> QED
    BY <2>1, <2>2, FS_Subset
<1>7. /\ IsFiniteSet(Below(e.seq))
      /\ Cardinality(Below(e.seq)) <= Cardinality(Below(p.seq))
  BY <1>5, <1>6, FS_Subset
<1>8. Cardinality(Below(e.seq)) \in Nat /\ Cardinality(Below(p.seq)) \in Nat
  BY <1>6, <1>7, FS_CardinalityType
<1>9. Cardinality(Below(e.seq)) < PageLimit
  BY <1>1, <1>3, <1>7, <1>8
<1> QED
  BY <1>9 DEF Page

\* The page read tells the client of its blocks what they are, unless something
\* newer waits or a deletion was numbered after the row was written again.
LEMMA FreshRead ==
  ASSUME CursorInv, GoneInv, NEW u \in Client, ReadPage(u), Page(u) # {},
         NEW b \in Block, Ahead(u, b) \/ Right(u, b)
  PROVE  Fresh(u, b)'
<1> USE DEF CursorInv
<1>1. Numbered(changelog, seq) /\ seq \in Nat /\ cursor[u] \in Nat
      /\ changelog \subseteq ChangelogEntry
      /\ rpc \in [Client -> RequestLabels] /\ rcur \in [Client -> Nat]
      /\ revents \in [Client -> SUBSET ChangelogEntry]
  BY DEF Inv, TypeOK, SyncTypeOK, NumbersInv, SeqsUnique, Numbered
<1> DEFINE next == NextCursor(Page(u))
           newest == LatestByBlock(Page(u))
<1>2. /\ rpc[u] = "page" /\ rpc'[u] = "member" /\ rcur'[u] = next /\ revents'[u] = newest
      /\ UNCHANGED <<changelog, blockData, cursor, view, gone>>
  BY <1>1 DEF ReadPage, Proceed, At, vars, store, history
<1>3. Base(u) = cursor[u] /\ Base(u)' = next /\ next \in Nat
  BY <1>2, NextCursorHighest DEF Base
<1>4. Page(u) \subseteq changelog /\ Numbered(Page(u), seq)
      /\ \A e \in Page(u) : e.seq > cursor[u]
  BY <1>1 DEF Page, Numbered
<1>5. CASE \E e \in Page(u) : e.block = b
  <2>1. PICK f \in newest : f.block = b
    BY <1>1, <1>4, <1>5, NewestOf
  <2>2. f \in Page(u) /\ f.op \in {"upsert", "delete"} /\ f.seq \in Nat
    BY <1>1, <1>4, <2>1 DEF LatestByBlock, ChangelogEntry, Numbered
  <2>3. CASE f.op = "upsert"
    <3>1. b \in Upserts(revents'[u])
      BY <1>2, <2>1, <2>3 DEF Upserts
    <3>2. Right(u, b)'
      BY <1>2, <3>1 DEF Right, Unread, Upserts
    <3> QED
      BY <3>2 DEF Fresh
  <2>4. CASE f.op = "delete"
    <3>1. b \in Deletes(revents'[u])
      BY <1>2, <2>1, <2>4 DEF Deletes
    <3>2. b \notin Upserts(revents'[u])
      <4> SUFFICES ASSUME NEW g \in newest, g.block = b, g.op = "upsert"
                   PROVE  FALSE
        BY <1>2 DEF Upserts
      <4>1. g = f
        BY <1>1, <1>4, <2>1, NewestUnique
      <4> QED
        BY <2>4, <4>1
    <3>3. CASE blockData[b] = 0
      <4>1. Right(u, b)'
        BY <1>2, <3>1, <3>2, <3>3 DEF Right, Unread, Upserts, Deletes
      <4> QED
        BY <4>1 DEF Fresh
    <3>4. CASE blockData[b] # 0
      <4>1. PICK g \in LatestByBlock(changelog) : g.block = b /\ g.seq >= f.seq
        BY <1>1, <1>4, <2>1, <2>2, NewestOf
      <4>2. g \in changelog /\ g.seq \in Nat /\ g.seq > cursor[u]
        BY <1>1, <1>4, <2>2, <4>1 DEF LatestByBlock, Numbered
      <4>3. CASE g.seq > next
        <5>1. Ahead(u, b)'
          BY <1>2, <1>3, <4>1, <4>2, <4>3 DEF Ahead
        <5> QED
          BY <5>1 DEF Fresh
      <4>4. CASE g.seq <= next
        <5>1. g \in Page(u)
          BY <4>2, <4>4, PageComplete
        <5>2. g.seq <= f.seq
          BY <2>1, <4>1, <5>1 DEF LatestByBlock
        <5>3. g = f
          BY <1>4, <2>2, <4>1, <4>2, <5>1, <5>2 DEF Numbered
        <5>4. b \in gone
          BY <2>1, <2>4, <4>1, <5>3 DEF GoneInv
        <5> QED
          BY <1>2, <3>4, <5>4 DEF Fresh
      <4> QED
        BY <1>3, <4>2, <4>3, <4>4
    <3> QED
      BY <3>3, <3>4
  <2> QED
    BY <2>2, <2>3, <2>4
<1>6. CASE ~\E e \in Page(u) : e.block = b
  <2>1. b \notin Upserts(revents'[u]) \union Deletes(revents'[u])
    BY <1>2, <1>6 DEF Upserts, Deletes, LatestByBlock
  <2>2. CASE Ahead(u, b)
    <3>1. PICK e \in changelog : e.block = b /\ e.seq > cursor[u]
      BY <1>3, <2>2 DEF Ahead
    <3>2. e.seq \in Nat /\ ~(e.seq <= next)
      BY <1>1, <1>6, <3>1, PageComplete DEF Numbered
    <3>3. Ahead(u, b)'
      BY <1>2, <1>3, <3>1, <3>2 DEF Ahead
    <3> QED
      BY <3>3 DEF Fresh
  <2>3. CASE Right(u, b)
    <3>1. view[u][b] = blockData[b]
      BY <1>2, <2>3 DEF Right, Unread
    <3>2. Right(u, b)'
      BY <1>2, <2>1, <3>1 DEF Right, Unread, Upserts, Deletes
    <3> QED
      BY <3>2 DEF Fresh
  <2> QED
    BY <2>2, <2>3
<1> QED
  BY <1>5, <1>6

\* What a current client has of its blocks, after a step of its own request.
LEMMA FreshOwn ==
  ASSUME CursorInv, VersionInv, RetentionInv, GoneInv, PageInv, NEW u \in Client,
         SyncStep(u) \/ Disconnect(u), ~Reload(u), NEW b \in userBlocks[u], Fresh(u, b)
  PROVE  Fresh(u, b)'
<1> USE DEF CursorInv
<1>1. /\ cursor \in [Client -> Nat] /\ rcur \in [Client -> Nat] /\ seq \in Nat
      /\ view \in [Client -> [Block -> Nat]] /\ rdata \in [Client -> [Block -> Nat]]
      /\ rpc \in [Client -> RequestLabels]
      /\ revents \in [Client -> SUBSET ChangelogEntry]
      /\ b \in Block
  BY ClientAssumption DEF Inv, TypeOK, SyncTypeOK
<1>2. UNCHANGED <<seq, changelog, blockData, pc, todo, chunk, gone>>
  BY ClientsKeepStore DEF store, handler
<1>3. \A m \in Message : Pending(m)' = Pending(m)
  BY <1>2 DEF Pending
<1>4. UNCHANGED lost
  BY DEF SyncStep, Request, ReadVersion, CountSubscriptions, CheckRetention, ReadPage,
     CheckMembership, ReadData, Respond, ReadSeq, Disconnect, history
<1>5. CASE \/ <<u, b>> \in lost
           \/ b \in gone /\ blockData[b] # 0
           \/ \E m \in Message : b \in Pending(m)
  BY <1>2, <1>3, <1>4, <1>5 DEF Fresh
<1>6. ASSUME Base(u)' = Base(u), Ahead(u, b)
      PROVE  Fresh(u, b)'
  <2>1. Ahead(u, b)'
    BY <1>2, <1>6 DEF Ahead
  <2> QED
    BY <2>1 DEF Fresh
<1>7. ASSUME Base(u)' = Base(u), MustReload(u), rpc'[u] # "page"
      PROVE  Fresh(u, b)'
  <2>1. MustReload(u)'
    BY <1>2, <1>7 DEF MustReload, Outrun, Above
  <2> QED
    BY <2>1 DEF Fresh
<1>8. ASSUME Right(u, b)'
      PROVE  Fresh(u, b)'
  BY <1>8 DEF Fresh
<1> SUFFICES ASSUME Ahead(u, b) \/ MustReload(u) \/ Right(u, b)
             PROVE  Fresh(u, b)'
  BY <1>5 DEF Fresh
<1>9. CASE \/ Request(u) \/ ReadVersion(u) \/ CountSubscriptions(u) \/ ReadSeq(u)
           \/ CheckRetention(u)
  <2>1. /\ rpc[u] \notin {"member", "data", "respond"}
        /\ rpc'[u] \notin {"member", "data", "respond"}
        /\ rpc'[u] = "page" => CheckRetention(u) /\ ~IsStale(u)
        /\ UNCHANGED <<cursor, view>>
    BY <1>1, <1>9 DEF Request, ReadVersion, CountSubscriptions, ReadSeq, CheckRetention,
       Proceed, At
  <2>2. Base(u) = cursor[u] /\ Base(u)' = Base(u)
    BY <2>1 DEF Base
  <2>3. CASE Right(u, b)
    BY <1>2, <1>8, <2>1, <2>3 DEF Right, Unread
  <2>4. CASE MustReload(u)
    <3>1. IsStale(u)
      BY <2>2, <2>4, OutrunIsStale DEF MustReload
    <3> QED
      BY <1>7, <2>1, <2>2, <2>4, <3>1
  <2> QED
    BY <1>6, <2>2, <2>3, <2>4
<1>10. CASE ReadPage(u)
  <2>1. rpc[u] = "page" /\ ~MustReload(u)
    BY <1>10 DEF ReadPage, At, MustReload
  <2>2. CASE Page(u) # {}
    BY <1>1, <1>10, <2>1, <2>2, FreshRead
  <2>3. CASE Page(u) = {}
    <3>1. rpc'[u] = "idle" /\ UNCHANGED <<cursor, view>>
      BY <1>1, <1>10, <2>3 DEF ReadPage, Proceed
    <3>2. Base(u)' = Base(u)
      BY <2>1, <3>1 DEF Base
    <3>3. Right(u, b) => Right(u, b)'
      BY <1>2, <2>1, <3>1 DEF Right, Unread
    <3> QED
      BY <1>6, <1>8, <2>1, <3>2, <3>3
  <2> QED
    BY <2>2, <2>3
<1>11. ASSUME NEW c \in Block, CheckMembership(u, c)
       PROVE  Fresh(u, b)'
  <2> DEFINE relevant == IF c \in userBlocks[u] THEN revents[u]
                         ELSE {e \in revents[u] : e.block # c}
  <2>1. /\ rpc[u] = "member" /\ revents'[u] = relevant
        /\ \/ rpc'[u] = "member"
           \/ rpc'[u] = "data" /\ rleft'[u] = Upserts(relevant)
           \/ rpc'[u] = "respond" /\ Upserts(relevant) = {}
        /\ UNCHANGED <<cursor, rcur, view>>
    BY <1>1, <1>11 DEF CheckMembership, Proceed, At, SyncTypeOK
  <2>2. Base(u)' = Base(u)
    BY <2>1 DEF Base
  <2>3. /\ b \in Upserts(relevant) <=> b \in Upserts(revents[u])
        /\ b \in Deletes(relevant) <=> b \in Deletes(revents[u])
    BY DEF Upserts, Deletes
  <2>4. /\ Upserts(revents[u])' = Upserts(relevant)
        /\ Deletes(revents[u])' = Deletes(relevant)
    BY <2>1 DEF Upserts, Deletes
  <2>5. CASE Right(u, b)
    <3> HIDE DEF relevant
    <3>1. \/ b \in Upserts(relevant)
          \/ b \notin Upserts(relevant) /\ b \in Deletes(relevant) /\ blockData[b] = 0
          \/ b \notin Upserts(relevant) \union Deletes(relevant) /\ view[u][b] = blockData[b]
      BY <2>1, <2>3, <2>5 DEF Right, Unread
    <3>2. CASE b \in Upserts(relevant)
      <4>1. Unread(u, b)' /\ b \in Upserts(revents[u])'
        BY <2>1, <2>4, <3>2 DEF Unread
      <4>2. Right(u, b)'
        BY <4>1 DEF Right, Unread
      <4> QED
        BY <1>8, <4>2
    <3>3. CASE b \notin Upserts(relevant)
      <4>1. Applied(u)'[b] = IF b \in Deletes(relevant) THEN 0 ELSE view[u][b]
        BY <1>1, <2>1, <2>4, <3>3 DEF Applied
      <4>2. Applied(u)'[b] = blockData'[b]
        BY <1>2, <3>1, <3>3, <4>1
      <4>3. Right(u, b)'
        BY <1>2, <2>1, <2>4, <3>1, <4>2 DEF Right, Unread
      <4> QED
        BY <1>8, <4>3
    <3> QED
      BY <3>2, <3>3
  <2> QED
    BY <1>6, <1>7, <2>1, <2>2, <2>5
<1>12. ASSUME NEW c \in Block, ReadData(u, c)
       PROVE  Fresh(u, b)'
  <2>1. /\ rpc[u] = "data"
        /\ \/ rpc'[u] = "data"
           \/ rpc'[u] = "respond" /\ rleft[u] \ {c} = {}
        /\ c \in rleft[u] /\ rleft'[u] = rleft[u] \ {c}
        /\ rdata'[u][b] = IF b = c THEN blockData[b] ELSE rdata[u][b]
        /\ UNCHANGED <<cursor, rcur, view, revents>>
    BY <1>1, <1>12 DEF ReadData, Proceed, At, SyncTypeOK
  <2>2. Base(u)' = Base(u)
    BY <2>1 DEF Base
  <2>3. CASE Right(u, b)
    <3>1. Applied(u)'[b] = IF b \in Upserts(revents[u])
                             THEN IF b = c THEN blockData[b] ELSE rdata[u][b]
                           ELSE IF b \in Deletes(revents[u]) THEN 0 ELSE view[u][b]
      BY <1>1, <2>1 DEF Applied, Upserts, Deletes
    <3>2. CASE b \in rleft[u] /\ b # c
      <4>1. Unread(u, b) /\ Unread(u, b)'
        BY <2>1, <3>2 DEF Unread
      <4> QED
        BY <1>2, <1>8, <2>1, <2>3, <4>1 DEF Right, Unread, Upserts, Deletes
    <3>3. CASE b = c
      <4>1. Applied(u)'[b] = blockData[b]
        BY <2>1, <2>3, <3>1, <3>3 DEF Right, Unread
      <4> QED
        BY <1>2, <1>8, <2>1, <3>3, <4>1 DEF Right, Unread
    <3>4. CASE b \notin rleft[u]
      <4>1. Applied(u)[b] = blockData[b] /\ b # c
        BY <2>1, <2>3, <3>4 DEF Right, Unread
      <4>2. Applied(u)'[b] = Applied(u)[b]
        BY <1>1, <3>1, <4>1 DEF Applied
      <4> QED
        BY <1>2, <1>8, <2>1, <3>4, <4>1, <4>2 DEF Right, Unread
    <3> QED
      BY <3>2, <3>3, <3>4
  <2> QED
    BY <1>6, <1>7, <2>1, <2>2, <2>3
<1>13. CASE Respond(u)
  <2>1. /\ rpc[u] = "respond" /\ rpc'[u] = "idle" /\ cursor'[u] = rcur[u]
        /\ view'[u] = Applied(u)
    BY <1>1, <1>13 DEF Respond, Done, Proceed, At
  <2>2. Base(u)' = Base(u)
    BY <2>1 DEF Base
  <2>3. Right(u, b) => Right(u, b)'
    BY <1>2, <2>1 DEF Right, Unread
  <2> QED
    BY <1>6, <1>7, <1>8, <2>1, <2>2, <2>3
<1>14. CASE Disconnect(u)
  <2>1. rpc'[u] = "idle" /\ UNCHANGED <<cursor, view>>
    BY <1>1, <1>14 DEF Disconnect, Done, Proceed
  <2>2. Base(u)' = cursor[u] /\ cursor[u] \in Nat /\ Base(u) \in Nat /\ cursor[u] <= Base(u)
    BY <1>1, <2>1 DEF Base, PositionInv
  <2>3. \A n \in Nat : n > Base(u) => n > cursor[u]
    BY <2>2
  <2>4. CASE Ahead(u, b)
    <3>1. PICK e \in changelog : e.block = b /\ e.seq > Base(u)
      BY <2>4 DEF Ahead
    <3>2. e.seq \in Nat
      BY DEF NumbersInv, SeqsUnique
    <3>3. Ahead(u, b)'
      BY <1>2, <2>2, <2>3, <3>1, <3>2 DEF Ahead
    <3> QED
      BY <3>3 DEF Fresh
  <2>5. ASSUME NEW n \in 1..seq, n > cursor[u], Outrun(changelog, n)
        PROVE  Fresh(u, b)'
    <3>1. MustReload(u)'
      BY <1>2, <2>1, <2>2, <2>5 DEF MustReload, Outrun, Above
    <3> QED
      BY <3>1 DEF Fresh
  <2>6. CASE MustReload(u)
    <3>1. PICK n \in 1..seq : n > Base(u) /\ Outrun(changelog, n)
      BY <2>6 DEF MustReload
    <3> QED
      BY <2>3, <2>5, <3>1
  <2>7. CASE view[u][b] = blockData[b]
    BY <1>2, <1>8, <2>1, <2>7 DEF Right, Unread
  <2>8. CASE /\ rpc[u] \in {"member", "data", "respond"}
             /\ b \in Upserts(revents[u]) \union Deletes(revents[u])
    <3>1. PICK e \in revents[u] : e.block = b
      BY <2>8 DEF Upserts, Deletes
    <3>2. /\ cursor[u] < e.seq /\ e.seq <= rcur[u] /\ e.seq \in Nat
          /\ e \in changelog \/ Outrun(changelog, e.seq)
      BY <2>8, <3>1 DEF PageInv, ChangelogEntry
    <3>3. rcur[u] <= seq /\ rcur[u] \in Nat
      BY <1>1, <2>8 DEF PositionInv
    <3>4. e.seq \in 1..seq /\ e.seq > cursor[u]
      BY <1>1, <2>2, <3>2, <3>3
    <3>5. CASE e \in changelog
      <4>1. Ahead(u, b)'
        BY <1>2, <2>2, <3>1, <3>4, <3>5 DEF Ahead
      <4> QED
        BY <4>1 DEF Fresh
    <3> QED
      BY <2>5, <3>2, <3>4, <3>5
  <2>9. CASE Right(u, b)
    <3>1. CASE Unread(u, b)
      BY <2>7, <2>8, <2>9, <3>1 DEF Right, Unread
    <3>2. CASE rpc[u] \in {"data", "respond"} /\ ~Unread(u, b)
      BY <1>1, <2>7, <2>8, <2>9, <3>2 DEF Right, Applied
    <3>3. CASE rpc[u] \notin {"member", "data", "respond"}
      BY <2>7, <2>9, <3>3 DEF Right, Unread
    <3> QED
      BY <3>1, <3>2, <3>3 DEF Unread
  <2> QED
    BY <2>4, <2>6, <2>9
<1> QED
  BY <1>9, <1>10, <1>11, <1>12, <1>13, <1>14 DEF SyncStep

LEMMA FreshStep ==
  ASSUME CursorInv, VersionInv, RetentionInv, PendingInv, GoneInv, PageInv, FreshInv,
         [SyncNext]_syncVars
  PROVE  FreshInv'
<1> USE DEF CursorInv
<1> SUFFICES ASSUME NEW u \in Client, Current(u)', NEW b \in userBlocks'[u]
             PROVE  Fresh(u, b)'
  BY DEF FreshInv
<1>1. CASE StoreStep
  BY <1>1, FreshStore
<1>2. ASSUME UNCHANGED <<store, handler>>, clientVer'[u] = clientVer[u],
             u \in unbumped => u \in unbumped'
      PROVE  b \in userBlocks[u] /\ Fresh(u, b)
  <2>1. \A m \in Message : Owes(m, u)' <=> Owes(m, u)
    BY <1>2 DEF Owes, UsersOf, handler
  <2>2. Current(u) /\ b \in userBlocks[u]
    BY <1>2, <2>1 DEF Current, store
  <2> QED
    BY <2>2 DEF FreshInv
<1>3. ASSUME NEW v \in Client, SyncStep(v) \/ Disconnect(v), v # u
      PROVE  Fresh(u, b)'
  <2>1. /\ UNCHANGED <<store, handler, gone>>
        /\ UNCHANGED <<cursor[u], clientVer[u], view[u], rpc[u], rcur[u], revents[u],
                        rleft[u], rdata[u]>>
        /\ \A c : <<u, c>> \in lost => <<u, c>> \in lost'
        /\ u \in unbumped => u \in unbumped'
    BY <1>3, OtherClients, ClientsKeepStore
  <2>2. Fresh(u, b)
    BY <1>2, <2>1
  <2>3. UNCHANGED <<seq, changelog, blockData, pc, todo, chunk>>
    BY <2>1 DEF store, handler
  <2>4. \A m \in Message : Pending(m)' = Pending(m)
    BY <2>3 DEF Pending
  <2>5. Ahead(u, b)' = Ahead(u, b) /\ MustReload(u)' = MustReload(u)
    BY <2>1, <2>3 DEF Ahead, MustReload, Base, Outrun, Above
  <2>6. Right(u, b)' = Right(u, b)
    BY <2>1, <2>3 DEF Right, Unread, Applied
  <2> QED
    BY <2>1, <2>2, <2>3, <2>4, <2>5, <2>6 DEF Fresh
<1>4. CASE Reload(u)
  <2>1. /\ rpc'[u] = "idle" /\ UNCHANGED <<userBlocks, blockData>>
        /\ view'[u] = [c \in Block |-> IF c \in userBlocks[u] THEN blockData[c] ELSE 0]
    BY <1>4 DEF Reload, Done, Proceed, SyncTypeOK, vars, store
  <2>2. b \in Block /\ b \in userBlocks[u]
    BY <2>1, ClientAssumption DEF Inv, TypeOK
  <2>3. Right(u, b)'
    BY <2>1, <2>2 DEF Right, Unread
  <2> QED
    BY <2>3 DEF Fresh
<1>5. CASE (SyncStep(u) \/ Disconnect(u)) /\ ~Reload(u)
  <2>1. UNCHANGED <<store, handler, unbumped>>
    BY <1>5, ClientsKeepStore DEF SyncStep, Request, ReadVersion, CountSubscriptions,
       CheckRetention, ReadPage, CheckMembership, ReadData, Respond, ReadSeq, Disconnect, history
  <2>2. clientVer'[u] = clientVer[u]
    <3>1. CASE Respond(u)
      BY <3>1 DEF Respond, VersionInv, At, SyncTypeOK
    <3>2. CASE ~Respond(u)
      BY <1>5, <3>2 DEF SyncStep, Request, ReadVersion, CountSubscriptions, CheckRetention,
         ReadPage, CheckMembership, ReadData, ReadSeq, Disconnect
    <3> QED
      BY <3>1, <3>2
  <2> QED
    BY <1>2, <1>5, <2>1, <2>2, FreshOwn
<1>6. CASE UNCHANGED syncVars
  <2>1. b \in userBlocks[u] /\ Fresh(u, b)
    BY <1>2, <1>6 DEF syncVars, vars, client, history
  <2> QED
    BY <1>6, <2>1 DEF Fresh, Ahead, MustReload, Right, Unread, Applied, Base, Outrun, Above, Pending,
       syncVars, vars, store, handler, client, history
<1> QED
  BY <1>1, <1>3, <1>4, <1>5, <1>6 DEF SyncNext

LEMMA FreshInit ==
  ASSUME SyncInit
  PROVE  VersionInv /\ RetentionInv /\ PendingInv /\ GoneInv /\ PageInv /\ FreshInv
<1>1. subVersion \in [User -> Nat] /\ userBlocks \in [User -> SUBSET Block]
  BY InitInv DEF SyncInit, Inv, TypeOK
<1>2. VersionInv
  BY <1>1, ClientAssumption DEF SyncInit, VersionInv
<1>3. changelog = {} /\ seq = 0
  BY DEF SyncInit, Init
<1>4. RetentionInv /\ GoneInv
  BY <1>3 DEF RetentionInv, GoneInv, LatestByBlock
<1>5. PendingInv /\ PageInv
  BY DEF SyncInit, Init, PendingInv, PageInv
<1>6. FreshInv
  <2> SUFFICES ASSUME NEW u \in Client, NEW b \in userBlocks[u]
               PROVE  Right(u, b)
    BY DEF FreshInv, Fresh
  <2>1. b \in Block
    BY <1>1, ClientAssumption
  <2> QED
    BY <2>1 DEF SyncInit, Right, Unread
<1> QED
  BY <1>2, <1>4, <1>5, <1>6

\* A client that has caught up has missed nothing that is not recorded as lost,
\* deleted and written again, or owed to a bump that was dropped: for any
\* handlers and clients, in any interleaving, with any failures and restarts.
THEOREM MissesAreKnown == SyncSpec => []MissesOnlyLost
<1> DEFINE Known == VersionInv /\ RetentionInv /\ PendingInv /\ GoneInv /\ PageInv /\ FreshInv
<1>1. SyncInit => CursorInv /\ Known
  BY CursorInvInit, FreshInit
<1>2. CursorInv /\ Known /\ [SyncNext]_syncVars => CursorInv' /\ Known'
  BY CursorInvStep, VersionStep, RetentionSyncStep, PendingSyncStep, GoneStep, PageStep,
     FreshStep DEF CursorInv
<1>3. CursorInv /\ Known => MissesOnlyLost
  <2> SUFFICES ASSUME CursorInv, FreshInv, NEW u \in Client, CaughtUp(u), u \notin unbumped,
                      NEW b \in userBlocks[u], <<u, b>> \notin lost,
                      ~(b \in gone /\ blockData[b] # 0)
               PROVE  view[u][b] = blockData[b]
    BY DEF MissesOnlyLost
  <2>1. \A m \in Message : Pending(m) = {} /\ ~Owes(m, u)
    BY DEF CaughtUp, Settled, Pending, Owes
  <2>2. Fresh(u, b)
    BY <2>1 DEF FreshInv, Current, CaughtUp
  <2>3. Base(u) = cursor[u] /\ cursor[u] \in Nat
    BY DEF Base, CaughtUp, CursorInv, SyncTypeOK
  <2>4. \A e \in changelog : e.seq \in Nat /\ e.seq <= cursor[u]
    BY DEF CaughtUp, CursorInv, NumbersInv, SeqsUnique
  <2>5. ~Ahead(u, b)
    BY <2>3, <2>4 DEF Ahead
  <2>6. ~MustReload(u)
    <3> SUFFICES ASSUME NEW n \in 1..seq, n > cursor[u], Outrun(changelog, n)
                 PROVE  FALSE
      BY <2>3 DEF MustReload
    <3>1. PICK e \in changelog : e.seq > n
      BY OutrunHasAbove
    <3> QED
      BY <2>3, <2>4, <3>1
  <2>7. Right(u, b)
    BY <2>1, <2>2, <2>5, <2>6 DEF Fresh
  <2> QED
    BY <2>7 DEF Right, Unread, CaughtUp
<1> QED
  BY <1>1, <1>2, <1>3, PTL DEF SyncSpec
=============================================================================
