------------------------ MODULE SandboxRoutingProofs ------------------------
(***************************************************************************)
(* Where the updates inside a private sandbox go and what the sandbox      *)
(* cache says, for every set of messages, containers, modes and contexts,  *)
(* with and without a backend to ask.                                      *)
(***************************************************************************)
EXTENDS SandboxRouting, SyncStoreProofs

RoutingTypeOK ==
  /\ sandbox \in [Block -> SandboxInfo]
  /\ truth \in [Block -> SandboxInfo]
  /\ pc \in [Message -> Labels \union {"fetch", "store"}]
  /\ todo \in [Message -> SUBSET Block]
  /\ seen \in [Message -> SUBSET (User \X Block)]
  /\ handed \in [Message -> SUBSET (User \X Block)]
  /\ fetched \in [Message -> SandboxInfo]
  /\ published \subseteq Message

RoutingLabelsOf(m) ==
  LabelsOf(m) \union {"queued", "ack", "settled"}
    \union (IF m.action = "update_block" THEN {"fetch", "store"} ELSE {})

\* Nothing is handled before it is published, and a handler is at a step of
\* its own.
StepInv ==
  \A m \in Message :
    /\ pc[m] \in RoutingLabelsOf(m)
    /\ pc[m] # "queued" => m \in published
    /\ m.action \notin AclActions => todo[m] \subseteq Containers(m)
    /\ pc[m] \in {"lookup", "fetch", "store"} => NeedsLookup(m)
    /\ pc[m] \in {"lookup", "fetch", "store", "send"} => seen[m] \subseteq User \X m.blocks

\* Whom an update may go to: the condition of PrivateStaysInside for one pair.
StaysInside(m, s) ==
  LET d == m.data[s[2]] IN
    d.parent # NoBlock /\ truth[d.parent].mode = "private" =>
      s[1] \in {d.creator, truth[d.parent].owner}

\* A handler that is not misled goes by what the backend says: by its context,
\* by the answer it is about to cache, in what it has left to send.
InformedInv ==
  \A m \in Message : m.action \in UpdateActions /\ m \notin misled =>
    /\ m \in published => \A p \in Parents(m) \intersect DOMAIN m.context : m.context[p] = truth[p]
    /\ pc[m] = "store" => fetched[m] = truth[ParentOf(m)]
    /\ pc[m] = "send" => \A s \in seen[m] : StaysInside(m, s)

\* m still has to cache the mode of b.
Owes(m, b) ==
  /\ m \in published /\ b \in Carried(m)
  /\ pc[m] = "queued" \/ (pc[m] \in {"save", "incr", "append", "cache"} /\ b \in todo[m])

\* A block whose cache disagrees with the backend is one whose mode is on its
\* way to the cache.
CacheInv ==
  \A b \in Block :
    sandbox[b] \in {NoSandbox, truth[b]} \/ b \in overtaken \/ \E m \in Message : Owes(m, b)

RoutingInv == failures \in Nat /\ RoutingTypeOK /\ StepInv /\ InformedInv /\ CacheInv
-----------------------------------------------------------------------------
(* The operators.                                                          *)

\* The mode a message carries is a sandbox's or none.
LEMMA CachedTyped ==
  ASSUME NEW m \in Message, m.action \notin AclActions, NEW b \in m.blocks
  PROVE  CachedInfo(m.data[b]) \in SandboxInfo
<1>1. m.data[b] \in BlockDatum
  BY MessageAssumption
<1> QED
  BY <1>1 DEF BlockDatum, CachedInfo, SandboxInfo, NoSandbox

\* A message that carries a mode carries those of its own blocks.
LEMMA CarriedBlocks ==
  ASSUME NEW m \in Message
  PROVE  /\ Carried(m) \subseteq m.blocks
         /\ Carried(m) \subseteq Block
         /\ Carried(m) # {} => m.action \notin AclActions /\ Carried(m) = Containers(m)
<1>1. m.blocks \subseteq Block
  BY MessageAssumption
<1> QED
  BY <1>1 DEF Carried, Containers

\* An update_block that looks its parent up has that one parent, and no
\* context for it.
LEMMA OneParent ==
  ASSUME NEW m \in Message, m.action = "update_block", NeedsLookup(m)
  PROVE  /\ ParentOf(m) \in Block
         /\ Parents(m) = {ParentOf(m)}
         /\ ParentOf(m) \notin DOMAIN m.context
<1>1. PICK b : m.blocks = {b}
  <2>1. IsFiniteSet(m.blocks) /\ Cardinality(m.blocks) = 1
    BY MessageAssumption
  <2> QED
    BY <2>1, FS_Singleton
<1>2. m.data[b] \in BlockDatum
  BY <1>1, MessageAssumption DEF AclActions
<1>3. Parents(m) = {m.data[b].parent} \ {NoBlock}
  BY <1>1 DEF Parents
<1>4. PICK p \in Parents(m) : p \notin DOMAIN m.context
  BY DEF NeedsLookup
<1>5. Parents(m) = {p} /\ p \in Block
  BY <1>2, <1>3, <1>4 DEF BlockDatum
<1>6. ParentOf(m) \in Parents(m)
  BY <1>4 DEF ParentOf
<1> QED
  BY <1>4, <1>5, <1>6

\* What the filter lets through of an update stays inside, if it is told the
\* backend's modes of its parents.
LEMMA RoutedStays ==
  ASSUME NEW m \in Message, NEW pairs, pairs \subseteq User \X m.blocks, NEW info,
         \A p \in Parents(m) : info[p] = truth[p]
  PROVE  \A s \in Routed(m, pairs, info) : StaysInside(m, s)
<1> SUFFICES ASSUME NEW s \in Routed(m, pairs, info), m.data[s[2]].parent # NoBlock,
                    truth[m.data[s[2]].parent].mode = "private"
             PROVE  s[1] \in {m.data[s[2]].creator, truth[m.data[s[2]].parent].owner}
  BY DEF StaysInside
<1>1. s \in pairs /\ s[2] \in m.blocks
  BY DEF Routed
<1>2. info[m.data[s[2]].parent] = truth[m.data[s[2]].parent]
  BY <1>1 DEF Parents
<1> QED
  BY <1>2 DEF Routed

LEMMA PairsOfBlocks ==
  ASSUME NEW blocks
  PROVE  PairsOf(blocks) \subseteq User \X Block /\ PairsOf(blocks) \subseteq User \X blocks
BY DEF PairsOf
-----------------------------------------------------------------------------
(* The steps that neither route an update nor look a parent up.            *)

\* A step of m's handler touches its own locals only.
Frame(m) ==
  \A n \in Message \ {m} :
    pc'[n] = pc[n] /\ todo'[n] = todo[n] /\ seen'[n] = seen[n] /\ handed'[n] = handed[n]
      /\ fetched'[n] = fetched[n]

\* Such a step sends no update, ends before the lookup, leaves the cache alone
\* or forgets what it says of a block, except for the modes it caches, and
\* leaves no mode out that it does not account for.
Quiet(m) ==
  /\ RoutingTypeOK' /\ Frame(m)
  /\ fetched' = fetched
  /\ pc'[m] \in (LabelsOf(m) \union {"ack", "settled"}) \ {"lookup", "send"}
  /\ m.action \in UpdateActions => handed'[m] = handed[m]
  /\ m.action \notin AclActions => todo'[m] \subseteq Containers(m)
  /\ \A b \in Block : sandbox'[b] \in {sandbox[b], NoSandbox} \/ b \in Written
  /\ \A b \in Block : Owes(m, b) => Owes(m, b)' \/ b \in Written

\* Where an update's handler goes before it reads its subscribers.
LEMMA BeforeReading ==
  ASSUME NEW m \in Message, m.action \in Actions
  PROVE  /\ m.action \in UpdateActions => AfterAppend(m) \in {"cache", "subscribers"}
         /\ m.action \in UpdateActions => EnterAppend(m) \in {"incr", "cache", "subscribers"}
         /\ Carried(m) # {} /\ m.action \in UpdateActions =>
              AfterAppend(m) = "cache" /\ EnterAppend(m) \in {"incr", "cache"}
BY DEF AfterAppend, EnterAppend, Carried, UpdateActions, AclActions, Actions

\* What the frame and the types need of a move that changes no other local.
LEMMA MoveOnly ==
  ASSUME RoutingTypeOK, NEW m \in Message, NEW label \in Labels, Goto(m, label),
         UNCHANGED <<todo, seen, handed, fetched, truth, published>>,
         sandbox' \in [Block -> SandboxInfo]
  PROVE  RoutingTypeOK' /\ Frame(m) /\ pc'[m] = label
BY DEF RoutingTypeOK, Goto, Frame

\* Where a call of the store that only moves the handler may take it.
Onward(m, label) ==
  /\ label \in (LabelsOf(m) \union {"ack"}) \ {"lookup", "send"}
  /\ pc[m] \in {"save", "incr", "append"} /\ Carried(m) # {} =>
       label \in {"incr", "append", "cache"} \/ (pc[m] = "save" /\ label = "ack")

LEMMA OnwardLabels ==
  ASSUME StepInv, NEW m \in Message
  PROVE  /\ pc[m] \notin {"queued", "ack", "cache", "lookup", "fetch", "store"} =>
              Onward(m, OnError(m))
         /\ pc[m] = "save" => Onward(m, EnterAppend(m))
         /\ pc[m] = "incr" => Onward(m, "append")
         /\ pc[m] = "append" => Onward(m, AfterAppend(m))
         /\ pc[m] = "bump" => Onward(m, AfterBump(m))
         /\ pc[m] = "write" => Onward(m, EnterBump(m)) /\ Onward(m, "write")
         /\ pc[m] = "delete" => Onward(m, EnterAppend(m))
<1>1. m.action \in Actions /\ pc[m] \in RoutingLabelsOf(m)
  BY MessageAssumption DEF StepInv
<1>2. m.action \in AclActions => Carried(m) = {}
  BY DEF Carried
<1>3. m.action \notin UpdateActions =>
        LabelsOf(m) \intersect {"lookup", "send"} = {}
  BY DEF LabelsOf
<1>4. pc[m] \in {"save", "lookup", "send"} => m.action \in UpdateActions
  BY <1>1 DEF RoutingLabelsOf, LabelsOf
<1>5. pc[m] \in {"incr", "append"} =>
        (m.action \in UpdateActions \/ m.action = "unsubscribe") /\ "append" \in LabelsOf(m)
  BY <1>1 DEF RoutingLabelsOf, LabelsOf, UpdateActions, AclActions
<1>6. pc[m] = "bump" => m.action \in AclActions
  BY <1>1 DEF RoutingLabelsOf, LabelsOf, UpdateActions, AclActions
<1>7. pc[m] = "write" => m.action \in AclActions /\ "write" \in LabelsOf(m)
  BY <1>1 DEF RoutingLabelsOf, LabelsOf, UpdateActions, AclActions
<1>8. pc[m] = "delete" => m.action = "unsubscribe"
  BY <1>1 DEF RoutingLabelsOf, LabelsOf, UpdateActions, AclActions
<1>9. m.action \in UpdateActions => {"incr", "cache", "subscribers"} \subseteq LabelsOf(m)
  BY DEF LabelsOf
<1>10. pc[m] = "save" => Onward(m, EnterAppend(m))
  BY <1>1, <1>4, <1>9, BeforeReading DEF Onward
<1>11. pc[m] = "incr" => Onward(m, "append")
  BY <1>5 DEF Onward
<1>12. pc[m] \in {"incr", "append"} => Onward(m, AfterAppend(m))
  <2>1. CASE m.action \in UpdateActions
    BY <1>1, <1>9, <2>1, BeforeReading DEF Onward
  <2>2. CASE m.action = "unsubscribe"
    BY <1>2, <1>3, <2>2, NextLabels DEF Onward, Exits, AclActions, UpdateActions
  <2> QED
    BY <1>5, <2>1, <2>2
<1>13. pc[m] = "bump" => Onward(m, AfterBump(m))
  BY <1>3, <1>6, NextLabels DEF Onward, Exits, AclActions, UpdateActions
<1>14. pc[m] = "write" => Onward(m, EnterBump(m)) /\ Onward(m, "write")
  BY <1>3, <1>7, NextLabels DEF Onward, Exits, AclActions, UpdateActions
<1>15. pc[m] = "delete" => Onward(m, EnterAppend(m))
  BY <1>3, <1>8, NextLabels DEF Onward, Exits, AclActions, UpdateActions
<1>16. pc[m] \notin {"queued", "ack", "cache", "lookup", "fetch", "store"} =>
         Onward(m, OnError(m))
  BY <1>12, <1>13 DEF OnError, Onward
<1> QED
  BY <1>10, <1>11, <1>12, <1>13, <1>14, <1>15, <1>16

\* A move onward leaves no mode out, but for an update that is given up.
LEMMA OnwardOwes ==
  ASSUME RoutingTypeOK, StepInv, NEW m \in Message, NEW label, Onward(m, label),
         pc' = [pc EXCEPT ![m] = label],
         pc[m] \notin {"queued", "ack", "cache"},
         UNCHANGED published, m.action \notin AclActions => todo' = todo
  PROVE  \A b \in Block : Owes(m, b) => Owes(m, b)' \/ b \in Written
<1> SUFFICES ASSUME NEW b \in Block, Owes(m, b)
             PROVE  Owes(m, b)' \/ b \in Written
  OBVIOUS
<1>1. m \in published /\ b \in Carried(m) /\ pc[m] \in {"save", "incr", "append"} /\ b \in todo[m]
  BY DEF Owes
<1>2. Carried(m) # {} /\ todo' = todo
  BY <1>1, CarriedBlocks
<1>3. pc'[m] = label
  BY DEF RoutingTypeOK
<1>4. CASE label \in {"incr", "append", "cache"}
  BY <1>1, <1>2, <1>3, <1>4 DEF Owes, Carried, Containers
<1>5. CASE pc[m] = "save" /\ label = "ack"
  BY <1>1, <1>3, <1>5 DEF Written
<1> QED
  BY <1>1, <1>2, <1>4, <1>5 DEF Onward

\* A call of the store that leaves the cache and the other locals alone.
LEMMA CallQuiet ==
  ASSUME RoutingTypeOK, StepInv, NEW m \in Message,
         \/ Save(m) \/ Incr(m) \/ AppendEntries(m) \/ BumpVersions(m) \/ CommandLost(m),
         UNCHANGED <<fetched, truth, published>>
  PROVE  Quiet(m)
<1>1. /\ pc[m] \notin {"queued", "ack", "cache", "lookup", "fetch", "store"}
      /\ UNCHANGED <<sandbox, todo, seen, handed>>
  BY DEF Save, Incr, AppendEntries, BumpVersions, CommandLost, store
<1>2. PICK label : Onward(m, label) /\ Goto(m, label)
  <2>1. \/ pc[m] = "save" /\ Replied(m, EnterAppend(m))
        \/ pc[m] = "incr" /\ Replied(m, "append")
        \/ pc[m] = "append" /\ Replied(m, AfterAppend(m))
        \/ pc[m] = "bump" /\ Replied(m, AfterBump(m))
        \/ Goto(m, OnError(m))
    BY DEF Save, Incr, AppendEntries, BumpVersions, CommandLost
  <2> QED
    BY <1>1, <2>1, OnwardLabels DEF Replied
<1>3. label \in Labels
  BY <1>2 DEF Onward, LabelsOf, Labels
<1>4. RoutingTypeOK' /\ Frame(m) /\ pc'[m] = label
  BY <1>1, <1>2, <1>3, MoveOnly DEF RoutingTypeOK
<1>5. \A b \in Block : Owes(m, b) => Owes(m, b)' \/ b \in Written
  BY <1>1, <1>2, OnwardOwes DEF Goto
<1>6. m.action \notin AclActions => todo'[m] \subseteq Containers(m)
  BY <1>1 DEF StepInv
<1> QED
  BY <1>1, <1>2, <1>4, <1>5, <1>6 DEF Quiet, Onward

LEMMA DeliverQuiet ==
  ASSUME RoutingTypeOK, StepInv, NEW m \in Message, Deliver(m),
         UNCHANGED <<fetched, truth, published>>
  PROVE  Quiet(m)
<1>1. m.blocks \subseteq Block /\ m.start \subseteq Block /\ m.action \in Actions
  BY MessageAssumption
<1>2. Containers(m) \subseteq Block
  BY <1>1 DEF Containers
<1>3. FirstStep(m) \in (LabelsOf(m) \union {"ack"}) \ {"lookup", "send"}
  <2>1. FirstStep(m) \in LabelsOf(m) \union {"ack"}
    BY NextLabels DEF Exits
  <2>2. EnterBump(m) \notin {"lookup", "send"}
    BY DEF EnterBump, AfterBump
  <2> QED
    BY <2>1, <2>2 DEF FirstStep
<1>4. FirstStep(m) \in Labels
  BY <1>3 DEF LabelsOf, Labels
<1>5. RoutingTypeOK' /\ Frame(m) /\ pc'[m] = FirstStep(m)
  BY <1>1, <1>2, <1>4 DEF RoutingTypeOK, Deliver, Goto, Frame, store
<1>6. m.action \notin AclActions => todo'[m] = Containers(m)
  BY DEF RoutingTypeOK, Deliver
<1>7. ASSUME NEW b \in Block, Owes(m, b)
      PROVE  Owes(m, b)'
  <2>1. m \in published /\ b \in Carried(m) /\ m.action \notin AclActions /\ b \in Containers(m)
    BY <1>7, CarriedBlocks DEF Owes
  <2>2. m.blocks # {}
    BY <2>1 DEF Containers
  <2>3. FirstStep(m) \in {"cache", "save"}
    BY <1>1, <2>1, <2>2 DEF FirstStep, AclActions
  <2> QED
    BY <1>5, <1>6, <2>1, <2>3 DEF Owes, Carried, Containers
<1>8. sandbox' = sandbox /\ handed' = handed
  BY DEF Deliver, store
<1> QED
  BY <1>3, <1>5, <1>6, <1>7, <1>8 DEF Quiet

LEMMA AckQuiet ==
  ASSUME RoutingTypeOK, StepInv, NEW m \in Message, Ack(m),
         UNCHANGED <<fetched, truth, published>>
  PROVE  Quiet(m)
<1>1. RoutingTypeOK' /\ Frame(m) /\ pc'[m] = "settled" /\ todo'[m] = {}
  BY DEF RoutingTypeOK, Ack, Goto, Frame, store, Labels
<1>2. \A b \in Block : ~Owes(m, b)
  BY DEF Ack, Owes
<1>3. sandbox' = sandbox /\ handed' = handed
  BY DEF Ack, store
<1> QED
  BY <1>1, <1>2, <1>3 DEF Quiet

LEMMA CacheQuiet ==
  ASSUME RoutingTypeOK, StepInv, NEW m \in Message, CacheSandbox(m),
         UNCHANGED <<fetched, truth, published>>
  PROVE  Quiet(m)
<1>1. pc[m] = "cache" /\ UNCHANGED <<seen, handed>>
  BY DEF CacheSandbox
<1>2. m.action \notin AclActions /\ {"cache", "subscribers"} \subseteq LabelsOf(m)
  <2>1. m.action \in Actions /\ pc[m] \in RoutingLabelsOf(m)
    BY MessageAssumption DEF StepInv
  <2>2. m.action \in UpdateActions \/ m.action = "sandbox_mode_changed"
    BY <1>1, <2>1 DEF RoutingLabelsOf, LabelsOf, UpdateActions, AclActions, Actions
  <2> QED
    BY <2>2 DEF LabelsOf, UpdateActions, AclActions
<1>3. PICK b \in todo[m] :
        /\ sandbox' \in {[sandbox EXCEPT ![b] = CachedInfo(m.data[b])], sandbox}
        /\ todo' = [todo EXCEPT ![m] = @ \ {b}]
        /\ Goto(m, IF todo[m] = {b} THEN "subscribers" ELSE "cache")
  BY DEF CacheSandbox
<1>4. todo[m] \subseteq Containers(m) /\ todo[m] \subseteq Block /\ b \in m.blocks
  BY <1>2, <1>3 DEF StepInv, RoutingTypeOK, Containers
<1>5. CachedInfo(m.data[b]) \in SandboxInfo
  BY <1>2, <1>4, CachedTyped
<1>6. /\ todo'[m] = todo[m] \ {b}
      /\ pc'[m] = IF todo[m] = {b} THEN "subscribers" ELSE "cache"
      /\ Frame(m)
  BY <1>1, <1>3 DEF RoutingTypeOK, Goto, Frame
<1>7. RoutingTypeOK'
  BY <1>1, <1>3, <1>4, <1>5 DEF RoutingTypeOK, Goto, Labels
<1>8. b \in Written
  BY <1>1, <1>3, <1>4, <1>6 DEF Written
<1>9. \A c \in Block \ {b} : sandbox'[c] = sandbox[c]
  BY <1>3 DEF RoutingTypeOK
<1>10. ASSUME NEW c \in Block, Owes(m, c)
       PROVE  Owes(m, c)' \/ c \in Written
  <2>1. CASE c = b
    BY <1>8, <2>1
  <2>2. CASE c # b
    <3>1. m \in published /\ c \in Carried(m) /\ c \in todo[m]
      BY <1>1, <1>10 DEF Owes
    <3> QED
      BY <1>6, <2>2, <3>1 DEF Owes, Carried, Containers
  <2> QED
    BY <2>1, <2>2
<1> QED
  BY <1>1, <1>2, <1>4, <1>6, <1>7, <1>8, <1>9, <1>10 DEF Quiet

\* An access handler's step: it owes no mode and sends no update.
LEMMA AccessQuiet ==
  ASSUME RoutingTypeOK, StepInv, NEW m \in Message,
         WriteIndexes(m) \/ Notify(m) \/ ReadMembers(m) \/ DeleteBlocks(m),
         UNCHANGED <<fetched, truth, published>>
  PROVE  Quiet(m)
<1>1. /\ m.action \in AclActions
      /\ pc[m] = "notify" => m.action = "update_access"
      /\ pc[m] = "members" => m.action = "unsubscribe"
  <2>1. pc[m] \in RoutingLabelsOf(m) /\ pc[m] \in {"write", "notify", "members", "delete"}
    BY DEF StepInv, WriteIndexes, Notify, ReadMembers, DeleteBlocks
  <2> QED
    BY <2>1 DEF RoutingLabelsOf, LabelsOf, UpdateActions, AclActions
<1>2. m.action \notin UpdateActions /\ \A b \in Block : ~Owes(m, b)
  BY <1>1 DEF AclActions, UpdateActions, Owes, Carried
<1> SUFFICES /\ RoutingTypeOK' /\ Frame(m)
             /\ pc'[m] \in (LabelsOf(m) \union {"ack", "settled"}) \ {"lookup", "send"}
             /\ \A b \in Block : sandbox'[b] \in {sandbox[b], NoSandbox}
  BY <1>1, <1>2 DEF Quiet
<1>3. CASE WriteIndexes(m)
  <2>1. /\ pc[m] = "write"
        /\ UNCHANGED <<sandbox, seen, handed>>
        /\ \E p \in AccessPortions(m) : todo' = [todo EXCEPT ![m] = @ \ p[1]]
    BY <1>3 DEF WriteIndexes
  <2>2. PICK label : Onward(m, label) /\ Goto(m, label)
    BY <1>3, <2>1, OnwardLabels DEF WriteIndexes, Replied
  <2>3. label \in Labels
    BY <2>2 DEF Onward, LabelsOf, Labels
  <2>4. pc'[m] = label
    BY <2>2 DEF RoutingTypeOK, Goto
  <2>5. RoutingTypeOK' /\ Frame(m)
    BY <2>1, <2>2, <2>3 DEF RoutingTypeOK, Goto, Frame
  <2> QED
    BY <2>1, <2>2, <2>4, <2>5 DEF Onward
<1>4. CASE Notify(m)
  <2>1. m.user \in User /\ m.start \subseteq Block
    BY <1>1, <1>4, MessageAssumption DEF Notify
  <2>2. /\ UNCHANGED <<sandbox, todo, seen>>
        /\ pc' = [pc EXCEPT ![m] = "ack"]
        /\ \E shown \in SUBSET m.start : handed' = [handed EXCEPT ![m] = @ \union ({m.user} \X shown)]
    BY <1>4 DEF Notify, Goto, HandOver, store
  <2>3. RoutingTypeOK'
    BY <2>1, <2>2 DEF RoutingTypeOK, Labels
  <2>4. Frame(m) /\ pc'[m] = "ack"
    BY <2>2 DEF RoutingTypeOK, Frame
  <2> QED
    BY <2>2, <2>3, <2>4
<1>5. CASE ReadMembers(m)
  <2>1. PICK blocks \in Portions(todo[m]) :
          /\ todo' = [todo EXCEPT ![m] = @ \ blocks]
          /\ seen' = [seen EXCEPT ![m] = PairsOf(blocks)]
          /\ handed' = [handed EXCEPT ![m] = @ \union Notices(PairsOf(blocks), blocks)]
    BY <1>5 DEF ReadMembers, HandOver
  <2>2. pc' = [pc EXCEPT ![m] = "delete"] /\ sandbox' = sandbox /\ pc[m] = "members"
    BY <1>5 DEF ReadMembers, Goto, store
  <2>3. blocks \subseteq Block
    BY <2>1 DEF RoutingTypeOK, Portions
  <2>4. PairsOf(blocks) \subseteq User \X Block
    BY PairsOfBlocks
  <2>5. Notices(PairsOf(blocks), blocks) \subseteq User \X Block
    BY <2>3, <2>4 DEF Notices, UsersOf
  <2>6. RoutingTypeOK'
    BY <2>1, <2>2, <2>4, <2>5 DEF RoutingTypeOK, Labels
  <2>7. Frame(m) /\ pc'[m] = "delete"
    BY <2>1, <2>2 DEF RoutingTypeOK, Frame
  <2>8. "delete" \in LabelsOf(m)
    BY <1>1, <2>2 DEF LabelsOf, UpdateActions
  <2> QED
    BY <2>2, <2>6, <2>7, <2>8
<1>6. CASE DeleteBlocks(m)
  <2>1. /\ pc[m] = "delete"
        /\ UNCHANGED <<todo, seen, handed>>
        /\ sandbox' = [b \in Block |-> IF b \in chunk[m] THEN NoSandbox ELSE sandbox[b]]
    BY <1>6 DEF DeleteBlocks
  <2>2. PICK label : Onward(m, label) /\ Goto(m, label)
    BY <1>6, <2>1, OnwardLabels DEF DeleteBlocks, Replied
  <2>3. label \in Labels
    BY <2>2 DEF Onward, LabelsOf, Labels
  <2>4. NoSandbox \in SandboxInfo
    BY DEF NoSandbox, SandboxInfo
  <2>5. sandbox' \in [Block -> SandboxInfo] /\ \A b \in Block : sandbox'[b] \in {sandbox[b], NoSandbox}
    BY <2>1, <2>4 DEF RoutingTypeOK
  <2>6. RoutingTypeOK' /\ Frame(m) /\ pc'[m] = label
    BY <2>1, <2>2, <2>3, <2>5, MoveOnly DEF RoutingTypeOK
  <2> QED
    BY <2>2, <2>5, <2>6 DEF Onward
<1> QED
  BY <1>3, <1>4, <1>5, <1>6
-----------------------------------------------------------------------------
(* The steps that look an update's parents up and send it.                 *)

\* What such a step leaves m with: it sends, keeps for sending and caches what
\* the backend says, unless m is misled.
Answers(m) ==
  /\ RoutingTypeOK' /\ Frame(m)
  /\ pc[m] \in {"subscribers", "lookup", "fetch", "store", "send"}
  /\ pc'[m] \in LabelsOf(m) \union {"ack"}
                  \union (IF m.action = "update_block" THEN {"fetch", "store"} ELSE {})
  /\ pc'[m] \notin {"save", "incr", "append", "cache"}
  /\ todo' = todo
  /\ \A b \in Block : sandbox'[b] \in {sandbox[b], NoSandbox} \/ b \in Written
  /\ pc'[m] \in {"lookup", "fetch", "store"} => NeedsLookup(m)
  /\ pc'[m] \in {"lookup", "fetch", "store", "send"} => seen'[m] \subseteq User \X m.blocks
  /\ m.action \in UpdateActions /\ m \notin misled' =>
       /\ pc'[m] = "store" => fetched'[m] = truth[ParentOf(m)]
       /\ pc'[m] = "send" => \A s \in seen'[m] : StaysInside(m, s)
       /\ \A s \in handed'[m] \ handed[m] : StaysInside(m, s)

\* Whoever is misled in this step is recorded.
LEMMA Recorded ==
  ASSUME Record
  PROVE  \A m \in Message : m \notin misled' =>
           /\ m \notin misled
           /\ m.action \in UpdateActions =>
                ~LookupFailed(m) /\ \A p \in Parents(m) : ~Mistakes(m, p) /\ ~LeavesOut(m, p) /\ ~Outdated(m, p)
BY DEF Record, NowMisled

LEMMA ParentsAreBlocks ==
  ASSUME NEW m \in Message, m.action \in UpdateActions
  PROVE  /\ Parents(m) \subseteq Block
         /\ \A b \in m.blocks : m.data[b].parent # NoBlock => m.data[b].parent \in Parents(m)
<1>1. \A b \in m.blocks : m.data[b] \in BlockDatum
  BY MessageAssumption DEF UpdateActions, AclActions
<1> QED
  BY <1>1 DEF Parents, BlockDatum

LEMMA UpdateLabels ==
  ASSUME StepInv, NEW m \in Message
  PROVE  /\ pc[m] \in {"lookup", "fetch", "store", "send"} => m.action \in UpdateActions
         /\ pc[m] \in {"fetch", "store"} => m.action = "update_block"
         /\ pc[m] = "subscribers" => m.action \in UpdateActions \/ m.action = "sandbox_mode_changed"
         /\ m.action \in UpdateActions => {"lookup", "send"} \subseteq LabelsOf(m)
<1>1. m.action \in Actions /\ pc[m] \in RoutingLabelsOf(m)
  BY MessageAssumption DEF StepInv
<1> QED
  BY <1>1 DEF RoutingLabelsOf, LabelsOf, UpdateActions, AclActions, Actions

\* Dispatch sends what it is given, or keeps it for sending.
LEMMA DispatchAnswers ==
  ASSUME RoutingTypeOK, StepInv, NEW m \in Message, m.action \in UpdateActions,
         pc[m] \in {"subscribers", "lookup", "fetch", "store"},
         NEW pairs, pairs \subseteq User \X m.blocks, Dispatch(m, pairs),
         UNCHANGED <<todo, truth, published>>,
         sandbox' \in [Block -> SandboxInfo], fetched' \in [Message -> SandboxInfo],
         \A n \in Message \ {m} : fetched'[n] = fetched[n],
         \A b \in Block : sandbox'[b] = sandbox[b] \/ b \in Written,
         m \notin misled' => \A s \in pairs : StaysInside(m, s)
  PROVE  Answers(m)
<1>1. m.blocks \subseteq Block
  BY MessageAssumption
<1>2. pairs \subseteq User \X Block
  BY <1>1
<1>3. CASE m.action = "update_blocks" /\ pairs # {}
  <2>1. /\ pc' = [pc EXCEPT ![m] = "send"]
        /\ seen' = [seen EXCEPT ![m] = pairs]
        /\ handed' = handed
    BY <1>3 DEF Dispatch, Goto
  <2>2. RoutingTypeOK' /\ Frame(m) /\ pc'[m] = "send" /\ seen'[m] = pairs
    BY <1>2, <2>1 DEF RoutingTypeOK, Frame, Labels
  <2>3. pc'[m] \in LabelsOf(m)
    BY <2>2 DEF LabelsOf
  <2> QED
    BY <2>1, <2>2, <2>3 DEF Answers
<1>4. CASE ~(m.action = "update_blocks" /\ pairs # {})
  <2>1. /\ pc' = [pc EXCEPT ![m] = "ack"]
        /\ handed' = [handed EXCEPT ![m] = @ \union pairs]
        /\ seen' = seen
    BY <1>4 DEF Dispatch, Goto, HandOver
  <2>2. RoutingTypeOK' /\ Frame(m) /\ pc'[m] = "ack" /\ handed'[m] = handed[m] \union pairs
    BY <1>2, <2>1 DEF RoutingTypeOK, Frame, Labels
  <2> QED
    BY <2>1, <2>2 DEF Answers
<1> QED
  BY <1>3, <1>4

LEMMA RoutedPairs ==
  ASSUME NEW m, NEW pairs, NEW info
  PROVE  Routed(m, pairs, info) \subseteq pairs
BY DEF Routed

LEMMA ReadAnswers ==
  ASSUME RoutingTypeOK, StepInv, NEW m \in Message, ReadSubscribers(m), Record,
         UNCHANGED <<fetched, truth, published>>
  PROVE  Answers(m)
<1> DEFINE pairs == PairsOf(m.blocks)
<1>1. /\ pc[m] = "subscribers" /\ m \in published
      /\ UNCHANGED <<sandbox, todo>>
  BY DEF ReadSubscribers, store, StepInv
<1>2. pairs \subseteq User \X Block /\ pairs \subseteq User \X m.blocks
  BY PairsOfBlocks
<1>3. CASE m.action = "sandbox_mode_changed"
  <2>1. /\ pc' = [pc EXCEPT ![m] = "ack"]
        /\ handed' = [handed EXCEPT ![m] = @ \union pairs]
        /\ seen' = seen
    BY <1>3 DEF ReadSubscribers, Goto, HandOver
  <2> HIDE DEF pairs
  <2>2. RoutingTypeOK' /\ Frame(m) /\ pc'[m] = "ack"
    BY <1>1, <1>2, <2>1 DEF RoutingTypeOK, Frame, Labels
  <2>3. m.action \notin UpdateActions
    BY <1>3 DEF UpdateActions
  <2> QED
    BY <1>1, <2>2, <2>3 DEF Answers
<1>4. CASE m.action \in UpdateActions
  <2>1. m.action # "sandbox_mode_changed"
    BY <1>4 DEF UpdateActions
  <2>2. CASE NeedsLookup(m) /\ (pairs # {} \/ m.action = "update_blocks")
    <3>1. /\ pc' = [pc EXCEPT ![m] = "lookup"]
          /\ seen' = [seen EXCEPT ![m] = pairs]
          /\ handed' = handed
      BY <2>1, <2>2 DEF ReadSubscribers, Goto
    <3> HIDE DEF pairs
    <3>2. RoutingTypeOK' /\ Frame(m) /\ pc'[m] = "lookup" /\ seen'[m] = pairs
      BY <1>1, <1>2, <3>1 DEF RoutingTypeOK, Frame, Labels
    <3>3. "lookup" \in LabelsOf(m)
      BY <1>4 DEF LabelsOf
    <3> QED
      BY <1>1, <1>2, <2>2, <3>1, <3>2, <3>3 DEF Answers
  <2>3. CASE ~(NeedsLookup(m) /\ (pairs # {} \/ m.action = "update_blocks"))
    <3> DEFINE routed == Routed(m, pairs, ContextInfo(m))
    <3>1. Dispatch(m, routed)
      BY <2>1, <2>3 DEF ReadSubscribers
    <3> HIDE DEF pairs
    <3>2. routed \subseteq pairs
      BY RoutedPairs
    <3>3. ASSUME m \notin misled'
          PROVE  \A s \in routed : StaysInside(m, s)
      <4>1. CASE pairs = {}
        BY <3>2, <4>1
      <4>2. CASE pairs # {}
        <5>1. \A p \in Parents(m) : ContextInfo(m)[p] = truth[p]
          <6> SUFFICES ASSUME NEW p \in Parents(m)
                       PROVE  ContextInfo(m)[p] = truth[p]
            OBVIOUS
          <6>1. p \in Block
            BY <1>4, ParentsAreBlocks
          <6>2. ~LeavesOut(m, p) /\ ~Outdated(m, p)
            BY <1>4, <3>3, Recorded
          <6>3. p \in DOMAIN m.context
            BY <1>4, <2>3, <4>2, <6>2 DEF NeedsLookup, LeavesOut, UpdateActions
          <6>4. truth[p] = m.context[p]
            BY <1>1, <6>2, <6>3 DEF Outdated
          <6> QED
            BY <6>1, <6>3, <6>4 DEF ContextInfo
        <5> QED
          BY <1>2, <5>1, RoutedStays
      <4> QED
        BY <4>1, <4>2
    <3> HIDE DEF routed
    <3>4. routed \subseteq User \X m.blocks
      BY <1>2, <3>2
    <3> QED
      BY <1>1, <1>4, <3>1, <3>3, <3>4, DispatchAnswers DEF RoutingTypeOK
  <2> QED
    BY <2>2, <2>3
<1> QED
  BY <1>1, <1>3, <1>4, UpdateLabels

LEMMA CachedAnswers ==
  ASSUME RoutingTypeOK, StepInv, NEW m \in Message, LookupCached(m), Record,
         UNCHANGED <<truth, published>>
  PROVE  Answers(m)
<1> DEFINE routed == Routed(m, seen[m], sandbox)
<1>1. /\ pc[m] = "lookup" /\ ~AsksBackend(m) /\ Dispatch(m, routed)
      /\ UNCHANGED <<sandbox, todo, fetched>>
  BY DEF LookupCached, Lookup, store
<1>2. m.action \in UpdateActions /\ NeedsLookup(m) /\ seen[m] \subseteq User \X m.blocks
  BY <1>1, UpdateLabels DEF StepInv
<1>3. routed \subseteq seen[m]
  BY RoutedPairs
<1>4. ASSUME m \notin misled'
      PROVE  \A s \in routed : StaysInside(m, s)
  <2>1. pc'[m] \in {"send", "ack"}
    BY <1>1 DEF Dispatch, Goto, RoutingTypeOK
  <2>2. ASSUME NEW p \in Parents(m)
        PROVE  sandbox[p] = truth[p]
    <3>1. ~Mistakes(m, p)
      BY <1>2, <1>4, Recorded
    <3>2. p \notin DOMAIN m.context
      <4>1. CASE m.action = "update_block"
        BY <1>2, <4>1, OneParent
      <4>2. CASE m.action = "update_blocks"
        BY <1>2, <4>2 DEF NeedsLookup
      <4> QED
        BY <1>2, <4>1, <4>2 DEF UpdateActions
    <3>3. sandbox[p] \in (IF Falls(m) THEN {NoSandbox, truth[p]} ELSE {truth[p]})
      BY <1>1, <2>1, <3>1, <3>2 DEF Mistakes
    <3>4. Falls(m) => sandbox[p] # NoSandbox
      BY <1>1, <1>2, OneParent DEF Falls, AsksBackend
    <3> QED
      BY <3>3, <3>4
  <2> QED
    BY <1>2, <2>2, RoutedStays
<1> HIDE DEF routed
<1>5. routed \subseteq User \X m.blocks
  BY <1>2, <1>3
<1> QED
  BY <1>1, <1>2, <1>4, <1>5, DispatchAnswers DEF RoutingTypeOK

LEMMA MissesAnswers ==
  ASSUME RoutingTypeOK, StepInv, NEW m \in Message, LookupMisses(m), Record,
         UNCHANGED <<truth, published>>
  PROVE  Answers(m)
<1>1. /\ pc[m] = "lookup" /\ m.action = "update_block"
      /\ pc' = [pc EXCEPT ![m] = "fetch"]
      /\ UNCHANGED <<sandbox, todo, seen, handed, fetched>>
  BY DEF LookupMisses, AsksBackend, Falls, Goto, store
<1>2. RoutingTypeOK' /\ Frame(m) /\ pc'[m] = "fetch"
  BY <1>1 DEF RoutingTypeOK, Frame
<1>3. NeedsLookup(m) /\ seen[m] \subseteq User \X m.blocks
  BY <1>1 DEF StepInv
<1> QED
  BY <1>1, <1>2, <1>3 DEF Answers

LEMMA FetchAnswers ==
  ASSUME RoutingTypeOK, StepInv, failures \in Nat, NEW m \in Message, Fetch(m), Record,
         UNCHANGED <<truth, published>>
  PROVE  Answers(m)
<1>1. /\ pc[m] = "fetch" /\ m.action = "update_block" /\ m.action \in UpdateActions
      /\ NeedsLookup(m) /\ seen[m] \subseteq User \X m.blocks
      /\ UNCHANGED <<sandbox, todo>>
  BY UpdateLabels DEF Fetch, StepInv, store
<1>2. ParentOf(m) \in Block /\ Parents(m) = {ParentOf(m)}
  BY <1>1, OneParent
<1>3. ASSUME fetched' = [fetched EXCEPT ![m] = truth[ParentOf(m)]], Goto(m, "store"),
             UNCHANGED <<seen, handed>>
      PROVE  Answers(m)
  <2>1. truth[ParentOf(m)] \in SandboxInfo
    BY <1>2 DEF RoutingTypeOK
  <2>2. RoutingTypeOK' /\ Frame(m) /\ pc'[m] = "store" /\ fetched'[m] = truth[ParentOf(m)]
    BY <1>1, <1>3, <2>1 DEF RoutingTypeOK, Frame, Goto
  <2> QED
    BY <1>1, <1>3, <2>2 DEF Answers
<1>4. ASSUME Dispatch(m, seen[m]), fetched' = fetched,
             \/ truth[ParentOf(m)] = NoSandbox
             \/ Fail
      PROVE  Answers(m)
  <2>1. ASSUME m \notin misled', NEW s \in seen[m]
        PROVE  StaysInside(m, s)
    <3>1. pc'[m] = "ack"
      BY <1>1, <1>4 DEF Dispatch, Goto, RoutingTypeOK
    <3>2. ~LookupFailed(m)
      BY <1>1, <2>1, Recorded
    <3>3. truth[ParentOf(m)] = NoSandbox
      BY <1>1, <1>4, <3>1, <3>2 DEF LookupFailed, Fail
    <3>4. m.data[s[2]].parent # NoBlock => m.data[s[2]].parent = ParentOf(m)
      BY <1>1, <1>2, ParentsAreBlocks
    <3> QED
      BY <3>3, <3>4 DEF StaysInside, NoSandbox
  <2> QED
    BY <1>1, <1>4, <2>1, DispatchAnswers DEF RoutingTypeOK
<1> QED
  BY <1>3, <1>4 DEF Fetch

LEMMA StoreAnswers ==
  ASSUME RoutingTypeOK, StepInv, InformedInv, NEW m \in Message, StoreFetched(m), Record,
         UNCHANGED <<truth, published>>
  PROVE  Answers(m)
<1> DEFINE routed == Routed(m, seen[m], [p \in Block |-> fetched[m]])
<1>1. /\ pc[m] = "store" /\ m.action = "update_block" /\ m.action \in UpdateActions
      /\ NeedsLookup(m) /\ seen[m] \subseteq User \X m.blocks
      /\ todo' = todo /\ Dispatch(m, routed)
      /\ sandbox' \in {[sandbox EXCEPT ![ParentOf(m)] = fetched[m]], sandbox}
      /\ fetched' = [fetched EXCEPT ![m] = NoSandbox]
  BY UpdateLabels DEF StoreFetched, StepInv
<1>2. ParentOf(m) \in Block /\ Parents(m) = {ParentOf(m)}
  BY <1>1, OneParent
<1>3. NoSandbox \in SandboxInfo /\ fetched[m] \in SandboxInfo
  BY DEF NoSandbox, SandboxInfo, RoutingTypeOK
<1>4. sandbox' \in [Block -> SandboxInfo] /\ fetched' \in [Message -> SandboxInfo]
  BY <1>1, <1>3 DEF RoutingTypeOK
<1>5. \A n \in Message \ {m} : fetched'[n] = fetched[n]
  BY <1>1 DEF RoutingTypeOK
<1>6. \A b \in Block : sandbox'[b] = sandbox[b] \/ b \in Written
  <2>1. pc'[m] # "store"
    BY <1>1 DEF Dispatch, Goto, RoutingTypeOK
  <2>2. ParentOf(m) \in Written
    BY <1>1, <1>2, <2>1 DEF Written
  <2>3. \A b \in Block \ {ParentOf(m)} : sandbox'[b] = sandbox[b]
    BY <1>1 DEF RoutingTypeOK
  <2> QED
    BY <2>2, <2>3
<1>7. ASSUME m \notin misled'
      PROVE  \A s \in routed : StaysInside(m, s)
  <2>1. fetched[m] = truth[ParentOf(m)]
    BY <1>1, <1>7, Recorded DEF InformedInv
  <2>2. \A p \in Parents(m) : [q \in Block |-> fetched[m]][p] = truth[p]
    BY <1>2, <2>1
  <2> QED
    BY <1>1, <2>2, RoutedStays
<1>8. routed \subseteq seen[m]
  BY RoutedPairs
<1> HIDE DEF routed
<1>9. routed \subseteq User \X m.blocks
  BY <1>1, <1>8
<1> QED
  BY <1>1, <1>4, <1>5, <1>6, <1>7, <1>9, DispatchAnswers

LEMMA SendAnswers ==
  ASSUME RoutingTypeOK, StepInv, InformedInv, NEW m \in Message, SendToUser(m), Record,
         UNCHANGED <<fetched, truth, published>>
  PROVE  Answers(m)
<1>1. /\ pc[m] = "send" /\ m.action \in UpdateActions
      /\ seen[m] \subseteq User \X m.blocks /\ "send" \in LabelsOf(m)
      /\ UNCHANGED <<sandbox, todo>>
  BY UpdateLabels DEF SendToUser, StepInv, store
<1>2. PICK mine \in SUBSET seen[m] :
        /\ handed' = [handed EXCEPT ![m] = @ \union mine]
        /\ seen' = [seen EXCEPT ![m] = @ \ mine]
        /\ Goto(m, IF seen[m] = mine THEN "ack" ELSE "send")
  BY DEF SendToUser, HandOver
<1>3. mine \subseteq User \X Block
  BY <1>2 DEF RoutingTypeOK
<1>4. /\ RoutingTypeOK' /\ Frame(m)
      /\ pc'[m] \in {"ack", "send"}
      /\ seen'[m] \subseteq seen[m] /\ handed'[m] = handed[m] \union mine
  BY <1>1, <1>2, <1>3 DEF RoutingTypeOK, Frame, Goto, Labels
<1>5. m \notin misled' => \A s \in seen[m] : StaysInside(m, s)
  BY <1>1, Recorded DEF InformedInv
<1> QED
  BY <1>1, <1>2, <1>4, <1>5 DEF Answers

LEMMA FailsAnswers ==
  ASSUME RoutingTypeOK, StepInv, failures \in Nat, NEW m \in Message, LookupFails(m), Record,
         UNCHANGED <<fetched, truth, published>>
  PROVE  Answers(m)
<1>1. /\ pc[m] = "lookup" /\ m.action \in UpdateActions
      /\ failures' # failures
      /\ pc' = [pc EXCEPT ![m] = "ack"]
      /\ handed' = IF m.action = "update_block" THEN [handed EXCEPT ![m] = @ \union seen[m]] ELSE handed
      /\ UNCHANGED <<sandbox, todo, seen>>
  BY UpdateLabels DEF LookupFails, Fail, Goto, HandOver, store
<1>2. RoutingTypeOK' /\ Frame(m) /\ pc'[m] = "ack"
  BY <1>1 DEF RoutingTypeOK, Frame, Labels
<1>3. m \in misled'
  BY <1>1, <1>2, Recorded DEF LookupFailed
<1> QED
  BY <1>1, <1>2, <1>3 DEF Answers
-----------------------------------------------------------------------------
(* Every step.                                                             *)

LEMMA HandlerSteps ==
  ASSUME RoutingTypeOK, StepInv, InformedInv, failures \in Nat, NEW m \in Message,
         RoutingStep(m), Record, UNCHANGED <<truth, published>>
  PROVE  Quiet(m) \/ Answers(m)
<1>1. CASE LookupCached(m) \/ LookupMisses(m) \/ Fetch(m) \/ StoreFetched(m)
  BY <1>1, CachedAnswers, MissesAnswers, FetchAnswers, StoreAnswers
<1>2. CASE LookupFails(m) /\ UNCHANGED fetched
  BY <1>2, FailsAnswers
<1>3. CASE pc[m] # "lookup" /\ (Step(m) \/ CommandLost(m)) /\ UNCHANGED fetched
  <2>1. CASE Save(m) \/ Incr(m) \/ AppendEntries(m) \/ BumpVersions(m) \/ CommandLost(m)
    BY <1>3, <2>1, CallQuiet
  <2>2. CASE Deliver(m) \/ Ack(m) \/ CacheSandbox(m)
    BY <1>3, <2>2, DeliverQuiet, AckQuiet, CacheQuiet
  <2>3. CASE WriteIndexes(m) \/ Notify(m) \/ ReadMembers(m) \/ DeleteBlocks(m)
    BY <1>3, <2>3, AccessQuiet
  <2>4. CASE ReadSubscribers(m) \/ SendToUser(m)
    BY <1>3, <2>4, ReadAnswers, SendAnswers
  <2>5. ~Lookup(m)
    BY <1>3 DEF Lookup
  <2> QED
    BY <1>3, <2>1, <2>2, <2>3, <2>4, <2>5 DEF Step
<1> QED
  BY <1>1, <1>2, <1>3 DEF RoutingStep

LEMMA FailuresCounted ==
  ASSUME failures \in Nat, [RoutingNext]_routingVars
  PROVE  failures' \in Nat
<1>1. Fail => failures' \in Nat
  BY DEF Fail
<1>2. ASSUME NEW m \in Message, RoutingStep(m)
      PROVE  failures' \in Nat
  <2>1. CASE LookupCached(m) \/ LookupMisses(m) \/ Fetch(m) \/ StoreFetched(m) \/ LookupFails(m)
    BY <1>1, <2>1 DEF LookupCached, Lookup, LookupMisses, Fetch, StoreFetched, LookupFails
  <2>2. CASE Deliver(m) \/ Ack(m) \/ Save(m) \/ Incr(m) \/ AppendEntries(m) \/ CacheSandbox(m)
    BY <1>1, <2>2 DEF Deliver, Ack, Save, Incr, AppendEntries, CacheSandbox, Replied
  <2>3. CASE ReadSubscribers(m) \/ Lookup(m) \/ SendToUser(m) \/ Notify(m) \/ ReadMembers(m)
    BY <2>3 DEF ReadSubscribers, Lookup, SendToUser, Notify, ReadMembers
  <2>4. CASE WriteIndexes(m) \/ BumpVersions(m) \/ DeleteBlocks(m) \/ CommandLost(m)
    BY <1>1, <2>4 DEF WriteIndexes, BumpVersions, DeleteBlocks, CommandLost, Replied
  <2> QED
    BY <1>2, <2>1, <2>2, <2>3, <2>4 DEF RoutingStep, Step
<1>3. CASE (\E m \in Message : Publish(m)) \/ Expire \/ UNCHANGED vars
  BY <1>3 DEF Publish, Expire, ExpireSandbox, vars
<1> QED
  BY <1>2, <1>3 DEF RoutingNext, routingVars

\* A block whose cached mode is written is current or recorded as overtaken.
LEMMA OvertakenRecorded ==
  ASSUME Record
  PROVE  \A b \in Block :
           /\ b \in Written => sandbox'[b] = truth[b] \/ b \in overtaken'
           /\ b \in overtaken => sandbox'[b] \in {NoSandbox, truth[b]} \/ b \in overtaken'
BY DEF Record

LEMMA HandlerKeeps ==
  ASSUME RoutingInv, NEW m \in Message, RoutingStep(m), Record, UNCHANGED <<truth, published>>
  PROVE  RoutingTypeOK' /\ StepInv' /\ InformedInv' /\ CacheInv'
<1> USE DEF RoutingInv
<1>1. Quiet(m) \/ Answers(m)
  BY HandlerSteps
<1>2. RoutingTypeOK' /\ Frame(m)
  BY <1>1 DEF Quiet, Answers
<1>3. m \in published
  BY DEF RoutingStep, LookupCached, LookupMisses, Fetch, StoreFetched, LookupFails, StepInv
<1>4. LabelsOf(m) \intersect {"queued", "fetch", "store"} = {}
  BY DEF LabelsOf
<1>5. StepInv'
  <2>1. ASSUME NEW n \in Message
        PROVE  /\ pc'[n] \in RoutingLabelsOf(n)
               /\ pc'[n] # "queued" => n \in published'
               /\ n.action \notin AclActions => todo'[n] \subseteq Containers(n)
               /\ pc'[n] \in {"lookup", "fetch", "store"} => NeedsLookup(n)
               /\ pc'[n] \in {"lookup", "fetch", "store", "send"} => seen'[n] \subseteq User \X n.blocks
    <3>1. CASE n # m
      BY <1>2, <3>1 DEF Frame, StepInv
    <3>2. CASE n = m /\ Quiet(m)
      BY <1>3, <1>4, <3>2 DEF Quiet, RoutingLabelsOf
    <3>3. CASE n = m /\ Answers(m)
      BY <1>3, <3>3 DEF Answers, RoutingLabelsOf, StepInv
    <3> QED
      BY <1>1, <3>1, <3>2, <3>3
  <2> QED
    BY <2>1 DEF StepInv, RoutingLabelsOf, LabelsOf, Containers, NeedsLookup, Parents
<1>6. InformedInv'
  <2>1. ASSUME NEW n \in Message, n.action \in UpdateActions, n \notin misled'
        PROVE  /\ n \in published => \A p \in Parents(n) \intersect DOMAIN n.context :
                                       n.context[p] = truth[p]
               /\ pc'[n] = "store" => fetched'[n] = truth[ParentOf(n)]
               /\ pc'[n] = "send" => \A s \in seen'[n] : StaysInside(n, s)
    <3>1. n \notin misled
      BY <2>1, Recorded
    <3>2. CASE n # m
      BY <1>2, <2>1, <3>1, <3>2 DEF Frame, InformedInv
    <3>3. CASE n = m /\ Quiet(m)
      BY <1>4, <2>1, <3>1, <3>3 DEF Quiet, InformedInv
    <3>4. CASE n = m /\ Answers(m)
      BY <2>1, <3>1, <3>4 DEF Answers, InformedInv
    <3> QED
      BY <1>1, <3>2, <3>3, <3>4
  <2> QED
    BY <2>1 DEF InformedInv, StaysInside, Parents, ParentOf
<1>7. CacheInv'
  <2> SUFFICES ASSUME NEW b \in Block
               PROVE  \/ sandbox'[b] \in {NoSandbox, truth[b]}
                      \/ b \in overtaken'
                      \/ \E n \in Message : Owes(n, b)'
    BY DEF CacheInv
  <2>1. sandbox'[b] \in {sandbox[b], NoSandbox} \/ b \in Written
    BY <1>1 DEF Quiet, Answers
  <2>2. CASE b \in Written
    BY <2>2, OvertakenRecorded
  <2>3. CASE sandbox[b] \in {NoSandbox, truth[b]} /\ b \notin Written
    BY <2>1, <2>3
  <2>4. CASE b \in overtaken
    BY <2>4, OvertakenRecorded
  <2>5. ASSUME NEW n \in Message, Owes(n, b), b \notin Written
        PROVE  Owes(n, b)'
    <3>1. CASE n # m
      BY <1>2, <2>5, <3>1 DEF Frame, Owes, Carried, Containers
    <3>2. CASE n = m /\ Quiet(m)
      BY <2>5, <3>2 DEF Quiet
    <3>3. CASE n = m /\ Answers(m)
      BY <2>5, <3>3 DEF Answers, Owes
    <3> QED
      BY <1>1, <3>1, <3>2, <3>3
  <2> QED
    BY <2>2, <2>3, <2>4, <2>5 DEF CacheInv
<1> QED
  BY <1>2, <1>5, <1>6, <1>7

LEMMA PublishKeeps ==
  ASSUME RoutingInv, NEW m \in Message, Publish(m), Record
  PROVE  RoutingTypeOK' /\ StepInv' /\ InformedInv' /\ CacheInv'
<1> USE DEF RoutingInv
<1>1. /\ UNCHANGED <<sandbox, pc, todo, seen, handed, fetched>>
      /\ m \notin published /\ published' = published \union {m}
      /\ truth' = [b \in Block |-> IF b \in Carried(m) THEN CachedInfo(m.data[b]) ELSE truth[b]]
  BY DEF Publish, vars, store, handler
<1>2. pc[m] = "queued"
  BY <1>1 DEF StepInv
<1>3. truth' \in [Block -> SandboxInfo]
  <2>1. \A b \in Carried(m) : CachedInfo(m.data[b]) \in SandboxInfo
    BY CarriedBlocks, CachedTyped
  <2> QED
    BY <1>1, <2>1 DEF RoutingTypeOK
<1>4. RoutingTypeOK'
  BY <1>1, <1>3 DEF RoutingTypeOK
<1>5. StepInv'
  BY <1>1 DEF StepInv, RoutingLabelsOf, LabelsOf, Containers, NeedsLookup, Parents
<1>6. InformedInv'
  <2>1. ASSUME NEW n \in Message, n.action \in UpdateActions, n \notin misled'
        PROVE  /\ n \in published' => \A p \in Parents(n) \intersect DOMAIN n.context :
                                        n.context[p] = truth'[p]
               /\ pc'[n] = "store" => fetched'[n] = truth'[ParentOf(n)]
               /\ pc'[n] = "send" => \A s \in seen'[n] : StaysInside(n, s)'
    <3>1. n \notin misled /\ \A p \in Parents(n) : ~Outdated(n, p)
      BY <2>1, Recorded
    <3>2. n \in published' => \A p \in Parents(n) \intersect DOMAIN n.context : n.context[p] = truth'[p]
      BY <3>1 DEF Outdated
    <3>3. ASSUME pc[n] \in {"store", "send"}, NEW p \in Parents(n)
          PROVE  truth'[p] = truth[p]
      <4>1. n \in published
        BY <3>3 DEF StepInv
      <4>2. CASE p \in DOMAIN n.context
        BY <1>1, <2>1, <3>1, <3>2, <4>1, <4>2 DEF InformedInv
      <4>3. CASE p \notin DOMAIN n.context
        BY <3>1, <3>3, <4>3 DEF Outdated
      <4> QED
        BY <4>2, <4>3
    <3>4. ASSUME pc[n] = "store"
          PROVE  fetched[n] = truth'[ParentOf(n)]
      <4>1. ParentOf(n) \in Parents(n)
        BY <3>4, UpdateLabels, OneParent DEF StepInv
      <4> QED
        BY <2>1, <3>1, <3>3, <3>4, <4>1 DEF InformedInv
    <3>5. ASSUME pc[n] = "send", NEW s \in seen[n]
          PROVE  StaysInside(n, s)'
      <4>1. StaysInside(n, s) /\ s[2] \in n.blocks
        BY <2>1, <3>1, <3>5 DEF InformedInv, StepInv
      <4>2. CASE n.data[s[2]].parent = NoBlock
        BY <4>2 DEF StaysInside
      <4>3. CASE n.data[s[2]].parent # NoBlock
        <5>1. truth'[n.data[s[2]].parent] = truth[n.data[s[2]].parent]
          BY <2>1, <3>3, <3>5, <4>1, <4>3, ParentsAreBlocks
        <5> QED
          BY <4>1, <5>1 DEF StaysInside
      <4> QED
        BY <4>2, <4>3
    <3> QED
      BY <1>1, <3>2, <3>4, <3>5
  <2> QED
    BY <2>1 DEF InformedInv, Parents, ParentOf
<1>7. CacheInv'
  <2> SUFFICES ASSUME NEW b \in Block
               PROVE  \/ sandbox'[b] \in {NoSandbox, truth'[b]}
                      \/ b \in overtaken'
                      \/ \E n \in Message : Owes(n, b)'
    BY DEF CacheInv
  <2>1. CASE b \in Carried(m)
    <3>1. Owes(m, b)'
      BY <1>1, <1>2, <2>1 DEF Owes, Carried, Containers
    <3> QED
      BY <3>1
  <2>2. CASE b \notin Carried(m)
    <3>1. truth'[b] = truth[b] /\ sandbox'[b] = sandbox[b]
      BY <1>1, <2>2
    <3>2. b \in overtaken => sandbox'[b] \in {NoSandbox, truth'[b]} \/ b \in overtaken'
      BY <3>1, OvertakenRecorded
    <3>3. ASSUME NEW n \in Message, Owes(n, b)
          PROVE  Owes(n, b)'
      BY <1>1, <3>3 DEF Owes, Carried, Containers
    <3> QED
      BY <3>1, <3>2, <3>3 DEF CacheInv
  <2> QED
    BY <2>1, <2>2
<1> QED
  BY <1>4, <1>5, <1>6, <1>7

LEMMA ForgetKeeps ==
  ASSUME RoutingInv, UNCHANGED <<pc, todo, seen, handed, fetched, truth, published>>,
         sandbox' \in [Block -> SandboxInfo],
         \A b \in Block : sandbox'[b] \in {sandbox[b], NoSandbox},
         misled \subseteq misled',
         \A b \in overtaken : sandbox'[b] \in {NoSandbox, truth[b]} \/ b \in overtaken'
  PROVE  RoutingTypeOK' /\ StepInv' /\ InformedInv' /\ CacheInv'
<1> USE DEF RoutingInv
<1>1. RoutingTypeOK'
  BY DEF RoutingTypeOK
<1>2. StepInv'
  BY DEF StepInv, RoutingLabelsOf, LabelsOf, Containers, NeedsLookup, Parents
<1>3. InformedInv'
  BY DEF InformedInv, StaysInside, Parents, ParentOf
<1>4. \A n \in Message, b \in Block : Owes(n, b) => Owes(n, b)'
  BY DEF Owes, Carried, Containers
<1>5. CacheInv'
  BY <1>4 DEF CacheInv
<1> QED
  BY <1>1, <1>2, <1>3, <1>5

LEMMA RoutingInvStep ==
  ASSUME RoutingInv, [RoutingNext]_routingVars
  PROVE  RoutingInv'
<1>1. failures' \in Nat
  BY FailuresCounted DEF RoutingInv
<1>2. CASE Record /\ \E m \in Message : Publish(m)
  BY <1>1, <1>2, PublishKeeps DEF RoutingInv
<1>3. CASE Record /\ (\E m \in Message : RoutingStep(m)) /\ UNCHANGED <<truth, published>>
  BY <1>1, <1>3, HandlerKeeps DEF RoutingInv
<1>4. CASE Record /\ Expire /\ UNCHANGED <<truth, published>>
  <2>1. UNCHANGED <<pc, todo, seen, handed, fetched, truth, published>>
    BY <1>4 DEF Expire, ExpireSandbox, handler
  <2>2. /\ sandbox' \in [Block -> SandboxInfo]
        /\ \A b \in Block : sandbox'[b] \in {sandbox[b], NoSandbox}
    BY <1>4 DEF Expire, ExpireSandbox, RoutingInv, RoutingTypeOK, SandboxInfo, NoSandbox
  <2>3. misled \subseteq misled' /\ \A b \in overtaken :
          sandbox'[b] \in {NoSandbox, truth[b]} \/ b \in overtaken'
    BY <1>4 DEF Record
  <2> QED
    BY <1>1, <2>1, <2>2, <2>3, ForgetKeeps DEF RoutingInv
<1>5. CASE UNCHANGED <<vars, truth, published, fetched>> /\ (Record \/ UNCHANGED <<misled, overtaken>>)
  <2>1. UNCHANGED <<pc, todo, seen, handed, sandbox, fetched, truth, published>>
    BY <1>5 DEF vars, handler, store
  <2>2. misled \subseteq misled' /\ \A b \in overtaken :
          sandbox'[b] \in {NoSandbox, truth[b]} \/ b \in overtaken'
    BY <1>5 DEF Record
  <2> QED
    BY <1>1, <2>1, <2>2, ForgetKeeps DEF RoutingInv, RoutingTypeOK
<1> QED
  BY <1>2, <1>3, <1>4, <1>5 DEF RoutingNext, routingVars

LEMMA RoutingInitInv ==
  ASSUME RoutingInit
  PROVE  RoutingInv
<1>1. RoutingTypeOK /\ failures \in Nat
  BY InitialAssumption DEF RoutingInit, Init, RoutingTypeOK, Labels, SandboxInfo, NoSandbox
<1>2. StepInv
  BY DEF RoutingInit, Init, StepInv, RoutingLabelsOf
<1>3. InformedInv
  BY DEF RoutingInit, Init, InformedInv
<1>4. CacheInv
  BY DEF RoutingInit, Init, CacheInv
<1> QED
  BY <1>1, <1>2, <1>3, <1>4 DEF RoutingInv
-----------------------------------------------------------------------------
(* The theorems.                                                           *)

\* Once everything is settled the cache agrees with the backend on every block
\* it has not forgotten, unless its last write was late, lost or given up.
THEOREM CacheFollows == RoutingSpec => []CacheFollowsBackend
<1>1. RoutingInv => CacheFollowsBackend
  BY DEF RoutingInv, CacheInv, CacheFollowsBackend, Settled, Owes
<1> QED
  BY <1>1, RoutingInitInv, RoutingInvStep, PTL DEF RoutingSpec

\* No update leaves a container that is private at the backend, but to the
\* block's creator and the container's owner, unless its handler was misled.
THEOREM UpdatesStay == RoutingSpec => PrivateStaysInside
<1> DEFINE Inside ==
      \A m \in Message : m.action \in UpdateActions /\ m \notin misled' =>
        \A s \in handed'[m] \ handed[m] :
          LET d == m.data[s[2]] IN
          d.parent # NoBlock /\ truth[d.parent].mode = "private" =>
            s[1] \in {d.creator, truth[d.parent].owner}
<1>1. ASSUME RoutingInv, [RoutingNext]_routingVars
      PROVE  Inside
  <2> SUFFICES ASSUME NEW m \in Message, m.action \in UpdateActions, m \notin misled',
                      NEW s \in handed'[m] \ handed[m]
               PROVE  StaysInside(m, s)
    BY DEF StaysInside
  <2>1. handed' # handed
    OBVIOUS
  <2>2. PICK n \in Message : RoutingStep(n) /\ Record /\ UNCHANGED <<truth, published>>
    BY <1>1, <2>1 DEF RoutingNext, routingVars, Publish, Expire, ExpireSandbox, vars, handler
  <2>3. Quiet(n) \/ Answers(n)
    BY <1>1, <2>2, HandlerSteps DEF RoutingInv
  <2>4. n = m
    BY <2>3 DEF Quiet, Answers, Frame
  <2> QED
    BY <2>3, <2>4 DEF Quiet, Answers
<1>2. RoutingInit => RoutingInv
  BY RoutingInitInv
<1>3. RoutingInv /\ [RoutingNext]_routingVars => RoutingInv'
  BY RoutingInvStep
<1>4. RoutingInv /\ [RoutingNext]_routingVars => [Inside]_routingVars
  BY <1>1
<1> HIDE DEF Inside
<1>5. RoutingSpec => [][Inside]_routingVars
  BY <1>2, <1>3, <1>4, PTL DEF RoutingSpec
<1> QED
  BY <1>5 DEF PrivateStaysInside, Inside
=============================================================================
