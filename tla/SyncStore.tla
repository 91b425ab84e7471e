------------------------------ MODULE SyncStore ------------------------------
(***************************************************************************)
(* The shared state the service keeps in Redis and the RabbitMQ handlers   *)
(* that write it (src/app/rabbitmq_consumer.py): block updates, access     *)
(* changes, subscriptions, deletions and sandbox mode changes.             *)
(*                                                                         *)
(* A handler is an asyncio task.  It gives up control only while it waits  *)
(* for Redis or for a socket, so one action is one round trip: the command *)
(* Redis executes and the straight-line code up to the next wait.  The     *)
(* consumer sets no prefetch limit and starts one task per message, and    *)
(* several instances of the service consume one queue, so the handlers of  *)
(* all delivered messages interleave freely.                               *)
(***************************************************************************)
EXTENDS Integers, FiniteSets, Functions

CONSTANTS
  User,                  \* user ids
  Block,                 \* block ids
  NoUser,                \* a missing creator or owner
  NoBlock,               \* a missing parent
  Message,               \* the messages published to the queue (see MessageAssumption)
  InitialSubscriptions,  \* the pairs <<user, block>> subscribed at the start
  InitialSandbox,        \* sandbox:{block} at the start
  BlockPortion,          \* settings.block_portion
  ChangelogMaxLen,       \* settings.CHANGELOG_MAX_LEN, 0 for "never trim"
  SyncV2Enabled,         \* settings.SYNC_V2_ENABLED
  SandboxExpires,        \* whether sandbox:{block} may reach its TTL
  MaxFailures,           \* bound: Redis commands or replies lost
  MaxCrashes             \* bound: restarts of the consumer

UpdateActions == {"update_block", "update_blocks"}
AclActions    == {"update_access", "subscribe", "unsubscribe"}
Actions       == UpdateActions \union AclActions \union {"sandbox_mode_changed"}

\* sandbox:{block}; "none" is an absent key.
SandboxInfo == [mode: {"none", "open", "private"}, owner: User \union {NoUser}]
NoSandbox   == [mode |-> "none", owner |-> NoUser]

\* What the handlers read of a block's data; stamp stands for its content.
BlockDatum == [stamp: Nat \ {0}, mode: {"unset", "none", "open", "private"},
               creator: User \union {NoUser}, parent: Block \union {NoBlock}]

ChangelogEntry == [seq: Nat, op: {"upsert", "delete"}, block: Block]

ASSUME MessageAssumption ==
  \A m \in Message :
    /\ m.action \in Actions
    /\ m.blocks \subseteq Block
    /\ m.start \subseteq Block
    /\ IsFiniteSet(m.blocks) /\ IsFiniteSet(m.start)
    /\ m.action \in {"update_access", "subscribe"} => m.user \in User
    /\ m.permission \in {"deny", "allow"}
    /\ m.withData \in BOOLEAN
    /\ m.action \notin AclActions => m.data \in [m.blocks -> BlockDatum]
    /\ m.context \in [DOMAIN m.context -> SandboxInfo]
    /\ DOMAIN m.context \subseteq Block
    /\ m.action \in {"update_block", "sandbox_mode_changed"} => Cardinality(m.blocks) = 1
    /\ m.action = "sandbox_mode_changed" => \A b \in m.blocks : m.data[b].mode # "unset"

ASSUME SettingsAssumption ==
  /\ BlockPortion \in Nat \ {0}
  /\ ChangelogMaxLen \in Nat
  /\ SyncV2Enabled \in BOOLEAN
  /\ SandboxExpires \in BOOLEAN
  /\ MaxFailures \in Nat
  /\ MaxCrashes \in Nat

ASSUME InitialAssumption ==
  /\ InitialSubscriptions \subseteq User \X Block
  /\ InitialSandbox \in [Block -> SandboxInfo]

ASSUME AbsentAssumption == NoUser \notin User /\ NoBlock \notin Block

VARIABLES
  blockSubscribers,  \* block:{b}, the users notified of b's updates
  userBlocks,        \* subscriber:{u}:blocks, the blocks u may pull
  subVersion,        \* the subscription version of each user
  seq,               \* the changelog's sequence counter
  changelog,         \* the changelog's sorted set
  blockData,         \* blockdata:{b}: the stamp stored, 0 when there is no key
  sandbox,           \* sandbox:{b}
  pc,                \* where each message's handler is
  todo,              \* the blocks its loop has not reached
  chunk,             \* the blocks of its current pipeline; of an access
                     \* handler, the start blocks its loop has not reached
  seen,              \* the pairs <<user, block>> it read and has not handed over
  seqEnd,            \* what INCRBY returned to it
  handed,            \* history: the pairs <<user, block>> handed to a send
  failures, crashes  \* how much of the two bounds is used

store   == <<blockSubscribers, userBlocks, subVersion, seq, changelog, blockData, sandbox>>
handler == <<pc, todo, chunk, seen, seqEnd, handed>>
vars    == <<store, handler, failures, crashes>>

Labels == {"queued", "save", "incr", "append", "cache", "subscribers", "lookup",
           "send", "write", "bump", "notify", "members", "delete", "ack", "settled"}

TypeOK ==
  /\ blockSubscribers \in [Block -> SUBSET User]
  /\ userBlocks \in [User -> SUBSET Block]
  /\ subVersion \in [User -> Nat]
  /\ seq \in Nat
  /\ changelog \subseteq ChangelogEntry
  /\ blockData \in [Block -> Nat]
  /\ sandbox \in [Block -> SandboxInfo]
  /\ pc \in [Message -> Labels]
  /\ todo \in [Message -> SUBSET Block]
  /\ chunk \in [Message -> SUBSET Block]
  /\ seen \in [Message -> SUBSET (User \X Block)]
  /\ seqEnd \in [Message -> Nat]
  /\ handed \in [Message -> SUBSET (User \X Block)]
  /\ failures \in 0..MaxFailures
  /\ crashes \in 0..MaxCrashes

\* Both indexes hold the same subscriptions; a user who has one has been
\* told a version, and a subscribed block has been saved.
Init ==
  /\ blockSubscribers = [b \in Block |-> {u \in User : <<u, b>> \in InitialSubscriptions}]
  /\ userBlocks = [u \in User |-> {b \in Block : <<u, b>> \in InitialSubscriptions}]
  /\ subVersion = [u \in User |-> IF \E b \in Block : <<u, b>> \in InitialSubscriptions
                                  THEN 1 ELSE 0]
  /\ seq = 0
  /\ changelog = {}
  /\ blockData = [b \in Block |-> IF \E u \in User : <<u, b>> \in InitialSubscriptions
                                  THEN 1 ELSE 0]
  /\ sandbox = InitialSandbox
  /\ pc = [m \in Message |-> "queued"]
  /\ todo = [m \in Message |-> {}]
  /\ chunk = [m \in Message |-> {}]
  /\ seen = [m \in Message |-> {}]
  /\ seqEnd = [m \in Message |-> 0]
  /\ handed = [m \in Message |-> {}]
  /\ failures = 0
  /\ crashes = 0
-----------------------------------------------------------------------------
(* What a handler derives from its message and from what it has read.      *)

UsersOf(pairs)  == {p[1] : p \in pairs}
PairsOf(blocks) == {p \in User \X Block : p[2] \in blocks /\ p[1] \in blockSubscribers[p[2]]}

\* A handler walks a list of blocks in portions; which portion comes first is
\* the list's order, which is left open.
PortionSize(n) == IF n < BlockPortion THEN n ELSE BlockPortion
Portions(blocks) ==
  {c \in SUBSET blocks : Cardinality(c) = PortionSize(Cardinality(blocks))}

\* The list of update_access is its blocks, then its start blocks: what is in
\* both is written twice.
AccessPortions(m) ==
  {p \in (SUBSET todo[m]) \X (SUBSET chunk[m]) :
     /\ Cardinality(p[1]) + Cardinality(p[2]) =
          PortionSize(Cardinality(todo[m]) + Cardinality(chunk[m]))
     /\ p[2] # {} => p[1] = todo[m]}

Containers(m) == {b \in m.blocks : m.data[b].mode # "unset"}

\* What update_sandbox_cache stores: only open and private modes have a key.
CachedInfo(datum) ==
  IF datum.mode \in {"open", "private"}
    THEN [mode |-> datum.mode, owner |-> datum.creator]
    ELSE NoSandbox

ContextInfo(m) ==
  [p \in Block |-> IF p \in DOMAIN m.context THEN m.context[p] ELSE NoSandbox]

Parents(m) == {m.data[b].parent : b \in m.blocks} \ {NoBlock}

\* filter_subscribers_for_private_sandbox, for every block of an update.
Routed(m, pairs, info) ==
  {p \in pairs : LET d == m.data[p[2]] IN
     \/ d.parent = NoBlock
     \/ info[d.parent].mode # "private"
     \/ p[1] \in {d.creator, info[d.parent].owner}}

\* The users whose subscription version an access handler bumps, and the
\* events an update or an unsubscribe appends.
\* Fault: a deletion bumps nobody.
AffectedFault(m) == IF m.action = "unsubscribe" THEN {} ELSE {m.user}
Affected(m) == IF m.action = "unsubscribe" THEN UsersOf(seen[m]) ELSE {m.user}
Events(m)   == IF m.action = "unsubscribe" THEN chunk[m] ELSE m.blocks
\* Fault: an operation name the reader does not know.
OpFault(m)  == IF m.action = "unsubscribe" THEN "delete" ELSE "update"
Op(m)       == IF m.action = "unsubscribe" THEN "delete" ELSE "upsert"

AccessBlocks(m) == IF m.action = "update_access" THEN m.blocks \union m.start ELSE m.blocks
-----------------------------------------------------------------------------
(* Where a handler goes next.  A call that returns before its first wait   *)
(* (no events, no users, SYNC_V2_ENABLED off) takes no step of its own.    *)

\* Fault: the loop over the portions is not left.
AfterBumpFault(m) ==
  IF m.action = "update_access" THEN "notify"
  ELSE IF m.action = "subscribe" THEN "ack" ELSE "members"
AfterBump(m) ==
  IF m.action = "update_access" THEN "notify"
  ELSE IF m.action = "subscribe" \/ todo[m] = {} THEN "ack" ELSE "members"

EnterBump(m) == IF SyncV2Enabled /\ Affected(m) # {} THEN "bump" ELSE AfterBump(m)

\* Fault: an update does not cache the modes it carries.
AfterAppendFault(m) ==
  IF m.action = "unsubscribe" THEN EnterBump(m) ELSE "subscribers"
AfterAppend(m) ==
  IF m.action = "unsubscribe" THEN EnterBump(m)
  ELSE IF Containers(m) # {} THEN "cache" ELSE "subscribers"

EnterAppend(m) == IF SyncV2Enabled THEN "incr" ELSE AfterAppend(m)

FirstStep(m) ==
  IF m.action = "sandbox_mode_changed" THEN "cache"
  ELSE IF m.action \in {"update_access", "subscribe"} THEN
    IF AccessBlocks(m) = {} THEN EnterBump(m) ELSE "write"
  ELSE IF m.blocks = {} THEN "ack"
  ELSE IF m.action = "unsubscribe" THEN "members" ELSE "save"

\* Where the except clauses take a handler whose Redis call raised.
OnError(m) ==
  IF pc[m] \in {"incr", "append"} THEN AfterAppend(m)
  ELSE IF pc[m] = "bump" THEN AfterBump(m) ELSE "ack"

Goto(m, label) == pc' = [pc EXCEPT ![m] = label]

\* A send is a task of its own (send_message_to_subscribers only creates it),
\* except that update_access and each user's batch of update_blocks wait for
\* theirs.
HandOver(m, pairs) == handed' = [handed EXCEPT ![m] = @ \union pairs]
Fail == failures < MaxFailures /\ failures' = failures + 1

\* The command was executed: its reply arrives, or it is lost and the
\* handler sees an exception.
Replied(m, label) ==
  \/ Goto(m, label) /\ UNCHANGED failures
  \/ Goto(m, OnError(m)) /\ Fail
-----------------------------------------------------------------------------
(* Delivery and settlement.                                                *)

Deliver(m) ==
  /\ pc[m] = "queued"
  /\ Goto(m, FirstStep(m))
  /\ todo' = [todo EXCEPT ![m] = IF m.action \in AclActions THEN m.blocks ELSE Containers(m)]
  /\ chunk' = [chunk EXCEPT ![m] = IF m.action = "update_access" THEN m.start ELSE {}]
  /\ UNCHANGED <<store, seen, seqEnd, handed, failures, crashes>>

Ack(m) ==
  /\ pc[m] = "ack"
  /\ Goto(m, "settled")
  /\ todo' = [todo EXCEPT ![m] = {}]
  /\ chunk' = [chunk EXCEPT ![m] = {}]
  /\ seen' = [seen EXCEPT ![m] = {}]
  /\ seqEnd' = [seqEnd EXCEPT ![m] = 0]
  /\ UNCHANGED <<store, handed, failures, crashes>>

\* Redis did not execute the command of this step, and the handler's except
\* clause takes over.  CacheSandbox and LookupFails say the same of theirs.
CommandLost(m) ==
  /\ \/ pc[m] \in {"save", "incr", "append", "subscribers", "write", "bump",
                   "members", "delete"}
     \/ pc[m] = "notify" /\ m.permission = "allow" /\ ~m.withData
  /\ Fail
  /\ Goto(m, OnError(m))
  /\ UNCHANGED <<store, todo, chunk, seen, seqEnd, handed, crashes>>
-----------------------------------------------------------------------------
(* Updates: action_update_block, action_update_blocks.                     *)

Save(m) ==
  /\ pc[m] = "save"
  /\ blockData' = [b \in Block |-> IF b \in m.blocks THEN m.data[b].stamp ELSE blockData[b]]
  /\ Replied(m, EnterAppend(m))
  /\ UNCHANGED <<blockSubscribers, userBlocks, subVersion, seq, changelog, sandbox,
                 todo, chunk, seen, seqEnd, handed, crashes>>

\* append_changelog_events takes its numbers in one call and adds the entries
\* in another; between the two, other handlers run.
\* Fault: INCR instead of INCRBY.
AllocationFault(m) == 1
Allocation(m) == Cardinality(Events(m))

Incr(m) ==
  /\ pc[m] = "incr"
  /\ seq' = seq + Allocation(m)
  /\ seqEnd' = [seqEnd EXCEPT ![m] = seq + Allocation(m)]
  /\ Replied(m, "append")
  /\ UNCHANGED <<blockSubscribers, userBlocks, subVersion, changelog, blockData, sandbox,
                 todo, chunk, seen, handed, crashes>>

\* ZREMRANGEBYRANK 0 -(CHANGELOG_MAX_LEN + 1): the entries with
\* CHANGELOG_MAX_LEN or more above them go.
\* Fault: -CHANGELOG_MAX_LEN, which keeps one entry less.
TrimmedFault(log) ==
  IF ChangelogMaxLen = 0 THEN log
  ELSE {e \in log : Cardinality({f \in log : f.seq >= e.seq}) < ChangelogMaxLen}
Trimmed(log) ==
  IF ChangelogMaxLen = 0 THEN log
  ELSE {e \in log : Cardinality({f \in log : f.seq > e.seq}) < ChangelogMaxLen}

AllocatedTo(m) == (seqEnd[m] - Cardinality(Events(m)) + 1)..seqEnd[m]

NewEntries(m, number) == {[seq |-> number[b], op |-> Op(m), block |-> b] : b \in Events(m)}

AppendEntries(m) ==
  /\ pc[m] = "append"
  /\ \E number \in Injection(Events(m), AllocatedTo(m)) :
       changelog' = Trimmed(changelog \union NewEntries(m, number))
  /\ Replied(m, AfterAppend(m))
  /\ UNCHANGED <<blockSubscribers, userBlocks, subVersion, seq, blockData, sandbox,
                 todo, chunk, seen, seqEnd, handed, crashes>>

\* update_sandbox_cache swallows its errors: the loop goes on either way.
CacheSandbox(m) ==
  /\ pc[m] = "cache"
  /\ \E b \in todo[m] :
       LET cached == [sandbox EXCEPT ![b] = CachedInfo(m.data[b])] IN
       /\ \/ sandbox' = cached /\ UNCHANGED failures
          \/ sandbox' \in {cached, sandbox} /\ Fail
       /\ todo' = [todo EXCEPT ![m] = @ \ {b}]
       /\ Goto(m, IF todo[m] = {b} THEN "subscribers" ELSE "cache")
  /\ UNCHANGED <<blockSubscribers, userBlocks, subVersion, seq, changelog, blockData,
                 chunk, seen, seqEnd, handed, crashes>>

ExpireSandbox(b) ==
  /\ SandboxExpires
  /\ sandbox[b] # NoSandbox
  /\ sandbox' = [sandbox EXCEPT ![b] = NoSandbox]
  /\ UNCHANGED <<blockSubscribers, userBlocks, subVersion, seq, changelog, blockData,
                 handler, failures, crashes>>

\* With the message's own context no lookup is needed: update_blocks then
\* never looks a parent up, update_block only when it lacks its parent.
NeedsLookup(m) ==
  IF m.action = "update_block" THEN Parents(m) \ DOMAIN m.context # {}
  ELSE DOMAIN m.context = {} /\ Parents(m) # {}

\* update_block hands the whole batch over at once, update_blocks user by user.
Dispatch(m, pairs) ==
  IF m.action = "update_blocks" /\ pairs # {}
    THEN Goto(m, "send") /\ seen' = [seen EXCEPT ![m] = pairs] /\ UNCHANGED handed
    ELSE Goto(m, "ack") /\ HandOver(m, pairs) /\ UNCHANGED seen

ReadSubscribers(m) ==
  /\ pc[m] = "subscribers"
  /\ LET pairs == PairsOf(m.blocks) IN
       IF m.action = "sandbox_mode_changed"
         THEN Goto(m, "ack") /\ HandOver(m, pairs) /\ UNCHANGED seen
       ELSE IF NeedsLookup(m) /\ (pairs # {} \/ m.action = "update_blocks")
         THEN Goto(m, "lookup") /\ seen' = [seen EXCEPT ![m] = pairs] /\ UNCHANGED handed
       ELSE Dispatch(m, Routed(m, pairs, ContextInfo(m)))
  /\ UNCHANGED <<store, todo, chunk, seqEnd, failures, crashes>>

Lookup(m) ==
  /\ pc[m] = "lookup"
  /\ Dispatch(m, Routed(m, seen[m], sandbox))
  /\ UNCHANGED <<store, todo, chunk, seqEnd, failures, crashes>>

\* get_sandbox_info turns an error into "not a sandbox"; in update_blocks the
\* error ends the handler.
LookupFails(m) ==
  /\ pc[m] = "lookup"
  /\ Fail
  /\ Goto(m, "ack")
  /\ IF m.action = "update_block" THEN HandOver(m, seen[m]) ELSE UNCHANGED handed
  /\ UNCHANGED <<store, todo, chunk, seen, seqEnd, crashes>>

SendToUser(m) ==
  /\ pc[m] = "send"
  /\ \E u \in UsersOf(seen[m]) :
       LET mine == {p \in seen[m] : p[1] = u} IN
       /\ HandOver(m, mine)
       /\ seen' = [seen EXCEPT ![m] = @ \ mine]
       /\ Goto(m, IF seen[m] = mine THEN "ack" ELSE "send")
  /\ UNCHANGED <<store, todo, chunk, seqEnd, failures, crashes>>
-----------------------------------------------------------------------------
(* Access: action_update_access, action_subscribe.                         *)

Denies(m) == m.action = "update_access" /\ m.permission = "deny"

\* Fault: a deny leaves the push index alone.
PushIndexFault(m, blocks) ==
  [b \in Block |-> IF b \in blocks /\ ~Denies(m) THEN blockSubscribers[b] \union {m.user}
                   ELSE blockSubscribers[b]]
PushIndex(m, blocks) ==
  [b \in Block |-> IF b \notin blocks THEN blockSubscribers[b]
                   ELSE IF Denies(m) THEN blockSubscribers[b] \ {m.user}
                   ELSE blockSubscribers[b] \union {m.user}]

PullIndex(m, blocks) ==
  [userBlocks EXCEPT ![m.user] = IF Denies(m) THEN @ \ blocks ELSE @ \union blocks]

\* One MULTI per portion writes both indexes.
WriteIndexes(m) ==
  /\ pc[m] = "write"
  /\ \E p \in AccessPortions(m) :
       LET blocks == p[1] \union p[2]
           done   == p[1] = todo[m] /\ p[2] = chunk[m] IN
       /\ blockSubscribers' = PushIndex(m, blocks)
       /\ userBlocks' = PullIndex(m, blocks)
       /\ todo' = [todo EXCEPT ![m] = @ \ p[1]]
       /\ chunk' = [chunk EXCEPT ![m] = @ \ p[2]]
       /\ Replied(m, IF done THEN EnterBump(m) ELSE "write")
  /\ UNCHANGED <<subVersion, seq, changelog, blockData, sandbox,
                 seen, seqEnd, handed, crashes>>

BumpVersions(m) ==
  /\ pc[m] = "bump"
  /\ subVersion' = [u \in User |-> IF u \in Affected(m) THEN subVersion[u] + 1
                                   ELSE subVersion[u]]
  /\ Replied(m, AfterBump(m))
  /\ UNCHANGED <<blockSubscribers, userBlocks, seq, changelog, blockData, sandbox,
                 todo, chunk, seen, seqEnd, handed, crashes>>

\* send_message_update_access: forbidden stubs, the data in the message, or
\* what Redis has of the start blocks.
Notify(m) ==
  /\ pc[m] = "notify"
  /\ LET shown == IF m.permission = "deny" \/ m.withData THEN m.start
                  ELSE {b \in m.start : blockData[b] # 0} IN
       HandOver(m, {m.user} \X shown)
  /\ Goto(m, "ack")
  /\ UNCHANGED <<store, todo, chunk, seen, seqEnd, failures, crashes>>
-----------------------------------------------------------------------------
(* Deletion: action_unsubscribe, one round of the loop per portion.        *)

\* Every reader of the portion is to be told of every block of it.
\* Fault: the notices are forgotten.
NoticesFault(pairs, blocks) == {}
Notices(pairs, blocks) == UsersOf(pairs) \X blocks

ReadMembers(m) ==
  /\ pc[m] = "members"
  /\ \E blocks \in Portions(todo[m]) :
       LET pairs == PairsOf(blocks) IN
       /\ todo' = [todo EXCEPT ![m] = @ \ blocks]
       /\ chunk' = [chunk EXCEPT ![m] = blocks]
       /\ seen' = [seen EXCEPT ![m] = pairs]
       /\ HandOver(m, Notices(pairs, blocks))
  /\ Goto(m, "delete")
  /\ UNCHANGED <<store, seqEnd, failures, crashes>>

\* Fault: block:{b} is not deleted with its block.
ClearedFault(blocks) == blockSubscribers
Cleared(blocks) == [b \in Block |-> IF b \in blocks THEN {} ELSE blockSubscribers[b]]

DeleteBlocks(m) ==
  /\ pc[m] = "delete"
  /\ userBlocks' = [u \in User |-> userBlocks[u] \ {b \in Block : <<u, b>> \in seen[m]}]
  /\ blockSubscribers' = Cleared(chunk[m])
  /\ blockData' = [b \in Block |-> IF b \in chunk[m] THEN 0 ELSE blockData[b]]
  /\ sandbox' = [b \in Block |-> IF b \in chunk[m] THEN NoSandbox ELSE sandbox[b]]
  /\ Replied(m, EnterAppend(m))
  /\ UNCHANGED <<subVersion, seq, changelog, todo, chunk, seen, seqEnd, handed, crashes>>
-----------------------------------------------------------------------------
(* The consumer process dies; what it has not acknowledged is redelivered. *)

InFlight(m) == pc[m] \notin {"queued", "settled"}

Crash ==
  /\ crashes < MaxCrashes
  /\ \E m \in Message : InFlight(m)
  /\ crashes' = crashes + 1
  /\ pc' = [m \in Message |-> IF InFlight(m) THEN "queued" ELSE pc[m]]
  /\ todo' = [m \in Message |-> {}]
  /\ chunk' = [m \in Message |-> {}]
  /\ seen' = [m \in Message |-> {}]
  /\ seqEnd' = [m \in Message |-> 0]
  /\ UNCHANGED <<store, handed, failures>>

\* Every step of a handler that its own code takes.
Step(m) ==
  \/ Deliver(m) \/ Ack(m)
  \/ Save(m) \/ Incr(m) \/ AppendEntries(m) \/ CacheSandbox(m)
  \/ ReadSubscribers(m) \/ Lookup(m) \/ SendToUser(m)
  \/ WriteIndexes(m) \/ BumpVersions(m) \/ Notify(m)
  \/ ReadMembers(m) \/ DeleteBlocks(m)

Settled == \A m \in Message : pc[m] = "settled"

\* Once every message is settled the consumer waits for the next one.
Idle == Settled /\ UNCHANGED vars

Next ==
  \/ \E m \in Message : Step(m) \/ CommandLost(m) \/ LookupFails(m)
  \/ \E b \in Block : ExpireSandbox(b)
  \/ Crash
  \/ Idle

Spec == Init /\ [][Next]_vars

\* A delivered message's task is run whenever the reply it waits for is in,
\* and the broker delivers what is queued.
FairSpec == Spec /\ \A m \in Message : WF_vars(Step(m))
-----------------------------------------------------------------------------
(* The inductive invariant behind the safety properties: what the labels   *)
(* and locals of a handler say of each other and of the counter.           *)

LabelsOf(m) ==
  IF m.action \in UpdateActions
    THEN {"save", "incr", "append", "cache", "subscribers", "lookup", "send"}
  ELSE IF m.action = "unsubscribe" THEN {"members", "delete", "incr", "append", "bump"}
  ELSE IF m.action = "update_access" THEN {"write", "bump", "notify"}
  ELSE IF m.action = "subscribe" THEN {"write", "bump"}
  ELSE {"cache", "subscribers"}

\* A handler only ever is at a step of its own; its loop walks its message's
\* blocks; a deletion only removes what it read of the portion it deletes;
\* and the numbers a handler is about to use have been counted.
LabelInv == \A m \in Message : pc[m] \in LabelsOf(m) \union {"queued", "ack", "settled"}

LocalInv ==
  \A m \in Message :
    /\ todo[m] \subseteq m.blocks \union m.start
    /\ m.action \notin AclActions => todo[m] \subseteq m.blocks
    /\ chunk[m] \subseteq m.blocks \union m.start
    /\ pc[m] = "delete" => seen[m] \subseteq User \X chunk[m]

AllocationInv ==
  \A m \in Message : pc[m] = "append" => seqEnd[m] \in Cardinality(Events(m))..seq

HandlerInv == LabelInv /\ LocalInv /\ AllocationInv

\* The numbers taken and not yet used belong to one handler each and are not
\* in the changelog.
AllocationsDisjoint ==
  \A m \in Message : pc[m] = "append" =>
    /\ \A e \in changelog : e.seq \notin AllocatedTo(m)
    /\ \A n \in Message \ {m} : pc[n] = "append" => AllocatedTo(m) \intersect AllocatedTo(n) = {}
-----------------------------------------------------------------------------
(* Properties.                                                             *)

\* Whoever is notified of a block's updates can also pull them: the two Redis
\* sets that every access handler writes never disagree in that direction,
\* however the handlers interleave, fail and are redelivered.
PushTargetsCanPull ==
  \A b \in Block : \A u \in blockSubscribers[b] : b \in userBlocks[u]

\* No two changelog entries carry one sequence number, though the numbers are
\* taken in one round trip and used in another: readers page by number.
SeqsUnique ==
  /\ \A e \in changelog : e.seq \in 1..seq
  /\ \A e, f \in changelog : e.seq = f.seq => e = f

\* Once nothing is in flight and nothing was lost, the changelog is exactly
\* the newest CHANGELOG_MAX_LEN numbers without a hole, whatever the order in
\* which entries landed and trims ran: a cursor within it misses nothing.
ChangelogIsNewest ==
  SyncV2Enabled /\ failures = 0 /\ crashes = 0 /\ (\A m \in Message : ~InFlight(m)) =>
    {e.seq : e \in changelog} =
      {n \in 1..seq : ChangelogMaxLen = 0 \/ n > seq - ChangelogMaxLen}

\* The handlers, with their portions, lost replies, crashes and redelivery,
\* implement the registry: every step gives or takes access in both indexes
\* together, or announces a deletion (creates the task that sends its notices),
\* or is a deletion that silences its blocks and unsubscribes nobody to whom it
\* has not been announced.
Indexed == INSTANCE Registry WITH
  subs      <- {p \in User \X Block : p[2] \in userBlocks[p[1]]},
  reach     <- {p \in User \X Block : p[1] \in blockSubscribers[p[2]]},
  announced <- UNION {handed[m] : m \in {n \in Message : n.action = "unsubscribe"}}

ImplementsRegistry == Indexed!Spec

\* "For 'deny' permission: removes user from block subscribers"
\* (rabbitmq_consumer.py:393): with everything settled and nothing lost, the
\* user of a deny published after every grant (ids are in publishing order)
\* is not notified of the blocks it names.
DenyHolds ==
  Settled /\ failures = 0 /\ crashes = 0 =>
    \A m \in Message : Denies(m) =>
      \A b \in AccessBlocks(m) :
        (\A g \in Message : g.action \in AclActions /\ b \in AccessBlocks(g) => g.id <= m.id) =>
          m.user \notin blockSubscribers[b]

\* Every message is settled in the end, whatever it meets on its way.
EventuallySettled == <>Settled
=============================================================================
