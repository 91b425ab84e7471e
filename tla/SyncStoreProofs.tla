--------------------------- MODULE SyncStoreProofs ---------------------------
(***************************************************************************)
(* What is proved of SyncStore for every set of users, blocks and          *)
(* messages: type correctness with the inductive invariant of the          *)
(* handlers, and the agreement of the two subscription indexes.            *)
(***************************************************************************)
EXTENDS SyncStore, FiniteSetTheorems, WellFoundedInduction, TLAPS

\* The numbers and sets a handler computes have the types their uses need:
\* the events it appends are a finite set of blocks.
LEMMA EventsFinite ==
  ASSUME TypeOK, HandlerInv, NEW m \in Message
  PROVE  /\ Events(m) \subseteq Block
         /\ IsFiniteSet(Events(m))
         /\ Cardinality(Events(m)) \in Nat
<1>1. m.blocks \subseteq Block /\ m.start \subseteq Block
  BY MessageAssumption
<1>2. IsFiniteSet(m.blocks) /\ IsFiniteSet(m.start)
  BY MessageAssumption
<1>3. IsFiniteSet(m.blocks \union m.start)
  BY <1>2, FS_Union
<1>4. chunk[m] \subseteq m.blocks \union m.start
  BY DEF HandlerInv, LocalInv
<1>5. IsFiniteSet(chunk[m])
  BY <1>3, <1>4, FS_Subset
<1>6. Events(m) \subseteq Block /\ IsFiniteSet(Events(m))
  BY <1>1, <1>2, <1>4, <1>5 DEF Events
<1> QED
  BY <1>6, FS_CardinalityType

\* Where a handler may go except by taking numbers (to "append") or by reading
\* subscribers (to "delete"), the two labels the invariant speaks of.
Exits(m) == (LabelsOf(m) \union {"ack"}) \ {"append", "delete"}

\* A handler leaves a call for one of its own steps or for its ack.
LEMMA NextLabels ==
  ASSUME NEW m \in Message
  PROVE  /\ m.action \in AclActions => AfterBump(m) \in Exits(m)
         /\ m.action \in AclActions => EnterBump(m) \in Exits(m)
         /\ m.action \in UpdateActions \union {"unsubscribe"} =>
              AfterAppend(m) \in Exits(m) /\ EnterAppend(m) \in Exits(m)
         /\ FirstStep(m) \in Exits(m)
<1>1. m.action \in Actions
  BY MessageAssumption
<1>2. m.action \in AclActions => AfterBump(m) \in Exits(m)
  BY DEF AfterBump, Exits, LabelsOf, AclActions, UpdateActions
<1>3. m.action \in AclActions => EnterBump(m) \in Exits(m)
  BY <1>2 DEF EnterBump, Exits, LabelsOf, AclActions, UpdateActions
<1>4. m.action \in UpdateActions \union {"unsubscribe"} => AfterAppend(m) \in Exits(m)
  BY <1>3 DEF AfterAppend, Exits, LabelsOf, AclActions, UpdateActions
<1>5. m.action \in UpdateActions \union {"unsubscribe"} => EnterAppend(m) \in Exits(m)
  BY <1>4 DEF EnterAppend, Exits, LabelsOf, AclActions, UpdateActions
<1>6. FirstStep(m) \in Exits(m)
  BY <1>1, <1>3 DEF FirstStep, Exits, LabelsOf, Actions, AclActions, UpdateActions
<1> QED
  BY <1>2, <1>3, <1>4, <1>5, <1>6

\* So does one whose Redis call raised.
LEMMA ErrorLabels ==
  ASSUME LabelInv, NEW m \in Message
  PROVE  OnError(m) \in Exits(m)
<1>1. pc[m] \in {"incr", "append"} => m.action \in UpdateActions \union {"unsubscribe"}
  BY DEF LabelInv, LabelsOf
<1>2. pc[m] = "bump" => m.action \in AclActions
  BY DEF LabelInv, LabelsOf, AclActions, UpdateActions
<1>3. "ack" \in Exits(m)
  BY DEF Exits
<1> QED
  BY <1>1, <1>2, <1>3, NextLabels DEF OnError

\* What a move to one of these labels preserves.
PcStep == /\ pc' \in [Message -> Labels]
          /\ LabelInv'
          /\ \A n \in Message : pc'[n] \in {"append", "delete"} => pc'[n] = pc[n]

LEMMA GotoExit ==
  ASSUME TypeOK, LabelInv, NEW m \in Message, NEW label \in Exits(m), Goto(m, label)
  PROVE  PcStep
<1>1. label \in Labels
  BY DEF Exits, LabelsOf, Labels
<1>2. pc \in [Message -> Labels]
  BY DEF TypeOK
<1>3. pc' = [pc EXCEPT ![m] = label]
  BY DEF Goto
<1>4. \A n \in Message : LabelsOf(n)' = LabelsOf(n)
  BY DEF LabelsOf
<1> QED
  BY <1>1, <1>2, <1>3, <1>4 DEF PcStep, LabelInv, Exits

LEMMA RepliedExit ==
  ASSUME TypeOK, LabelInv, NEW m \in Message, NEW label \in Exits(m), Replied(m, label)
  PROVE  PcStep /\ failures' \in 0..MaxFailures
<1>1. failures \in 0..MaxFailures
  BY DEF TypeOK
<1>2. CASE Goto(m, label) /\ UNCHANGED failures
  BY <1>1, <1>2, GotoExit
<1>3. CASE Goto(m, OnError(m)) /\ Fail
  <2>1. PcStep
    BY <1>3, ErrorLabels, GotoExit
  <2>2. failures' \in 0..MaxFailures
    BY <1>1, <1>3, SettingsAssumption DEF Fail
  <2> QED
    BY <2>1, <2>2
<1> QED
  BY <1>2, <1>3 DEF Replied

\* What the moves preserve when the locals the invariant speaks of do not change.
LEMMA KeepLocals ==
  ASSUME TypeOK, HandlerInv, PcStep, UNCHANGED seen,
         \A n \in Message : todo'[n] \subseteq todo[n] /\ chunk'[n] \subseteq chunk[n],
         \A n \in Message : pc'[n] = "delete" => chunk'[n] = chunk[n]
  PROVE  LocalInv'
BY DEF TypeOK, HandlerInv, LocalInv, PcStep

LEMMA KeepAllocations ==
  ASSUME TypeOK, HandlerInv, PcStep, UNCHANGED seqEnd, seq' \in Nat, seq' >= seq,
         \A n \in Message : pc[n] = "append" => chunk'[n] = chunk[n]
  PROVE  AllocationInv'
<1> SUFFICES ASSUME NEW n \in Message, pc'[n] = "append"
             PROVE  seqEnd'[n] \in Cardinality(Events(n)')..seq'
  BY DEF AllocationInv
<1>1. pc[n] = "append"
  BY DEF PcStep
<1>2. Events(n)' = Events(n)
  BY <1>1 DEF Events
<1>3. seqEnd[n] \in Cardinality(Events(n))..seq
  BY <1>1 DEF HandlerInv, AllocationInv
<1>4. Cardinality(Events(n)) \in Nat
  BY EventsFinite
<1>5. seq \in Nat /\ seqEnd[n] \in Nat
  BY DEF TypeOK
<1> QED
  BY <1>2, <1>3, <1>4, <1>5
-----------------------------------------------------------------------------
(* Each action preserves type correctness and the invariant.               *)

Inv == TypeOK /\ HandlerInv

LEMMA DeliverStep ==
  ASSUME Inv, NEW m \in Message, Deliver(m)
  PROVE  Inv'
<1> USE DEF Inv
<1>1. PcStep
  BY NextLabels, GotoExit DEF Deliver, HandlerInv
<1>2. m.blocks \subseteq Block /\ m.start \subseteq Block
  BY MessageAssumption
<1>3. Containers(m) \subseteq m.blocks
  BY DEF Containers
<1>4. todo' \in [Message -> SUBSET Block] /\ chunk' \in [Message -> SUBSET Block]
  BY <1>2, <1>3 DEF TypeOK, Deliver
<1>5. TypeOK'
  BY <1>1, <1>4 DEF TypeOK, Deliver, store, PcStep
<1>6. LocalInv'
  BY <1>1, <1>3 DEF TypeOK, HandlerInv, LocalInv, Deliver, PcStep
<1>7. AllocationInv'
  BY <1>1, KeepAllocations DEF Deliver, store, TypeOK
<1> QED
  BY <1>1, <1>5, <1>6, <1>7 DEF HandlerInv, PcStep

LEMMA AckStep ==
  ASSUME Inv, NEW m \in Message, Ack(m)
  PROVE  Inv'
<1> USE DEF Inv
<1>1. PcStep
  BY DEF TypeOK, HandlerInv, LabelInv, LabelsOf, Labels, Ack, Goto, PcStep
<1>2. TypeOK'
  BY <1>1 DEF TypeOK, Ack, store, PcStep
<1>3. pc'[m] = "settled"
  BY DEF TypeOK, Ack, Goto
<1>4. LocalInv'
  BY <1>1, <1>3 DEF TypeOK, HandlerInv, LocalInv, Ack, PcStep
<1>5. AllocationInv'
  <2> SUFFICES ASSUME NEW n \in Message, pc'[n] = "append"
               PROVE  seqEnd'[n] \in Cardinality(Events(n)')..seq'
    BY DEF AllocationInv
  <2>1. n # m /\ pc[n] = "append"
    BY <1>1, <1>3 DEF PcStep
  <2>2. Events(n)' = Events(n) /\ seqEnd'[n] = seqEnd[n] /\ seq' = seq
    BY <2>1 DEF Events, Ack, TypeOK, store
  <2> QED
    BY <2>1, <2>2 DEF HandlerInv, AllocationInv
<1> QED
  BY <1>1, <1>2, <1>4, <1>5 DEF HandlerInv, PcStep

LEMMA CommandLostStep ==
  ASSUME Inv, NEW m \in Message, CommandLost(m)
  PROVE  Inv'
<1> USE DEF Inv
<1>1. PcStep
  BY ErrorLabels, GotoExit DEF CommandLost, HandlerInv
<1>2. TypeOK'
  BY <1>1, SettingsAssumption DEF TypeOK, CommandLost, Fail, store, PcStep
<1>3. LocalInv'
  BY <1>1, KeepLocals DEF CommandLost
<1>4. AllocationInv'
  BY <1>1, KeepAllocations DEF CommandLost, store, TypeOK
<1> QED
  BY <1>1, <1>2, <1>3, <1>4 DEF HandlerInv, PcStep

LEMMA SaveStep ==
  ASSUME Inv, NEW m \in Message, Save(m)
  PROVE  Inv'
<1> USE DEF Inv
<1>1. m.action \in UpdateActions
  BY DEF Save, HandlerInv, LabelInv, LabelsOf
<1>2. PcStep /\ failures' \in 0..MaxFailures
  BY <1>1, NextLabels, RepliedExit DEF Save, HandlerInv
<1>3. m.data \in [m.blocks -> BlockDatum]
  BY <1>1, MessageAssumption DEF UpdateActions, AclActions
<1>4. blockData' \in [Block -> Nat]
  BY <1>3 DEF Save, TypeOK, BlockDatum
<1>5. TypeOK'
  BY <1>2, <1>4 DEF TypeOK, Save, PcStep
<1>6. LocalInv'
  BY <1>2, KeepLocals DEF Save
<1>7. AllocationInv'
  BY <1>2, KeepAllocations DEF Save, TypeOK
<1> QED
  BY <1>2, <1>5, <1>6, <1>7 DEF HandlerInv, PcStep

LEMMA IncrStep ==
  ASSUME Inv, NEW m \in Message, Incr(m)
  PROVE  Inv'
<1> USE DEF Inv
<1>1. Allocation(m) \in Nat /\ Allocation(m) = Cardinality(Events(m))
  BY EventsFinite DEF Allocation
<1>2. pc[m] = "incr" /\ m.action \in UpdateActions \union {"unsubscribe"}
  BY DEF Incr, HandlerInv, LabelInv, LabelsOf
<1>3. /\ pc' \in [Message -> Labels] /\ LabelInv'
      /\ failures' \in 0..MaxFailures
      /\ \A n \in Message \ {m} : pc'[n] = pc[n]
      /\ pc'[m] # "delete"
  <2>1. CASE Goto(m, "append") /\ UNCHANGED failures
    <3>1. "append" \in LabelsOf(m)
      BY <1>2 DEF LabelsOf
    <3>2. pc' = [pc EXCEPT ![m] = "append"] /\ pc \in [Message -> Labels]
      BY <2>1 DEF Goto, TypeOK
    <3>3. \A n \in Message : LabelsOf(n)' = LabelsOf(n)
      BY DEF LabelsOf
    <3> QED
      BY <2>1, <3>1, <3>2, <3>3 DEF HandlerInv, LabelInv, TypeOK, Labels
  <2>2. CASE Goto(m, OnError(m)) /\ Fail
    <3>1. PcStep
      BY <2>2, ErrorLabels, GotoExit DEF HandlerInv
    <3>2. failures' \in 0..MaxFailures
      BY <2>2, SettingsAssumption DEF Fail, TypeOK
    <3>3. \A n \in Message \ {m} : pc'[n] = pc[n]
      BY <2>2 DEF Goto, TypeOK
    <3> QED
      BY <1>2, <3>1, <3>2, <3>3 DEF PcStep
  <2> QED
    BY <2>1, <2>2 DEF Incr, Replied
<1>4. seq' = seq + Allocation(m) /\ seqEnd' = [seqEnd EXCEPT ![m] = seq + Allocation(m)]
  BY DEF Incr
<1>5. TypeOK'
  <2>1. seq' \in Nat /\ seqEnd' \in [Message -> Nat]
    BY <1>1, <1>4 DEF TypeOK
  <2>2. UNCHANGED <<blockSubscribers, userBlocks, subVersion, changelog, blockData, sandbox,
                    todo, chunk, seen, handed, crashes>>
    BY DEF Incr
  <2>3. pc' \in [Message -> Labels] /\ failures' \in 0..MaxFailures
    BY <1>3
  <2> QED
    BY <2>1, <2>2, <2>3 DEF TypeOK
<1>6. LocalInv'
  BY <1>3 DEF TypeOK, HandlerInv, LocalInv, Incr
<1>7. AllocationInv'
  <2> SUFFICES ASSUME NEW n \in Message, pc'[n] = "append"
               PROVE  seqEnd'[n] \in Cardinality(Events(n)')..seq'
    BY DEF AllocationInv
  <2>1. Events(n)' = Events(n) /\ Cardinality(Events(n)) \in Nat
    BY EventsFinite DEF Events, Incr
  <2>2. seq \in Nat /\ seqEnd \in [Message -> Nat]
    BY DEF TypeOK
  <2>3. CASE n = m
    BY <1>1, <1>4, <2>1, <2>2, <2>3
  <2>4. CASE n # m
    <3>1. seqEnd[n] \in Cardinality(Events(n))..seq
      BY <1>3, <2>4 DEF HandlerInv, AllocationInv
    <3> QED
      BY <1>1, <1>4, <2>1, <2>2, <2>4, <3>1
  <2> QED
    BY <2>3, <2>4
<1> QED
  BY <1>3, <1>5, <1>6, <1>7 DEF HandlerInv

\* A trim only removes entries.
LEMMA TrimSubset ==
  ASSUME NEW log
  PROVE  Trimmed(log) \subseteq log
BY DEF Trimmed

LEMMA AppendStep ==
  ASSUME Inv, NEW m \in Message, AppendEntries(m)
  PROVE  Inv'
<1> USE DEF Inv
<1>1. pc[m] = "append" /\ m.action \in UpdateActions \union {"unsubscribe"}
  BY DEF AppendEntries, HandlerInv, LabelInv, LabelsOf
<1>2. PcStep /\ failures' \in 0..MaxFailures
  BY <1>1, NextLabels, RepliedExit DEF AppendEntries, HandlerInv
<1>3. AllocatedTo(m) \subseteq Nat
  <2>1. seqEnd[m] \in Cardinality(Events(m))..seq
    BY <1>1 DEF HandlerInv, AllocationInv
  <2>2. Cardinality(Events(m)) \in Nat /\ seqEnd[m] \in Nat /\ seq \in Nat
    BY EventsFinite DEF TypeOK
  <2> QED
    BY <2>1, <2>2 DEF AllocatedTo
<1>4. PICK number \in Injection(Events(m), AllocatedTo(m)) :
        changelog' = Trimmed(changelog \union NewEntries(m, number))
  BY DEF AppendEntries
<1>5. changelog' \subseteq ChangelogEntry
  <2>1. number \in [Events(m) -> AllocatedTo(m)]
    BY <1>4 DEF Injection
  <2>2. Events(m) \subseteq Block
    BY EventsFinite
  <2>3. NewEntries(m, number) \subseteq ChangelogEntry
    BY <1>3, <2>1, <2>2 DEF NewEntries, ChangelogEntry, Op
  <2>4. changelog \subseteq ChangelogEntry
    BY DEF TypeOK
  <2> QED
    BY <1>4, <2>3, <2>4, TrimSubset
<1>6. TypeOK'
  <2>1. UNCHANGED <<blockSubscribers, userBlocks, subVersion, seq, blockData, sandbox,
                    todo, chunk, seen, seqEnd, handed, crashes>>
    BY DEF AppendEntries
  <2> QED
    BY <1>2, <1>5, <2>1 DEF TypeOK, PcStep
<1>7. LocalInv'
  BY <1>2, KeepLocals DEF AppendEntries
<1>8. AllocationInv'
  BY <1>2, KeepAllocations DEF AppendEntries, TypeOK
<1> QED
  BY <1>2, <1>6, <1>7, <1>8 DEF HandlerInv, PcStep

LEMMA CacheSandboxStep ==
  ASSUME Inv, NEW m \in Message, CacheSandbox(m)
  PROVE  Inv'
<1> USE DEF Inv
<1>1. pc[m] = "cache" /\ m.action \notin AclActions
  BY DEF CacheSandbox, HandlerInv, LabelInv, LabelsOf, UpdateActions, AclActions
<1>2. PICK b \in todo[m] :
        /\ sandbox' \in {[sandbox EXCEPT ![b] = CachedInfo(m.data[b])], sandbox}
        /\ UNCHANGED failures \/ Fail
        /\ todo' = [todo EXCEPT ![m] = @ \ {b}]
        /\ Goto(m, IF todo[m] = {b} THEN "subscribers" ELSE "cache")
  BY DEF CacheSandbox
<1>3. PcStep
  <2>1. "cache" \in Exits(m) /\ "subscribers" \in Exits(m)
    BY <1>1, MessageAssumption DEF Exits, LabelsOf, Actions, AclActions, UpdateActions
  <2> QED
    BY <1>2, <2>1, GotoExit DEF HandlerInv
<1>4. sandbox' \in [Block -> SandboxInfo]
  <2>1. m.data \in [m.blocks -> BlockDatum] /\ b \in m.blocks
    BY <1>1, <1>2, MessageAssumption DEF HandlerInv, LocalInv
  <2>2. CachedInfo(m.data[b]) \in SandboxInfo
    BY <2>1 DEF CachedInfo, NoSandbox, SandboxInfo, BlockDatum
  <2> QED
    BY <1>2, <2>2 DEF TypeOK
<1>5. todo' \in [Message -> SUBSET Block] /\ \A n \in Message : todo'[n] \subseteq todo[n]
  BY <1>2 DEF TypeOK
<1>6. failures' \in 0..MaxFailures
  BY <1>2, SettingsAssumption DEF Fail, TypeOK
<1>7. UNCHANGED <<blockSubscribers, userBlocks, subVersion, seq, changelog, blockData,
                  chunk, seen, seqEnd, handed, crashes>>
  BY DEF CacheSandbox
<1>8. TypeOK'
  BY <1>3, <1>4, <1>5, <1>6, <1>7 DEF TypeOK, PcStep
<1>9. LocalInv'
  BY <1>3, <1>5, <1>7, KeepLocals
<1>10. AllocationInv'
  BY <1>3, <1>7, KeepAllocations DEF TypeOK
<1> QED
  BY <1>3, <1>8, <1>9, <1>10 DEF HandlerInv, PcStep

LEMMA ExpireSandboxStep ==
  ASSUME Inv, NEW b \in Block, ExpireSandbox(b)
  PROVE  Inv'
<1> USE DEF Inv
<1>1. NoSandbox \in SandboxInfo
  BY DEF NoSandbox, SandboxInfo
<1>2. TypeOK'
  BY <1>1 DEF TypeOK, ExpireSandbox, handler
<1>3. PcStep
  BY DEF ExpireSandbox, handler, HandlerInv, LabelInv, PcStep, TypeOK, LabelsOf
<1>4. LocalInv'
  BY <1>3, KeepLocals DEF ExpireSandbox, handler
<1>5. AllocationInv'
  BY <1>3, KeepAllocations DEF ExpireSandbox, handler, TypeOK
<1> QED
  BY <1>2, <1>3, <1>4, <1>5 DEF HandlerInv, PcStep
-----------------------------------------------------------------------------
(* The steps that only route: they move pairs between seen and handed.     *)

\* What such a step preserves.
LEMMA DispatchStep ==
  ASSUME Inv, PcStep,
         handed' \in [Message -> SUBSET (User \X Block)],
         seen' \in [Message -> SUBSET (User \X Block)],
         \A n \in Message : pc[n] = "delete" => seen'[n] = seen[n],
         failures' \in 0..MaxFailures,
         UNCHANGED <<store, todo, chunk, seqEnd, crashes>>
  PROVE  Inv'
<1> USE DEF Inv
<1>1. TypeOK'
  BY DEF TypeOK, PcStep, store
<1>2. LocalInv'
  BY DEF TypeOK, HandlerInv, LocalInv, PcStep
<1>3. AllocationInv'
  BY KeepAllocations DEF store, TypeOK
<1> QED
  BY <1>1, <1>2, <1>3 DEF HandlerInv, PcStep

LEMMA DispatchKeeps ==
  ASSUME Inv, NEW m \in Message, pc[m] # "delete", m.action \in UpdateActions,
         NEW pairs \in SUBSET (User \X Block), Dispatch(m, pairs)
  PROVE  /\ PcStep
         /\ handed' \in [Message -> SUBSET (User \X Block)]
         /\ seen' \in [Message -> SUBSET (User \X Block)]
         /\ \A n \in Message : pc[n] = "delete" => seen'[n] = seen[n]
<1> USE DEF Inv
<1>1. "send" \in Exits(m) /\ "ack" \in Exits(m)
  BY DEF Exits, LabelsOf
<1>2. PcStep
  BY <1>1, GotoExit DEF Dispatch, HandlerInv
<1> QED
  BY <1>2 DEF Dispatch, HandOver, TypeOK

LEMMA ReadSubscribersStep ==
  ASSUME Inv, NEW m \in Message, ReadSubscribers(m)
  PROVE  Inv'
<1> USE DEF Inv
<1> DEFINE pairs == PairsOf(m.blocks)
<1>1. pc[m] = "subscribers"
  BY DEF ReadSubscribers
<1>2. pairs \in SUBSET (User \X Block)
  BY DEF PairsOf
<1>3. failures' \in 0..MaxFailures /\ UNCHANGED <<store, todo, chunk, seqEnd, crashes>>
  BY DEF ReadSubscribers, TypeOK
<1>4. m.action # "sandbox_mode_changed" => m.action \in UpdateActions
  BY <1>1, MessageAssumption DEF HandlerInv, LabelInv, LabelsOf, UpdateActions, Actions, AclActions
<1>5. CASE Goto(m, "ack") /\ HandOver(m, pairs) /\ UNCHANGED seen
  <2>1. PcStep
    BY <1>5, GotoExit DEF Exits, HandlerInv
  <2>2. handed' \in [Message -> SUBSET (User \X Block)]
    BY <1>2, <1>5 DEF HandOver, TypeOK
  <2> QED
    BY <1>3, <1>5, <2>1, <2>2, DispatchStep DEF TypeOK
<1>6. CASE /\ m.action # "sandbox_mode_changed"
           /\ Goto(m, "lookup") /\ seen' = [seen EXCEPT ![m] = pairs] /\ UNCHANGED handed
  <2>1. "lookup" \in Exits(m)
    BY <1>4, <1>6 DEF Exits, LabelsOf
  <2>2. PcStep
    BY <1>6, <2>1, GotoExit DEF HandlerInv
  <2>3. /\ seen' \in [Message -> SUBSET (User \X Block)]
        /\ \A n \in Message : pc[n] = "delete" => seen'[n] = seen[n]
    BY <1>1, <1>2, <1>6 DEF TypeOK
  <2>4. handed' \in [Message -> SUBSET (User \X Block)]
    BY <1>6 DEF TypeOK
  <2> QED
    BY <1>3, <2>2, <2>3, <2>4, DispatchStep
<1>7. CASE /\ m.action # "sandbox_mode_changed"
           /\ Dispatch(m, Routed(m, pairs, ContextInfo(m)))
  <2>1. Routed(m, pairs, ContextInfo(m)) \in SUBSET (User \X Block)
    BY <1>2 DEF Routed
  <2> HIDE DEF pairs
  <2> QED
    BY <1>1, <1>3, <1>4, <1>7, <2>1, DispatchKeeps, DispatchStep
<1> QED
  BY <1>5, <1>6, <1>7 DEF ReadSubscribers

LEMMA LookupStep ==
  ASSUME Inv, NEW m \in Message, Lookup(m)
  PROVE  Inv'
<1> USE DEF Inv
<1>1. pc[m] = "lookup" /\ m.action \in UpdateActions
  BY DEF Lookup, HandlerInv, LabelInv, LabelsOf
<1>2. Routed(m, seen[m], sandbox) \in SUBSET (User \X Block)
  BY DEF Routed, TypeOK
<1>3. failures' \in 0..MaxFailures /\ UNCHANGED <<store, todo, chunk, seqEnd, crashes>>
  BY DEF Lookup, TypeOK
<1> QED
  BY <1>1, <1>2, <1>3, DispatchKeeps, DispatchStep DEF Lookup

LEMMA LookupFailsStep ==
  ASSUME Inv, NEW m \in Message, LookupFails(m)
  PROVE  Inv'
<1> USE DEF Inv
<1>1. PcStep
  BY GotoExit DEF LookupFails, Exits, HandlerInv
<1>2. failures' \in 0..MaxFailures
  BY SettingsAssumption DEF LookupFails, Fail, TypeOK
<1>3. handed' \in [Message -> SUBSET (User \X Block)]
  BY DEF LookupFails, HandOver, TypeOK
<1> QED
  BY <1>1, <1>2, <1>3, DispatchStep DEF LookupFails, TypeOK

LEMMA SendToUserStep ==
  ASSUME Inv, NEW m \in Message, SendToUser(m)
  PROVE  Inv'
<1> USE DEF Inv
<1>1. pc[m] = "send" /\ m.action \in UpdateActions
  BY DEF SendToUser, HandlerInv, LabelInv, LabelsOf
<1>2. PICK u \in UsersOf(seen[m]) :
        /\ HandOver(m, {p \in seen[m] : p[1] = u})
        /\ seen' = [seen EXCEPT ![m] = @ \ {p \in seen[m] : p[1] = u}]
        /\ Goto(m, IF seen[m] = {p \in seen[m] : p[1] = u} THEN "ack" ELSE "send")
  BY DEF SendToUser
<1>3. "send" \in Exits(m) /\ "ack" \in Exits(m)
  BY <1>1 DEF Exits, LabelsOf
<1>4. PcStep
  BY <1>2, <1>3, GotoExit DEF HandlerInv
<1>5. /\ handed' \in [Message -> SUBSET (User \X Block)]
      /\ seen' \in [Message -> SUBSET (User \X Block)]
      /\ \A n \in Message : pc[n] = "delete" => seen'[n] = seen[n]
  BY <1>1, <1>2 DEF HandOver, TypeOK
<1> QED
  BY <1>4, <1>5, DispatchStep DEF SendToUser, TypeOK

LEMMA NotifyStep ==
  ASSUME Inv, NEW m \in Message, Notify(m)
  PROVE  Inv'
<1> USE DEF Inv
<1>1. m.action = "update_access"
  BY DEF Notify, HandlerInv, LabelInv, LabelsOf, UpdateActions
<1>2. m.user \in User /\ m.start \subseteq Block
  BY <1>1, MessageAssumption
<1>3. PcStep
  BY GotoExit DEF Notify, Exits, HandlerInv
<1>4. handed' \in [Message -> SUBSET (User \X Block)]
  <2>1. PICK shown \in SUBSET m.start : HandOver(m, {m.user} \X shown)
    BY DEF Notify
  <2>2. {m.user} \X shown \subseteq User \X Block
    BY <1>2
  <2> QED
    BY <2>1, <2>2 DEF HandOver, TypeOK
<1> QED
  BY <1>3, <1>4, DispatchStep DEF Notify, TypeOK
-----------------------------------------------------------------------------
(* The steps of the access handlers and of a deletion.                     *)

LEMMA WriteIndexesStep ==
  ASSUME Inv, NEW m \in Message, WriteIndexes(m)
  PROVE  Inv'
<1> USE DEF Inv
<1>1. m.action \in {"update_access", "subscribe"} /\ m.action \in AclActions
  BY DEF WriteIndexes, HandlerInv, LabelInv, LabelsOf, UpdateActions, AclActions
<1>2. m.user \in User
  BY <1>1, MessageAssumption
<1>3. PICK p \in AccessPortions(m) :
        /\ blockSubscribers' = PushIndex(m, p[1] \union p[2])
        /\ userBlocks' = PullIndex(m, p[1] \union p[2])
        /\ todo' = [todo EXCEPT ![m] = @ \ p[1]]
        /\ chunk' = [chunk EXCEPT ![m] = @ \ p[2]]
        /\ Replied(m, IF p[1] = todo[m] /\ p[2] = chunk[m] THEN EnterBump(m) ELSE "write")
  BY DEF WriteIndexes
<1>4. p[1] \union p[2] \subseteq Block
  BY <1>3 DEF AccessPortions, TypeOK
<1>5. PcStep /\ failures' \in 0..MaxFailures
  <2>1. "write" \in Exits(m) /\ EnterBump(m) \in Exits(m)
    BY <1>1, NextLabels DEF Exits, LabelsOf, UpdateActions
  <2> QED
    BY <1>3, <2>1, RepliedExit DEF HandlerInv
<1>6. blockSubscribers' \in [Block -> SUBSET User]
  BY <1>2, <1>3 DEF PushIndex, TypeOK
<1>7. userBlocks' \in [User -> SUBSET Block]
  BY <1>2, <1>3, <1>4 DEF PullIndex, TypeOK
<1>8. /\ todo' \in [Message -> SUBSET Block] /\ chunk' \in [Message -> SUBSET Block]
      /\ \A n \in Message : todo'[n] \subseteq todo[n] /\ chunk'[n] \subseteq chunk[n]
      /\ \A n \in Message \ {m} : chunk'[n] = chunk[n]
  BY <1>3 DEF TypeOK
<1>9. UNCHANGED <<subVersion, seq, changelog, blockData, sandbox,
                  seen, seqEnd, handed, crashes>>
  BY DEF WriteIndexes
<1>a. \A n \in Message : pc[n] \in {"append", "delete"} => n # m
  BY DEF WriteIndexes
<1>10. TypeOK'
  BY <1>5, <1>6, <1>7, <1>8, <1>9 DEF TypeOK, PcStep
<1>11. LocalInv'
  <2>1. \A n \in Message : pc'[n] = "delete" => chunk'[n] = chunk[n]
    BY <1>5, <1>8, <1>a DEF PcStep
  <2> QED
    BY <1>5, <1>8, <1>9, <2>1, KeepLocals
<1>12. AllocationInv'
  BY <1>5, <1>8, <1>9, <1>a, KeepAllocations DEF TypeOK
<1> QED
  BY <1>5, <1>10, <1>11, <1>12 DEF HandlerInv, PcStep

LEMMA BumpVersionsStep ==
  ASSUME Inv, NEW m \in Message, BumpVersions(m)
  PROVE  Inv'
<1> USE DEF Inv
<1>1. m.action \in AclActions
  BY DEF BumpVersions, HandlerInv, LabelInv, LabelsOf, UpdateActions, AclActions
<1>2. PcStep /\ failures' \in 0..MaxFailures
  BY <1>1, NextLabels, RepliedExit DEF BumpVersions, HandlerInv
<1>3. subVersion' \in [User -> Nat]
  BY DEF BumpVersions, TypeOK
<1>4. UNCHANGED <<blockSubscribers, userBlocks, seq, changelog, blockData, sandbox,
                  todo, chunk, seen, seqEnd, handed, crashes>>
  BY DEF BumpVersions
<1>5. TypeOK'
  BY <1>2, <1>3, <1>4 DEF TypeOK, PcStep
<1>6. LocalInv'
  BY <1>2, <1>4, KeepLocals
<1>7. AllocationInv'
  BY <1>2, <1>4, KeepAllocations DEF TypeOK
<1> QED
  BY <1>2, <1>5, <1>6, <1>7 DEF HandlerInv, PcStep

LEMMA ReadMembersStep ==
  ASSUME Inv, NEW m \in Message, ReadMembers(m)
  PROVE  Inv'
<1> USE DEF Inv
<1>1. pc[m] = "members" /\ m.action = "unsubscribe"
  BY DEF ReadMembers, HandlerInv, LabelInv, LabelsOf, UpdateActions
<1>2. PICK blocks \in Portions(todo[m]) :
        /\ todo' = [todo EXCEPT ![m] = @ \ blocks]
        /\ chunk' = [chunk EXCEPT ![m] = blocks]
        /\ seen' = [seen EXCEPT ![m] = PairsOf(blocks)]
        /\ HandOver(m, Notices(PairsOf(blocks), blocks))
  BY DEF ReadMembers
<1>3. blocks \subseteq todo[m] /\ blocks \subseteq Block
  BY <1>2 DEF Portions, TypeOK
<1>4. pc' = [pc EXCEPT ![m] = "delete"]
  BY DEF ReadMembers, Goto
<1>5. PairsOf(blocks) \subseteq User \X blocks /\ PairsOf(blocks) \subseteq User \X Block
  BY <1>3 DEF PairsOf
<1>6. UNCHANGED <<store, seqEnd, failures, crashes>>
  BY DEF ReadMembers
<1>7. LabelInv' /\ pc' \in [Message -> Labels]
  <2>1. \A n \in Message : LabelsOf(n)' = LabelsOf(n)
    BY DEF LabelsOf
  <2>2. "delete" \in LabelsOf(m) /\ "delete" \in Labels
    BY <1>1 DEF LabelsOf, UpdateActions, Labels
  <2> QED
    BY <1>4, <2>1, <2>2 DEF HandlerInv, LabelInv, TypeOK
<1>8. handed' \in [Message -> SUBSET (User \X Block)]
  <2>1. UsersOf(PairsOf(blocks)) \subseteq User
    BY DEF UsersOf, PairsOf
  <2>2. Notices(PairsOf(blocks), blocks) \subseteq User \X Block
    BY <1>3, <2>1 DEF Notices
  <2> QED
    BY <1>2, <2>2 DEF HandOver, TypeOK
<1>9. /\ todo' \in [Message -> SUBSET Block]
      /\ chunk' \in [Message -> SUBSET Block]
      /\ seen' \in [Message -> SUBSET (User \X Block)]
  BY <1>2, <1>3, <1>5 DEF TypeOK
<1>10. TypeOK'
  BY <1>6, <1>7, <1>8, <1>9 DEF TypeOK, store
<1>11. LocalInv'
  BY <1>2, <1>3, <1>4, <1>5 DEF TypeOK, HandlerInv, LocalInv
<1>12. AllocationInv'
  <2> SUFFICES ASSUME NEW n \in Message, pc'[n] = "append"
               PROVE  seqEnd'[n] \in Cardinality(Events(n)')..seq'
    BY DEF AllocationInv
  <2>1. n # m /\ pc[n] = "append"
    BY <1>4 DEF TypeOK
  <2>2. Events(n)' = Events(n) /\ seqEnd' = seqEnd /\ seq' = seq
    BY <1>2, <1>6, <2>1 DEF Events, TypeOK, store
  <2> QED
    BY <2>1, <2>2 DEF HandlerInv, AllocationInv
<1> QED
  BY <1>7, <1>10, <1>11, <1>12 DEF HandlerInv

LEMMA DeleteBlocksStep ==
  ASSUME Inv, NEW m \in Message, DeleteBlocks(m)
  PROVE  Inv'
<1> USE DEF Inv
<1>1. m.action = "unsubscribe"
  BY DEF DeleteBlocks, HandlerInv, LabelInv, LabelsOf, UpdateActions
<1>2. PcStep /\ failures' \in 0..MaxFailures
  BY <1>1, NextLabels, RepliedExit DEF DeleteBlocks, HandlerInv
<1>3. /\ blockSubscribers' \in [Block -> SUBSET User]
      /\ userBlocks' \in [User -> SUBSET Block]
      /\ blockData' \in [Block -> Nat]
  BY DEF DeleteBlocks, Cleared, TypeOK
<1>4. sandbox' \in [Block -> SandboxInfo]
  <2>1. NoSandbox \in SandboxInfo
    BY DEF NoSandbox, SandboxInfo
  <2> QED
    BY <2>1 DEF DeleteBlocks, TypeOK
<1>5. UNCHANGED <<subVersion, seq, changelog, todo, chunk, seen, seqEnd, handed, crashes>>
  BY DEF DeleteBlocks
<1>6. TypeOK'
  BY <1>2, <1>3, <1>4, <1>5 DEF TypeOK, PcStep
<1>7. LocalInv'
  BY <1>2, <1>5, KeepLocals
<1>8. AllocationInv'
  BY <1>2, <1>5, KeepAllocations DEF TypeOK
<1> QED
  BY <1>2, <1>6, <1>7, <1>8 DEF HandlerInv, PcStep

LEMMA CrashStep ==
  ASSUME Inv, Crash
  PROVE  Inv'
<1> USE DEF Inv
<1>1. \A m \in Message : pc'[m] \in {"queued", "settled"}
  BY DEF Crash, InFlight
<1>2. TypeOK'
  <2>1. pc' \in [Message -> Labels]
    BY DEF Crash, TypeOK, Labels
  <2>2. crashes' \in 0..MaxCrashes
    BY SettingsAssumption DEF Crash, TypeOK
  <2> QED
    BY <2>1, <2>2 DEF Crash, TypeOK, store
<1>3. LabelInv'
  BY <1>1 DEF LabelInv
<1>4. LocalInv'
  BY <1>1 DEF LocalInv, Crash
<1>5. AllocationInv'
  BY <1>1 DEF AllocationInv
<1> QED
  BY <1>2, <1>3, <1>4, <1>5 DEF HandlerInv
-----------------------------------------------------------------------------
(* The invariant of every behaviour.                                       *)

LEMMA InitInv ==
  ASSUME Init
  PROVE  Inv
<1>1. TypeOK
  <2>1. changelog \subseteq ChangelogEntry /\ seq \in Nat
    BY DEF Init
  <2>2. /\ blockSubscribers \in [Block -> SUBSET User]
        /\ userBlocks \in [User -> SUBSET Block]
        /\ subVersion \in [User -> Nat]
        /\ blockData \in [Block -> Nat]
    BY DEF Init
  <2>3. sandbox \in [Block -> SandboxInfo]
    BY InitialAssumption DEF Init
  <2>4. /\ pc \in [Message -> Labels]
        /\ todo \in [Message -> SUBSET Block]
        /\ chunk \in [Message -> SUBSET Block]
        /\ seen \in [Message -> SUBSET (User \X Block)]
        /\ seqEnd \in [Message -> Nat]
        /\ handed \in [Message -> SUBSET (User \X Block)]
    BY DEF Init, Labels
  <2>5. failures \in 0..MaxFailures /\ crashes \in 0..MaxCrashes
    BY SettingsAssumption DEF Init
  <2> QED
    BY <2>1, <2>2, <2>3, <2>4, <2>5 DEF TypeOK
<1>2. HandlerInv
  BY DEF Init, HandlerInv, LabelInv, LocalInv, AllocationInv
<1> QED
  BY <1>1, <1>2 DEF Inv

LEMMA NextInv ==
  ASSUME Inv, [Next]_vars
  PROVE  Inv'
<1>1. CASE \E m \in Message : Step(m)
  BY <1>1, DeliverStep, AckStep, SaveStep, IncrStep, AppendStep, CacheSandboxStep,
     ReadSubscribersStep, LookupStep, SendToUserStep, WriteIndexesStep, BumpVersionsStep,
     NotifyStep, ReadMembersStep, DeleteBlocksStep DEF Step
<1>2. CASE \E m \in Message : CommandLost(m) \/ LookupFails(m)
  BY <1>2, CommandLostStep, LookupFailsStep
<1>3. CASE \E b \in Block : ExpireSandbox(b)
  BY <1>3, ExpireSandboxStep
<1>4. CASE Crash
  BY <1>4, CrashStep
<1>5. CASE UNCHANGED vars
  <2>1. UNCHANGED <<blockSubscribers, userBlocks, subVersion, seq, changelog, blockData,
                    sandbox, pc, todo, chunk, seen, seqEnd, handed, failures, crashes>>
    BY <1>5 DEF vars, store, handler
  <2>2. TypeOK'
    BY <2>1 DEF Inv, TypeOK
  <2>3. LabelInv' /\ LocalInv'
    BY <2>1 DEF Inv, HandlerInv, LabelInv, LocalInv, LabelsOf
  <2>4. AllocationInv'
    BY <2>1 DEF Inv, HandlerInv, AllocationInv, Events
  <2> QED
    BY <2>2, <2>3, <2>4 DEF Inv, HandlerInv
<1> QED
  BY <1>1, <1>2, <1>3, <1>4, <1>5 DEF Next, Idle

\* Every variable keeps its type, whatever the users, blocks, messages and
\* settings, and however handlers interleave, fail and are redelivered.
THEOREM TypeCorrect == Spec => []TypeOK
<1>1. Init => Inv
  BY InitInv
<1>2. Inv /\ [Next]_vars => Inv'
  BY NextInv
<1>3. Inv => TypeOK
  BY DEF Inv
<1> QED
  BY <1>1, <1>2, <1>3, PTL DEF Spec

-----------------------------------------------------------------------------
(* The two subscription indexes.                                           *)

\* Only the access handlers' transaction and the deletion's write the indexes.
LEMMA IndexWriters ==
  ASSUME [Next]_vars
  PROVE  \/ \E m \in Message : WriteIndexes(m) \/ DeleteBlocks(m)
         \/ UNCHANGED <<blockSubscribers, userBlocks>>
<1>1. ASSUME NEW m \in Message, Step(m), ~WriteIndexes(m), ~DeleteBlocks(m)
      PROVE  UNCHANGED <<blockSubscribers, userBlocks>>
  BY <1>1 DEF Step, Deliver, Ack, Save, Incr, AppendEntries, CacheSandbox, ReadSubscribers,
     Lookup, SendToUser, BumpVersions, Notify, ReadMembers, store
<1>2. ASSUME NEW m \in Message, CommandLost(m) \/ LookupFails(m)
      PROVE  UNCHANGED <<blockSubscribers, userBlocks>>
  BY <1>2 DEF CommandLost, LookupFails, store
<1>3. ASSUME NEW b \in Block, ExpireSandbox(b)
      PROVE  UNCHANGED <<blockSubscribers, userBlocks>>
  BY <1>3 DEF ExpireSandbox
<1>4. Crash \/ UNCHANGED vars => UNCHANGED <<blockSubscribers, userBlocks>>
  BY DEF Crash, vars, store
<1> QED
  BY <1>1, <1>2, <1>3, <1>4 DEF Next, Idle

\* A grant or a revocation writes both indexes for the same user and blocks.
LEMMA WriteIndexesAgree ==
  ASSUME Inv, PushTargetsCanPull, NEW m \in Message, WriteIndexes(m)
  PROVE  PushTargetsCanPull'
<1>1. PICK blocks :
        blockSubscribers' = PushIndex(m, blocks) /\ userBlocks' = PullIndex(m, blocks)
  BY DEF WriteIndexes
<1>2. m.user \in User
  BY MessageAssumption DEF WriteIndexes, Inv, HandlerInv, LabelInv, LabelsOf, UpdateActions
<1> SUFFICES ASSUME NEW b \in Block, NEW u \in blockSubscribers'[b]
             PROVE  b \in userBlocks'[u]
  BY DEF PushTargetsCanPull
<1>3. userBlocks' \in [User -> SUBSET Block] /\ blockSubscribers' \in [Block -> SUBSET User]
  BY WriteIndexesStep DEF Inv, TypeOK
<1>4. u \in User
  BY <1>3
<1>5. CASE u = m.user /\ b \in blocks
  <2>1. ~Denies(m)
    BY <1>1, <1>5 DEF PushIndex
  <2> QED
    BY <1>1, <1>2, <1>5, <2>1 DEF PullIndex, Inv, TypeOK
<1>6. CASE u # m.user \/ b \notin blocks
  <2>1. u \in blockSubscribers[b]
    BY <1>1, <1>6 DEF PushIndex
  <2>2. b \in userBlocks[u]
    BY <2>1 DEF PushTargetsCanPull
  <2> QED
    BY <1>1, <1>4, <1>6, <2>2 DEF PullIndex, Inv, TypeOK
<1> QED
  BY <1>5, <1>6

\* A deletion empties the push index of every block whose readers it removes.
LEMMA DeleteBlocksAgree ==
  ASSUME Inv, PushTargetsCanPull, NEW m \in Message, DeleteBlocks(m)
  PROVE  PushTargetsCanPull'
<1>1. seen[m] \subseteq User \X chunk[m]
  BY DEF DeleteBlocks, Inv, HandlerInv, LocalInv
<1> SUFFICES ASSUME NEW b \in Block, NEW u \in blockSubscribers'[b]
             PROVE  b \in userBlocks'[u]
  BY DEF PushTargetsCanPull
<1>2. b \notin chunk[m] /\ u \in blockSubscribers[b]
  BY DEF DeleteBlocks, Cleared
<1>3. u \in User /\ b \in userBlocks[u]
  BY <1>2 DEF PushTargetsCanPull, Inv, TypeOK
<1>4. <<u, b>> \notin seen[m]
  BY <1>1, <1>2
<1> QED
  BY <1>3, <1>4 DEF DeleteBlocks

\* Whoever is notified of a block's updates can pull them: for any messages in
\* any number, in any interleaving, with commands lost, replies lost and the
\* consumer restarted.
THEOREM PushersCanPull == Spec => []PushTargetsCanPull
<1>1. Init => Inv /\ PushTargetsCanPull
  BY InitInv DEF Init, PushTargetsCanPull
<1>2. Inv /\ PushTargetsCanPull /\ [Next]_vars => (Inv /\ PushTargetsCanPull)'
  <2> SUFFICES ASSUME Inv, PushTargetsCanPull, [Next]_vars
               PROVE  Inv' /\ PushTargetsCanPull'
    OBVIOUS
  <2>1. Inv'
    BY NextInv
  <2>2. CASE \E m \in Message : WriteIndexes(m) \/ DeleteBlocks(m)
    BY <2>1, <2>2, WriteIndexesAgree, DeleteBlocksAgree
  <2>3. CASE UNCHANGED <<blockSubscribers, userBlocks>>
    BY <2>1, <2>3 DEF PushTargetsCanPull
  <2> QED
    BY <2>2, <2>3, IndexWriters
<1> QED
  BY <1>1, <1>2, PTL DEF Spec
\* A handler's step leaves the place and the locals of every other alone.
LEMMA OthersStay ==
  ASSUME Inv, NEW m \in Message, Step(m) \/ CommandLost(m) \/ LookupFails(m),
         NEW n \in Message, n # m
  PROVE  UNCHANGED <<pc[n], todo[n], seen[n], chunk[n], seqEnd[n]>>
<1>1. /\ pc \in [Message -> Labels]
      /\ todo \in [Message -> SUBSET Block]
      /\ seen \in [Message -> SUBSET (User \X Block)]
      /\ chunk \in [Message -> SUBSET Block]
      /\ seqEnd \in [Message -> Nat]
  BY DEF Inv, TypeOK
<1>2. CASE CommandLost(m) \/ LookupFails(m)
  BY <1>1, <1>2 DEF CommandLost, LookupFails, Goto
<1>3. CASE Deliver(m) \/ Ack(m) \/ CacheSandbox(m) \/ Notify(m) \/ SendToUser(m)
  BY <1>1, <1>3 DEF Deliver, Ack, CacheSandbox, Notify, SendToUser, Goto
<1>4. CASE ReadSubscribers(m) \/ Lookup(m)
  BY <1>1, <1>4 DEF ReadSubscribers, Lookup, Dispatch, Goto
<1>5. CASE Save(m) \/ Incr(m) \/ AppendEntries(m) \/ WriteIndexes(m) \/ BumpVersions(m)
  BY <1>1, <1>5 DEF Save, Incr, AppendEntries, WriteIndexes, BumpVersions, Replied, Goto
<1>6. CASE ReadMembers(m) \/ DeleteBlocks(m)
  BY <1>1, <1>6 DEF ReadMembers, DeleteBlocks, Replied, Goto
<1> QED
  BY <1>2, <1>3, <1>4, <1>5, <1>6 DEF Step

-----------------------------------------------------------------------------
(* Sets of numbers: every nonempty one has a least member and every        *)
(* bounded one a greatest, since < is well founded.                        *)

LEMMA HasLeast ==
  ASSUME NEW S, S \subseteq Nat, S # {}
  PROVE  \E n \in S : \A k \in S : n <= k
<1> DEFINE R == OpToRel(<, Nat)
<1>1. IsWellFoundedOn(R, Nat)
  BY NatLessThanWellFounded
<1>2. \A x, y \in Nat : <<x, y>> \in R <=> x < y
  BY DEF OpToRel
<1> HIDE DEF R
<1>3. PICK n \in S : \A k \in S : <<k, n>> \notin R
  BY <1>1, WFMin
<1>4. \A k \in S : k \in Nat /\ n \in Nat /\ ~(k < n)
  BY <1>2, <1>3
<1>5. \A k \in S : n <= k
  BY <1>4
<1> QED
  BY <1>5

LEMMA HasGreatest ==
  ASSUME NEW S, NEW top \in Nat, S \subseteq 0..top, S # {}
  PROVE  \E n \in S : \A k \in S : k <= n
<1> DEFINE T == {top - n : n \in S}
<1>1. T \subseteq Nat
  BY \A n \in 0..top : top - n \in Nat
<1>2. T # {}
  OBVIOUS
<1>3. \A k \in S : top - k \in T
  OBVIOUS
<1>4. PICK t \in T : \A s \in T : t <= s
  <2> HIDE DEF T
  <2> QED
    BY <1>1, <1>2, HasLeast
<1>5. PICK n \in S : t = top - n
  OBVIOUS
<1> HIDE DEF T
<1>6. \A k \in S : top - n <= top - k
  BY <1>3, <1>4, <1>5
<1>7. \A k \in S : k \in 0..top /\ n \in 0..top
  OBVIOUS
<1> QED
  BY <1>6, <1>7

-----------------------------------------------------------------------------
(* The changelog's sequence numbers.                                       *)

\* Only INCRBY leads a handler to the step that adds its entries.
LEMMA OnlyIncrAllocates ==
  ASSUME NEW m \in Message
  PROVE  /\ FirstStep(m) # "append"
         /\ EnterAppend(m) # "append"
         /\ AfterAppend(m) # "append"
         /\ EnterBump(m) # "append"
         /\ AfterBump(m) # "append"
         /\ OnError(m) # "append"
<1>1. AfterBump(m) # "append"
  BY DEF AfterBump
<1>2. EnterBump(m) # "append"
  BY <1>1 DEF EnterBump
<1>3. AfterAppend(m) # "append"
  BY <1>2 DEF AfterAppend
<1>4. EnterAppend(m) # "append"
  BY <1>3 DEF EnterAppend
<1>5. FirstStep(m) # "append"
  BY <1>2 DEF FirstStep
<1>6. OnError(m) # "append"
  BY <1>1, <1>3 DEF OnError
<1> QED
  BY <1>1, <1>2, <1>3, <1>4, <1>5, <1>6

\* What a step that takes no numbers and adds no entries leaves alone.
NumbersKept == /\ UNCHANGED <<seq, changelog>>
               /\ \A n \in Message : pc'[n] = "append" =>
                    pc[n] = "append" /\ seqEnd'[n] = seqEnd[n] /\ chunk'[n] = chunk[n]

LEMMA NumberWriters ==
  ASSUME Inv, [Next]_vars
  PROVE  (\E m \in Message : Incr(m) \/ AppendEntries(m)) \/ NumbersKept
<1>1. pc \in [Message -> Labels] /\ seqEnd \in [Message -> Nat] /\ chunk \in [Message -> SUBSET Block]
  BY DEF Inv, TypeOK
<1>2. ASSUME NEW m \in Message, NEW label, label # "append", Goto(m, label),
             UNCHANGED <<seq, changelog, seqEnd>>,
             \A n \in Message \ {m} : chunk'[n] = chunk[n]
      PROVE  NumbersKept
  BY <1>1, <1>2 DEF Goto, NumbersKept
<1>3. ASSUME NEW m \in Message, NEW label, label # "append", Replied(m, label),
             UNCHANGED <<seq, changelog, seqEnd>>,
             \A n \in Message \ {m} : chunk'[n] = chunk[n]
      PROVE  NumbersKept
  BY <1>2, <1>3, OnlyIncrAllocates DEF Replied
<1>4. ASSUME NEW m \in Message, Save(m) \/ WriteIndexes(m) \/ BumpVersions(m) \/ DeleteBlocks(m)
      PROVE  NumbersKept
  <2>1. CASE Save(m)
    BY <2>1, <1>3, OnlyIncrAllocates DEF Save
  <2>2. CASE WriteIndexes(m)
    <3>1. \A n \in Message \ {m} : chunk'[n] = chunk[n]
      BY <1>1, <2>2 DEF WriteIndexes
    <3>2. \E label : label # "append" /\ Replied(m, label)
      BY <2>2, OnlyIncrAllocates DEF WriteIndexes
    <3> QED
      BY <2>2, <3>1, <3>2, <1>3 DEF WriteIndexes
  <2>3. CASE BumpVersions(m)
    BY <2>3, <1>3, OnlyIncrAllocates DEF BumpVersions
  <2>4. CASE DeleteBlocks(m)
    BY <2>4, <1>3, OnlyIncrAllocates DEF DeleteBlocks
  <2> QED
    BY <1>4, <2>1, <2>2, <2>3, <2>4
<1>5. ASSUME NEW m \in Message,
             \/ Deliver(m) \/ CommandLost(m) \/ LookupFails(m) \/ CacheSandbox(m)
             \/ ReadSubscribers(m) \/ Lookup(m) \/ SendToUser(m) \/ Notify(m)
      PROVE  NumbersKept
  <2>1. PICK label : label # "append" /\ Goto(m, label)
    BY <1>5, OnlyIncrAllocates
       DEF Deliver, CommandLost, LookupFails, CacheSandbox, ReadSubscribers, Lookup, Dispatch,
           SendToUser, Notify
  <2>2. UNCHANGED <<seq, changelog, seqEnd>> /\ \A n \in Message \ {m} : chunk'[n] = chunk[n]
    BY <1>1, <1>5 DEF Deliver, CommandLost, LookupFails, CacheSandbox, ReadSubscribers, Lookup,
                SendToUser, Notify, store
  <2> QED
    BY <1>2, <2>1, <2>2
<1>6. ASSUME NEW m \in Message, Ack(m) \/ ReadMembers(m)
      PROVE  NumbersKept
  BY <1>1, <1>6 DEF Ack, ReadMembers, Goto, NumbersKept, store
<1>7. ASSUME NEW b \in Block, ExpireSandbox(b)
      PROVE  NumbersKept
  BY <1>7 DEF ExpireSandbox, handler, NumbersKept
<1>8. Crash => NumbersKept
  BY DEF Crash, InFlight, NumbersKept, store
<1>9. UNCHANGED vars => NumbersKept
  BY DEF vars, store, handler, NumbersKept
<1> QED
  BY <1>4, <1>5, <1>6, <1>7, <1>8, <1>9 DEF Next, Step, Idle

\* What a handler holds was counted, so it lies within the numbers given out.
LEMMA AllocatedCounted ==
  ASSUME Inv, NEW m \in Message, pc[m] = "append"
  PROVE  AllocatedTo(m) \subseteq 1..seq
<1>1. Cardinality(Events(m)) \in Nat
  BY EventsFinite DEF Inv
<1>2. seqEnd[m] \in Cardinality(Events(m))..seq /\ seq \in Nat /\ seqEnd[m] \in Nat
  BY DEF Inv, TypeOK, HandlerInv, AllocationInv
<1> QED
  BY <1>1, <1>2 DEF AllocatedTo

NumbersInv == SeqsUnique /\ AllocationsDisjoint

LEMMA NumbersKeptStep ==
  ASSUME NumbersInv, NumbersKept
  PROVE  NumbersInv'
<1>1. SeqsUnique'
  BY DEF NumbersInv, NumbersKept, SeqsUnique
<1>2. \A n \in Message : pc'[n] = "append" => AllocatedTo(n)' = AllocatedTo(n)
  BY DEF NumbersKept, AllocatedTo, Events
<1>3. AllocationsDisjoint'
  BY <1>2 DEF NumbersInv, NumbersKept, AllocationsDisjoint
<1> QED
  BY <1>1, <1>3 DEF NumbersInv

\* INCRBY gives out numbers above every number given out before.
LEMMA IncrNumbers ==
  ASSUME Inv, NumbersInv, NEW m \in Message, Incr(m)
  PROVE  NumbersInv'
<1> DEFINE k == Cardinality(Events(m))
<1>1. k \in Nat /\ seq \in Nat /\ seqEnd \in [Message -> Nat] /\ pc \in [Message -> Labels]
  BY EventsFinite DEF Inv, TypeOK
<1>2. seq' = seq + k /\ seqEnd' = [seqEnd EXCEPT ![m] = seq + k]
  BY DEF Incr, Allocation
<1>3. changelog' = changelog /\ chunk' = chunk /\ \A n \in Message \ {m} : pc'[n] = pc[n]
  BY <1>1 DEF Incr, Replied, Goto
<1> HIDE DEF k
<1>4. SeqsUnique'
  BY <1>1, <1>2, <1>3 DEF NumbersInv, SeqsUnique
<1>5. \A n \in Message \ {m} : AllocatedTo(n)' = AllocatedTo(n)
  BY <1>1, <1>2, <1>3 DEF AllocatedTo, Events
<1>6. AllocatedTo(m)' = (seq + 1)..(seq + k)
  <2>1. Events(m)' = Events(m)
    BY <1>3 DEF Events
  <2>2. seqEnd'[m] = seq + k
    BY <1>1, <1>2
  <2>3. AllocatedTo(m)' = (seqEnd'[m] - Cardinality(Events(m)') + 1)..seqEnd'[m]
    BY DEF AllocatedTo
  <2>4. Cardinality(Events(m)') = k
    BY <2>1 DEF k
  <2> QED
    BY <1>1, <2>2, <2>3, <2>4
<1>7. \A e \in changelog : e.seq \in 1..seq
  BY DEF NumbersInv, SeqsUnique
<1>8. \A n \in Message \ {m} : pc'[n] = "append" => AllocatedTo(n)' \subseteq 1..seq
  BY <1>3, <1>5, AllocatedCounted
<1>9. AllocationsDisjoint'
  <2> SUFFICES ASSUME NEW n \in Message, pc'[n] = "append"
               PROVE  /\ \A e \in changelog' : e.seq \notin AllocatedTo(n)'
                      /\ \A l \in Message \ {n} : pc'[l] = "append" =>
                           AllocatedTo(n)' \intersect AllocatedTo(l)' = {}
    BY DEF AllocationsDisjoint
  <2>1. CASE n = m
    BY <1>1, <1>3, <1>6, <1>7, <1>8, <2>1
  <2>2. CASE n # m
    <3>1. pc[n] = "append" /\ AllocatedTo(n)' = AllocatedTo(n)
      BY <1>3, <1>5, <2>2
    <3>2. \A e \in changelog' : e.seq \notin AllocatedTo(n)'
      BY <1>3, <3>1 DEF NumbersInv, AllocationsDisjoint
    <3>3. AllocatedTo(n)' \intersect AllocatedTo(m)' = {}
      BY <1>1, <1>6, <1>8, <2>2
    <3>4. \A l \in Message \ {n, m} : pc'[l] = "append" =>
            AllocatedTo(n)' \intersect AllocatedTo(l)' = {}
      BY <1>3, <1>5, <3>1 DEF NumbersInv, AllocationsDisjoint
    <3> QED
      BY <3>2, <3>3, <3>4
  <2> QED
    BY <2>1, <2>2
<1> QED
  BY <1>4, <1>9 DEF NumbersInv

\* A handler adds its entries under its own numbers, one for each.
LEMMA AppendNumbers ==
  ASSUME Inv, NumbersInv, NEW m \in Message, AppendEntries(m)
  PROVE  NumbersInv'
<1>1. pc[m] = "append" /\ UNCHANGED <<seq, seqEnd, chunk>>
  BY DEF AppendEntries
<1>2. PICK number \in Injection(Events(m), AllocatedTo(m)) :
        changelog' = Trimmed(changelog \union NewEntries(m, number))
  BY DEF AppendEntries
<1>3. changelog' \subseteq changelog \union NewEntries(m, number)
  BY <1>2, TrimSubset
<1>4. \A e \in NewEntries(m, number) : e.seq \in AllocatedTo(m)
  BY <1>2 DEF Injection, NewEntries
<1>5. \A e, f \in NewEntries(m, number) : e.seq = f.seq => e = f
  BY <1>2 DEF Injection, IsInjective, NewEntries
<1>6. SeqsUnique'
  <2>1. \A e \in changelog' : e.seq \in 1..seq
    BY <1>1, <1>3, <1>4, AllocatedCounted DEF NumbersInv, SeqsUnique
  <2>2. \A e \in changelog : e.seq \notin AllocatedTo(m)
    BY <1>1 DEF NumbersInv, AllocationsDisjoint
  <2>3. \A e, f \in changelog' : e.seq = f.seq => e = f
    BY <1>3, <1>4, <1>5, <2>2 DEF NumbersInv, SeqsUnique
  <2> QED
    BY <1>1, <2>1, <2>3 DEF SeqsUnique
<1>7. \A n \in Message : pc'[n] = "append" => n # m /\ pc[n] = "append"
  BY OnlyIncrAllocates DEF AppendEntries, Replied, Goto, Inv, TypeOK
<1>8. \A n \in Message : AllocatedTo(n)' = AllocatedTo(n)
  BY <1>1 DEF AllocatedTo, Events
<1>9. AllocationsDisjoint'
  <2> SUFFICES ASSUME NEW n \in Message, pc'[n] = "append"
               PROVE  /\ \A e \in changelog' : e.seq \notin AllocatedTo(n)
                      /\ \A l \in Message \ {n} : pc'[l] = "append" =>
                           AllocatedTo(n) \intersect AllocatedTo(l) = {}
    BY <1>8 DEF AllocationsDisjoint
  <2>1. n # m /\ pc[n] = "append"
    BY <1>7
  <2>2. AllocatedTo(n) \intersect AllocatedTo(m) = {}
    BY <1>1, <2>1 DEF NumbersInv, AllocationsDisjoint
  <2>3. \A e \in changelog' : e.seq \notin AllocatedTo(n)
    BY <1>3, <1>4, <2>1, <2>2 DEF NumbersInv, AllocationsDisjoint
  <2> QED
    BY <1>7, <2>1, <2>3 DEF NumbersInv, AllocationsDisjoint
<1> QED
  BY <1>6, <1>9 DEF NumbersInv

\* With a number of its own for each, below the counter, entries are finitely many.
LEMMA EntriesFinite ==
  ASSUME NEW log, NEW top \in Nat,
         \A e \in log : e.seq \in 1..top,
         \A e, f \in log : e.seq = f.seq => e = f
  PROVE  IsFiniteSet(log)
<1> DEFINE number == [e \in log |-> e.seq]
<1>1. number \in Injection(log, 1..top)
  BY DEF Injection, IsInjective
<1>2. IsFiniteSet(1..top)
  BY FS_Interval
<1> QED
  BY <1>1, <1>2, FS_Injection

LEMMA NumbersInvariant == Spec => [](Inv /\ NumbersInv)
<1>1. Init => Inv /\ NumbersInv
  BY InitInv DEF Init, NumbersInv, SeqsUnique, AllocationsDisjoint
<1>2. Inv /\ NumbersInv /\ [Next]_vars => (Inv /\ NumbersInv)'
  <2> SUFFICES ASSUME Inv, NumbersInv, [Next]_vars
               PROVE  Inv' /\ NumbersInv'
    OBVIOUS
  <2>1. Inv'
    BY NextInv
  <2>2. NumbersInv'
    BY NumberWriters, IncrNumbers, AppendNumbers, NumbersKeptStep
  <2> QED
    BY <2>1, <2>2
<1> QED
  BY <1>1, <1>2, PTL DEF Spec

\* No two changelog entries ever carry one sequence number, and none above the
\* counter: the numbers two handlers hold between their two round trips are
\* never the same, whatever is lost or restarted.
THEOREM NumbersUnique == Spec => []SeqsUnique
<1>1. Inv /\ NumbersInv => SeqsUnique
  BY DEF NumbersInv
<1> QED
  BY <1>1, NumbersInvariant, PTL

\* The numbers a handler has taken and not used are in no entry and in no
\* other handler's hands.
THEOREM AllocationsApart == Spec => []AllocationsDisjoint
<1>1. Inv /\ NumbersInv => AllocationsDisjoint
  BY DEF NumbersInv
<1> QED
  BY <1>1, NumbersInvariant, PTL
-----------------------------------------------------------------------------
(* What the changelog retains.                                             *)

Above(log, n) == {f \in log : f.seq > n}

\* A log of entries with a number of their own each, below a counter.
Numbered(log, top) ==
  /\ \A e \in log : e.seq \in 1..top
  /\ \A e, f \in log : e.seq = f.seq => e = f

LEMMA AboveFinite ==
  ASSUME NEW log, NEW top \in Nat, Numbered(log, top), NEW n
  PROVE  /\ IsFiniteSet(Above(log, n))
         /\ Cardinality(Above(log, n)) \in Nat
<1>1. IsFiniteSet(log)
  BY EntriesFinite DEF Numbered
<1>2. Above(log, n) \subseteq log
  BY DEF Above
<1>3. IsFiniteSet(Above(log, n))
  BY <1>1, <1>2, FS_Subset
<1> QED
  BY <1>3, FS_CardinalityType

\* A trim leaves no entry with CHANGELOG_MAX_LEN or more above it.
LEMMA TrimBounds ==
  ASSUME NEW log, NEW top \in Nat, Numbered(log, top), ChangelogMaxLen # 0
  PROVE  \A e \in Trimmed(log) : Cardinality(Above(Trimmed(log), e.seq)) < ChangelogMaxLen
<1> SUFFICES ASSUME NEW e \in Trimmed(log)
             PROVE  Cardinality(Above(Trimmed(log), e.seq)) < ChangelogMaxLen
  OBVIOUS
<1>1. Cardinality(Above(log, e.seq)) < ChangelogMaxLen
  BY DEF Trimmed, Above
<1>2. IsFiniteSet(Above(log, e.seq)) /\ Cardinality(Above(log, e.seq)) \in Nat
  BY AboveFinite
<1>3. Above(Trimmed(log), e.seq) \subseteq Above(log, e.seq)
  BY TrimSubset DEF Above
<1>4. /\ IsFiniteSet(Above(Trimmed(log), e.seq))
      /\ Cardinality(Above(Trimmed(log), e.seq)) <= Cardinality(Above(log, e.seq))
  BY <1>2, <1>3, FS_Subset
<1>5. Cardinality(Above(Trimmed(log), e.seq)) \in Nat
  BY <1>4, FS_CardinalityType
<1> QED
  BY <1>1, <1>2, <1>4, <1>5, SettingsAssumption

\* A trim leaves CHANGELOG_MAX_LEN entries above a number that had as many.
LEMMA TrimKeepsAbove ==
  ASSUME NEW log, NEW top \in Nat, Numbered(log, top), ChangelogMaxLen # 0, NEW n \in Nat,
         Cardinality(Above(log, n)) >= ChangelogMaxLen
  PROVE  Cardinality(Above(Trimmed(log), n)) >= ChangelogMaxLen
<1> DEFINE A == Above(log, n)
           B == Above(Trimmed(log), n)
<1>1. B \subseteq A
  BY TrimSubset DEF Above
<1>2. IsFiniteSet(A) /\ Cardinality(A) \in Nat
  BY AboveFinite
<1>3. IsFiniteSet(B) /\ Cardinality(B) \in Nat
  BY <1>1, <1>2, FS_Subset, FS_CardinalityType
<1>4. ChangelogMaxLen \in Nat
  BY SettingsAssumption
<1> SUFFICES ASSUME Cardinality(B) < ChangelogMaxLen
             PROVE  FALSE
  BY <1>3, <1>4
<1>5. A \ B # {}
  <2>1. A \ B = {} => A = B
    BY <1>1
  <2> QED
    BY <1>2, <1>3, <1>4, <2>1
<1> DEFINE S == {e.seq : e \in A \ B}
<1>6. S \subseteq 0..top /\ S # {}
  BY <1>5 DEF Above, Numbered
<1>7. PICK g \in S : \A k \in S : k <= g
  <2> HIDE DEF S
  <2> QED
    BY <1>6, HasGreatest
<1>8. PICK e \in A \ B : e.seq = g
  OBVIOUS
<1>9. e \in log /\ e.seq > n /\ e.seq \in Nat
  BY <1>8 DEF Above, Numbered
<1>10. Above(log, e.seq) \subseteq B
  <2> SUFFICES ASSUME NEW f \in log, f.seq > e.seq
               PROVE  f \in B
    BY DEF Above
  <2>1. f.seq \in Nat /\ f \in A
    BY <1>9 DEF Above, Numbered
  <2>2. f \in A \ B => f.seq <= e.seq
    BY <1>7, <1>8
  <2> QED
    BY <1>9, <2>1, <2>2
<1>11. Cardinality(Above(log, e.seq)) <= Cardinality(B)
  BY <1>3, <1>10, FS_Subset
<1>12. Cardinality(Above(log, e.seq)) \in Nat
  BY AboveFinite
<1>13. Cardinality(Above(log, e.seq)) < ChangelogMaxLen
  BY <1>3, <1>4, <1>11, <1>12
<1>14. e \in Trimmed(log)
  BY <1>9, <1>13 DEF Trimmed, Above
<1>15. e \in B
  BY <1>9, <1>14 DEF Above
<1> QED
  BY <1>8, <1>15

\* A number whose entry is in the log, or has been outrun before the trim, is
\* in the log or outrun after it.
InLog(log, n)  == \E e \in log : e.seq = n
Outrun(log, n) == ChangelogMaxLen # 0 /\ Cardinality(Above(log, n)) >= ChangelogMaxLen

LEMMA TrimAccounts ==
  ASSUME NEW log, NEW top \in Nat, Numbered(log, top), NEW n \in Nat,
         InLog(log, n) \/ Outrun(log, n)
  PROVE  InLog(Trimmed(log), n) \/ Outrun(Trimmed(log), n)
<1>1. CASE Outrun(log, n)
  BY <1>1, TrimKeepsAbove DEF Outrun
<1>2. CASE InLog(log, n) /\ ChangelogMaxLen = 0
  BY <1>2 DEF Trimmed
<1>3. CASE InLog(log, n) /\ ChangelogMaxLen # 0
  <2>1. PICK e \in log : e.seq = n
    BY <1>3 DEF InLog
  <2>2. CASE e \in Trimmed(log)
    BY <2>1, <2>2 DEF InLog
  <2>3. CASE e \notin Trimmed(log)
    <3>1. ~(Cardinality(Above(log, n)) < ChangelogMaxLen)
      BY <1>3, <2>1, <2>3 DEF Trimmed, Above
    <3>2. Cardinality(Above(log, n)) \in Nat /\ ChangelogMaxLen \in Nat
      BY AboveFinite, SettingsAssumption
    <3> QED
      BY <1>3, <3>1, <3>2, TrimKeepsAbove DEF Outrun
  <2> QED
    BY <2>2, <2>3
<1> QED
  BY <1>1, <1>2, <1>3

\* More entries leave a number at least as many above it.
LEMMA MoreAbove ==
  ASSUME NEW log, NEW more, log \subseteq more, NEW top \in Nat, Numbered(more, top),
         NEW n, InLog(log, n) \/ Outrun(log, n)
  PROVE  InLog(more, n) \/ Outrun(more, n)
<1>1. CASE InLog(log, n)
  BY <1>1 DEF InLog
<1>2. CASE Outrun(log, n)
  <2>1. IsFiniteSet(Above(more, n)) /\ Cardinality(Above(more, n)) \in Nat
    BY AboveFinite
  <2>2. Above(log, n) \subseteq Above(more, n)
    BY DEF Above
  <2>3. /\ IsFiniteSet(Above(log, n))
        /\ Cardinality(Above(log, n)) <= Cardinality(Above(more, n))
    BY <2>1, <2>2, FS_Subset
  <2>4. Cardinality(Above(log, n)) \in Nat /\ ChangelogMaxLen \in Nat
    BY <2>3, FS_CardinalityType, SettingsAssumption
  <2> QED
    BY <1>2, <2>1, <2>3, <2>4 DEF Outrun
<1> QED
  BY <1>1, <1>2

\* Every entry is within the trim, and as long as nothing has failed every
\* number given out is in the log, about to be, or outrun.
Taken(n) == \E m \in Message : pc[m] = "append" /\ n \in AllocatedTo(m)

RetentionInv ==
  /\ ChangelogMaxLen # 0 =>
       \A e \in changelog : Cardinality(Above(changelog, e.seq)) < ChangelogMaxLen
  /\ failures = 0 /\ crashes = 0 =>
       \A n \in 1..seq : InLog(changelog, n) \/ Taken(n) \/ Outrun(changelog, n)

\* As long as nothing fails, a handler with numbers of its own keeps them until
\* it adds its entries.
LEMMA HolderStays ==
  ASSUME Inv, [Next]_vars, failures' = 0, crashes' = 0,
         NEW n \in Message, pc[n] = "append", ~AppendEntries(n)
  PROVE  pc'[n] = "append" /\ AllocatedTo(n)' = AllocatedTo(n)
<1> USE DEF AllocatedTo, Events
<1>1. failures \in Nat /\ crashes \in Nat
  BY SettingsAssumption DEF Inv, TypeOK
<1>2. ASSUME NEW m \in Message, Step(m) \/ CommandLost(m) \/ LookupFails(m), m # n
      PROVE  pc'[n] = "append" /\ AllocatedTo(n)' = AllocatedTo(n)
  BY <1>2, OthersStay
<1>3. ~Step(n)
  BY DEF Step, Deliver, Ack, Save, Incr, CacheSandbox, ReadSubscribers, Lookup, SendToUser,
     WriteIndexes, BumpVersions, Notify, ReadMembers, DeleteBlocks
<1>4. \A m \in Message : ~CommandLost(m) /\ ~LookupFails(m)
  BY <1>1 DEF CommandLost, LookupFails, Fail
<1>5. ~Crash
  BY <1>1 DEF Crash
<1>6. CASE \E b \in Block : ExpireSandbox(b)
  BY <1>6 DEF ExpireSandbox, handler
<1>7. CASE UNCHANGED vars
  BY <1>7 DEF vars, handler
<1> QED
  BY <1>2, <1>3, <1>4, <1>5, <1>6, <1>7 DEF Next, Idle

\* The two bounds never go down, so what has not failed after a step had not
\* before it.
LEMMA FailuresGrow ==
  ASSUME Inv, [Next]_vars
  PROVE  failures' = 0 /\ crashes' = 0 => failures = 0 /\ crashes = 0
<1>1. failures \in Nat /\ crashes \in Nat
  BY SettingsAssumption DEF Inv, TypeOK
<1>2. ASSUME NEW m \in Message, Step(m) \/ CommandLost(m) \/ LookupFails(m)
      PROVE  crashes' = crashes /\ (UNCHANGED failures \/ Fail)
  BY <1>2 DEF Step, Deliver, Ack, Save, Incr, AppendEntries, CacheSandbox, ReadSubscribers,
     Lookup, SendToUser, WriteIndexes, BumpVersions, Notify, ReadMembers, DeleteBlocks,
     CommandLost, LookupFails, Replied
<1>3. Crash => crashes' = crashes + 1
  BY DEF Crash
<1>4. (\E b \in Block : ExpireSandbox(b)) \/ UNCHANGED vars => UNCHANGED <<failures, crashes>>
  BY DEF ExpireSandbox, vars
<1> QED
  BY <1>1, <1>2, <1>3, <1>4 DEF Next, Idle, Fail

\* A handler that adds its entries uses every number it has.
LEMMA AllNumbersUsed ==
  ASSUME Inv, NEW m \in Message, pc[m] = "append",
         NEW number \in Injection(Events(m), AllocatedTo(m))
  PROVE  \A n \in AllocatedTo(m) : InLog(NewEntries(m, number), n)
<1> DEFINE k == Cardinality(Events(m))
<1>1. IsFiniteSet(Events(m)) /\ k \in Nat
  BY EventsFinite DEF Inv
<1>2. seqEnd[m] \in k..seq /\ seqEnd[m] \in Nat /\ seq \in Nat
  BY DEF Inv, TypeOK, HandlerInv, AllocationInv
<1> HIDE DEF k
<1>3. AllocatedTo(m) = (seqEnd[m] - k + 1)..seqEnd[m]
  BY DEF AllocatedTo, k
<1>4. PICK last \in Nat : last = seqEnd[m]
  BY <1>2
<1>5. PICK size \in Nat : size = k
  BY <1>1
<1>6. size <= last /\ last - size + 1 \in Int
  BY <1>2, <1>4, <1>5
<1>7. IsFiniteSet((last - size + 1)..last) /\ Cardinality((last - size + 1)..last) = size
  BY <1>6, FS_Interval
<1>8. IsFiniteSet(AllocatedTo(m)) /\ Cardinality(AllocatedTo(m)) = Cardinality(Events(m))
  BY <1>3, <1>4, <1>5, <1>7 DEF k
<1>9. number \in Surjection(Events(m), AllocatedTo(m))
  BY <1>8, FS_Injection
<1>10. ASSUME NEW n \in AllocatedTo(m)
       PROVE  InLog(NewEntries(m, number), n)
  <2>1. PICK b \in Events(m) : number[b] = n
    BY <1>9, <1>10 DEF Surjection
  <2>2. [seq |-> number[b], op |-> Op(m), block |-> b] \in NewEntries(m, number)
    BY DEF NewEntries
  <2> QED
    BY <2>1, <2>2 DEF InLog
<1> QED
  BY <1>10

\* With them the log still has a number of its own for every entry.
LEMMA AppendedNumbered ==
  ASSUME Inv, NumbersInv, NEW m \in Message, pc[m] = "append",
         NEW number \in Injection(Events(m), AllocatedTo(m))
  PROVE  Numbered(changelog \union NewEntries(m, number), seq)
<1>1. \A e \in NewEntries(m, number) : e.seq \in AllocatedTo(m)
  BY DEF Injection, NewEntries
<1>2. \A e, f \in NewEntries(m, number) : e.seq = f.seq => e = f
  BY DEF Injection, IsInjective, NewEntries
<1>3. \A e \in changelog : e.seq \notin AllocatedTo(m)
  BY DEF NumbersInv, AllocationsDisjoint
<1>4. AllocatedTo(m) \subseteq 1..seq
  BY AllocatedCounted
<1>5. Numbered(changelog, seq)
  BY DEF NumbersInv, SeqsUnique, Numbered
<1> QED
  BY <1>1, <1>2, <1>3, <1>4, <1>5 DEF Numbered

\* An outrun number stays outrun, and an entry that goes has been outrun.
LEMMA OutrunStays ==
  ASSUME Inv, NumbersInv, [Next]_vars
  PROVE  /\ \A n \in Nat : Outrun(changelog, n) => Outrun(changelog', n)
         /\ \A e \in changelog : e \in changelog' \/ Outrun(changelog', e.seq)
<1>1. seq \in Nat /\ Numbered(changelog, seq)
  BY DEF NumbersInv, SeqsUnique, Numbered, Inv, TypeOK
<1>2. CASE changelog' = changelog
  BY <1>2
<1>3. ASSUME NEW m \in Message, AppendEntries(m)
      PROVE  /\ \A n \in Nat : Outrun(changelog, n) => Outrun(changelog', n)
             /\ \A e \in changelog : e \in changelog' \/ Outrun(changelog', e.seq)
  <2>1. PICK number \in Injection(Events(m), AllocatedTo(m)) :
          changelog' = Trimmed(changelog \union NewEntries(m, number))
    BY <1>3 DEF AppendEntries
  <2> DEFINE log == changelog \union NewEntries(m, number)
  <2>2. Numbered(log, seq)
    BY <1>3, <2>1, AppendedNumbered DEF AppendEntries
  <2>3. ASSUME NEW n \in Nat, Outrun(changelog, n)
        PROVE  Outrun(changelog', n)
    <3>1. IsFiniteSet(Above(log, n)) /\ Cardinality(Above(log, n)) \in Nat
      BY <1>1, <2>2, AboveFinite
    <3>2. Above(changelog, n) \subseteq Above(log, n)
      BY DEF Above
    <3>3. Cardinality(Above(changelog, n)) <= Cardinality(Above(log, n))
      BY <3>1, <3>2, FS_Subset
    <3>4. Cardinality(Above(changelog, n)) \in Nat /\ ChangelogMaxLen \in Nat
      BY <1>1, AboveFinite, SettingsAssumption
    <3>5. Cardinality(Above(log, n)) >= ChangelogMaxLen
      BY <2>3, <3>1, <3>3, <3>4 DEF Outrun
    <3> QED
      BY <1>1, <2>1, <2>2, <2>3, <3>5, TrimKeepsAbove DEF Outrun
  <2>4. ASSUME NEW e \in changelog
        PROVE  e \in changelog' \/ Outrun(changelog', e.seq)
    <3>1. e \in log /\ e.seq \in Nat
      BY <1>1 DEF Numbered
    <3>2. InLog(Trimmed(log), e.seq) \/ Outrun(Trimmed(log), e.seq)
      BY <1>1, <2>2, <3>1, TrimAccounts DEF InLog
    <3>3. ASSUME NEW f \in Trimmed(log), f.seq = e.seq
          PROVE  f = e
      BY <2>2, <3>1, <3>3, TrimSubset DEF Numbered
    <3> QED
      BY <2>1, <3>2, <3>3 DEF InLog
  <2> QED
    BY <2>3, <2>4
<1> QED
  BY <1>2, <1>3, NumberWriters DEF NumbersKept, Incr

LEMMA RetentionStep ==
  ASSUME Inv, NumbersInv, RetentionInv, [Next]_vars
  PROVE  RetentionInv'
<1>1. Inv' /\ seq \in Nat /\ seq' \in Nat
  BY NextInv DEF Inv, TypeOK
<1>2. Numbered(changelog, seq)
  BY DEF NumbersInv, SeqsUnique, Numbered
<1>3. ASSUME failures' = 0, crashes' = 0
      PROVE  \A n \in 1..seq : InLog(changelog, n) \/ Taken(n) \/ Outrun(changelog, n)
  BY <1>3, FailuresGrow DEF RetentionInv
<1>4. ASSUME failures' = 0, crashes' = 0, \A m \in Message : ~AppendEntries(m),
             NEW n, Taken(n)
      PROVE  Taken(n)'
  BY <1>4, HolderStays DEF Taken
<1>5. CASE NumbersKept /\ \A m \in Message : ~AppendEntries(m)
  <2>1. changelog' = changelog /\ seq' = seq
    BY <1>5 DEF NumbersKept
  <2> QED
    BY <1>3, <1>4, <1>5, <2>1 DEF RetentionInv
<1>6. ASSUME NEW m \in Message, Incr(m), \A l \in Message : ~AppendEntries(l)
      PROVE  RetentionInv'
  <2>1. changelog' = changelog /\ seq' = seq + Allocation(m)
    BY <1>6 DEF Incr
  <2>2. ASSUME failures' = 0, crashes' = 0, NEW n \in 1..seq'
        PROVE  InLog(changelog, n) \/ Taken(n)' \/ Outrun(changelog, n)
    <3>1. CASE n \in 1..seq
      BY <1>3, <1>4, <1>6, <2>2, <3>1
    <3>2. CASE n \notin 1..seq
      <4>1. Cardinality(Events(m)) \in Nat /\ Allocation(m) = Cardinality(Events(m))
        BY EventsFinite DEF Inv, Allocation
      <4>2. pc'[m] = "append"
        <5>1. failures \in Nat
          BY SettingsAssumption DEF Inv, TypeOK
        <5>2. ~Fail
          BY <2>2, <5>1 DEF Fail
        <5> QED
          BY <1>6, <5>2 DEF Incr, Replied, Goto, Inv, TypeOK
      <4>3. seqEnd'[m] = seq' /\ Events(m)' = Events(m)
        BY <1>6, <2>1 DEF Incr, Inv, TypeOK, Events
      <4>4. n \in (seqEnd'[m] - Cardinality(Events(m)) + 1)..seqEnd'[m]
        BY <1>1, <2>1, <2>2, <3>2, <4>1, <4>3
      <4>5. n \in AllocatedTo(m)'
        BY <4>3, <4>4 DEF AllocatedTo
      <4> QED
        BY <4>2, <4>5 DEF Taken
    <3> QED
      BY <3>1, <3>2
  <2> QED
    BY <2>1, <2>2 DEF RetentionInv
<1>7. ASSUME NEW m \in Message, AppendEntries(m)
      PROVE  RetentionInv'
  <2>1. PICK number \in Injection(Events(m), AllocatedTo(m)) :
          changelog' = Trimmed(changelog \union NewEntries(m, number))
    BY <1>7 DEF AppendEntries
  <2> DEFINE log == changelog \union NewEntries(m, number)
  <2>2. pc[m] = "append" /\ seq' = seq
    BY <1>7 DEF AppendEntries
  <2>3. Numbered(log, seq)
    BY <2>1, <2>2, AppendedNumbered
  <2>4. ChangelogMaxLen # 0 =>
          \A e \in changelog' : Cardinality(Above(changelog', e.seq)) < ChangelogMaxLen
    BY <1>1, <2>1, <2>3, TrimBounds
  <2>5. ASSUME failures' = 0, crashes' = 0, NEW n \in 1..seq
        PROVE  InLog(changelog', n) \/ Taken(n)' \/ Outrun(changelog', n)
    <3>1. CASE InLog(changelog, n) \/ Outrun(changelog, n)
      <4>1. InLog(log, n) \/ Outrun(log, n)
        BY <1>1, <2>3, <3>1, MoreAbove
      <4> QED
        BY <1>1, <2>1, <2>3, <2>5, <4>1, TrimAccounts
    <3>2. CASE n \in AllocatedTo(m)
      <4>1. InLog(NewEntries(m, number), n)
        BY <2>2, <3>2, AllNumbersUsed
      <4>2. InLog(log, n)
        BY <4>1 DEF InLog
      <4> QED
        BY <1>1, <2>1, <2>3, <2>5, <4>2, TrimAccounts
    <3>3. ASSUME NEW l \in Message, pc[l] = "append", n \in AllocatedTo(l), l # m
          PROVE  Taken(n)'
      <4>1. pc'[l] = pc[l] /\ AllocatedTo(l)' = AllocatedTo(l)
        BY <1>7, <3>3, OthersStay DEF Step, AllocatedTo, Events
      <4> QED
        BY <3>3, <4>1 DEF Taken
    <3> QED
      BY <1>3, <2>5, <3>1, <3>2, <3>3 DEF Taken
  <2> QED
    BY <2>2, <2>4, <2>5 DEF RetentionInv, InLog, Outrun, Above
<1> QED
  BY <1>5, <1>6, <1>7, NumberWriters

\* With nothing in flight the entries are the newest numbers and no others.
LEMMA RetainedIsNewest ==
  ASSUME Inv, NumbersInv, RetentionInv
  PROVE  ChangelogIsNewest
<1> SUFFICES ASSUME failures = 0, crashes = 0, \A m \in Message : ~InFlight(m)
             PROVE  {e.seq : e \in changelog} =
                      {n \in 1..seq : ChangelogMaxLen = 0 \/ n > seq - ChangelogMaxLen}
  BY DEF ChangelogIsNewest
<1>1. seq \in Nat /\ ChangelogMaxLen \in Nat
  BY SettingsAssumption DEF Inv, TypeOK
<1>2. Numbered(changelog, seq)
  BY DEF NumbersInv, SeqsUnique, Numbered
<1>3. \A n \in 1..seq : InLog(changelog, n) \/ Outrun(changelog, n)
  BY DEF RetentionInv, Taken, InFlight
<1>4. ASSUME NEW n \in 1..seq, ChangelogMaxLen # 0, n > seq - ChangelogMaxLen
      PROVE  InLog(changelog, n)
  <2> DEFINE number == [f \in Above(changelog, n) |-> f.seq]
  <2>1. number \in Injection(Above(changelog, n), (n + 1)..seq)
    BY <1>2 DEF Injection, IsInjective, Above, Numbered
  <2>2. PICK top \in Nat : top = seq
    BY <1>1
  <2>3. IsFiniteSet((n + 1)..top) /\ Cardinality((n + 1)..top) = top - n
    BY <2>2, FS_Interval
  <2>4. Cardinality(Above(changelog, n)) <= top - n
    BY <2>1, <2>2, <2>3, FS_Injection
  <2>5. Cardinality(Above(changelog, n)) \in Nat
    BY <1>1, <1>2, AboveFinite
  <2>6. ~Outrun(changelog, n)
    BY <1>1, <1>4, <2>2, <2>4, <2>5 DEF Outrun
  <2> QED
    BY <1>3, <2>6
<1>5. ASSUME NEW e \in changelog, ChangelogMaxLen # 0
      PROVE  e.seq > seq - ChangelogMaxLen
  <2> SUFFICES ASSUME ~(e.seq > seq - ChangelogMaxLen)
               PROVE  FALSE
    OBVIOUS
  <2>1. e.seq \in 1..seq
    BY <1>2 DEF Numbered
  <2>2. PICK top \in Nat : top = seq
    BY <1>1
  <2>3. PICK n \in 1..top : n = e.seq
    BY <2>1, <2>2
  <2>4. n <= top - ChangelogMaxLen /\ top - ChangelogMaxLen + 1 \in Int
    BY <1>1, <2>2, <2>3
  <2> DEFINE newest == (top - ChangelogMaxLen + 1)..top
             entry == [i \in newest |-> CHOOSE f \in changelog : f.seq = i]
  <2>5. IsFiniteSet(newest) /\ Cardinality(newest) = ChangelogMaxLen
    BY <1>1, <1>5, <2>4, FS_Interval
  <2>6. \A i \in newest : i \in 1..seq /\ i > n
    BY <1>1, <2>2, <2>4
  <2>7. \A i \in newest : i > seq - ChangelogMaxLen
    BY <1>1, <2>2
  <2>8. \A i \in newest : entry[i] \in changelog /\ entry[i].seq = i
    BY <1>4, <1>5, <2>6, <2>7 DEF InLog
  <2>9. entry \in Injection(newest, Above(changelog, n))
    BY <2>6, <2>8 DEF Injection, IsInjective, Above
  <2>10. IsFiniteSet(Above(changelog, n)) /\ Cardinality(Above(changelog, n)) \in Nat
    BY <1>1, <1>2, AboveFinite
  <2>11. ChangelogMaxLen <= Cardinality(Above(changelog, n))
    <3> HIDE DEF newest, entry
    <3> QED
      BY <2>5, <2>9, <2>10, FS_Injection
  <2>12. Cardinality(Above(changelog, n)) < ChangelogMaxLen
    BY <1>5, <2>3 DEF RetentionInv
  <2> QED
    BY <1>1, <2>10, <2>11, <2>12
<1>6. CASE ChangelogMaxLen = 0
  BY <1>2, <1>3, <1>6 DEF InLog, Outrun, Numbered
<1>7. CASE ChangelogMaxLen # 0
  BY <1>2, <1>4, <1>5, <1>7 DEF InLog, Numbered
<1> QED
  BY <1>6, <1>7

\* With nothing in flight and nothing lost, the changelog is the newest
\* CHANGELOG_MAX_LEN numbers without a hole, for any handlers in any order.
THEOREM NewestRetained == Spec => []ChangelogIsNewest
<1>1. Init => Inv /\ NumbersInv /\ RetentionInv
  <2>1. Init => RetentionInv
    BY DEF Init, RetentionInv
  <2> QED
    BY <2>1, InitInv DEF Init, NumbersInv, SeqsUnique, AllocationsDisjoint
<1>2. Inv /\ NumbersInv /\ RetentionInv /\ [Next]_vars => (Inv /\ NumbersInv /\ RetentionInv)'
  BY NextInv, NumberWriters, IncrNumbers, AppendNumbers, NumbersKeptStep, RetentionStep
<1>3. Inv /\ NumbersInv /\ RetentionInv => ChangelogIsNewest
  BY RetainedIsNewest
<1> QED
  BY <1>1, <1>2, <1>3, PTL DEF Spec
=============================================================================
