---------------------------- MODULE SandboxRouting ----------------------------
(***************************************************************************)
(* Who an update inside a sandbox is sent to, when Redis has forgotten the *)
(* sandbox and the backend is asked over HTTP (get_parent_sandbox_info in  *)
(* src/app/connection_manager.py).                                         *)
(*                                                                         *)
(* SyncStore knows only what Redis says.  Here the backend's own mode of   *)
(* each block is a variable: it changes when a message that carries a mode *)
(* is published, long before the message is handled.  Between the read of  *)
(* the cache, the answer of the backend and the write of the answer to the *)
(* cache, other handlers run.                                              *)
(***************************************************************************)
EXTENDS SyncStore

CONSTANT BackendConfigured  \* backend_url and service_token are set, httpx is there

ASSUME BackendAssumption == BackendConfigured \in BOOLEAN

VARIABLES
  truth,      \* the backend's mode and owner of each block
  published,  \* the messages the backend has published, in the order of their ids
  fetched,    \* the backend's answer to a handler, on its way to the cache
  misled,     \* history: updates some parent of which the handler may have mistaken
  overtaken   \* history: blocks the last write to whose cache was out of date

routingVars == <<vars, truth, published, fetched, misled, overtaken>>

RoutingInit ==
  /\ Init
  /\ truth = InitialSandbox
  /\ published = {}
  /\ fetched = [m \in Message |-> NoSandbox]
  /\ misled = {}
  /\ overtaken = {}

Carried(m) == IF m.action \in AclActions THEN {} ELSE Containers(m)

Publish(m) ==
  /\ m \notin published
  /\ \A n \in Message : n.id < m.id => n \in published
  /\ published' = published \union {m}
  /\ truth' = [b \in Block |-> IF b \in Carried(m) THEN CachedInfo(m.data[b]) ELSE truth[b]]
  /\ UNCHANGED <<vars, fetched>>
-----------------------------------------------------------------------------
(* get_parent_sandbox_info, which only update_block calls: update_blocks   *)
(* reads the cache and nothing else.                                       *)

ParentOf(m) == CHOOSE p \in Parents(m) : TRUE
Falls(m) == BackendConfigured /\ m.action = "update_block"

\* An error while the cache is read is answered like a missing key.
\* Fault: a missing key is the answer, the backend is never asked.
AsksBackendFault(m) == FALSE
AsksBackend(m) == Falls(m) /\ sandbox[ParentOf(m)] = NoSandbox

LookupCached(m) ==
  /\ pc[m] = "lookup" /\ ~AsksBackend(m)
  /\ Lookup(m)
  /\ UNCHANGED fetched

LookupMisses(m) ==
  /\ pc[m] = "lookup"
  /\ \/ AsksBackend(m) /\ UNCHANGED failures
     \/ Falls(m) /\ Fail
  /\ Goto(m, "fetch")
  /\ UNCHANGED <<store, todo, chunk, seen, seqEnd, handed, crashes, fetched>>

\* Any other answer than an open or a private sandbox, and any error, sends
\* the update to every subscriber.
Fetch(m) ==
  /\ pc[m] = "fetch"
  /\ LET answer == truth[ParentOf(m)] IN
       \/ /\ answer # NoSandbox
          /\ fetched' = [fetched EXCEPT ![m] = answer]
          /\ Goto(m, "store")
          /\ UNCHANGED <<seen, handed, failures>>
       \/ /\ \/ answer = NoSandbox /\ UNCHANGED failures
             \/ Fail
          /\ Dispatch(m, seen[m])
          /\ UNCHANGED fetched
  /\ UNCHANGED <<store, todo, chunk, seqEnd, crashes>>

\* The answer is cached, whatever the cache has been told meanwhile; the
\* update goes by the answer even when the write fails.
StoreFetched(m) ==
  /\ pc[m] = "store"
  /\ LET cached == [sandbox EXCEPT ![ParentOf(m)] = fetched[m]] IN
       \/ sandbox' = cached /\ UNCHANGED failures
       \/ sandbox' \in {cached, sandbox} /\ Fail
  /\ Dispatch(m, Routed(m, seen[m], [p \in Block |-> fetched[m]]))
  /\ fetched' = [fetched EXCEPT ![m] = NoSandbox]
  /\ UNCHANGED <<blockSubscribers, userBlocks, subVersion, seq, changelog, blockData,
                 todo, chunk, seqEnd, crashes>>

RoutingStep(m) ==
  \/ LookupCached(m) \/ LookupMisses(m) \/ Fetch(m) \/ StoreFetched(m)
  \/ /\ pc[m] # "lookup" /\ m \in published
     /\ Step(m) \/ CommandLost(m)
     /\ UNCHANGED fetched
  \/ ~Falls(m) /\ LookupFails(m) /\ UNCHANGED fetched

\* Restarts are SyncStore's subject and are left out here.
Expire == (\E b \in Block : ExpireSandbox(b)) /\ UNCHANGED fetched
-----------------------------------------------------------------------------
(* What the history variables record.                                      *)

\* The handler of m leaves its lookup with something else than the backend's
\* mode of p: an outdated cache or, where no backend is asked, one that has
\* forgotten p.
Mistakes(m, p) ==
  /\ pc[m] = "lookup" /\ pc'[m] \notin {"lookup", "fetch"} /\ p \notin DOMAIN m.context
  /\ sandbox[p] \notin (IF Falls(m) THEN {NoSandbox, truth[p]} ELSE {truth[p]})

\* A batch looks no parent up when its context names some other.
LeavesOut(m, p) ==
  m.action = "update_blocks" /\ DOMAIN m.context # {} /\ p \notin DOMAIN m.context

\* The backend's mode of p is not, or no longer, the one m's context gives, or
\* it changes after the lookup or the backend's answer.
Outdated(m, p) ==
  IF p \in DOMAIN m.context THEN m \in published' /\ truth'[p] # m.context[p]
  ELSE truth'[p] # truth[p] /\ pc[m] \in {"store", "send"}

LookupFailed(m) ==
  failures' # failures /\ pc[m] \in {"lookup", "fetch"} /\ pc'[m] \notin {pc[m], "fetch"}

NowMisled ==
  {m \in Message : m.action \in UpdateActions /\
     (LookupFailed(m) \/ \E p \in Parents(m) : Mistakes(m, p) \/ LeavesOut(m, p) \/ Outdated(m, p))}

\* The blocks whose cached mode this step writes, or should have written: an
\* update that cannot save its rows returns before it caches their modes.
Written ==
  {b \in Block : \E m \in Message :
     \/ pc[m] = "cache" /\ b \in todo[m] \ todo'[m]
     \/ pc[m] = "save" /\ pc'[m] = "ack" /\ b \in todo[m]
     \/ pc[m] = "store" /\ pc'[m] # "store" /\ b = ParentOf(m)}

Record ==
  /\ misled' = misled \union NowMisled
  /\ overtaken' = (overtaken \ {b \in Block : sandbox'[b] = truth[b] \/ sandbox'[b] = NoSandbox})
                  \union {b \in Written : sandbox'[b] # truth[b]}

RoutingNext ==
  /\ \/ \E m \in Message : Publish(m)
     \/ (\E m \in Message : RoutingStep(m)) /\ UNCHANGED <<truth, published>>
     \/ Expire /\ UNCHANGED <<truth, published>>
     \/ Settled /\ UNCHANGED <<vars, truth, published, fetched>>
  /\ Record

RoutingSpec == RoutingInit /\ [][RoutingNext]_routingVars
-----------------------------------------------------------------------------
(* Properties.                                                             *)

\* "Filters recipients for blocks in private sandboxes"
\* (rabbitmq_consumer.py:118 and :204): an update inside a container that is
\* private at the backend is sent to the block's creator and the container's
\* owner only, also when Redis has forgotten the container, unless its handler
\* was misled: by an outdated cache or context, by a failed lookup, by a mode
\* that changed under way, or, for a batch, by a forgotten container or a
\* partial context.
PrivateStaysInside ==
  [][\A m \in Message : m.action \in UpdateActions /\ m \notin misled' =>
       \A s \in handed'[m] \ handed[m] :
         LET d == m.data[s[2]] IN
         d.parent # NoBlock /\ truth[d.parent].mode = "private" =>
           s[1] \in {d.creator, truth[d.parent].owner}]_routingVars

\* Once every message is settled, the cache has forgotten a block or agrees
\* with the backend, whatever fetches and mode changes raced, unless the last
\* write to it was late: a mode change handled after a newer one, a write that
\* was lost or given up with its rows, or an answer stored after the change
\* that outdated it.
CacheFollowsBackend ==
  Settled => \A b \in Block : sandbox[b] \in {NoSandbox, truth[b]} \/ b \in overtaken
=============================================================================
