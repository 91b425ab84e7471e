----------------------------- MODULE CursorSync -----------------------------
(***************************************************************************)
(* Cursor-based synchronisation (handle_get_updates_v2 in                  *)
(* src/app/websockets.py) against the store the handlers of SyncStore      *)
(* write.  The handler makes up to six Redis round trips, two of them      *)
(* pipelines that are no transactions; the consumer's handlers run between *)
(* any two commands.                                                       *)
(*                                                                         *)
(* Each client has one synchronisation at a time, learns nothing from the  *)
(* pushes (it was offline for them) and, when told to, reloads everything  *)
(* it is subscribed to.                                                    *)
(***************************************************************************)
EXTENDS SyncStore

CONSTANTS
  Client,    \* the users that synchronise
  PageLimit  \* safe_limit, between 1 and GET_UPDATES_V2_MAX_LIMIT

ASSUME ClientAssumption == Client \subseteq User /\ PageLimit \in Nat \ {0}

\* With SYNC_V2_ENABLED off the endpoint refuses the request (websockets.py:143).
ASSUME EnabledAssumption == SyncV2Enabled

VARIABLES
  cursor,    \* the client's cursor
  clientVer, \* the client's subscription version
  view,      \* the client's copy: the stamp of each block, 0 for none
  known,     \* the blocks the client was subscribed to when it last reloaded
  rpc,       \* where the server is with the client's request
  rver,      \* server_subscription_version
  rcur,      \* next_cursor
  revents,   \* the page: the latest event of each block
  rleft,     \* the blocks whose membership, or whose row, is still to be read
  rdata,     \* the rows read for the page's upserts
  lost,      \* history: pairs <<client, block>> whose event the client cannot see
  unbumped,  \* history: clients whose version bump a failure or a crash dropped
  gone       \* history: the blocks whose newest event is a deletion

client   == <<cursor, clientVer, view, known, rpc, rver, rcur, revents, rleft, rdata>>
history  == <<lost, unbumped, gone>>
syncVars == <<vars, client, history>>

RequestLabels ==
  {"idle", "version", "count", "retention", "page", "member", "data", "respond",
   "resync", "reload"}

SyncTypeOK ==
  /\ cursor \in [Client -> Nat]
  /\ clientVer \in [Client -> Nat]
  /\ view \in [Client -> [Block -> Nat]]
  /\ known \in [Client -> SUBSET Block]
  /\ rpc \in [Client -> RequestLabels]
  /\ rver \in [Client -> Nat]
  /\ rcur \in [Client -> Nat]
  /\ revents \in [Client -> SUBSET ChangelogEntry]
  /\ rleft \in [Client -> SUBSET Block]
  /\ rdata \in [Client -> [Block -> Nat]]
  /\ lost \subseteq Client \X Block
  /\ unbumped \subseteq Client
  /\ gone \subseteq Block

\* The clients have just synchronised with the initial store.
SyncInit ==
  /\ Init
  /\ cursor = [u \in Client |-> 0]
  /\ clientVer = [u \in Client |-> subVersion[u]]
  /\ view = [u \in Client |-> [b \in Block |-> IF b \in userBlocks[u] THEN blockData[b] ELSE 0]]
  /\ known = [u \in Client |-> userBlocks[u]]
  /\ rpc = [u \in Client |-> "idle"]
  /\ rver = [u \in Client |-> 0]
  /\ rcur = [u \in Client |-> 0]
  /\ revents = [u \in Client |-> {}]
  /\ rleft = [u \in Client |-> {}]
  /\ rdata = [u \in Client |-> [b \in Block |-> 0]]
  /\ lost = {}
  /\ unbumped = {}
  /\ gone = {}

At(u, label) == rpc[u] = label
Proceed(u, label) == rpc' = [rpc EXCEPT ![u] = label]
-----------------------------------------------------------------------------
(* The request and its answer.                                             *)

Request(u) ==
  /\ At(u, "idle")
  /\ Proceed(u, "version")
  /\ UNCHANGED <<vars, cursor, clientVer, view, known, rver, rcur, revents, rleft, rdata, history>>

ReadVersion(u) ==
  /\ At(u, "version")
  /\ rver' = [rver EXCEPT ![u] = subVersion[u]]
  /\ Proceed(u, IF clientVer[u] = subVersion[u] THEN "count" ELSE "resync")
  /\ UNCHANGED <<vars, cursor, clientVer, view, known, rcur, revents, rleft, rdata, history>>

CountSubscriptions(u) ==
  /\ At(u, "count")
  /\ Proceed(u, IF userBlocks[u] = {} THEN "resync" ELSE "retention")
  /\ UNCHANGED <<vars, cursor, clientVer, view, known, rver, rcur, revents, rleft, rdata, history>>

\* cursor < min_seq - 1 for the lowest entry retained.
\* Fault: off by one at the boundary.
IsStaleFault(u) == changelog # {} /\ \A e \in changelog : cursor[u] < e.seq - 2
IsStale(u) == changelog # {} /\ \A e \in changelog : cursor[u] < e.seq - 1

CheckRetention(u) ==
  /\ At(u, "retention")
  /\ Proceed(u, IF IsStale(u) THEN "resync" ELSE "page")
  /\ UNCHANGED <<vars, cursor, clientVer, view, known, rver, rcur, revents, rleft, rdata, history>>

\* ZRANGEBYSCORE (cursor +inf LIMIT 0 safe_limit.
\* Fault: the page starts from the beginning.
PageFault(u) ==
  {e \in changelog : Cardinality({f \in changelog : f.seq < e.seq}) < PageLimit}
Page(u) ==
  LET after == {e \in changelog : e.seq > cursor[u]} IN
  {e \in after : Cardinality({f \in after : f.seq < e.seq}) < PageLimit}

LatestByBlock(page) ==
  {e \in page : \A f \in page : f.block = e.block => f.seq <= e.seq}

NextCursor(page) == CHOOSE n \in {e.seq : e \in page} : \A e \in page : e.seq <= n

\* An empty page is answered at once and changes nothing at the client.
ReadPage(u) ==
  /\ At(u, "page")
  /\ LET page == Page(u) IN
       IF page = {}
         THEN Proceed(u, "idle") /\ UNCHANGED <<rcur, revents, rleft>>
         ELSE /\ Proceed(u, "member")
              /\ rcur' = [rcur EXCEPT ![u] = NextCursor(page)]
              /\ revents' = [revents EXCEPT ![u] = LatestByBlock(page)]
              /\ rleft' = [rleft EXCEPT ![u] = {e.block : e \in page}]
  /\ UNCHANGED <<vars, cursor, clientVer, view, known, rver, rdata, history>>

Upserts(events) == {e.block : e \in {f \in events : f.op = "upsert"}}
Deletes(events) == {e.block : e \in {f \in events : f.op = "delete"}}

\* One SISMEMBER of the pipeline; after the last one the rows are next.
CheckMembership(u, b) ==
  LET relevant == IF b \in userBlocks[u] THEN revents[u] ELSE {e \in revents[u] : e.block # b}
      left     == rleft[u] \ {b} IN
  /\ At(u, "member") /\ b \in rleft[u]
  /\ revents' = [revents EXCEPT ![u] = relevant]
  /\ rleft' = [rleft EXCEPT ![u] = IF left # {} THEN left ELSE Upserts(relevant)]
  /\ Proceed(u, IF left # {} THEN "member" ELSE IF Upserts(relevant) # {} THEN "data" ELSE "respond")
  /\ UNCHANGED <<vars, cursor, clientVer, view, known, rver, rcur, rdata, history>>

\* One HGETALL of the pipeline.  A block without a row is reported deleted,
\* which is what stamp 0 says.
ReadData(u, b) ==
  LET left == rleft[u] \ {b} IN
  /\ At(u, "data") /\ b \in rleft[u]
  /\ rdata' = [rdata EXCEPT ![u][b] = blockData[b]]
  /\ rleft' = [rleft EXCEPT ![u] = left]
  /\ Proceed(u, IF left # {} THEN "data" ELSE "respond")
  /\ UNCHANGED <<vars, cursor, clientVer, view, known, rver, rcur, revents, history>>

\* What the client's copy becomes; updates for one block cannot conflict.
Applied(u) ==
  [b \in Block |-> IF b \in Upserts(revents[u]) THEN rdata[u][b]
                   ELSE IF b \in Deletes(revents[u]) THEN 0 ELSE view[u][b]]

Done(u) ==
  /\ Proceed(u, "idle")
  /\ rver' = [rver EXCEPT ![u] = 0]
  /\ rcur' = [rcur EXCEPT ![u] = 0]
  /\ revents' = [revents EXCEPT ![u] = {}]
  /\ rleft' = [rleft EXCEPT ![u] = {}]
  /\ rdata' = [rdata EXCEPT ![u] = [b \in Block |-> 0]]

\* ZCOUNT only sets has_more; the client asks again in any case.
Respond(u) ==
  /\ At(u, "respond")
  /\ view' = [view EXCEPT ![u] = Applied(u)]
  /\ cursor' = [cursor EXCEPT ![u] = rcur[u]]
  /\ clientVer' = [clientVer EXCEPT ![u] = rver[u]]
  /\ Done(u)
  /\ UNCHANGED <<vars, known, history>>

\* full_resync_required: the answer carries the counter and the version read
\* before, and the client then reloads everything.
\* Fault: a resync starts from scratch.
ResyncCursorFault == 0
ResyncCursor == seq

ReadSeq(u) ==
  /\ At(u, "resync")
  /\ rcur' = [rcur EXCEPT ![u] = ResyncCursor]
  /\ Proceed(u, "reload")
  /\ UNCHANGED <<vars, cursor, clientVer, view, known, rver, revents, rleft, rdata, history>>

Reload(u) ==
  /\ At(u, "reload")
  /\ view' = [view EXCEPT ![u] = [b \in Block |-> IF b \in userBlocks[u] THEN blockData[b]
                                                  ELSE 0]]
  /\ known' = [known EXCEPT ![u] = userBlocks[u]]
  /\ cursor' = [cursor EXCEPT ![u] = rcur[u]]
  /\ clientVer' = [clientVer EXCEPT ![u] = rver[u]]
  /\ lost' = {p \in lost : p[1] # u}
  /\ unbumped' = unbumped \ {u}
  /\ Done(u)
  /\ UNCHANGED <<vars, gone>>

\* A Redis error or a broken socket ends the request; the client keeps what
\* it had and asks again.
Disconnect(u) ==
  /\ rpc[u] # "idle"
  /\ Fail
  /\ Done(u)
  /\ UNCHANGED <<store, handler, crashes, cursor, clientVer, view, known, history>>

SyncStep(u) ==
  \/ Request(u) \/ ReadVersion(u) \/ CountSubscriptions(u) \/ CheckRetention(u)
  \/ ReadPage(u) \/ Respond(u) \/ ReadSeq(u) \/ Reload(u)
  \/ \E b \in Block : CheckMembership(u, b) \/ ReadData(u, b)
-----------------------------------------------------------------------------
(* The consumer's steps, and what they do behind a reader's back.          *)

Position(u) == IF rpc[u] \in {"member", "data", "respond", "reload"} THEN rcur[u]
               ELSE cursor[u]

Lands(m) == pc[m] = "append" /\ pc'[m] # "append" /\ crashes' = crashes

\* The events of m whose numbers a reader is already past.
Overtaken(m, u) ==
  IF seqEnd[m] - Cardinality(Events(m)) < Position(u) THEN Events(m) ELSE {}

\* The events trimmed although a reader has been told they are retained: old
\* ones, and those of m that did not survive their own trim.
TrimmedUnder(m, u) ==
  IF ~At(u, "page") THEN {}
  ELSE {e.block : e \in {f \in changelog \ changelog' : f.seq > cursor[u]}}
       \union {b \in Events(m) : \A e \in changelog' : ~(e.block = b /\ e.seq \in AllocatedTo(m))}

\* The events m still has to log: all of them as long as it may be delivered
\* again, then those of the blocks its loop has not passed.
Pending(m) ==
  IF m.action \in UpdateActions
    THEN IF pc[m] \in {"queued", "save", "incr", "append"} THEN m.blocks ELSE {}
  ELSE IF m.action # "unsubscribe" THEN {}
  ELSE IF pc[m] = "queued" THEN m.blocks
  ELSE IF pc[m] \in {"delete", "incr", "append"} THEN todo[m] \union chunk[m]
  ELSE IF pc[m] \in {"members", "bump"} THEN todo[m] ELSE {}

\* The events of m that an error keeps out of the changelog, whether or not it
\* has written or deleted the row.
Unlogged(m) ==
  IF failures' # failures /\ changelog' = changelog THEN Pending(m) \ Pending(m)' ELSE {}

\* The blocks whose newest retained event is a deletion, and those of which no
\* event is retained any more and the last one was.
NewestDeletes ==
  LET newest == LatestByBlock(changelog') IN
  Deletes(newest) \union (gone \ Upserts(newest))

\* The handlers that still owe u a new subscription version: an access or
\* subscribe handler that has not bumped yet, redelivered ones included, and
\* an unsubscribe handler past its removal.
Owes(m, u) ==
  \/ /\ m.action \in {"update_access", "subscribe"}
     /\ m.user = u
     /\ pc[m] \in {"queued", "write", "bump"}
  \/ /\ m.action = "unsubscribe"
     /\ pc[m] \in {"incr", "append", "bump"}
     /\ u \in UsersOf(seen[m])

\* The failure of this step, or the crash, leaves u's indexes changed and
\* nobody to bump u's version.
DropsBump(u) ==
  /\ failures' # failures \/ crashes' # crashes
  /\ subVersion'[u] = subVersion[u]
  /\ userBlocks'[u] # userBlocks[u] \/ \E m \in Message : Owes(m, u) /\ ~Owes(m, u)'

StoreStep ==
  /\ \/ \E m \in Message : Step(m) \/ CommandLost(m) \/ LookupFails(m)
     \/ Crash
  /\ lost' = lost \union
       {p \in Client \X Block : \E m \in Message :
          \/ Lands(m) /\ p[2] \in Overtaken(m, p[1]) \union TrimmedUnder(m, p[1])
          \/ p[2] \in Unlogged(m)}
  /\ unbumped' = unbumped \union {u \in Client : DropsBump(u)}
  /\ gone' = NewestDeletes
  /\ UNCHANGED client

SyncNext == StoreStep \/ \E u \in Client : SyncStep(u) \/ Disconnect(u)

SyncSpec == SyncInit /\ [][SyncNext]_syncVars

\* As in SyncStore; the client keeps asking and the server's task for its
\* request is run whenever its reply is in.
HandlerStep(m) == Step(m) /\ StoreStep
FairSyncSpec ==
  /\ SyncSpec
  /\ \A m \in Message : WF_syncVars(HandlerStep(m))
  /\ \A u \in Client : WF_syncVars(SyncStep(u))
-----------------------------------------------------------------------------
(* Properties.                                                             *)

\* A client with the current version knows its subscriptions, or the handler
\* that changed them is still on its way to the counter, or a failure or a
\* crash has dropped that handler's bump.
UnawareOnlyIfUnbumped ==
  \A u \in Client :
    clientVer[u] = subVersion[u] =>
      known[u] = userBlocks[u] \/ (\E m \in Message : Owes(m, u)) \/ u \in unbumped

\* A client that has all the answers: nothing in flight, the version current
\* and nothing left to page through.
CaughtUp(u) ==
  /\ Settled
  /\ rpc[u] = "idle"
  /\ clientVer[u] = subVersion[u]
  /\ \A e \in changelog : e.seq <= cursor[u]

\* A client that has caught up holds what Redis holds of its blocks, except
\* where an event landed at a number its cursor had passed, was trimmed between
\* the retention check and the page read, or was never logged for an error;
\* where a deletion's number came after that of an update that wrote the row
\* again; or where it has not been told of its subscriptions.
MissesOnlyLost ==
  \A u \in Client : CaughtUp(u) =>
    \A b \in userBlocks[u] :
      \/ view[u][b] = blockData[b]
      \/ <<u, b>> \in lost
      \/ b \in gone /\ blockData[b] # 0
      \/ u \in unbumped

\* "Reads global changelog and returns only relevant subscribed block
\* updates. If subscription version changed or cursor is stale, requests full
\* resync" (websockets.py:385): a client that has caught up holds what Redis
\* holds of its blocks, as long as no command has failed.
NoMissedUpdate ==
  failures = 0 =>
    \A u \in Client : CaughtUp(u) => \A b \in userBlocks[u] : view[u][b] = blockData[b]

\* A client's cursor never moves back, whichever of the five answers it gets.
CursorMonotone == [][\A u \in Client : cursor'[u] >= cursor[u]]_syncVars

\* A client that keeps asking ends up at the current version with nothing
\* left to page through.
CatchesUp ==
  <>[](\A u \in Client :
         clientVer[u] = subVersion[u] /\ \A e \in changelog : e.seq <= cursor[u])
=============================================================================
