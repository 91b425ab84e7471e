------------------------------ MODULE TimeSync ------------------------------
(***************************************************************************)
(* Time-based synchronisation (handle_get_updates in                       *)
(* src/app/websockets.py) against the store the handlers of SyncStore      *)
(* write.  The client names the blocks it holds and their updated_at; the  *)
(* server answers with what is newer by whole seconds, what is gone and    *)
(* what is new.  It reads the subscriptions in one command and the rows in *)
(* pipelines that are no transactions, row by row; the consumer's handlers *)
(* run in between.                                                         *)
(*                                                                         *)
(* As in CursorSync a client has one request at a time, learns nothing     *)
(* from the pushes and, when told to, reloads what it is subscribed to.    *)
(***************************************************************************)
EXTENDS SyncStore, BlockData

CONSTANTS
  Client,
  UpdatedAt  \* the updated_at field of the block content each stamp stands for

ASSUME TimeAssumption ==
  /\ Client \subseteq User
  /\ DOMAIN UpdatedAt \subseteq Nat /\ 1 \in DOMAIN UpdatedAt
  /\ \A s \in DOMAIN UpdatedAt : UpdatedAt[s] \in Value
  /\ \A m \in Message : m.action \notin AclActions =>
       \A b \in m.blocks : m.data[b].stamp \in DOMAIN UpdatedAt

VARIABLES
  margin, \* what the client takes off the times it sends, in seconds
  view,   \* the client's copy: the stamp of each block, 0 for none
  rpc,    \* where the server is with the client's request
  rsubs,  \* subscribed_blocks
  rleft,  \* the valid or the new blocks whose rows have not been read
  rrows   \* updates and new_blocks: the stamp sent of each block, 0 for none

client   == <<view, rpc, rsubs, rleft, rrows>>
timeVars == <<vars, client, margin>>

NoRows == [b \in Block |-> 0]

TimeTypeOK ==
  /\ margin \in [Client -> {0, 1}]
  /\ view \in [Client -> [Block -> {0} \union DOMAIN UpdatedAt]]
  /\ rpc \in [Client -> {"idle", "members", "rows", "new", "respond", "reload"}]
  /\ rsubs \in [Client -> SUBSET Block]
  /\ rleft \in [Client -> SUBSET Block]
  /\ rrows \in [Client -> [Block -> {0} \union DOMAIN UpdatedAt]]

\* The clients hold some of their blocks, as the initial store has them.  The
\* frontend sends unixSeconds - 1, or is to send unixSeconds as it is
\* (FRONTEND_TASKS.md:10 and :32).
TimeInit ==
  /\ Init
  /\ margin \in [Client -> {0, 1}]
  /\ \E held \in [Client -> SUBSET Block] :
       view = [u \in Client |-> [b \in Block |->
                 IF b \in held[u] \intersect userBlocks[u] THEN blockData[b] ELSE 0]]
  /\ rpc = [u \in Client |-> "idle"]
  /\ rsubs = [u \in Client |-> {}]
  /\ rleft = [u \in Client |-> {}]
  /\ rrows = [u \in Client |-> NoRows]
-----------------------------------------------------------------------------
\* The server reads the text Redis holds; the client got the parsed field,
\* made a whole number or 0, and sends it back.
ServerTime(stamp) == IntFloat(<<"text", Prepare(UpdatedAt[stamp])>>)
\* Fault: digits, which come as a text, are not taken for a time.
ClientTimeFault(stamp) ==
  LET v == Parse(Prepare(UpdatedAt[stamp])) IN IF v[1] = "number" THEN IntFloat(v) ELSE 0
ClientTime(stamp) ==
  LET n == IntFloat(Parse(Prepare(UpdatedAt[stamp]))) IN IF n = NoTime THEN 0 ELSE n

\* A row without a usable time raises, is logged and is left out.
IsNewer(u, stamp, held) ==
  ServerTime(stamp) # NoTime /\ ServerTime(stamp) > ClientTime(held) - margin[u]

Held(u) == {b \in Block : view[u][b] # 0}

At(u, label) == rpc[u] = label
Proceed(u, label) == rpc' = [rpc EXCEPT ![u] = label]

Request(u) ==
  /\ At(u, "idle")
  /\ Proceed(u, "members")
  /\ UNCHANGED <<vars, margin, view, rsubs, rleft, rrows>>

\* valid_blocks_dict, read together with the subscriptions.
\* Fault: every block the client names counts as valid.
ValidFault(u) == Held(u)
Valid(u) == Held(u) \intersect userBlocks[u]

\* No subscriptions, or none to a block the client names: a full resync.
ReadSubscribed(u) ==
  /\ At(u, "members")
  /\ rsubs' = [rsubs EXCEPT ![u] = userBlocks[u]]
  /\ rleft' = [rleft EXCEPT ![u] = Valid(u)]
  /\ Proceed(u, IF Valid(u) = {} THEN "reload" ELSE "rows")
  /\ UNCHANGED <<vars, margin, view, rrows>>

\* The blocks the client has not named.
NewBlocks(u) == rsubs[u] \ Held(u)

\* Fault: the portions stop one block short.
AfterRowsFault(u, left) ==
  IF Cardinality(left) > 1 THEN "rows" ELSE IF NewBlocks(u) # {} THEN "new" ELSE "respond"
AfterRows(u, left) ==
  IF left # {} THEN "rows" ELSE IF NewBlocks(u) # {} THEN "new" ELSE "respond"

\* One HGETALL of the pipelines of the valid blocks.
ReadRow(u, b) ==
  LET left == rleft[u] \ {b} IN
  /\ At(u, "rows") /\ b \in rleft[u]
  /\ rleft' = [rleft EXCEPT ![u] = IF AfterRows(u, left) = "rows" THEN left ELSE NewBlocks(u)]
  /\ rrows' = IF blockData[b] # 0 /\ IsNewer(u, blockData[b], view[u][b])
                THEN [rrows EXCEPT ![u][b] = blockData[b]] ELSE rrows
  /\ Proceed(u, AfterRows(u, left))
  /\ UNCHANGED <<vars, margin, view, rsubs>>

\* One HGETALL of the pipeline of the new blocks.
ReadNew(u, b) ==
  LET left == rleft[u] \ {b} IN
  /\ At(u, "new") /\ b \in rleft[u]
  /\ rleft' = [rleft EXCEPT ![u] = left]
  /\ rrows' = [rrows EXCEPT ![u][b] = blockData[b]]
  /\ Proceed(u, IF left # {} THEN "new" ELSE "respond")
  /\ UNCHANGED <<vars, margin, view, rsubs>>

\* The blocks the client named and is not subscribed to are sent as deleted.
Gone(u) == Held(u) \ rsubs[u]

Done(u) ==
  /\ Proceed(u, "idle")
  /\ rsubs' = [rsubs EXCEPT ![u] = {}]
  /\ rleft' = [rleft EXCEPT ![u] = {}]
  /\ rrows' = [rrows EXCEPT ![u] = NoRows]

Respond(u) ==
  /\ At(u, "respond")
  /\ view' = [view EXCEPT ![u] = [b \in Block |->
       IF b \in Gone(u) THEN 0 ELSE IF rrows[u][b] # 0 THEN rrows[u][b] ELSE view[u][b]]]
  /\ Done(u)
  /\ UNCHANGED <<vars, margin>>

Reload(u) ==
  /\ At(u, "reload")
  /\ view' = [view EXCEPT ![u] = [b \in Block |-> IF b \in userBlocks[u] THEN blockData[b] ELSE 0]]
  /\ Done(u)
  /\ UNCHANGED <<vars, margin>>

\* A Redis error or a broken socket ends the request and the connection; the
\* client comes back with what it had.
Disconnect(u) ==
  /\ ~At(u, "idle")
  /\ Fail
  /\ Done(u)
  /\ UNCHANGED <<store, handler, crashes, margin, view>>

ClientStep(u) ==
  \/ Request(u) \/ ReadSubscribed(u) \/ Respond(u) \/ Reload(u)
  \/ \E b \in Block : ReadRow(u, b) \/ ReadNew(u, b)

StoreStep ==
  /\ \E m \in Message : Step(m) \/ CommandLost(m)
  /\ UNCHANGED <<client, margin>>

TimeNext == StoreStep \/ \E u \in Client : ClientStep(u) \/ Disconnect(u)

TimeSpec == TimeInit /\ [][TimeNext]_timeVars

\* As in CursorSync: handlers are run, the client keeps asking and its
\* requests are served.
HandlerStep(m) == Step(m) /\ UNCHANGED <<client, margin>>
FairTimeSpec ==
  /\ TimeSpec
  /\ \A m \in Message : WF_timeVars(HandlerStep(m))
  /\ \A u \in Client : WF_timeVars(ClientStep(u))
-----------------------------------------------------------------------------
(* Properties.                                                             *)

\* Though the rows are read in later round trips than the subscriptions, an
\* answer carries the row of a block only if the client was subscribed to it
\* when the request was read, and never both the row and its deletion.
AnswersOnlySubscribed ==
  TimeTypeOK /\
  \A u \in Client :
    /\ rleft[u] \subseteq rsubs[u]
    /\ \A b \in Block : rrows[u][b] # 0 => b \in rsubs[u] /\ b \notin Gone(u)

\* The row the client holds is sent to it again for its margin only: a client
\* that sends the times as it got them is sent nothing it holds, for what the
\* server makes of the stored text of a time is no later than what the client
\* made of the same text on its way through parse_redis_block_data and back.
ResentForMargin ==
  \A u \in Client, b \in Block :
    rrows[u][b] # 0 /\ rrows[u][b] = view[u][b] => margin[u] = 1

\* No clock tells the row from what the client holds: it has no usable time,
\* or one that is no later than the one the client sends, two updates having
\* overtaken each other or, without a margin, having come in one second.
Indistinguishable(u, b) == view[u][b] # 0 /\ ~IsNewer(u, blockData[b], view[u][b])

\* "Validates user subscription and returns blocks that have been updated
\* since the client's last known timestamp" (websockets.py:184): a client that
\* keeps asking ends up with what Redis holds of its blocks, except for a row
\* that is missing or that no clock tells from its copy, and with nothing it is
\* not subscribed to, whatever changes between the reads of a request.
EventuallyAgrees ==
  <>[](\A u \in Client, b \in Block :
         IF b \in userBlocks[u]
           THEN view[u][b] = blockData[b] \/ blockData[b] = 0 \/ Indistinguishable(u, b)
           ELSE view[u][b] = 0)
=============================================================================
