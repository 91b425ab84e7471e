--------------------------- MODULE TimeSyncProofs ---------------------------
(***************************************************************************)
(* What the conversions of BlockData keep of a field, and what the answers *)
(* of handle_get_updates carry, for every set of clients, blocks, messages *)
(* and times: rows the client was subscribed to, and none that it holds    *)
(* already unless it takes a margin off its times.                         *)
(***************************************************************************)
EXTENDS TimeSync, SyncStoreProofs
-----------------------------------------------------------------------------
(* The conversions, for every content and every number.                    *)

\* Whatever Redis holds of a field, what is read of it is stored as the same
\* text again, and so is read as the same value again.
LEMMA ParsedIsStable ==
  ASSUME NEW t \in Text
  PROVE  Prepare(Parse(t)) = t
<1>1. CASE t = <<"null">>
  BY <1>1 DEF Prepare, Parse
<1>2. CASE t = <<"true">>
  BY <1>2 DEF Prepare, Parse
<1>3. CASE t = <<"false">>
  BY <1>3 DEF Prepare, Parse
<1>4. CASE t \in ({"json", "broken", "plain"} \X Payload) \union ({"number"} \X Tick)
  BY <1>4 DEF Prepare, Parse
<1> QED  BY <1>1, <1>2, <1>3, <1>4 DEF Text

\* Every value is stored as a text.
LEMMA PreparedIsText ==
  ASSUME NEW v \in Value
  PROVE  Prepare(v) \in Text
BY DEF Value, Text, Prepare

\* "Converts stored string values back to their proper types" (utils.py:40):
\* a field comes back as it was, a number as its digits, unless it is a text
\* that looks like another type; and a second trip changes nothing.
THEOREM FieldsComeBack == FieldsReadBack
<1> SUFFICES ASSUME NEW v \in Value
             PROVE  LET back == Parse(Prepare(v)) IN
                    /\ IF v[1] = "number" THEN back = <<"text", v>>
                       ELSE back = v \/ (v[1] = "text" /\ v[2] \in LookAlike)
                    /\ Parse(Prepare(back)) = back
  BY DEF FieldsReadBack
<1>1. Parse(Prepare(Parse(Prepare(v)))) = Parse(Prepare(v))
  BY PreparedIsText, ParsedIsStable
<1>2. CASE v[1] = "None"
  BY <1>1, <1>2 DEF Value, Prepare, Parse
<1>3. CASE v = <<"True">> \/ v = <<"False">>
  <2>1. Prepare(<<"True">>) = <<"true">> /\ Prepare(<<"False">>) = <<"false">>
    BY DEF Prepare
  <2>2. Parse(<<"true">>) = <<"True">> /\ Parse(<<"false">>) = <<"False">>
    BY DEF Parse
  <2>3. v[1] # "number" /\ Parse(Prepare(v)) = v
    BY <1>3, <2>1, <2>2
  <2> QED  BY <1>1, <2>3
<1>4. CASE v[1] = "json"
  BY <1>1, <1>4 DEF Value, Prepare, Parse
<1>5. CASE v[1] = "number"
  BY <1>1, <1>5 DEF Value, Prepare, Parse
<1>6. CASE v[1] = "text"
  <2>1. v[2] \in Text /\ v = <<"text", v[2]>> /\ Prepare(v) = v[2]
    BY <1>6 DEF Value, Prepare
  <2>2. CASE v[2] \in LookAlike
    BY <1>1, <1>6, <2>2
  <2>3. CASE v[2] \notin LookAlike
    <3>1. v[2] \in ({"broken", "plain"} \X Payload) \union ({"number"} \X Tick)
      BY <2>1, <2>3 DEF Text, LookAlike
    <3>2. Parse(v[2]) = <<"text", v[2]>>
      BY <3>1 DEF Parse
    <3> QED  BY <1>1, <1>6, <2>1, <3>2
  <2> QED  BY <2>2, <2>3
<1> QED  BY <1>2, <1>3, <1>4, <1>5, <1>6 DEF Value
-----------------------------------------------------------------------------
(* The invariant.                                                          *)

\* Redis holds rows whose time is known.
StampInv == \A b \in Block : blockData[b] \in {0} \union DOMAIN UpdatedAt

\* A request that has read no rows has none.
RowsInv ==
  \A u \in Client :
    /\ rpc[u] \in {"idle", "members"} => rrows[u] = NoRows
    /\ rpc[u] = "new" => rleft[u] \intersect Held(u) = {}
    /\ rleft[u] \subseteq rsubs[u]
    /\ \A b \in Block : rrows[u][b] # 0 => b \in rsubs[u]

TimeInv == Inv /\ StampInv /\ TimeTypeOK /\ RowsInv /\ ResentForMargin
-----------------------------------------------------------------------------
(* The times.                                                              *)

\* A text with a usable time comes back as itself, so that what the client
\* makes of it is what the server makes of it.
LEMMA SameTime ==
  ASSUME NEW stamp \in DOMAIN UpdatedAt, NEW u \in Client, margin[u] = 0
  PROVE  ~IsNewer(u, stamp, stamp)
<1> DEFINE t == Prepare(UpdatedAt[stamp])
<1>1. t \in Text
  BY TimeAssumption, PreparedIsText
<1>2. CASE t[1] = "number"
  <2>1. Parse(t) = <<"text", t>>
    BY <1>2 DEF Parse
  <2>2. t[2] \in Nat
    <3>1. t \notin {<<"null">>, <<"true">>, <<"false">>} /\ t \notin {"json", "broken", "plain"} \X Payload
      BY <1>2
    <3>2. t \in {"number"} \X Tick
      BY <1>1, <3>1 DEF Text
    <3> QED
      BY <3>2, TickAssumption
  <2>3. IntFloat(<<"text", t>>) = t[2] \div TicksPerSecond
    BY <1>2 DEF IntFloat
  <2>4. t[2] \div TicksPerSecond \in Int /\ t[2] \div TicksPerSecond # NoTime
    BY <2>2, TickAssumption DEF NoTime
  <2>5. ServerTime(stamp) = t[2] \div TicksPerSecond /\ ClientTime(stamp) = t[2] \div TicksPerSecond
    BY <2>1, <2>3, <2>4 DEF ServerTime, ClientTime
  <2>6. ServerTime(stamp) = ClientTime(stamp) - margin[u] /\ ServerTime(stamp) \in Int
    BY <2>4, <2>5
  <2> QED
    BY <2>6 DEF IsNewer
<1>3. CASE t[1] # "number"
  BY <1>3 DEF IntFloat, ServerTime, IsNewer
<1> QED
  BY <1>2, <1>3
-----------------------------------------------------------------------------
(* The store.                                                              *)

\* Who writes the rows: what a handler saves is a row of an update.
LEMMA RowsOfStep ==
  ASSUME Inv, StampInv, NEW m \in Message, Step(m) \/ CommandLost(m)
  PROVE  StampInv'
<1>1. CASE Save(m)
  <2>1. m.action \notin AclActions
    BY <1>1 DEF Save, Inv, HandlerInv, LabelInv, LabelsOf, AclActions, UpdateActions
  <2>2. \A b \in m.blocks : m.data[b].stamp \in DOMAIN UpdatedAt
    BY <2>1, TimeAssumption
  <2> QED
    BY <1>1, <2>2 DEF Save, StampInv
<1>2. CASE DeleteBlocks(m)
  BY <1>2 DEF DeleteBlocks, StampInv
<1>3. CASE \/ Deliver(m) \/ Ack(m) \/ Incr(m) \/ AppendEntries(m) \/ CacheSandbox(m)
           \/ ReadSubscribers(m) \/ Lookup(m) \/ SendToUser(m)
           \/ WriteIndexes(m) \/ BumpVersions(m) \/ Notify(m) \/ ReadMembers(m)
           \/ CommandLost(m)
  <2>1. blockData' = blockData
    BY <1>3 DEF Deliver, Ack, Incr, AppendEntries, CacheSandbox, ReadSubscribers, Lookup,
                SendToUser, WriteIndexes, BumpVersions, Notify, ReadMembers, CommandLost, store
  <2> QED
    BY <2>1 DEF StampInv
<1> QED
  BY <1>1, <1>2, <1>3 DEF Step

LEMMA StoreKeeps ==
  ASSUME TimeInv, StoreStep
  PROVE  TimeInv'
<1>1. PICK m \in Message : Step(m) \/ CommandLost(m)
  BY DEF StoreStep
<1>2. Inv' /\ StampInv'
  BY <1>1, NextInv, RowsOfStep DEF TimeInv, Next
<1>3. UNCHANGED <<margin, view, rpc, rsubs, rleft, rrows>>
  BY DEF StoreStep, client
<1> QED
  BY <1>2, <1>3 DEF TimeInv, TimeTypeOK, RowsInv, ResentForMargin, Held
-----------------------------------------------------------------------------
(* The requests.                                                           *)

\* What the client's own steps leave of the store.
LEMMA StoreUnchanged ==
  ASSUME Inv, StampInv, UNCHANGED vars
  PROVE  Inv' /\ StampInv'
<1>1. Inv'
  BY NextInv DEF Inv
<1>2. StampInv'
  BY DEF StampInv, vars, store
<1> QED
  BY <1>1, <1>2

\* A request that has come to its end.
LEMMA DoneKeeps ==
  ASSUME TimeTypeOK, RowsInv, ResentForMargin, NEW u \in Client, Done(u), margin' = margin,
         view' \in [Client -> [Block -> {0} \union DOMAIN UpdatedAt]],
         \A v \in Client \ {u} : view'[v] = view[v]
  PROVE  TimeTypeOK' /\ RowsInv' /\ ResentForMargin'
<1>1. NoRows \in [Block -> {0} \union DOMAIN UpdatedAt]
  BY DEF NoRows
<1>2. TimeTypeOK'
  BY <1>1 DEF TimeTypeOK, Done, Proceed
<1>3. rpc'[u] = "idle" /\ rsubs'[u] = {} /\ rleft'[u] = {} /\ rrows'[u] = NoRows
  BY DEF TimeTypeOK, Done, Proceed
<1>4. \A v \in Client \ {u} :
        rpc'[v] = rpc[v] /\ rsubs'[v] = rsubs[v] /\ rleft'[v] = rleft[v] /\ rrows'[v] = rrows[v]
  BY DEF TimeTypeOK, Done, Proceed
<1>5. \A b \in Block : NoRows[b] = 0
  BY DEF NoRows
<1>6. RowsInv'
  <2> SUFFICES ASSUME NEW v \in Client
               PROVE  /\ rpc'[v] \in {"idle", "members"} => rrows'[v] = NoRows
                      /\ rpc'[v] = "new" => rleft'[v] \intersect Held(v)' = {}
                      /\ rleft'[v] \subseteq rsubs'[v]
                      /\ \A b \in Block : rrows'[v][b] # 0 => b \in rsubs'[v]
    BY DEF RowsInv, NoRows
  <2>1. CASE v = u
    BY <1>3, <1>5, <2>1
  <2>2. CASE v # u
    BY <1>4, <2>2 DEF RowsInv, Held
  <2> QED
    BY <2>1, <2>2
<1>7. ResentForMargin'
  BY <1>3, <1>4, <1>5 DEF ResentForMargin
<1> QED
  BY <1>2, <1>6, <1>7

LEMMA RespondKeeps ==
  ASSUME TimeInv, NEW u \in Client, Respond(u) \/ Reload(u)
  PROVE  TimeInv'
<1>1. Inv' /\ StampInv'
  BY StoreUnchanged DEF TimeInv, Respond, Reload
<1>2. PICK f : view' = [view EXCEPT ![u] = [b \in Block |-> f[b]]]
               /\ \A b \in Block : f[b] \in {0} \union DOMAIN UpdatedAt
  <2>1. CASE Respond(u)
    <3> DEFINE g == [b \in Block |->
                      IF b \in Gone(u) THEN 0 ELSE IF rrows[u][b] # 0 THEN rrows[u][b] ELSE view[u][b]]
    <3>1. view' = [view EXCEPT ![u] = [b \in Block |-> g[b]]]
      BY <2>1 DEF Respond
    <3>2. \A b \in Block : g[b] \in {0} \union DOMAIN UpdatedAt
      BY DEF TimeInv, TimeTypeOK
    <3> QED
      BY <3>1, <3>2
  <2>2. CASE Reload(u)
    <3> DEFINE g == [b \in Block |-> IF b \in userBlocks[u] THEN blockData[b] ELSE 0]
    <3>1. view' = [view EXCEPT ![u] = [b \in Block |-> g[b]]]
      BY <2>2 DEF Reload
    <3>2. \A b \in Block : g[b] \in {0} \union DOMAIN UpdatedAt
      BY DEF TimeInv, StampInv
    <3> QED
      BY <3>1, <3>2
  <2> QED
    BY <2>1, <2>2
<1>3. view' \in [Client -> [Block -> {0} \union DOMAIN UpdatedAt]]
  BY <1>2 DEF TimeInv, TimeTypeOK
<1>4. \A v \in Client \ {u} : view'[v] = view[v]
  BY <1>2 DEF TimeInv, TimeTypeOK
<1> QED
  BY <1>1, <1>3, <1>4, DoneKeeps DEF TimeInv, Respond, Reload

LEMMA DisconnectKeeps ==
  ASSUME TimeInv, NEW u \in Client, Disconnect(u)
  PROVE  TimeInv'
<1>1. failures' \in 0..MaxFailures
  BY SettingsAssumption DEF Disconnect, Fail, TimeInv, Inv, TypeOK
<1>2. Inv'
  BY <1>1 DEF Disconnect, TimeInv, Inv, TypeOK, HandlerInv, LabelInv, LocalInv, AllocationInv, Events,
              store, handler
<1>3. StampInv' /\ view' = view /\ margin' = margin
  BY DEF Disconnect, TimeInv, StampInv, store
<1> QED
  BY <1>2, <1>3, DoneKeeps DEF Disconnect, TimeInv, TimeTypeOK

LEMMA RequestKeeps ==
  ASSUME TimeInv, NEW u \in Client, Request(u) \/ ReadSubscribed(u)
  PROVE  TimeInv'
<1>1. Inv' /\ StampInv'
  BY StoreUnchanged DEF TimeInv, Request, ReadSubscribed
<1>2. TimeTypeOK /\ RowsInv /\ ResentForMargin /\ userBlocks[u] \subseteq Block
  BY TimeAssumption DEF TimeInv, Inv, TypeOK
<1>3. rrows[u] = NoRows /\ \A b \in Block : NoRows[b] = 0
  BY <1>2 DEF Request, ReadSubscribed, At, RowsInv, NoRows
<1>4. Valid(u) \subseteq Block
  BY DEF Valid, Held
<1>5. TimeTypeOK'
  <2>1. CASE Request(u)
    BY <1>2, <2>1 DEF Request, Proceed, TimeTypeOK
  <2>2. CASE ReadSubscribed(u)
    BY <1>2, <1>4, <2>2 DEF ReadSubscribed, Proceed, TimeTypeOK
  <2> QED
    BY <2>1, <2>2
<1>6. \A v \in Client : Held(v)' = Held(v)
  BY DEF Request, ReadSubscribed, Held
<1>7. RowsInv'
  <2>1. CASE Request(u)
    BY <1>2, <1>3, <1>6, <2>1 DEF Request, Proceed, At, RowsInv, TimeTypeOK, NoRows
  <2>2. CASE ReadSubscribed(u)
    BY <1>2, <1>3, <1>6, <2>2 DEF ReadSubscribed, Proceed, At, Valid, RowsInv, TimeTypeOK, NoRows
  <2> QED
    BY <2>1, <2>2
<1>8. ResentForMargin'
  BY <1>2 DEF Request, ReadSubscribed, ResentForMargin
<1> QED
  BY <1>1, <1>5, <1>7, <1>8 DEF TimeInv

\* A row that is read is of a block the client is subscribed to, and that of a
\* held block only if it is newer than what the client says it has.
LEMMA ReadKeeps ==
  ASSUME TimeInv, NEW u \in Client, NEW b \in Block, ReadRow(u, b) \/ ReadNew(u, b)
  PROVE  TimeInv'
<1>1. Inv' /\ StampInv'
  BY StoreUnchanged DEF TimeInv, ReadRow, ReadNew
<1>2. TimeTypeOK /\ RowsInv /\ ResentForMargin /\ StampInv
  BY DEF TimeInv
<1>3. PICK left, label :
        /\ rleft' = [rleft EXCEPT ![u] = left] /\ left \subseteq rsubs[u]
        /\ rpc' = [rpc EXCEPT ![u] = label] /\ label \in {"rows", "new", "respond"}
        /\ label = "new" => left \intersect Held(u) = {}
  <2> DEFINE rest == rleft[u] \ {b}
  <2>1. /\ rest \subseteq rsubs[u] /\ NewBlocks(u) \subseteq rsubs[u]
        /\ NewBlocks(u) \intersect Held(u) = {}
        /\ rpc[u] = "new" => rest \intersect Held(u) = {}
    BY <1>2 DEF RowsInv, NewBlocks
  <2>2. CASE ReadRow(u, b)
    <3>1. /\ rleft' = [rleft EXCEPT ![u] = IF AfterRows(u, rest) = "rows" THEN rest ELSE NewBlocks(u)]
          /\ rpc' = [rpc EXCEPT ![u] = AfterRows(u, rest)]
      BY <2>2 DEF ReadRow, Proceed
    <3>2. AfterRows(u, rest) \in {"rows", "new", "respond"}
      BY DEF AfterRows
    <3> HIDE DEF rest
    <3> QED
      BY <2>1, <3>1, <3>2
  <2>3. CASE ReadNew(u, b)
    <3>1. /\ rleft' = [rleft EXCEPT ![u] = rest] /\ rpc[u] = "new"
          /\ rpc' = [rpc EXCEPT ![u] = IF rest # {} THEN "new" ELSE "respond"]
      BY <2>3 DEF ReadNew, Proceed, At
    <3> HIDE DEF rest
    <3> QED
      BY <2>1, <3>1
  <2> QED
    BY <2>2, <2>3
<1>4. b \in rsubs[u] /\ UNCHANGED <<view, rsubs, margin>>
  BY <1>2 DEF ReadRow, ReadNew, RowsInv
<1>5. \/ rrows' = rrows
      \/ /\ rrows' = [rrows EXCEPT ![u][b] = blockData[b]]
         /\ blockData[b] # 0 /\ blockData[b] = view[u][b] => margin[u] = 1
  <2>1. CASE ReadRow(u, b)
    <3>1. \/ rrows' = rrows
          \/ /\ rrows' = [rrows EXCEPT ![u][b] = blockData[b]]
             /\ blockData[b] # 0 /\ IsNewer(u, blockData[b], view[u][b])
      BY <2>1 DEF ReadRow
    <3>2. ASSUME blockData[b] # 0, IsNewer(u, blockData[b], view[u][b]), blockData[b] = view[u][b]
          PROVE  margin[u] = 1
      <4>1. blockData[b] \in DOMAIN UpdatedAt /\ margin[u] \in {0, 1}
        BY <1>2, <3>2 DEF StampInv, TimeTypeOK
      <4>2. IsNewer(u, blockData[b], blockData[b])
        BY <3>2
      <4> QED
        BY <4>1, <4>2, SameTime
    <3> QED
      BY <3>1, <3>2
  <2>2. CASE ReadNew(u, b)
    <3>1. rrows' = [rrows EXCEPT ![u][b] = blockData[b]]
      BY <2>2 DEF ReadNew
    <3>2. view[u][b] = 0 \/ b \in Held(u)
      BY DEF Held
    <3>3. b \notin Held(u)
      BY <1>2, <2>2 DEF ReadNew, At, RowsInv, NewBlocks
    <3> QED
      BY <3>1, <3>2, <3>3
  <2> QED
    BY <2>1, <2>2
<1>6. /\ rpc'[u] = label /\ rleft'[u] = left
      /\ \A v \in Client \ {u} : rpc'[v] = rpc[v] /\ rleft'[v] = rleft[v] /\ rrows'[v] = rrows[v]
  BY <1>2, <1>3, <1>5 DEF TimeTypeOK
<1>7. \A c \in Block : \/ rrows'[u][c] = rrows[u][c]
                       \/ /\ c = b /\ rrows'[u][c] = blockData[b]
                          /\ blockData[b] # 0 /\ blockData[b] = view[u][b] => margin[u] = 1
  BY <1>2, <1>5 DEF TimeTypeOK
<1>8. TimeTypeOK'
  <2>1. left \subseteq Block
    BY <1>2, <1>3 DEF TimeTypeOK
  <2>2. rrows' \in [Client -> [Block -> {0} \union DOMAIN UpdatedAt]]
    <3>1. blockData[b] \in {0} \union DOMAIN UpdatedAt
      BY <1>2 DEF StampInv
    <3>2. rrows \in [Client -> [Block -> {0} \union DOMAIN UpdatedAt]]
      BY <1>2 DEF TimeTypeOK
    <3>3. [rrows EXCEPT ![u][b] = blockData[b]] \in [Client -> [Block -> {0} \union DOMAIN UpdatedAt]]
      BY <3>1, <3>2
    <3> QED
      BY <1>5, <3>2, <3>3
  <2> QED
    BY <1>2, <1>3, <1>4, <2>1, <2>2 DEF TimeTypeOK
<1>9. RowsInv'
  <2> SUFFICES ASSUME NEW v \in Client
               PROVE  /\ rpc'[v] \in {"idle", "members"} => rrows'[v] = NoRows
                      /\ rpc'[v] = "new" => rleft'[v] \intersect Held(v)' = {}
                      /\ rleft'[v] \subseteq rsubs'[v]
                      /\ \A c \in Block : rrows'[v][c] # 0 => c \in rsubs'[v]
    BY DEF RowsInv, NoRows
  <2>1. CASE v = u
    <3>1. rsubs'[u] = rsubs[u] /\ Held(u)' = Held(u)
      BY <1>4 DEF Held
    <3>3. label \notin {"idle", "members"}
      BY <1>3
    <3>2. \A c \in Block : rrows'[u][c] # 0 => c \in rsubs[u]
      BY <1>2, <1>4, <1>7 DEF RowsInv
    <3> QED
      BY <1>3, <1>6, <2>1, <3>1, <3>2, <3>3
  <2>2. CASE v # u
    BY <1>2, <1>4, <1>6, <2>2 DEF RowsInv, Held
  <2> QED
    BY <2>1, <2>2
<1>10. ResentForMargin'
  <2> SUFFICES ASSUME NEW v \in Client, NEW c \in Block, rrows'[v][c] # 0, rrows'[v][c] = view[v][c]
               PROVE  margin[v] = 1
    BY <1>4 DEF ResentForMargin
  <2>1. CASE v = u
    BY <1>2, <1>7, <2>1 DEF ResentForMargin
  <2>2. CASE v # u
    BY <1>2, <1>6, <2>2 DEF ResentForMargin
  <2> QED
    BY <2>1, <2>2
<1> QED
  BY <1>1, <1>8, <1>9, <1>10 DEF TimeInv
-----------------------------------------------------------------------------
(* The theorems.                                                           *)

LEMMA TimeInvInit == TimeInit => TimeInv
<1> SUFFICES ASSUME TimeInit
             PROVE  TimeInv
  OBVIOUS
<1>1. Inv
  BY InitInv DEF TimeInit
<1>2. StampInv
  BY TimeAssumption DEF TimeInit, Init, StampInv
<1>3. TimeTypeOK
  BY <1>2 DEF TimeInit, TimeTypeOK, StampInv, NoRows
<1>4. RowsInv /\ ResentForMargin
  BY DEF TimeInit, RowsInv, ResentForMargin, NoRows
<1> QED
  BY <1>1, <1>2, <1>3, <1>4 DEF TimeInv

LEMMA TimeInvNext ==
  ASSUME TimeInv, [TimeNext]_timeVars
  PROVE  TimeInv'
<1>1. CASE StoreStep
  BY <1>1, StoreKeeps
<1>2. CASE \E u \in Client : ClientStep(u) \/ Disconnect(u)
  BY <1>2, RequestKeeps, ReadKeeps, RespondKeeps, DisconnectKeeps DEF ClientStep
<1>3. CASE UNCHANGED timeVars
  <2>1. UNCHANGED vars /\ UNCHANGED <<margin, view, rpc, rsubs, rleft, rrows>>
    BY <1>3 DEF timeVars, client
  <2>2. Inv' /\ StampInv'
    BY <2>1, StoreUnchanged DEF TimeInv
  <2> QED
    BY <2>1, <2>2 DEF TimeInv, TimeTypeOK, RowsInv, ResentForMargin, Held
<1> QED
  BY <1>1, <1>2, <1>3 DEF TimeNext

LEMMA TimeInvAlways == TimeSpec => []TimeInv
<1>1. TimeInit => TimeInv
  BY TimeInvInit
<1>2. TimeInv /\ [TimeNext]_timeVars => TimeInv'
  BY TimeInvNext
<1> QED
  BY <1>1, <1>2, PTL DEF TimeSpec

\* handle_get_updates answers with rows the client was subscribed to when its
\* request was read, and never with the row of a block it also reports as
\* deleted, whatever the handlers change between the reads of one request.
THEOREM AnswersAreSubscribed == TimeSpec => []AnswersOnlySubscribed
<1>1. TimeInv => AnswersOnlySubscribed
  BY DEF TimeInv, RowsInv, Gone, AnswersOnlySubscribed
<1> QED
  BY <1>1, TimeInvAlways, PTL

\* The row the client holds is sent to it again only because it takes a margin
\* off its times, for every content of the updated_at field: without one, the
\* client's reading of the stored text, sent back and cut to whole seconds, is
\* never behind the server's.
THEOREM ResentOnlyForMargin == TimeSpec => []ResentForMargin
<1>1. TimeInv => ResentForMargin
  BY DEF TimeInv
<1> QED
  BY <1>1, TimeInvAlways, PTL
=============================================================================
