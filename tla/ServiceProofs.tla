---------------------------- MODULE ServiceProofs ----------------------------
(***************************************************************************)
(* The Redis client is a singleton, messages are settled as they were      *)
(* handled, and a shutdown leaves nothing open, for every set of messages  *)
(* and every bound.                                                        *)
(***************************************************************************)
EXTENDS Service, FiniteSetTheorems, TLAPS

\* The open clients are the one the process knows of and the one that the
\* shutdown could not close.
Known == IF redisClient \in {"open", "closing"} THEN 1 ELSE 0
Left  == IF stuck THEN 1 ELSE 0
ClientInv == clients = Known + Left

\* A label past "work" of a valid message has been earned by its handler, one
\* that rejects by what is wrong with it; a task without a connection settles
\* nothing.
HandlerOf(t) ==
  /\ at[t] # "idle" => t[2] <= deliveries[t[1]]
  /\ at[t] = "ack" /\ Kind[t[1]] = "valid" => ran[t[1]] > 0
  /\ at[t] = "reject" /\ via[t] # NoConnection => Kind[t[1]] = "notJson" \/ t[1] \in raised
HandlerInv == \A t \in Task : HandlerOf(t)

\* The handlers of m that are through with their work.
Through(m) == {k \in 1..MaxDeliveries : at[<<m, k>>] \in {"ack", "reject", "ended"}}

\* A message is back in the queue, and so delivered again, once for each
\* connection that was lost or closed.
Requeued(m) == IF broker[m] = "ready" THEN 1 ELSE 0
MessageOf(m) ==
  /\ broker[m] = "acked" /\ Kind[m] = "valid" => ran[m] > 0
  /\ broker[m] = "rejected" => Kind[m] = "notJson" \/ m \in raised
  /\ deliveries[m] + Requeued(m) <= 1 + losses + Cardinality(Closed)
  /\ ran[m] <= Cardinality(Through(m))
BrokerInv == \A m \in Message : MessageOf(m)

\* The connections are made in order.
UsedUpTo(n) == \A c \in Connection : connections[c] = "unused" <=> c > n

\* The consumer task holds the connection it sets up, and the one it listens
\* on; it has lost sight of every other that is not closed.
ConsumerInv ==
  /\ \E n \in 0..MaxConnections : UsedUpTo(n)
  /\ consumer = "setup" => SettingUp \in Connection /\ connections[SettingUp] = "open"
  /\ consumer \in {"listening", "closing"} =>
       held \in Connection /\ connections[held] \in {"consuming", "lost"}
  /\ \A c \in Connection \ leaked :
       \/ connections[c] \in {"unused", "closed"}
       \/ consumer = "setup" /\ c = SettingUp
       \/ consumer \in {"listening", "closing"} /\ c = held

\* The consumer task has ended before the Redis client goes, once.
ShutdownInv ==
  /\ at[Main] = "stopping" => consumer \in {"closing", "ended"}
  /\ consumer = "closing" => at[Main] = "stopping"
  /\ at[Main] \in {"closing", "down"} => consumer = "ended"
  /\ at[Main] = "down" /\ ~late => redisClient # "open"
  /\ stuck => at[Main] = "down"

Inv ==
  /\ ServiceTypeOK /\ ClientInv /\ HandlerInv /\ BrokerInv /\ ConsumerInv /\ ShutdownInv
-----------------------------------------------------------------------------
LEMMA MainIsNoTask == Main \notin Task /\ Main \in Caller /\ Task \subseteq Caller
BY DEF Main, Task, Caller

LEMMA TaskParts ==
  ASSUME NEW t \in Task
  PROVE  t[1] \in Message /\ t[2] \in 1..MaxDeliveries /\ t = <<t[1], t[2]>> /\ t \in Caller /\ t # Main
BY MainIsNoTask DEF Task

LEMMA FailTyped ==
  ASSUME failures \in 0..MaxFailures, Fail
  PROVE  failures' \in 0..MaxFailures /\ failures' = failures + 1
BY BoundAssumption DEF Fail

LEMMA ClosedFinite ==
  /\ IsFiniteSet(Closed) /\ Cardinality(Closed) \in Nat
  /\ IsFiniteSet(Closed)' /\ Cardinality(Closed)' \in Nat
<1>1. IsFiniteSet(Connection)
  BY BoundAssumption, FS_Interval DEF Connection
<1>2. Closed \subseteq Connection /\ Closed' \subseteq Connection
  BY DEF Closed
<1> QED
  BY <1>1, <1>2, FS_Subset, FS_CardinalityType

LEMMA ThroughFinite ==
  ASSUME NEW m \in Message
  PROVE  /\ IsFiniteSet(Through(m)) /\ Cardinality(Through(m)) \in Nat
         /\ IsFiniteSet(Through(m)') /\ Cardinality(Through(m)') \in Nat
<1>1. IsFiniteSet(1..MaxDeliveries)
  BY BoundAssumption, FS_Interval
<1>2. Through(m) \subseteq 1..MaxDeliveries /\ Through(m)' \subseteq 1..MaxDeliveries
  BY DEF Through
<1> QED
  BY <1>1, <1>2, FS_Subset, FS_CardinalityType

\* A message is not handled more often than it was delivered.
LEMMA RanBounded ==
  ASSUME ServiceTypeOK, HandlerInv, BrokerInv, NEW m \in Message
  PROVE  ran[m] <= deliveries[m] /\ Cardinality(Through(m)) <= deliveries[m]
<1>1. deliveries[m] \in Nat /\ ran[m] \in Nat
  BY BoundAssumption DEF ServiceTypeOK
<1>2. Through(m) \subseteq 1..deliveries[m]
  BY <1>1 DEF Through, HandlerInv, HandlerOf, Task
<1>3. IsFiniteSet(1..deliveries[m]) /\ Cardinality(1..deliveries[m]) = deliveries[m]
  <2>1. PICK d \in Nat : d = deliveries[m]
    BY <1>1
  <2>2. IsFiniteSet(1..d) /\ Cardinality(1..d) = d
    BY FS_Interval
  <2> QED
    BY <2>1, <2>2
<1>4. Cardinality(Through(m)) <= deliveries[m]
  BY <1>2, <1>3, FS_Subset
<1> QED
  BY <1>1, <1>4, ThroughFinite DEF BrokerInv, MessageOf

\* ServiceTypeOK in two parts: what a caller is at and the client's lock, and
\* the rest.
Labels ==
  {"idle", "start", "client", "wait", "create", "work", "ack", "reject", "ended", "ping",
   "rabbit", "serving", "stopping", "closing", "down", "failed"}

LockTyped ==
  /\ at \in [Caller -> Labels]
  /\ redisClient \in {"none", "creating", "open", "closing"}
  /\ \A c, d \in Caller : at[c] = "create" /\ at[d] = "create" => c = d
  /\ redisClient = "creating" <=> \E c \in Caller : at[c] = "create"
  /\ redisClient = "closing" <=> at[Main] = "closing"

DataTyped ==
  /\ broker \in [Message -> {"ready", "unacked", "acked", "rejected"}]
  /\ deliveries \in [Message -> 0..MaxDeliveries]
  /\ via \in [Task -> Connection \union {NoConnection}]
  /\ connections \in [Connection -> {"unused", "open", "consuming", "lost", "closed"}]
  /\ consumer \in {"connect", "setup", "listening", "pause", "closing", "ended"}
  /\ held \in Connection \union {NoConnection}
  /\ clients \in Nat
  /\ ran \in [Message -> 0..MaxDeliveries]
  /\ raised \subseteq Message
  /\ leaked \subseteq Connection
  /\ late \in BOOLEAN
  /\ stuck \in BOOLEAN
  /\ failures \in 0..MaxFailures
  /\ losses \in 0..MaxLosses

LEMMA TypeParts ==
  (ServiceTypeOK <=> LockTyped /\ DataTyped) /\ (ServiceTypeOK' <=> LockTyped' /\ DataTyped')
BY DEF ServiceTypeOK, LockTyped, DataTyped, Labels
-----------------------------------------------------------------------------
(* get_redis_pool.                                                         *)

\* A caller that goes from one label to another leaves the lock as it is, when
\* neither label is the lock holder's.
LEMMA LockKept ==
  ASSUME LockTyped, NEW c \in Caller, NEW label \in Labels \ {"create"}, Goto(c, label),
         at[c] # "create", c = Main => label # "closing" /\ at[c] # "closing",
         redisClient' = redisClient
  PROVE  LockTyped'
<1>1. at' = [at EXCEPT ![c] = label] /\ DOMAIN at = Caller
  BY DEF Goto, LockTyped
<1>2. \A a \in Caller : at'[a] = "create" <=> at[a] = "create"
  BY <1>1
<1>3. at'[Main] = "closing" <=> at[Main] = "closing"
  BY <1>1, MainIsNoTask
<1>4. at' \in [Caller -> Labels]
  BY <1>1 DEF LockTyped
<1> QED
  BY <1>2, <1>3, <1>4 DEF LockTyped

LEMMA LockTaken ==
  ASSUME LockTyped, NEW c \in Caller, at[c] # "closing", Goto(c, "create"),
         redisClient \notin {"creating", "closing"}, redisClient' = "creating"
  PROVE  LockTyped'
<1>1. at' = [at EXCEPT ![c] = "create"] /\ DOMAIN at = Caller
  BY DEF Goto, LockTyped
<1>2. \A a \in Caller : at'[a] = "create" <=> a = c
  BY <1>1 DEF LockTyped
<1>3. at'[Main] # "closing"
  BY <1>1, MainIsNoTask DEF LockTyped
<1>4. at' \in [Caller -> Labels]
  BY <1>1 DEF LockTyped, Labels
<1> QED
  BY <1>2, <1>3, <1>4 DEF LockTyped

LEMMA ClientStepType ==
  ASSUME ServiceTypeOK, ClientInv, NEW c \in Caller, ClientStep(c)
  PROVE  ServiceTypeOK' /\ ClientInv'
<1>1. LockTyped /\ DataTyped
  BY TypeParts
<1>2. AfterClient(c) \in {"ping", "work"}
  BY DEF AfterClient
<1>3. CASE AskClient(c) \/ GetLock(c)
  <2>1. UNCHANGED <<delivery, lifecycle, clients, late, stuck, ran, raised, failures, losses>>
    BY <1>3 DEF AskClient, GetLock
  <2>2. DataTyped'
    BY <1>1, <2>1 DEF DataTyped, delivery, lifecycle
  <2>3. CASE redisClient' = redisClient
    <3>1. PICK label \in {"ping", "work", "wait"} : Goto(c, label) /\ at[c] \in {"client", "wait"}
      BY <1>1, <1>2, <1>3, <2>3 DEF AskClient, GetLock, LockFree, SecondLook, LockTyped
    <3>2. LockTyped'
      BY <1>1, <2>3, <3>1, LockKept DEF Labels
    <3> QED
      BY <2>1, <2>2, <2>3, <3>2, TypeParts DEF ClientInv, Known, Left
  <2>4. CASE redisClient' # redisClient
    <3>1. /\ redisClient = "none" /\ redisClient' = "creating" /\ Goto(c, "create")
          /\ at[c] \in {"client", "wait"}
      BY <1>1, <1>3, <2>4 DEF AskClient, GetLock, LockFree, SecondLook, LockTyped
    <3>2. LockTyped'
      BY <1>1, <3>1, LockTaken
    <3> QED
      BY <2>1, <2>2, <3>1, <3>2, TypeParts DEF ClientInv, Known, Left
  <2> QED
    BY <2>3, <2>4
<1>4. CASE Create(c)
  <2>1. redisClient = "creating" /\ \A d \in Caller \ {c} : at[d] # "create"
    BY <1>1, <1>4 DEF Create, LockTyped
  <2>2. PICK label \in {"ping", "work", "failed", "reject"} : Goto(c, label)
    BY <1>2, <1>4 DEF Create
  <2>3. at' = [at EXCEPT ![c] = label] /\ DOMAIN at = Caller
    BY <1>1, <2>2 DEF Goto, LockTyped
  <2>4. \A d \in Caller : at'[d] # "create"
    BY <2>1, <2>3
  <2>5. at'[Main] # "closing"
    BY <1>1, <2>1, <2>3, MainIsNoTask DEF LockTyped
  <2>6. raised' \subseteq Message
    BY <1>1, <1>4, TaskParts DEF Create, DataTyped, Caller
  <2>7. redisClient' \in {"open", "none"} /\ UNCHANGED <<delivery, lifecycle, stuck, ran, losses>>
    BY <1>4 DEF Create
  <2>8. failures' \in 0..MaxFailures /\ clients' \in Nat /\ late' \in BOOLEAN /\ ClientInv'
    <3>1. clients = Left /\ clients \in Nat /\ Left' = Left /\ late \in BOOLEAN
      BY <1>1, <2>1, <2>7 DEF ClientInv, Known, Left, DataTyped
    <3>2. CASE redisClient' = "open"
      BY <1>1, <1>4, <3>1, <3>2 DEF Create, DataTyped, ClientInv, Known
    <3>3. CASE redisClient' = "none"
      BY <1>1, <1>4, <3>1, <3>3, FailTyped DEF Create, DataTyped, ClientInv, Known, Left
    <3> QED
      BY <2>7, <3>2, <3>3
  <2>9. at' \in [Caller -> Labels]
    BY <1>1, <2>3 DEF LockTyped, Labels
  <2>10. LockTyped'
    BY <2>4, <2>5, <2>7, <2>9 DEF LockTyped
  <2>11. DataTyped'
    BY <1>1, <2>6, <2>7, <2>8 DEF DataTyped, delivery, lifecycle
  <2> QED
    BY <2>8, <2>10, <2>11, TypeParts
<1> QED
  BY <1>3, <1>4 DEF ClientStep
-----------------------------------------------------------------------------
(* The types.                                                              *)

\* What moves a caller between two labels that have nothing to do with the
\* lock keeps the types, if it does with the rest.
LEMMA MoveType ==
  ASSUME ServiceTypeOK, ClientInv, NEW c \in Caller, NEW label \in Labels \ {"create", "closing"},
         Goto(c, label), at[c] \notin {"create", "closing"}, DataTyped',
         UNCHANGED <<redisClient, clients, stuck>>
  PROVE  ServiceTypeOK' /\ ClientInv'
<1>1. LockTyped'
  BY LockKept, TypeParts
<1>2. ClientInv'
  BY DEF ClientInv, Known, Left
<1> QED
  BY <1>1, <1>2, TypeParts

LEMMA DeliverType ==
  ASSUME Inv, NEW m \in Message, NEW c \in Connection, Deliver(m, c)
  PROVE  ServiceTypeOK' /\ ClientInv'
<1> DEFINE t == <<m, deliveries[m] + 1>>
<1>1. DataTyped /\ ServiceTypeOK /\ ClientInv /\ HandlerInv
  BY TypeParts DEF Inv
<1>2. deliveries[m] \in Nat /\ t \in Task /\ t \in Caller
  BY <1>1, BoundAssumption DEF Deliver, DataTyped, Task, Caller
<1>3. at[t] = "idle"
  <2> SUFFICES ASSUME at[t] # "idle"
               PROVE  deliveries[m] + 1 <= deliveries[m]
    BY <1>2
  <2> QED
    BY <1>1, <1>2 DEF HandlerInv, HandlerOf
<1>4. DataTyped'
  BY <1>1, <1>2, BoundAssumption DEF Deliver, DataTyped, lifecycle, redis
<1>5. UNCHANGED <<redisClient, clients, stuck>>
  BY DEF Deliver, redis
<1>6. Goto(t, "start") /\ "start" \in Labels \ {"create", "closing"}
  BY DEF Deliver, Labels
<1> QED
  BY <1>1, <1>2, <1>3, <1>4, <1>5, <1>6, MoveType

\* A handler at work is one of those delivered, and not through.
LEMMA WorkBound ==
  ASSUME Inv, NEW t \in Task, at[t] = "work"
  PROVE  ran[t[1]] + 1 <= deliveries[t[1]]
<1> DEFINE m == t[1]
           k == t[2]
<1>1. m \in Message /\ k \in 1..MaxDeliveries /\ t = <<m, k>>
  BY TaskParts
<1>2. deliveries[m] \in Nat /\ ran[m] \in Nat /\ k \in 1..deliveries[m]
  BY <1>1, BoundAssumption DEF Inv, ServiceTypeOK, HandlerInv, HandlerOf
<1>3. PICK d \in Nat : d = deliveries[m]
  BY <1>2
<1>4. Through(m) \subseteq (1..d) \ {k}
  BY <1>1, <1>2, <1>3 DEF Through, Inv, HandlerInv, HandlerOf, Task
<1>5. /\ IsFiniteSet((1..d) \ {k})
      /\ Cardinality((1..d) \ {k}) = d - 1
  <2>1. IsFiniteSet(1..d) /\ Cardinality(1..d) = d
    BY FS_Interval
  <2>2. PICK x : x = k
    OBVIOUS
  <2>3. /\ IsFiniteSet((1..d) \ {x})
        /\ Cardinality((1..d) \ {x}) = IF x \in 1..d THEN d - 1 ELSE d
    BY <2>1, FS_RemoveElement
  <2> QED
    BY <1>2, <1>3, <2>2, <2>3
<1>6. Cardinality(Through(m)) <= d - 1
  BY <1>4, <1>5, FS_Subset
<1>7. ran[m] <= Cardinality(Through(m)) /\ Cardinality(Through(m)) \in Nat
  BY <1>1, ThroughFinite DEF Inv, BrokerInv, MessageOf
<1> QED
  BY <1>2, <1>3, <1>6, <1>7

LEMMA TaskType ==
  ASSUME Inv, NEW t \in Task, Start(t) \/ Work(t) \/ Settle(t)
  PROVE  ServiceTypeOK' /\ ClientInv'
<1>1. DataTyped /\ ServiceTypeOK /\ ClientInv
  BY TypeParts DEF Inv
<1>2. t \in Caller /\ t[1] \in Message
  BY TaskParts
<1>3. PICK label \in {"client", "ack", "reject", "ended"} :
        Goto(t, label) /\ at[t] \in {"start", "work", "ack", "reject"}
  BY <1>2, KindAssumption DEF Start, Work, Settle, FirstStep
<1>4. UNCHANGED <<lifecycle, redis, raised, failures, losses, deliveries>>
  BY DEF Start, Work, Settle, delivery
<1>5. broker' \in [Message -> {"ready", "unacked", "acked", "rejected"}]
  BY <1>1, <1>2 DEF Start, Work, Settle, Outcome, DataTyped, delivery
<1>6. via' \in [Task -> Connection \union {NoConnection}]
  BY <1>1 DEF Start, Work, Settle, DataTyped, delivery
<1>7. ran' \in [Message -> 0..MaxDeliveries]
  <2>1. CASE Start(t) \/ Settle(t)
    BY <1>1, <2>1 DEF Start, Settle, DataTyped
  <2>2. CASE Work(t)
    <3>1. ran[t[1]] + 1 <= deliveries[t[1]]
      BY <2>2, WorkBound DEF Work
    <3>2. ran[t[1]] + 1 \in 0..MaxDeliveries
      BY <1>1, <1>2, <3>1, BoundAssumption DEF DataTyped
    <3> QED
      BY <1>1, <2>2, <3>2 DEF Work, DataTyped
  <2> QED
    BY <2>1, <2>2
<1>8. DataTyped'
  BY <1>1, <1>4, <1>5, <1>6, <1>7 DEF DataTyped, lifecycle, redis
<1>9. UNCHANGED <<redisClient, clients, stuck>>
  BY <1>4 DEF redis
<1> QED
  BY <1>1, <1>2, <1>3, <1>8, <1>9, MoveType DEF Labels

LEMMA AbandonType ==
  ASSUME ServiceTypeOK, ClientInv, NEW c \in Connection, NEW cancelled, Abandon(c, cancelled),
         clients' = clients, stuck' = stuck
  PROVE  /\ LockTyped' /\ ClientInv'
         /\ broker' \in [Message -> {"ready", "unacked", "acked", "rejected"}]
         /\ via' \in [Task -> Connection \union {NoConnection}]
<1>1. LockTyped /\ DataTyped
  BY TypeParts
<1>2. cancelled \subseteq Task
  BY DEF Abandon
<1>3. \A a \in Caller : at'[a] = IF a \in cancelled THEN "ended" ELSE at[a]
  BY DEF Abandon
<1>4. at' \in [Caller -> Labels]
  BY <1>1 DEF Abandon, LockTyped, Labels
<1>5. at'[Main] = at[Main]
  BY <1>2, <1>3, MainIsNoTask
<1>6. CASE \E t \in cancelled : at[t] = "create"
  <2>1. redisClient = "creating" /\ redisClient' = "none"
    BY <1>1, <1>2, <1>6, MainIsNoTask DEF Abandon, LockTyped
  <2>2. \A a \in Caller : at'[a] # "create"
    BY <1>1, <1>2, <1>3, <1>6, MainIsNoTask DEF LockTyped
  <2>3. LockTyped' /\ ClientInv'
    BY <1>1, <1>4, <1>5, <2>1, <2>2 DEF LockTyped, ClientInv, Known, Left
  <2> QED
    BY <1>1, <2>3 DEF Abandon, DataTyped
<1>7. CASE ~\E t \in cancelled : at[t] = "create"
  <2>1. redisClient' = redisClient
    BY <1>7 DEF Abandon
  <2>2. \A a \in Caller : at'[a] = "create" <=> at[a] = "create"
    BY <1>3, <1>7
  <2>3. LockTyped' /\ ClientInv'
    BY <1>1, <1>4, <1>5, <2>1, <2>2 DEF LockTyped, ClientInv, Known, Left
  <2> QED
    BY <1>1, <2>3 DEF Abandon, DataTyped
<1> QED
  BY <1>6, <1>7

\* A set up connection, seen from the numbers.
LEMMA InSetUp ==
  ASSUME NEW n \in 1..MaxConnections
  PROVE  (UsedUpTo(n) => SettingUp = n) /\ (UsedUpTo(n)' => SettingUp' = n)
<1>1. n \in Connection /\ \A c \in Connection : c \in Nat
  BY BoundAssumption DEF Connection
<1> DEFINE Top(c) == connections[c] # "unused" /\ \A d \in Connection : d > c => connections[d] = "unused"
<1>2. ASSUME UsedUpTo(n)
      PROVE  Top(n) /\ \A c \in Connection : Top(c) => c = n
  BY <1>1, <1>2 DEF UsedUpTo
<1>3. ASSUME UsedUpTo(n)'
      PROVE  Top(n)' /\ \A c \in Connection : Top(c)' => c = n
  BY <1>1, <1>3 DEF UsedUpTo
<1> QED
  BY <1>1, <1>2, <1>3 DEF SettingUp

LEMMA NextInLine ==
  ASSUME NEW n \in 0..MaxConnections, UsedUpTo(n), Unused # {}
  PROVE  n + 1 \in Connection /\ NextUnused = n + 1 /\ connections[n + 1] = "unused"
<1>1. \A c \in Connection : c \in Nat /\ 1 <= c /\ c <= MaxConnections
  BY BoundAssumption DEF Connection
<1>2. Unused = {c \in Connection : c > n} /\ n \in Nat
  BY DEF Unused, UsedUpTo
<1>3. n + 1 \in Connection
  BY <1>1, <1>2, BoundAssumption DEF Connection
<1>4. n + 1 \in Unused /\ \A d \in Unused : n + 1 <= d
  BY <1>1, <1>2, <1>3
<1>5. \A c \in Unused : (\A d \in Unused : c <= d) => c = n + 1
  BY <1>1, <1>2, <1>4
<1> QED
  BY <1>3, <1>4, <1>5 DEF NextUnused, Unused

LEMMA ConsumerType ==
  ASSUME Inv, ConsumerStep
  PROVE  ServiceTypeOK' /\ ClientInv'
<1>1. LockTyped /\ DataTyped /\ ServiceTypeOK /\ ClientInv /\ failures \in Nat
  BY TypeParts DEF Inv, DataTyped
<1>2. ASSUME Connect \/ SetUp \/ Retry
      PROVE  ServiceTypeOK' /\ ClientInv'
  <2>1. UNCHANGED <<delivery, at, redis, ran, raised, losses>>
    BY <1>2 DEF Connect, SetUp, Retry
  <2>2. failures' \in 0..MaxFailures /\ failures <= failures'
    BY <1>1, <1>2, FailTyped DEF Connect, SetUp, Retry, DataTyped
  <2>3. SetUp => SettingUp \in Connection
    BY DEF SetUp, Inv, ConsumerInv
  <2>4. Connect /\ Unused # {} => NextUnused \in Connection
    BY NextInLine DEF Inv, ConsumerInv
  <2>5. connections' \in [Connection -> {"unused", "open", "consuming", "lost", "closed"}]
    BY <1>1, <1>2, <2>3, <2>4 DEF Connect, SetUp, Retry, DataTyped
  <2>6. /\ consumer' \in {"connect", "setup", "listening", "pause", "closing", "ended"}
        /\ held' \in Connection \union {NoConnection} /\ leaked' \subseteq Connection
    BY <1>1, <1>2, <2>3 DEF Connect, SetUp, Retry, DataTyped
  <2>7. LockTyped'
    BY <1>1, <2>1 DEF LockTyped, redis
  <2>8. DataTyped'
    BY <1>1, <2>1, <2>2, <2>5, <2>6 DEF DataTyped, delivery, redis
  <2>9. ClientInv'
    BY <1>1, <2>1 DEF ClientInv, Known, Left, redis
  <2> QED
    BY <2>7, <2>8, <2>9, TypeParts
<1>3. ASSUME CloseConnection
      PROVE  ServiceTypeOK' /\ ClientInv'
  <2>1. held \in Connection
    BY <1>3 DEF CloseConnection, Inv, ConsumerInv
  <2>2. clients' = clients /\ stuck' = stuck
    BY <1>3 DEF CloseConnection
  <2>3. CASE UNCHANGED <<connections, broker, via, at, redisClient>>
    <3>1. failures' \in 0..MaxFailures /\ leaked' \subseteq Connection
      BY <1>1, <1>3, <2>1, FailTyped DEF CloseConnection, DataTyped
    <3>2. DataTyped'
      BY <1>1, <1>3, <2>3, <3>1 DEF CloseConnection, DataTyped
    <3>3. LockTyped' /\ ClientInv'
      BY <1>1, <2>2, <2>3 DEF LockTyped, ClientInv, Known, Left
    <3> QED
      BY <3>2, <3>3, TypeParts
  <2>4. CASE ~UNCHANGED <<connections, broker, via, at, redisClient>>
    <3>1. PICK cancelled : Abandon(held, cancelled)
      BY <1>3, <2>4 DEF CloseConnection
    <3>2. PICK c \in Connection : c = held
      BY <2>1
    <3>3. Abandon(c, cancelled)
      BY <3>1, <3>2
    <3>4. /\ LockTyped' /\ ClientInv'
          /\ broker' \in [Message -> {"ready", "unacked", "acked", "rejected"}]
          /\ via' \in [Task -> Connection \union {NoConnection}]
      BY <1>1, <2>2, <3>3, AbandonType
    <3>5. UNCHANGED <<leaked, failures>> /\ connections' = [connections EXCEPT ![held] = "closed"]
      BY <1>3, <2>4 DEF CloseConnection
    <3>6. DataTyped'
      BY <1>1, <1>3, <3>4, <3>5 DEF CloseConnection, DataTyped
    <3> QED
      BY <3>4, <3>6, TypeParts
  <2> QED
    BY <2>3, <2>4
<1> QED
  BY <1>2, <1>3 DEF ConsumerStep

LEMMA ConnectionType ==
  ASSUME Inv, NEW c \in Connection, LoseConnection(c) \/ Reconnect(c)
  PROVE  ServiceTypeOK' /\ ClientInv'
<1>1. LockTyped /\ DataTyped /\ ServiceTypeOK /\ ClientInv
  BY TypeParts DEF Inv
<1>2. ASSUME LoseConnection(c)
      PROVE  ServiceTypeOK' /\ ClientInv'
  <2>1. PICK cancelled : Abandon(c, cancelled)
    BY <1>2 DEF LoseConnection
  <2>2. clients' = clients /\ stuck' = stuck
    BY <1>2 DEF LoseConnection
  <2>3. /\ LockTyped' /\ ClientInv'
        /\ broker' \in [Message -> {"ready", "unacked", "acked", "rejected"}]
        /\ via' \in [Task -> Connection \union {NoConnection}]
    BY <1>1, <2>1, <2>2, AbandonType
  <2>4. losses' \in 0..MaxLosses
    BY <1>1, <1>2, BoundAssumption DEF LoseConnection, DataTyped
  <2>5. DataTyped'
    BY <1>1, <1>2, <2>3, <2>4 DEF LoseConnection, DataTyped
  <2> QED
    BY <2>3, <2>5, TypeParts
<1>3. ASSUME Reconnect(c)
      PROVE  ServiceTypeOK' /\ ClientInv'
  BY <1>1, <1>3, TypeParts DEF Reconnect, LockTyped, DataTyped, ClientInv, Known, Left, delivery, redis
<1> QED
  BY <1>2, <1>3

LEMMA MainType ==
  ASSUME Inv, CheckService \/ Shutdown \/ CloseRedis \/ ClientClosed
  PROVE  ServiceTypeOK' /\ ClientInv'
<1>1. LockTyped /\ DataTyped /\ ServiceTypeOK /\ ClientInv /\ failures \in Nat
  BY TypeParts DEF Inv, DataTyped
<1>2. Main \in Caller
  BY MainIsNoTask
<1>3. ASSUME CheckService \/ Shutdown
      PROVE  ServiceTypeOK' /\ ClientInv'
  <2>1. PICK label \in {"rabbit", "serving", "failed", "stopping"} :
          Goto(Main, label) /\ at[Main] \notin {"create", "closing"}
    BY <1>3 DEF CheckService, Shutdown
  <2>2. failures' \in 0..MaxFailures
    BY <1>1, <1>3, FailTyped DEF CheckService, Shutdown, DataTyped
  <2>3. consumer = "setup" => SettingUp \in Connection
    BY DEF Inv, ConsumerInv
  <2>4. DataTyped'
    BY <1>1, <1>3, <2>2, <2>3
    DEF CheckService, Shutdown, Cancelled, DataTyped, delivery, lifecycle, redis
  <2>5. UNCHANGED <<redisClient, clients, stuck>>
    BY <1>3 DEF CheckService, Shutdown, redis
  <2> QED
    BY <1>1, <1>2, <2>1, <2>4, <2>5, MoveType DEF Labels
<1>4. ASSUME CloseRedis
      PROVE  ServiceTypeOK' /\ ClientInv'
  <2>1. DataTyped'
    BY <1>1, <1>4 DEF CloseRedis, DataTyped, delivery, lifecycle
  <2>2. CASE redisClient = "open"
    <3>1. /\ at' = [at EXCEPT ![Main] = "closing"] /\ redisClient' = "closing"
          /\ at[Main] = "stopping"
      BY <1>4, <2>2 DEF CloseRedis, Goto
    <3>2. \A a \in Caller : at'[a] # "create"
      BY <1>1, <1>2, <2>2, <3>1 DEF LockTyped
    <3>3. LockTyped'
      BY <1>1, <1>2, <3>1, <3>2 DEF LockTyped, Labels
    <3>4. ClientInv'
      BY <1>1, <1>4, <2>2, <3>1 DEF CloseRedis, ClientInv, Known, Left
    <3> QED
      BY <2>1, <3>3, <3>4, TypeParts
  <2>3. CASE redisClient # "open"
    <3>1. Goto(Main, "down") /\ redisClient' = redisClient /\ at[Main] = "stopping"
      BY <1>4, <2>3 DEF CloseRedis
    <3>2. UNCHANGED <<redisClient, clients, stuck>>
      BY <1>4, <3>1 DEF CloseRedis
    <3> QED
      BY <1>1, <1>2, <2>1, <3>1, <3>2, MoveType DEF Labels
  <2> QED
    BY <2>2, <2>3
<1>5. ASSUME ClientClosed
      PROVE  ServiceTypeOK' /\ ClientInv'
  <2>1. /\ at' = [at EXCEPT ![Main] = "down"] /\ redisClient' = "none" /\ at[Main] = "closing"
        /\ redisClient = "closing"
    BY <1>1, <1>5 DEF ClientClosed, Goto, LockTyped
  <2>2. \A a \in Caller : at'[a] # "create"
    BY <1>1, <1>2, <2>1 DEF LockTyped
  <2>3. LockTyped'
    BY <1>1, <1>2, <2>1, <2>2 DEF LockTyped, Labels
  <2>4. ~stuck /\ clients = 1
    BY <1>1, <2>1 DEF ClientInv, Known, Left, Inv, ShutdownInv
  <2>5. /\ \/ clients' = 0 /\ stuck' = FALSE
           \/ clients' = 1 /\ stuck' = TRUE
        /\ failures' \in 0..MaxFailures
    BY <1>1, <1>5, <2>4, FailTyped DEF ClientClosed, DataTyped
  <2>6. DataTyped'
    <3>1. clients' = 0 \/ clients' = 1
      BY <2>5
    <3>2. clients' \in Nat
      BY <3>1
    <3>3. stuck' = TRUE \/ stuck' = FALSE
      BY <2>5
    <3>4. stuck' \in BOOLEAN
      BY <3>3
    <3> QED
      BY <1>1, <1>5, <2>5, <3>2, <3>4 DEF ClientClosed, DataTyped, delivery, lifecycle
  <2>7. ClientInv'
    BY <2>1, <2>5 DEF ClientInv, Known, Left
  <2> QED
    BY <2>3, <2>6, <2>7, TypeParts
<1> QED
  BY <1>3, <1>4, <1>5

LEMMA TypeStep ==
  ASSUME Inv, [Next]_vars
  PROVE  ServiceTypeOK' /\ ClientInv'
<1>1. ServiceTypeOK /\ ClientInv
  BY DEF Inv
<1>2. CASE \E t \in Task : TaskStep(t)
  BY <1>1, <1>2, TaskParts, ClientStepType, TaskType DEF TaskStep
<1>3. CASE ConsumerStep
  BY <1>3, ConsumerType
<1>4. CASE MainStep \/ Shutdown
  BY <1>1, <1>4, MainIsNoTask, ClientStepType, MainType DEF MainStep
<1>5. CASE BrokerStep \/ \E c \in Connection : LoseConnection(c)
  BY <1>5, DeliverType, ConnectionType DEF BrokerStep
<1>6. CASE UNCHANGED vars
  BY <1>1, <1>6, TypeParts DEF vars, delivery, lifecycle, redis, LockTyped, DataTyped, ClientInv, Known, Left
<1> QED
  BY <1>2, <1>3, <1>4, <1>5, <1>6 DEF Next
-----------------------------------------------------------------------------
(* The handlers.                                                           *)

\* A handler that stays where it is stays in order while its message goes on.
LEMMA HandlerKept ==
  ASSUME DataTyped, DataTyped', NEW t \in Task, HandlerOf(t),
         at'[t] = at[t] \/ (at'[t] = "ended" /\ at[t] # "idle"), via'[t] = via[t] \/ via'[t] = NoConnection,
         deliveries'[t[1]] >= deliveries[t[1]], ran'[t[1]] >= ran[t[1]], raised \subseteq raised'
  PROVE  HandlerOf(t)'
<1>1. t[1] \in Message /\ t[2] \in Nat
  BY TaskParts, BoundAssumption
<1>2. deliveries[t[1]] \in Nat /\ deliveries'[t[1]] \in Nat /\ ran[t[1]] \in Nat /\ ran'[t[1]] \in Nat
  BY <1>1, BoundAssumption DEF DataTyped
<1> QED
  BY <1>1, <1>2 DEF HandlerOf

LEMMA HandlerStep ==
  ASSUME Inv, [Next]_vars
  PROVE  HandlerInv'
<1> SUFFICES ASSUME NEW t \in Task
             PROVE  HandlerOf(t)'
  BY DEF HandlerInv
<1>1. DataTyped /\ DataTyped' /\ LockTyped /\ HandlerOf(t)
  BY TypeStep, TypeParts DEF Inv, HandlerInv
<1>2. t \in Caller /\ t[1] \in Message /\ t # Main
  BY TaskParts
<1>3. deliveries[t[1]] \in Nat /\ ran[t[1]] \in Nat /\ t[2] \in Nat
  BY <1>1, <1>2, TaskParts, BoundAssumption DEF DataTyped
<1>4. ASSUME UNCHANGED <<deliveries, ran, raised>>,
             at'[t] = at[t] \/ (at'[t] = "ended" /\ at[t] # "idle"),
             via'[t] = via[t] \/ via'[t] = NoConnection
      PROVE  HandlerOf(t)'
  BY <1>1, <1>3, <1>4, HandlerKept
<1>5. ASSUME NEW c \in Caller, ClientStep(c)
      PROVE  HandlerOf(t)'
  <2>1. UNCHANGED <<delivery, ran>> /\ raised \subseteq raised'
    BY <1>5 DEF ClientStep, AskClient, GetLock, Create
  <2>2. CASE c = t
    <3>1. at[t] # "idle" /\ at'[t] # "ack"
      BY <1>1, <1>2, <1>5, <2>2 DEF ClientStep, AskClient, GetLock, Create, AfterClient, Goto, LockTyped
    <3>2. at'[t] = "reject" => t[1] \in raised'
      BY <1>1, <1>2, <1>5, <2>2 DEF ClientStep, AskClient, GetLock, Create, AfterClient, Goto, LockTyped
    <3> QED
      BY <1>1, <2>1, <3>1, <3>2 DEF HandlerOf, delivery
  <2>3. CASE c # t
    <3>1. at'[t] = at[t]
      BY <1>1, <1>2, <1>5, <2>3 DEF ClientStep, AskClient, GetLock, Create, Goto, LockTyped
    <3> QED
      BY <1>1, <1>3, <2>1, <3>1, HandlerKept DEF delivery
  <2> QED
    BY <2>2, <2>3
<1>6. ASSUME NEW n \in Task, Start(n)
      PROVE  HandlerOf(t)'
  <2>1. UNCHANGED <<delivery, ran, raised>> /\ at' = [at EXCEPT ![n] = FirstStep(n)] /\ at[n] = "start"
    BY <1>6 DEF Start, Goto
  <2>2. CASE n = t
    <3>1. at'[t] = FirstStep(t)
      BY <1>1, <1>2, <2>1, <2>2 DEF LockTyped
    <3>2. /\ FirstStep(t) # "idle" /\ FirstStep(t) = "ack" => Kind[t[1]] # "valid"
          /\ FirstStep(t) = "reject" => Kind[t[1]] = "notJson"
      BY <1>2, KindAssumption DEF FirstStep
    <3> QED
      BY <1>1, <2>1, <2>2, <3>1, <3>2 DEF HandlerOf, delivery
  <2>3. CASE n # t
    BY <1>1, <1>2, <1>4, <2>1, <2>3 DEF LockTyped, delivery
  <2> QED
    BY <2>2, <2>3
<1>7. ASSUME NEW n \in Task, Work(n)
      PROVE  HandlerOf(t)'
  <2>1. /\ UNCHANGED <<delivery, raised>> /\ at' = [at EXCEPT ![n] = "ack"] /\ at[n] = "work"
        /\ ran' = [ran EXCEPT ![n[1]] = @ + 1] /\ n[1] \in Message
    BY <1>7, TaskParts DEF Work, Goto
  <2>2. ran'[t[1]] >= ran[t[1]]
    BY <1>1, <1>2, <1>3, <2>1 DEF DataTyped
  <2>3. CASE n = t
    <3>1. at'[t] = "ack" /\ ran'[t[1]] = ran[t[1]] + 1
      BY <1>1, <1>2, <2>1, <2>3 DEF LockTyped, DataTyped
    <3> QED
      BY <1>1, <1>3, <2>1, <2>3, <3>1 DEF HandlerOf, delivery
  <2>4. CASE n # t
    <3>1. at'[t] = at[t]
      BY <1>1, <1>2, <2>1, <2>4 DEF LockTyped
    <3> QED
      BY <1>1, <1>3, <2>1, <2>2, <3>1, HandlerKept DEF delivery
  <2> QED
    BY <2>3, <2>4
<1>8. ASSUME NEW n \in Task, Settle(n)
      PROVE  HandlerOf(t)'
  <2>1. UNCHANGED <<deliveries, ran, raised>> /\ at[n] \in {"ack", "reject"}
    BY <1>8 DEF Settle
  <2>2. CASE n = t
    <3>1. \/ at'[t] = "ended"
          \/ at'[t] = "reject" /\ via[t] = NoConnection /\ via' = via
      BY <1>1, <1>2, <1>8, <2>2 DEF Settle, Goto, LockTyped
    <3> QED
      BY <1>1, <2>1, <2>2, <3>1 DEF HandlerOf
  <2>3. CASE n # t
    <3>1. at'[t] = at[t] /\ via'[t] = via[t]
      BY <1>1, <1>2, <1>8, <2>3 DEF Settle, Goto, LockTyped, DataTyped
    <3> QED
      BY <1>4, <2>1, <3>1
  <2> QED
    BY <2>2, <2>3
<1>9. ASSUME NEW m \in Message, NEW c \in Connection, Deliver(m, c)
      PROVE  HandlerOf(t)'
  <2> DEFINE n == <<m, deliveries[m] + 1>>
  <2>1. /\ at' = [at EXCEPT ![n] = "start"] /\ via' = [via EXCEPT ![n] = c]
        /\ deliveries' = [deliveries EXCEPT ![m] = @ + 1] /\ UNCHANGED <<ran, raised>>
    BY <1>9 DEF Deliver, Goto
  <2>2. CASE n = t
    <3>1. at'[t] = "start" /\ t[1] = m /\ t[2] = deliveries[m] + 1
      BY <1>1, <1>2, <2>1, <2>2 DEF LockTyped
    <3>2. t[2] = deliveries'[t[1]]
      BY <1>1, <1>2, <2>1, <3>1 DEF DataTyped
    <3> QED
      BY <1>3, <3>1, <3>2 DEF HandlerOf
  <2>3. CASE n # t
    <3>1. at'[t] = at[t] /\ via'[t] = via[t]
      BY <1>1, <1>2, <2>1, <2>3 DEF LockTyped, DataTyped
    <3>2. deliveries'[t[1]] >= deliveries[t[1]]
      BY <1>1, <1>2, <1>3, <2>1 DEF DataTyped
    <3> QED
      BY <1>1, <1>3, <2>1, <3>1, <3>2, HandlerKept
  <2> QED
    BY <2>2, <2>3
<1>10. ASSUME NEW c, NEW cancelled, Abandon(c, cancelled), UNCHANGED <<deliveries, ran, raised>>
       PROVE  HandlerOf(t)'
  <2>1. at'[t] = at[t] \/ (at'[t] = "ended" /\ at[t] # "idle")
    BY <1>2, <1>10 DEF Abandon, Running
  <2>2. via'[t] = via[t] \/ via'[t] = NoConnection
    BY <1>10 DEF Abandon
  <2> QED
    BY <1>4, <1>10, <2>1, <2>2
<1>11. CASE CloseConnection \/ \E c \in Connection : LoseConnection(c)
  <2>1. UNCHANGED <<deliveries, ran, raised>>
    BY <1>11 DEF CloseConnection, LoseConnection
  <2>2. (\E c, cancelled : Abandon(c, cancelled)) \/ UNCHANGED <<at, via>>
    BY <1>11 DEF CloseConnection, LoseConnection
  <2> QED
    BY <1>4, <1>10, <2>1, <2>2
<1>12. CASE Connect \/ SetUp \/ Retry \/ (\E c \in Connection : Reconnect(c)) \/ UNCHANGED vars
  BY <1>4, <1>12 DEF Connect, SetUp, Retry, Reconnect, vars, delivery
<1>13. CASE CheckService \/ Shutdown \/ CloseRedis \/ ClientClosed
  <2>1. at'[t] = at[t]
    BY <1>1, <1>2, <1>13 DEF CheckService, Shutdown, CloseRedis, ClientClosed, Goto, LockTyped
  <2> QED
    BY <1>4, <1>13, <2>1 DEF CheckService, Shutdown, CloseRedis, ClientClosed, delivery
<1> QED
  BY <1>2, <1>5, <1>6, <1>7, <1>8, <1>9, <1>11, <1>12, <1>13, MainIsNoTask
  DEF Next, TaskStep, ConsumerStep, MainStep, BrokerStep
-----------------------------------------------------------------------------
(* The messages.                                                           *)

\* A handler that is through stays so.
LEMMA ThroughGrows ==
  ASSUME Inv, [Next]_vars, NEW m \in Message
  PROVE  Through(m) \subseteq Through(m)'
<1> SUFFICES ASSUME NEW t \in Task, at[t] \in {"ack", "reject", "ended"}
             PROVE  at'[t] \in {"ack", "reject", "ended"}
  BY DEF Through, Task
<1>1. DataTyped /\ LockTyped /\ HandlerInv
  BY TypeParts DEF Inv
<1>2. t \in Caller /\ t # Main /\ at[t] # "idle"
  BY TaskParts
<1>3. CASE \E c \in Caller : ClientStep(c)
  BY <1>1, <1>2, <1>3 DEF ClientStep, AskClient, GetLock, Create, Goto, LockTyped
<1>4. CASE \E n \in Task : Start(n) \/ Work(n)
  BY <1>1, <1>2, <1>4 DEF Start, Work, Goto, LockTyped
<1>5. CASE \E n \in Task : Settle(n)
  BY <1>1, <1>2, <1>5 DEF Settle, Goto, LockTyped
<1>6. ASSUME NEW k \in Message, NEW c \in Connection, Deliver(k, c)
      PROVE  at'[t] = at[t]
  <2>1. t # <<k, deliveries[k] + 1>>
    <3> SUFFICES ASSUME t = <<k, deliveries[k] + 1>>
                 PROVE  deliveries[k] + 1 <= deliveries[k]
      BY <1>1, BoundAssumption DEF DataTyped
    <3> QED
      BY <1>1, <1>2 DEF HandlerInv, HandlerOf
  <2> QED
    BY <1>1, <1>2, <1>6, <2>1 DEF Deliver, Goto, LockTyped
<1>7. CASE CloseConnection \/ \E c \in Connection : LoseConnection(c)
  <2>1. (\E c, cancelled : Abandon(c, cancelled)) \/ at' = at
    BY <1>7 DEF CloseConnection, LoseConnection
  <2> QED
    BY <1>2, <2>1 DEF Abandon
<1>8. CASE \/ Connect \/ SetUp \/ Retry \/ UNCHANGED vars
           \/ \E c \in Connection : Reconnect(c)
  BY <1>8 DEF Connect, SetUp, Retry, Reconnect, vars
<1>9. CASE CheckService \/ Shutdown \/ CloseRedis \/ ClientClosed
  BY <1>1, <1>2, <1>9 DEF CheckService, Shutdown, CloseRedis, ClientClosed, Goto, LockTyped
<1> QED
  BY <1>3, <1>4, <1>5, <1>6, <1>7, <1>8, <1>9, TaskParts, MainIsNoTask
  DEF Next, TaskStep, ConsumerStep, MainStep, BrokerStep

\* What was closed stays closed.
LEMMA ClosedGrows ==
  ASSUME Inv, [Next]_vars
  PROVE  Closed \subseteq Closed'
<1> SUFFICES ASSUME NEW d \in Connection, connections[d] = "closed"
             PROVE  connections'[d] = "closed"
  BY DEF Closed
<1>1. DataTyped
  BY TypeParts DEF Inv
<1>2. CASE Connect
  <2>1. Unused # {} => connections[NextUnused] = "unused"
    BY NextInLine DEF Inv, ConsumerInv
  <2> QED
    BY <1>1, <1>2, <2>1 DEF Connect, DataTyped
<1>3. CASE SetUp
  BY <1>1, <1>3 DEF SetUp, DataTyped, Inv, ConsumerInv
<1>4. CASE CloseConnection
  BY <1>1, <1>4 DEF CloseConnection, DataTyped
<1>5. CASE \E c \in Connection : LoseConnection(c) \/ Reconnect(c)
  BY <1>1, <1>5 DEF LoseConnection, Reconnect, DataTyped
<1>6. CASE connections' = connections
  BY <1>6
<1>7. (\E c \in Caller : ClientStep(c)) => connections' = connections
  BY DEF ClientStep, AskClient, GetLock, Create, lifecycle
<1>8. (\E t \in Task : TaskStep(t)) => connections' = connections
  BY <1>7, TaskParts DEF TaskStep, Start, Work, Settle, lifecycle
<1>9. MainStep \/ Shutdown \/ Retry => connections' = connections
  BY <1>7, MainIsNoTask DEF MainStep, CheckService, CloseRedis, ClientClosed, Shutdown, Retry, lifecycle
<1>10. (\E c \in Connection, m \in Message : Deliver(m, c)) => connections' = connections
  BY DEF Deliver, lifecycle
<1> QED
  BY <1>2, <1>3, <1>4, <1>5, <1>6, <1>8, <1>9, <1>10 DEF Next, ConsumerStep, BrokerStep, vars, lifecycle

LEMMA CountsTyped ==
  ASSUME DataTyped, DataTyped', NEW m \in Message
  PROVE  /\ deliveries[m] \in Nat /\ deliveries'[m] \in Nat /\ ran[m] \in Nat /\ ran'[m] \in Nat
         /\ losses \in Nat /\ losses' \in Nat /\ Requeued(m) \in Nat /\ Requeued(m)' \in Nat
         /\ Cardinality(Through(m)) \in Nat /\ Cardinality(Through(m)') \in Nat
         /\ Cardinality(Closed) \in Nat /\ Cardinality(Closed') \in Nat
BY BoundAssumption, ThroughFinite, ClosedFinite DEF DataTyped, Requeued

LEMMA CountsGrow ==
  ASSUME Inv, [Next]_vars, NEW m \in Message
  PROVE  /\ Cardinality(Through(m)) <= Cardinality(Through(m)')
         /\ Cardinality(Closed) <= Cardinality(Closed')
<1>1. Cardinality(Through(m)) <= Cardinality(Through(m)')
  BY ThroughFinite, ThroughGrows, FS_Subset
<1>2. Cardinality(Closed) <= Cardinality(Closed')
  BY ClosedFinite, ClosedGrows, FS_Subset
<1> QED
  BY <1>1, <1>2

\* A step that delivers, handles and settles nothing.
LEMMA MessageKept ==
  ASSUME Inv, [Next]_vars, NEW m \in Message, MessageOf(m), broker'[m] = broker[m],
         deliveries' = deliveries, ran' = ran, raised \subseteq raised', losses' >= losses
  PROVE  MessageOf(m)'
<1>1. DataTyped /\ DataTyped'
  BY TypeStep, TypeParts DEF Inv
<1>2. Requeued(m)' = Requeued(m)
  BY DEF Requeued
<1>3. deliveries'[m] + Requeued(m)' <= 1 + losses' + Cardinality(Closed')
  BY <1>1, <1>2, CountsTyped, CountsGrow DEF MessageOf
<1>4. ran'[m] <= Cardinality(Through(m)')
  BY <1>1, CountsTyped, CountsGrow DEF MessageOf
<1> QED
  BY <1>3, <1>4 DEF MessageOf

\* A connection goes: what was delivered on it is requeued, and the loss or
\* the closing is one more.
LEMMA AbandonMessage ==
  ASSUME Inv, [Next]_vars, NEW m \in Message, MessageOf(m), NEW c, NEW cancelled,
         Abandon(c, cancelled), UNCHANGED <<deliveries, ran, raised>>,
         losses' + Cardinality(Closed') >= losses + Cardinality(Closed) + 1
  PROVE  MessageOf(m)'
<1>1. DataTyped /\ DataTyped'
  BY TypeStep, TypeParts DEF Inv
<1>2. broker'[m] = broker[m] \/ broker'[m] = "ready"
  BY DEF Abandon
<1>3. Requeued(m)' <= Requeued(m) + 1
  BY DEF Requeued
<1>4. deliveries'[m] + Requeued(m)' <= 1 + losses' + Cardinality(Closed')
  BY <1>1, <1>3, CountsTyped DEF MessageOf
<1>5. ran'[m] <= Cardinality(Through(m)')
  BY <1>1, CountsTyped, CountsGrow DEF MessageOf
<1> QED
  BY <1>2, <1>4, <1>5 DEF MessageOf

LEMMA BrokerKept ==
  ASSUME Inv, [Next]_vars
  PROVE  BrokerInv'
<1> SUFFICES ASSUME NEW m \in Message
             PROVE  MessageOf(m)'
  BY DEF BrokerInv
<1>1. DataTyped /\ DataTyped' /\ LockTyped /\ MessageOf(m) /\ HandlerInv
  BY TypeStep, TypeParts DEF Inv, BrokerInv
<1>2. losses \in Nat
  BY <1>1, CountsTyped
<1>3. ASSUME broker'[m] = broker[m], deliveries' = deliveries, ran' = ran, raised \subseteq raised',
             losses' = losses
      PROVE  MessageOf(m)'
  <2>1. losses' >= losses
    BY <1>2, <1>3
  <2> QED
    BY <1>1, <1>3, <2>1, MessageKept
<1>4. CASE \E c \in Caller : ClientStep(c)
  <2>1. UNCHANGED <<delivery, ran, losses>> /\ raised \subseteq raised'
    BY <1>4 DEF ClientStep, AskClient, GetLock, Create
  <2> QED
    BY <1>3, <2>1 DEF delivery
<1>5. CASE \E t \in Task : Start(t)
  BY <1>3, <1>5 DEF Start, delivery
<1>6. ASSUME NEW t \in Task, Work(t)
      PROVE  MessageOf(m)'
  <2>1. /\ at[t] = "work" /\ at' = [at EXCEPT ![t] = "ack"] /\ t[1] \in Message
        /\ ran' = [ran EXCEPT ![t[1]] = @ + 1] /\ UNCHANGED <<delivery, raised, losses>>
    BY <1>6, TaskParts DEF Work, Goto
  <2>2. UNCHANGED <<broker, deliveries>> /\ losses' >= losses
    BY <1>2, <2>1 DEF delivery
  <2>3. CASE t[1] # m
    <3>1. ran'[m] = ran[m]
      BY <1>1, <2>1, <2>3 DEF DataTyped
    <3>2. ran'[m] <= Cardinality(Through(m)')
      BY <1>1, <3>1, CountsTyped, CountsGrow DEF MessageOf
    <3>3. deliveries'[m] + Requeued(m)' <= 1 + losses' + Cardinality(Closed')
      BY <1>1, <2>2, CountsTyped, CountsGrow DEF MessageOf, Requeued
    <3> QED
      BY <1>1, <2>1, <2>2, <3>1, <3>2, <3>3 DEF MessageOf
  <2>4. CASE t[1] = m
    <3>1. t[2] \in 1..MaxDeliveries /\ t = <<m, t[2]>> /\ t \in Caller
      BY <2>4, TaskParts
    <3>2. t[2] \notin Through(m) /\ t[2] \in Through(m)'
      BY <1>1, <2>1, <3>1 DEF Through, LockTyped
    <3>3. Cardinality(Through(m)) + 1 <= Cardinality(Through(m)')
      <4>1. IsFiniteSet(Through(m)' \ {t[2]}) /\ Cardinality(Through(m)' \ {t[2]}) = Cardinality(Through(m)') - 1
        BY <3>2, ThroughFinite, FS_RemoveElement
      <4>2. Through(m) \subseteq Through(m)' \ {t[2]}
        BY <3>2, ThroughGrows
      <4>3. Cardinality(Through(m)) <= Cardinality(Through(m)' \ {t[2]})
        BY <4>1, <4>2, FS_Subset
      <4> QED
        BY <4>1, <4>3, ThroughFinite
    <3>4. ran'[m] = ran[m] + 1
      BY <1>1, <2>1, <2>4 DEF DataTyped
    <3>5. ran'[m] <= Cardinality(Through(m)') /\ ran'[m] > 0
      BY <1>1, <3>3, <3>4, CountsTyped DEF MessageOf
    <3>6. deliveries'[m] + Requeued(m)' <= 1 + losses' + Cardinality(Closed')
      BY <1>1, <2>2, CountsTyped, CountsGrow DEF MessageOf, Requeued
    <3> QED
      BY <1>1, <2>1, <2>2, <3>5, <3>6 DEF MessageOf
  <2> QED
    BY <2>3, <2>4
<1>7. ASSUME NEW t \in Task, Settle(t)
      PROVE  MessageOf(m)'
  <2>1. UNCHANGED <<deliveries, ran, raised, losses>> /\ at[t] \in {"ack", "reject"} /\ t[1] \in Message
    BY <1>7, TaskParts DEF Settle
  <2>2. CASE via[t] = NoConnection \/ t[1] # m
    <3>1. broker'[m] = broker[m]
      BY <1>1, <1>7, <2>2 DEF Settle, DataTyped
    <3> QED
      BY <1>3, <2>1, <3>1
  <2>3. CASE via[t] # NoConnection /\ t[1] = m
    <3>1. broker'[m] = IF at[t] = "ack" THEN "acked" ELSE "rejected"
      BY <1>1, <1>7, <2>1, <2>3 DEF Settle, Outcome, DataTyped
    <3>2. /\ at[t] = "ack" /\ Kind[m] = "valid" => ran[m] > 0
          /\ at[t] = "reject" => Kind[m] = "notJson" \/ m \in raised
      BY <1>1, <2>3 DEF HandlerInv, HandlerOf
    <3>3. Requeued(m)' = 0
      BY <3>1 DEF Requeued
    <3>4. deliveries'[m] + Requeued(m)' <= 1 + losses' + Cardinality(Closed')
      BY <1>1, <2>1, <3>3, CountsTyped, CountsGrow DEF MessageOf
    <3>5. ran'[m] <= Cardinality(Through(m)')
      BY <1>1, <2>1, CountsTyped, CountsGrow DEF MessageOf
    <3> QED
      BY <2>1, <3>1, <3>2, <3>4, <3>5 DEF MessageOf
  <2> QED
    BY <2>2, <2>3
<1>8. ASSUME NEW k \in Message, NEW c \in Connection, Deliver(k, c)
      PROVE  MessageOf(m)'
  <2>1. /\ broker[k] = "ready" /\ broker' = [broker EXCEPT ![k] = "unacked"]
        /\ deliveries' = [deliveries EXCEPT ![k] = @ + 1] /\ UNCHANGED <<ran, raised, losses>>
    BY <1>8 DEF Deliver
  <2>2. deliveries'[m] + Requeued(m)' = deliveries[m] + Requeued(m) /\ broker'[m] \in {broker[m], "unacked"}
    BY <1>1, <2>1, CountsTyped DEF DataTyped, Requeued
  <2>3. deliveries'[m] + Requeued(m)' <= 1 + losses' + Cardinality(Closed')
    BY <1>1, <2>1, <2>2, CountsTyped, CountsGrow DEF MessageOf
  <2>4. ran'[m] <= Cardinality(Through(m)')
    BY <1>1, <2>1, CountsTyped, CountsGrow DEF MessageOf
  <2> QED
    BY <1>1, <2>1, <2>2, <2>3, <2>4 DEF MessageOf
<1>9. ASSUME NEW c \in Connection, LoseConnection(c)
      PROVE  MessageOf(m)'
  <2>1. PICK cancelled : Abandon(c, cancelled)
    BY <1>9 DEF LoseConnection
  <2>2. UNCHANGED <<deliveries, ran, raised>> /\ losses' = losses + 1
    BY <1>9 DEF LoseConnection
  <2>3. losses' + Cardinality(Closed') >= losses + Cardinality(Closed) + 1
    BY <1>1, <2>2, CountsTyped, CountsGrow
  <2> QED
    BY <1>1, <2>1, <2>2, <2>3, AbandonMessage
<1>10. ASSUME CloseConnection
       PROVE  MessageOf(m)'
  <2>1. CASE UNCHANGED <<connections, broker>>
    BY <1>3, <1>10, <2>1 DEF CloseConnection
  <2>2. CASE ~UNCHANGED <<connections, broker>>
    <3>1. PICK cancelled : Abandon(held, cancelled)
      BY <1>10, <2>2 DEF CloseConnection
    <3>2. UNCHANGED <<deliveries, ran, raised>> /\ losses' = losses
      BY <1>10 DEF CloseConnection
    <3>3. PICK h : h = held
      OBVIOUS
    <3>4. h \in Connection /\ h \notin Closed /\ h \in Closed'
      BY <1>1, <1>10, <2>2, <3>3 DEF CloseConnection, Inv, ConsumerInv, Closed, DataTyped
    <3>5. Cardinality(Closed) + 1 <= Cardinality(Closed')
      <4>1. IsFiniteSet(Closed' \ {h}) /\ Cardinality(Closed' \ {h}) = Cardinality(Closed') - 1
        BY <3>4, ClosedFinite, FS_RemoveElement
      <4>2. Closed \subseteq Closed' \ {h}
        BY <3>4, ClosedGrows
      <4>3. Cardinality(Closed) <= Cardinality(Closed' \ {h})
        BY <4>1, <4>2, FS_Subset
      <4> QED
        BY <4>1, <4>3, ClosedFinite
    <3>6. losses' + Cardinality(Closed') >= losses + Cardinality(Closed) + 1
      BY <1>1, <3>2, <3>5, CountsTyped
    <3>7. Abandon(h, cancelled)
      BY <3>1, <3>3
    <3> QED
      BY <1>1, <3>2, <3>6, <3>7, AbandonMessage
  <2> QED
    BY <2>1, <2>2
<1>11. CASE Connect \/ SetUp \/ Retry \/ (\E c \in Connection : Reconnect(c)) \/ UNCHANGED vars
  BY <1>3, <1>11 DEF Connect, SetUp, Retry, Reconnect, vars, delivery
<1>12. CASE CheckService \/ Shutdown \/ CloseRedis \/ ClientClosed
  BY <1>3, <1>12 DEF CheckService, Shutdown, CloseRedis, ClientClosed, delivery
<1> QED
  BY <1>4, <1>5, <1>6, <1>7, <1>8, <1>9, <1>10, <1>11, <1>12, TaskParts, MainIsNoTask
  DEF Next, TaskStep, ConsumerStep, MainStep, BrokerStep
-----------------------------------------------------------------------------
(* The consumer task.                                                      *)

LEMMA ConsumerSame ==
  ASSUME ConsumerInv, connections' = connections, consumer' = consumer, held' = held, leaked' = leaked
  PROVE  ConsumerInv'
BY DEF ConsumerInv, UsedUpTo, SettingUp

\* A connection in use is lost, or is made again.
LEMMA ConsumerOther ==
  ASSUME ConsumerInv, DataTyped, NEW c \in Connection, NEW from \in {"consuming", "lost"},
         NEW to \in {"consuming", "lost"}, connections[c] = from,
         connections' = [connections EXCEPT ![c] = to], UNCHANGED <<consumer, held, leaked>>
  PROVE  ConsumerInv'
<1>1. \A d \in Connection : connections'[d] = IF d = c THEN to ELSE connections[d]
  BY DEF DataTyped
<1>2. PICK n \in 0..MaxConnections : UsedUpTo(n)
  BY DEF ConsumerInv
<1>3. UsedUpTo(n)'
  BY <1>1, <1>2 DEF UsedUpTo
<1>4. consumer = "setup" => SettingUp \in Connection /\ SettingUp' = SettingUp
  <2> SUFFICES ASSUME consumer = "setup"
               PROVE  SettingUp \in Connection /\ SettingUp' = SettingUp
    OBVIOUS
  <2>1. SettingUp \in Connection /\ connections[SettingUp] = "open"
    BY DEF ConsumerInv
  <2>2. n \in 1..MaxConnections
    BY <1>2, <2>1, BoundAssumption DEF UsedUpTo, Connection
  <2> QED
    BY <1>2, <1>3, <2>1, <2>2, InSetUp
<1>5. consumer' = "setup" => SettingUp' \in Connection /\ connections'[SettingUp'] = "open"
  BY <1>1, <1>4 DEF ConsumerInv
<1>6. consumer' \in {"listening", "closing"} =>
        held' \in Connection /\ connections'[held'] \in {"consuming", "lost"}
  BY <1>1 DEF ConsumerInv
<1>7. \A d \in Connection \ leaked' :
        \/ connections'[d] \in {"unused", "closed"}
        \/ consumer' = "setup" /\ d = SettingUp'
        \/ consumer' \in {"listening", "closing"} /\ d = held'
  BY <1>1, <1>4 DEF ConsumerInv
<1> QED
  BY <1>3, <1>5, <1>6, <1>7 DEF ConsumerInv

LEMMA ConsumerKept ==
  ASSUME Inv, [Next]_vars
  PROVE  ConsumerInv'
<1>1. DataTyped /\ ConsumerInv /\ ShutdownInv
  BY TypeParts DEF Inv
<1>2. PICK n \in 0..MaxConnections : UsedUpTo(n)
  BY <1>1 DEF ConsumerInv
<1>3. ASSUME Connect, connections' # connections
      PROVE  ConsumerInv'
  <2>1. /\ Unused # {} /\ connections' = [connections EXCEPT ![NextUnused] = "open"]
        /\ consumer = "connect" /\ consumer' = "setup" /\ held' = held /\ leaked' = leaked
    BY <1>3 DEF Connect
  <2>2. n + 1 \in Connection /\ NextUnused = n + 1
    BY <1>2, <2>1, NextInLine
  <2>3. \A d \in Connection : connections'[d] = IF d = n + 1 THEN "open" ELSE connections[d]
    BY <1>1, <2>1, <2>2 DEF DataTyped
  <2>4. UsedUpTo(n + 1)'
    BY <1>2, <2>2, <2>3, BoundAssumption DEF UsedUpTo, Connection
  <2>5. PICK k \in 1..MaxConnections : k = n + 1
    BY <2>2 DEF Connection
  <2>6. SettingUp' = n + 1
    BY <2>4, <2>5, InSetUp
  <2>7. n + 1 \in 0..MaxConnections
    BY <2>5, BoundAssumption
  <2>8. \A d \in Connection \ leaked :
          connections'[d] \in {"unused", "closed"} \/ d = SettingUp'
    BY <1>1, <2>1, <2>3, <2>6 DEF ConsumerInv
  <2> QED
    BY <2>1, <2>2, <2>3, <2>4, <2>6, <2>7, <2>8 DEF ConsumerInv
<1>4. ASSUME Connect, connections' = connections
      PROVE  ConsumerInv'
  <2>1. /\ consumer = "connect" /\ consumer' \in {"setup", "pause"} /\ held' = held /\ leaked' = leaked
    BY <1>4 DEF Connect
  <2>2. consumer' = "pause"
    <3> SUFFICES ASSUME Unused # {}, connections' = [connections EXCEPT ![NextUnused] = "open"]
                 PROVE  FALSE
      BY <1>4 DEF Connect
    <3>1. n + 1 \in Connection /\ NextUnused = n + 1 /\ connections[n + 1] = "unused"
      BY <1>2, NextInLine
    <3> QED
      BY <1>1, <1>4, <3>1 DEF DataTyped
  <2> QED
    BY <1>1, <1>4, <2>1, <2>2 DEF ConsumerInv, UsedUpTo
<1>5. ASSUME SetUp
      PROVE  ConsumerInv'
  <2> DEFINE k == SettingUp
  <2>1. k \in Connection /\ connections[k] = "open" /\ consumer = "setup"
    BY <1>1, <1>5 DEF SetUp, ConsumerInv
  <2>2. PICK to \in {"open", "consuming"} :
          /\ connections' = [connections EXCEPT ![k] = to]
          /\ \/ to = "consuming" /\ held' = k /\ consumer' = "listening" /\ leaked' = leaked
             \/ leaked' = leaked \union {k} /\ consumer' = "pause" /\ held' = held
    BY <1>5 DEF SetUp
  <2>3. \A d \in Connection : connections'[d] = IF d = k THEN to ELSE connections[d]
    BY <1>1, <2>2 DEF DataTyped
  <2>4. UsedUpTo(n)'
    BY <1>2, <2>1, <2>3 DEF UsedUpTo
  <2>5. \A d \in Connection \ leaked : connections[d] \in {"unused", "closed"} \/ d = k
    BY <1>1, <2>1 DEF ConsumerInv
  <2>6. CASE consumer' = "listening"
    BY <2>1, <2>2, <2>3, <2>4, <2>5, <2>6 DEF ConsumerInv
  <2>7. CASE consumer' = "pause"
    BY <2>1, <2>2, <2>3, <2>4, <2>5, <2>7 DEF ConsumerInv
  <2> QED
    BY <2>2, <2>6, <2>7
<1>6. ASSUME Retry
      PROVE  ConsumerInv'
  BY <1>1, <1>6 DEF Retry, ConsumerInv, UsedUpTo
<1>7. ASSUME CloseConnection
      PROVE  ConsumerInv'
  <2>1. /\ consumer = "closing" /\ consumer' = "ended" /\ held \in Connection
        /\ connections[held] \in {"consuming", "lost"}
        /\ \/ leaked' = leaked /\ connections' = [connections EXCEPT ![held] = "closed"]
           \/ leaked' = leaked \union {held} /\ connections' = connections
    BY <1>1, <1>7 DEF CloseConnection, ConsumerInv
  <2>2. \A d \in Connection : connections'[d] = connections[d] \/ (d = held /\ connections'[d] = "closed")
    BY <1>1, <2>1 DEF DataTyped
  <2>3. UsedUpTo(n)'
    BY <1>2, <2>1, <2>2 DEF UsedUpTo
  <2>4. \A d \in Connection \ leaked' : connections'[d] \in {"unused", "closed"}
    BY <1>1, <2>1, <2>2 DEF ConsumerInv, DataTyped
  <2> QED
    BY <2>1, <2>3, <2>4 DEF ConsumerInv
<1>8. ASSUME Shutdown
      PROVE  ConsumerInv'
  <2>1. /\ consumer' = IF consumer = "listening" THEN "closing" ELSE "ended"
        /\ leaked' = IF consumer = "setup" THEN leaked \union {SettingUp} ELSE leaked
        /\ connections' = connections /\ held' = held
    BY <1>8 DEF Shutdown, Cancelled
  <2>2. consumer # "closing"
    BY <1>1, <1>8 DEF Shutdown, ShutdownInv
  <2>3. UsedUpTo(n)'
    BY <1>2, <2>1 DEF UsedUpTo
  <2>4. CASE consumer = "listening"
    BY <1>1, <2>1, <2>3, <2>4 DEF ConsumerInv
  <2>5. CASE consumer # "listening"
    BY <1>1, <2>1, <2>2, <2>3, <2>5 DEF ConsumerInv
  <2> QED
    BY <2>4, <2>5
<1>9. ASSUME NEW c \in Connection, LoseConnection(c) \/ Reconnect(c)
      PROVE  ConsumerInv'
  <2>1. PICK from \in {"consuming", "lost"}, to \in {"consuming", "lost"} :
          connections[c] = from /\ connections' = [connections EXCEPT ![c] = to]
    BY <1>9 DEF LoseConnection, Reconnect
  <2>2. UNCHANGED <<consumer, held, leaked>>
    BY <1>9 DEF LoseConnection, Reconnect
  <2> QED
    BY <1>1, <2>1, <2>2, ConsumerOther
<1>10. ASSUME UNCHANGED lifecycle
       PROVE  ConsumerInv'
  BY <1>1, <1>10, ConsumerSame DEF lifecycle
<1>11. (\E c \in Caller : ClientStep(c)) => UNCHANGED lifecycle
  BY DEF ClientStep, AskClient, GetLock, Create
<1>12. (\E t \in Task : TaskStep(t)) => UNCHANGED lifecycle
  BY <1>11, TaskParts DEF TaskStep, Start, Work, Settle
<1>13. MainStep => UNCHANGED lifecycle
  BY <1>11, MainIsNoTask DEF MainStep, CheckService, CloseRedis, ClientClosed
<1>14. (\E c \in Connection, m \in Message : Deliver(m, c)) \/ UNCHANGED vars => UNCHANGED lifecycle
  BY DEF Deliver, vars
<1> QED
  BY <1>3, <1>4, <1>5, <1>6, <1>7, <1>8, <1>9, <1>10, <1>12, <1>13, <1>14
  DEF Next, ConsumerStep, BrokerStep
-----------------------------------------------------------------------------
(* The shutdown.                                                           *)

LEMMA ShutdownKept ==
  ASSUME Inv, [Next]_vars
  PROVE  ShutdownInv'
<1>1. LockTyped /\ DataTyped /\ ShutdownInv
  BY TypeParts DEF Inv
<1>2. Main \in Caller /\ Main \notin Task
  BY MainIsNoTask
<1>3. ASSUME NEW c \in Caller, ClientStep(c)
      PROVE  ShutdownInv'
  <2>1. consumer' = consumer /\ stuck' = stuck /\ (late => late')
    <3>1. consumer' = consumer /\ stuck' = stuck
      BY <1>3 DEF ClientStep, AskClient, GetLock, Create, lifecycle
    <3>2. CASE late' = late
      BY <3>1, <3>2
    <3>3. CASE late' = (late \/ at[Main] = "down")
      BY <3>1, <3>3
    <3> QED
      BY <1>3, <3>2, <3>3 DEF ClientStep, AskClient, GetLock, Create
  <2>2. at'[Main] # at[Main] => at'[Main] \in {"ping", "work", "wait", "create", "failed", "reject"}
                            /\ at[Main] \in {"client", "wait", "create"}
    BY <1>1, <1>2, <1>3 DEF ClientStep, AskClient, GetLock, Create, AfterClient, Goto, LockTyped
  <2>3. redisClient' = "open" /\ redisClient # "open" => late' \/ at[Main] # "down"
    BY <1>3 DEF ClientStep, AskClient, GetLock, Create
  <2> QED
    BY <1>1, <2>1, <2>2, <2>3 DEF ShutdownInv
<1>4. ASSUME NEW t \in Task, Start(t) \/ Work(t) \/ Settle(t)
      PROVE  ShutdownInv'
  <2>1. t # Main /\ at'[Main] = at[Main]
    BY <1>1, <1>2, <1>4 DEF Start, Work, Settle, Goto, LockTyped
  <2> QED
    BY <1>1, <1>4, <2>1 DEF Start, Work, Settle, lifecycle, redis, ShutdownInv
<1>5. ASSUME NEW m \in Message, NEW c \in Connection, Deliver(m, c)
      PROVE  ShutdownInv'
  <2>1. at'[Main] = at[Main]
    <3>1. <<m, deliveries[m] + 1>> # Main
      BY <1>1, BoundAssumption, TaskParts, <1>5 DEF Deliver, DataTyped, Task, Main
    <3> QED
      BY <1>1, <1>2, <1>5, <3>1 DEF Deliver, Goto, LockTyped
  <2> QED
    BY <1>1, <1>5, <2>1 DEF Deliver, lifecycle, redis, ShutdownInv
<1>6. ASSUME NEW c, NEW cancelled, Abandon(c, cancelled)
      PROVE  at'[Main] = at[Main] /\ (redisClient' = "open" => redisClient = "open")
  BY <1>2, <1>6 DEF Abandon
<1>7. CASE CloseConnection \/ \E c \in Connection : LoseConnection(c)
  <2>1. /\ at'[Main] = at[Main] /\ (redisClient' = "open" => redisClient = "open")
        /\ late' = late /\ stuck' = stuck
    BY <1>6, <1>7 DEF CloseConnection, LoseConnection
  <2> QED
    BY <1>1, <1>7, <2>1 DEF CloseConnection, LoseConnection, ShutdownInv
<1>8. CASE Connect \/ SetUp \/ Retry
  BY <1>1, <1>8 DEF Connect, SetUp, Retry, redis, ShutdownInv
<1>9. CASE (\E c \in Connection : Reconnect(c)) \/ UNCHANGED vars
  BY <1>1, <1>9 DEF Reconnect, vars, lifecycle, redis, ShutdownInv
<1>10. CASE CheckService
  BY <1>1, <1>2, <1>10 DEF CheckService, Goto, LockTyped, lifecycle, redis, ShutdownInv
<1>11. CASE Shutdown
  BY <1>1, <1>2, <1>11 DEF Shutdown, Cancelled, Goto, LockTyped, redis, ShutdownInv
<1>12. CASE CloseRedis
  BY <1>1, <1>2, <1>12 DEF CloseRedis, LockFree, Goto, LockTyped, lifecycle, ShutdownInv
<1>13. CASE ClientClosed
  BY <1>1, <1>2, <1>13 DEF ClientClosed, Goto, LockTyped, lifecycle, ShutdownInv
<1> QED
  BY <1>2, <1>3, <1>4, <1>5, <1>7, <1>8, <1>9, <1>10, <1>11, <1>12, <1>13, TaskParts
  DEF Next, TaskStep, ConsumerStep, MainStep, BrokerStep
-----------------------------------------------------------------------------
(* The theorems.                                                           *)

LEMMA InitInv == Init => Inv
<1> SUFFICES ASSUME Init
             PROVE  Inv
  OBVIOUS
<1>1. LockTyped
  BY MainIsNoTask DEF Init, LockTyped, Labels
<1>2. DataTyped
  <2>1. 0 \in 0..MaxDeliveries /\ 0 \in 0..MaxFailures /\ 0 \in 0..MaxLosses
    BY BoundAssumption
  <2>2. /\ broker \in [Message -> {"ready", "unacked", "acked", "rejected"}]
        /\ deliveries \in [Message -> 0..MaxDeliveries] /\ ran \in [Message -> 0..MaxDeliveries]
        /\ via \in [Task -> Connection \union {NoConnection}]
        /\ connections \in [Connection -> {"unused", "open", "consuming", "lost", "closed"}]
    BY <2>1 DEF Init
  <2> QED
    BY <2>1, <2>2 DEF Init, DataTyped
<1>3. ServiceTypeOK
  BY <1>1, <1>2, TypeParts
<1>4. ClientInv
  BY DEF Init, ClientInv, Known, Left
<1>5. HandlerInv
  BY TaskParts DEF Init, HandlerInv, HandlerOf
<1>6. BrokerInv
  <2> SUFFICES ASSUME NEW m \in Message
               PROVE  MessageOf(m)
    BY DEF BrokerInv
  <2>1. Cardinality(Through(m)) \in Nat /\ Cardinality(Closed) \in Nat
    BY ThroughFinite, ClosedFinite
  <2>2. /\ deliveries[m] = 0 /\ Requeued(m) = 1 /\ losses = 0 /\ ran[m] = 0
        /\ broker[m] = "ready"
    BY DEF Init, Requeued
  <2> QED
    BY <2>1, <2>2 DEF MessageOf
<1>7. ConsumerInv
  <2>1. 0 \in 0..MaxConnections /\ UsedUpTo(0)
    BY BoundAssumption DEF Init, UsedUpTo, Connection
  <2> QED
    BY <2>1 DEF Init, ConsumerInv
<1>8. ShutdownInv
  BY MainIsNoTask DEF Init, ShutdownInv
<1> QED
  BY <1>3, <1>4, <1>5, <1>6, <1>7, <1>8 DEF Inv

LEMMA NextInv ==
  ASSUME Inv, [Next]_vars
  PROVE  Inv'
BY TypeStep, HandlerStep, BrokerKept, ConsumerKept, ShutdownKept DEF Inv

LEMMA AlwaysInv == Spec => []Inv
<1>1. Init => Inv
  BY InitInv
<1>2. Inv /\ [Next]_vars => Inv'
  BY NextInv
<1> QED
  BY <1>1, <1>2, PTL DEF Spec

\* The types; with them, the lock of the Redis client has one holder, and a
\* client is being closed only by the shutdown.
THEOREM ServiceTypeCorrect == Spec => []ServiceTypeOK
<1>1. Inv => ServiceTypeOK
  BY DEF Inv
<1> QED
  BY <1>1, AlwaysInv, PTL

\* get_redis_pool keeps one client: however many handlers and the startup ask
\* for it, wait for its lock, fail while creating it or are cancelled there, no
\* more than one is open, beside the one whose closing failed at the shutdown.
THEOREM ClientSingleton == Spec => []OneClient
<1>1. Inv => OneClient
  BY DEF Inv, ClientInv, Known, Left, OneClient
<1> QED
  BY <1>1, AlwaysInv, PTL

\* handle_message settles a message as it was handled: what is acknowledged
\* has been through its handler, what is rejected was no JSON or its handler
\* raised, and a message is handled no more often than connections went.
THEOREM SettledRight == Spec => []SettledAsHandled
<1>1. Inv => SettledAsHandled
  <2> SUFFICES ASSUME Inv, NEW m \in Message
               PROVE  /\ broker[m] = "acked" /\ Kind[m] = "valid" => ran[m] > 0
                      /\ broker[m] = "rejected" => Kind[m] = "notJson" \/ m \in raised
                      /\ ran[m] <= 1 + losses + Cardinality(Closed)
    BY DEF SettledAsHandled
  <2>1. MessageOf(m)
    BY DEF Inv, BrokerInv
  <2>2. ran[m] <= deliveries[m]
    BY RanBounded DEF Inv
  <2>3. /\ deliveries[m] \in Nat /\ ran[m] \in Nat /\ losses \in Nat /\ Requeued(m) \in Nat
        /\ Cardinality(Closed) \in Nat
    BY BoundAssumption, ClosedFinite DEF Inv, ServiceTypeOK, Requeued
  <2> QED
    BY <2>1, <2>2, <2>3 DEF MessageOf
<1> QED
  BY <1>1, AlwaysInv, PTL

\* shutdown_event leaves no connection open but those that start_consumer had
\* lost sight of and one whose close raised, and no Redis client but one that a
\* handler created after it and one whose own close raised.
THEOREM ShutdownCloses == Spec => []NothingLeftOpen
<1>1. Inv => NothingLeftOpen
  <2> SUFFICES ASSUME Inv, at[Main] = "down"
               PROVE  /\ \A c \in Connection \ leaked : connections[c] \in {"unused", "closed"}
                      /\ clients > 0 => late \/ stuck
    BY DEF NothingLeftOpen
  <2>1. consumer = "ended" /\ (~late => redisClient # "open") /\ redisClient # "closing"
    BY DEF Inv, ShutdownInv, ServiceTypeOK
  <2>2. \A c \in Connection \ leaked : connections[c] \in {"unused", "closed"}
    BY <2>1 DEF Inv, ConsumerInv
  <2>3. ~late /\ ~stuck => clients = 0
    BY <2>1 DEF Inv, ClientInv, Known, Left
  <2> QED
    BY <2>2, <2>3
<1> QED
  BY <1>1, AlwaysInv, PTL
=============================================================================
