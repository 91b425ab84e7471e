------------------------------- MODULE Service -------------------------------
(***************************************************************************)
(* One process of the service from startup to shutdown: the consumer task  *)
(* that sets up the RabbitMQ connection (start_consumer, consume), the     *)
(* handler task of each delivery (handle_message), the shared Redis client *)
(* they all ask for (src/app/redis_client.py) and the startup and shutdown *)
(* handlers (src/app/main.py).                                             *)
(*                                                                         *)
(* What a handler does to Redis is SyncStore's subject: here it asks for   *)
(* the client, works, and ends.  The broker redelivers what has not been   *)
(* settled when a connection is lost; aio_pika reconnects and consumes     *)
(* again by itself; whether it cancels the handler tasks of the lost       *)
(* connection or lets them run on is left open.                            *)
(***************************************************************************)
EXTENDS Integers, FiniteSets

CONSTANTS
  Message,
  Kind,           \* "valid", "unknown", "notJson" or "poison", of each message
  MaxConnections, \* bound: connections set up
  MaxDeliveries,  \* bound: deliveries of one message
  MaxFailures,    \* bound: calls of Redis or RabbitMQ that fail
  MaxLosses       \* bound: connections lost

\* "poison" is JSON, but no object, or with an action no label can be looked
\* up for; "unknown" is of no action, or refused by the model of its action,
\* both of which are logged only.
ASSUME KindAssumption ==
  Kind \in [Message -> {"valid", "unknown", "notJson", "poison"}]
ASSUME BoundAssumption ==
  /\ MaxConnections \in Nat \ {0} /\ MaxDeliveries \in Nat \ {0}
  /\ MaxFailures \in Nat /\ MaxLosses \in Nat

Connection   == 1..MaxConnections
NoConnection == 0
Task         == Message \X (1..MaxDeliveries)
Main         == <<"main">>
Caller       == Task \union {Main}

VARIABLES
  broker,       \* what the broker knows of each message
  deliveries,   \* how often it has been delivered
  at,           \* where each handler task and the main task is
  via,          \* the connection a task can settle its message on
  connections,  \* the connections, in the order they are made
  consumer,     \* where the consumer task is
  held,         \* the connection start_consumer knows of
  redisClient,  \* _redis_client and its lock
  clients,      \* the Redis clients that are open
  ran,          \* history: how often a handler of the message came to its end
  raised,       \* history: the messages a handler of which raised
  leaked,       \* history: the connections left behind by a setup that failed or was
                \* cancelled, or by a close that failed
  late,         \* history: the Redis client was created after the shutdown
  stuck,        \* history: the shutdown could not close the Redis client
  failures, losses

delivery  == <<broker, deliveries, via>>
lifecycle == <<connections, consumer, held, leaked>>
redis     == <<redisClient, clients, late, stuck>>
vars == <<delivery, at, lifecycle, redis, ran, raised, failures, losses>>

\* The lock of the client has one holder.
ServiceTypeOK ==
  /\ broker \in [Message -> {"ready", "unacked", "acked", "rejected"}]
  /\ deliveries \in [Message -> 0..MaxDeliveries]
  /\ at \in [Caller -> {"idle", "start", "client", "wait", "create", "work", "ack", "reject",
                        "ended", "ping", "rabbit", "serving", "stopping", "closing", "down",
                        "failed"}]
  /\ via \in [Task -> Connection \union {NoConnection}]
  /\ connections \in [Connection -> {"unused", "open", "consuming", "lost", "closed"}]
  /\ consumer \in {"connect", "setup", "listening", "pause", "closing", "ended"}
  /\ held \in Connection \union {NoConnection}
  /\ redisClient \in {"none", "creating", "open", "closing"}
  /\ \A c, d \in Caller : at[c] = "create" /\ at[d] = "create" => c = d
  /\ redisClient = "creating" <=> \E c \in Caller : at[c] = "create"
  /\ redisClient = "closing" <=> at[Main] = "closing"
  /\ clients \in Nat
  /\ ran \in [Message -> 0..MaxDeliveries]
  /\ raised \subseteq Message
  /\ leaked \subseteq Connection
  /\ late \in BOOLEAN
  /\ stuck \in BOOLEAN
  /\ failures \in 0..MaxFailures
  /\ losses \in 0..MaxLosses

\* startup_event has created the consumer task; check_services begins.
Init ==
  /\ broker = [m \in Message |-> "ready"]
  /\ deliveries = [m \in Message |-> 0]
  /\ at = [c \in Caller |-> IF c = Main THEN "client" ELSE "idle"]
  /\ via = [t \in Task |-> NoConnection]
  /\ connections = [c \in Connection |-> "unused"]
  /\ consumer = "connect"
  /\ held = NoConnection
  /\ redisClient = "none"
  /\ clients = 0
  /\ ran = [m \in Message |-> 0]
  /\ raised = {}
  /\ leaked = {}
  /\ late = FALSE
  /\ stuck = FALSE
  /\ failures = 0
  /\ losses = 0

Fail == failures < MaxFailures /\ failures' = failures + 1
Goto(c, label) == at' = [at EXCEPT ![c] = label]
Running(t) == at[t] \notin {"idle", "ended"}
-----------------------------------------------------------------------------
(* get_redis_pool.  An error of the creation is raised to the caller; only *)
(* the call that creates waits for anything but the lock.                  *)

AfterClient(c) == IF c = Main THEN "ping" ELSE "work"

\* The first look, outside the lock: a client that is being closed is handed
\* out all the same.
AskClient(c) ==
  /\ at[c] = "client"
  /\ IF redisClient \in {"open", "closing"} THEN Goto(c, AfterClient(c)) /\ UNCHANGED redisClient
     ELSE IF redisClient = "creating" THEN Goto(c, "wait") /\ UNCHANGED redisClient
     ELSE Goto(c, "create") /\ redisClient' = "creating"
  /\ UNCHANGED <<delivery, lifecycle, clients, late, stuck, ran, raised, failures, losses>>

\* Fault: a global without a lock.
LockFreeFault == TRUE
LockFree == redisClient \notin {"creating", "closing"}

\* The second look, under the lock.
\* Fault: it is left out.
SecondLookFault == FALSE
SecondLook == redisClient = "open"

GetLock(c) ==
  /\ at[c] = "wait"
  /\ LockFree
  /\ IF SecondLook THEN Goto(c, AfterClient(c)) /\ UNCHANGED redisClient
     ELSE Goto(c, "create") /\ redisClient' = "creating"
  /\ UNCHANGED <<delivery, lifecycle, clients, late, stuck, ran, raised, failures, losses>>

Create(c) ==
  /\ at[c] = "create"
  /\ \/ /\ redisClient' = "open"
        /\ clients' = clients + 1
        /\ late' = (late \/ at[Main] = "down")
        /\ Goto(c, AfterClient(c))
        /\ UNCHANGED <<raised, failures>>
     \/ /\ Fail
        /\ redisClient' = "none"
        /\ Goto(c, IF c = Main THEN "failed" ELSE "reject")
        /\ raised' = IF c = Main THEN raised ELSE raised \union {c[1]}
        /\ UNCHANGED <<clients, late>>
  /\ UNCHANGED <<delivery, lifecycle, stuck, ran, losses>>

ClientStep(c) == AskClient(c) \/ GetLock(c) \/ Create(c)
-----------------------------------------------------------------------------
(* handle_message, as task t of message t[1].                              *)

Deliver(m, c) ==
  /\ broker[m] = "ready" /\ connections[c] = "consuming"
  /\ deliveries[m] < MaxDeliveries
  /\ LET t == <<m, deliveries[m] + 1>> IN
       /\ Goto(t, "start")
       /\ via' = [via EXCEPT ![t] = c]
  /\ broker' = [broker EXCEPT ![m] = "unacked"]
  /\ deliveries' = [deliveries EXCEPT ![m] = @ + 1]
  /\ UNCHANGED <<lifecycle, redis, ran, raised, failures, losses>>

\* What raises before the try block ends the task with nothing settled.
\* Fault: an action nobody dispatches, acknowledged like an unknown one.
FirstStepFault(t) == IF Kind[t[1]] = "notJson" THEN "reject" ELSE "ack"
FirstStep(t) ==
  CASE Kind[t[1]] = "valid" -> "client"
    [] Kind[t[1]] = "unknown" -> "ack"
    [] Kind[t[1]] = "notJson" -> "reject"
    [] Kind[t[1]] = "poison" -> "ended"

Start(t) ==
  /\ at[t] = "start"
  /\ Goto(t, FirstStep(t))
  /\ UNCHANGED <<delivery, lifecycle, redis, ran, raised, failures, losses>>

\* A handler swallows its own errors: it comes to its end.
Work(t) ==
  /\ at[t] = "work"
  /\ Goto(t, "ack")
  /\ ran' = [ran EXCEPT ![t[1]] = @ + 1]
  /\ UNCHANGED <<delivery, lifecycle, redis, raised, failures, losses>>

\* Fault: the reject requeues.
OutcomeFault(label) == IF label = "ack" THEN "acked" ELSE "ready"
Outcome(label) == IF label = "ack" THEN "acked" ELSE "rejected"

\* ack or reject.  On a channel that is gone it raises: after an ack that
\* fails the message is rejected, after a reject that fails the task ends.
Settle(t) ==
  /\ at[t] \in {"ack", "reject"}
  /\ IF via[t] # NoConnection
       THEN /\ broker' = [broker EXCEPT ![t[1]] = Outcome(at[t])]
            /\ Goto(t, "ended")
       ELSE /\ Goto(t, IF at[t] = "ack" THEN "reject" ELSE "ended")
            /\ UNCHANGED broker
  /\ via' = IF at'[t] = "ended" THEN [via EXCEPT ![t] = NoConnection] ELSE via
  /\ UNCHANGED <<deliveries, lifecycle, redis, ran, raised, failures, losses>>

TaskStep(t) == ClientStep(t) \/ Start(t) \/ Work(t) \/ Settle(t)

\* A connection goes and with it its channel: what was delivered on it and
\* not settled goes back to the queue, and the handler tasks of it in
\* cancelled end where they are, letting go of the client they were creating.
Abandon(c, cancelled) ==
  LET on == {t \in Task : via[t] = c}
      creating == \E t \in cancelled : at[t] = "create" IN
  /\ cancelled \subseteq {t \in on : Running(t)}
  /\ broker' = [m \in Message |-> IF broker[m] = "unacked" /\ \E t \in on : t[1] = m
                                  THEN "ready" ELSE broker[m]]
  /\ via' = [t \in Task |-> IF t \in on THEN NoConnection ELSE via[t]]
  /\ at' = [t \in Caller |-> IF t \in cancelled THEN "ended" ELSE at[t]]
  /\ redisClient' = IF creating THEN "none" ELSE redisClient

LoseConnection(c) ==
  /\ connections[c] = "consuming" /\ losses < MaxLosses
  /\ connections' = [connections EXCEPT ![c] = "lost"]
  /\ losses' = losses + 1
  /\ \E cancelled \in SUBSET Task : Abandon(c, cancelled)
  /\ UNCHANGED <<deliveries, consumer, held, leaked, clients, late, stuck, ran, raised, failures>>

Reconnect(c) ==
  /\ connections[c] = "lost"
  /\ connections' = [connections EXCEPT ![c] = "consuming"]
  /\ UNCHANGED <<delivery, at, consumer, held, leaked, redis, ran, raised, failures, losses>>
-----------------------------------------------------------------------------
(* start_consumer and consume.                                             *)

Unused == {c \in Connection : connections[c] = "unused"}
NextUnused == CHOOSE c \in Unused : \A d \in Unused : c <= d
SettingUp == CHOOSE c \in Connection : connections[c] # "unused" /\
               \A d \in Connection : d > c => connections[d] = "unused"

Connect ==
  /\ consumer = "connect"
  /\ \/ /\ Unused # {}
        /\ connections' = [connections EXCEPT ![NextUnused] = "open"]
        /\ consumer' = "setup"
        /\ UNCHANGED failures
     \/ Fail /\ consumer' = "pause" /\ UNCHANGED connections
  /\ UNCHANGED <<delivery, at, held, leaked, redis, ran, raised, losses>>

\* The channel, the exchange, the queue, the binding and the subscription.
\* An error leaves the connection open, and known to nobody; when only the
\* last answer was lost the broker delivers to it.
SetUp ==
  /\ consumer = "setup"
  /\ \/ /\ connections' = [connections EXCEPT ![SettingUp] = "consuming"]
        /\ held' = SettingUp
        /\ consumer' = "listening"
        /\ UNCHANGED <<leaked, failures>>
     \/ /\ Fail
        /\ \E left \in {"open", "consuming"} :
             connections' = [connections EXCEPT ![SettingUp] = left]
        /\ leaked' = leaked \union {SettingUp}
        /\ consumer' = "pause"
        /\ UNCHANGED held
  /\ UNCHANGED <<delivery, at, redis, ran, raised, losses>>

Retry ==
  /\ consumer = "pause"
  /\ consumer' = "connect"
  /\ UNCHANGED <<delivery, at, connections, held, leaked, redis, ran, raised, failures, losses>>

\* An error of the close ends the consumer task with it; shutdown_event logs
\* it and goes on, and the connection stays as it is.
CloseConnection ==
  /\ consumer = "closing"
  /\ consumer' = "ended"
  /\ \/ /\ connections' = [connections EXCEPT ![held] = "closed"]
        /\ \E cancelled \in SUBSET Task : Abandon(held, cancelled)
        /\ UNCHANGED <<leaked, failures>>
     \/ /\ Fail
        /\ leaked' = leaked \union {held}
        /\ UNCHANGED <<connections, broker, via, at, redisClient>>
  /\ UNCHANGED <<deliveries, held, clients, late, stuck, ran, raised, losses>>
-----------------------------------------------------------------------------
(* check_services, shutdown_event and close_redis_pool.                    *)

\* The ping, and a connection to RabbitMQ that is closed at once.
CheckService ==
  /\ at[Main] \in {"ping", "rabbit"}
  /\ \/ Goto(Main, IF at[Main] = "ping" THEN "rabbit" ELSE "serving") /\ UNCHANGED failures
     \/ Goto(Main, "failed") /\ Fail
  /\ UNCHANGED <<delivery, lifecycle, redis, ran, raised, losses>>

\* Where the cancellation finds the consumer task: only the connection it
\* knows of is closed.
\* Fault: the connection is left to the process's end.
CancelledFault == "ended"
Cancelled == IF consumer = "listening" THEN "closing" ELSE "ended"

Shutdown ==
  /\ at[Main] = "serving"
  /\ Goto(Main, "stopping")
  /\ consumer' = Cancelled
  /\ leaked' = IF consumer = "setup" THEN leaked \union {SettingUp} ELSE leaked
  /\ UNCHANGED <<delivery, connections, held, redis, ran, raised, failures, losses>>

CloseRedis ==
  /\ at[Main] = "stopping" /\ consumer = "ended"
  /\ LockFree
  /\ IF redisClient = "open" THEN redisClient' = "closing" /\ Goto(Main, "closing")
     ELSE UNCHANGED redisClient /\ Goto(Main, "down")
  /\ UNCHANGED <<delivery, lifecycle, clients, late, stuck, ran, raised, failures, losses>>

\* An error of the close is logged; the reference goes in any case.
ClientClosed ==
  /\ at[Main] = "closing"
  /\ Goto(Main, "down")
  /\ redisClient' = "none"
  /\ \/ clients' = clients - 1 /\ UNCHANGED <<stuck, failures>>
     \/ UNCHANGED clients /\ stuck' = TRUE /\ Fail
  /\ UNCHANGED <<delivery, lifecycle, late, ran, raised, losses>>

ConsumerStep == Connect \/ SetUp \/ Retry \/ CloseConnection
MainStep     == ClientStep(Main) \/ CheckService \/ CloseRedis \/ ClientClosed
BrokerStep   ==
  \E c \in Connection : Reconnect(c) \/ \E m \in Message : Deliver(m, c)

\* A failed startup ends the process.
Next ==
  /\ at[Main] # "failed"
  /\ \/ \E t \in Task : TaskStep(t)
     \/ ConsumerStep \/ MainStep \/ BrokerStep \/ Shutdown
     \/ \E c \in Connection : LoseConnection(c)

Spec == Init /\ [][Next]_vars

\* Tasks whose wait is over are run, what waits for the broker or for Redis
\* gets an answer or an error, and the broker delivers.  Nobody need shut the
\* service down.
FairSpec ==
  /\ Spec
  /\ \A t \in Task : WF_vars(at[Main] # "failed" /\ TaskStep(t))
  /\ WF_vars(at[Main] # "failed" /\ ConsumerStep)
  /\ WF_vars(at[Main] # "failed" /\ MainStep)
  /\ WF_vars(at[Main] # "failed" /\ BrokerStep)
-----------------------------------------------------------------------------
(* Properties.                                                             *)

\* However many handlers ask for it at once, and whoever is cancelled or fails
\* while creating it, there is never more than one open Redis client ("Redis
\* client singleton", redis_client.py:2), beside the one that the shutdown
\* could not close.
OneClient == clients <= IF stuck THEN 2 ELSE 1

Closed == {c \in Connection : connections[c] = "closed"}

\* An acknowledged message has been handled, a message that was rejected was
\* invalid or its handler raised; and it is handled again only after a
\* connection was lost or closed, never because an ack failed on one that lives.
SettledAsHandled ==
  \A m \in Message :
    /\ broker[m] = "acked" /\ Kind[m] = "valid" => ran[m] > 0
    /\ broker[m] = "rejected" => Kind[m] = "notJson" \/ m \in raised
    /\ ran[m] <= 1 + losses + Cardinality(Closed)

Quiet == \A t \in Task : ~Running(t)

\* After the shutdown the process holds no connection but those a failed or
\* cancelled setup lost sight of and one whose close raised, and no Redis
\* client but one a late handler created and one whose own close raised: no
\* other failure leaves one open.
NothingLeftOpen ==
  at[Main] = "down" /\ Quiet =>
    /\ \A c \in Connection \ leaked : connections[c] \in {"unused", "closed"}
    /\ clients > 0 => late \/ stuck

\* "Invalid messages are rejected (not requeued) to prevent infinite retry
\* loops" (rabbitmq_consumer.py:831): an invalid message whose handler has
\* ended is rejected, as long as no connection was lost or closed.
InvalidRejected ==
  \A m \in Message :
    Kind[m] \in {"notJson", "poison"} /\ losses = 0 /\ at[Main] = "serving"
      /\ at[<<m, 1>>] = "ended" => broker[m] = "rejected"

Up == at[Main] \in {"client", "wait", "create", "ping", "rabbit", "serving"}

\* While the service is up every message that can be settled is settled in the
\* end, through failed setups, lost connections and redeliveries.
EventuallySettled ==
  \A m \in {n \in Message : Kind[n] # "poison"} :
    <>(broker[m] \in {"acked", "rejected"} \/ ~Up)
=============================================================================
