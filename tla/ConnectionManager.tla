-------------------------- MODULE ConnectionManager --------------------------
(***************************************************************************)
(* The registry of open WebSockets in one instance of the service          *)
(* (src/app/connection_manager.py), the endpoint tasks that enter and      *)
(* leave it (src/app/websockets.py) and the push tasks that walk it.       *)
(*                                                                         *)
(* The asyncio locks are never contended: no critical section waits.  What *)
(* interleaves are the waits outside them, for Redis and for the sockets,  *)
(* so an action is the code between two waits.  A list of sockets is a     *)
(* set, a socket being added once.                                         *)
(***************************************************************************)
EXTENDS Integers, FiniteSets

CONSTANTS
  User,
  Anonymous,           \* settings.ANONIM_USER: all anonymous clients share it
  Socket,
  Owner,               \* the user each socket authenticates as
  Push,                \* the pushes other tasks make, each to one user
  MaxConcurrentSends,  \* settings.MAX_CONCURRENT_SENDS
  MaxFailures,         \* bound: Redis commands of the online counter that fail
  MaxExpiries          \* bound: how often user_online:{user} reaches its TTL

ASSUME ManagerAssumption ==
  /\ Owner \in [Socket -> User]
  /\ MaxConcurrentSends \in Nat \ {0}
  /\ MaxFailures \in Nat
  /\ MaxExpiries \in Nat

Endpoint == <<"endpoint">>
ASSUME EndpointAssumption == Endpoint \notin Push

\* disconnect is called by a socket's endpoint and by a push that failed.
Task == (Push \union {Endpoint}) \X Socket
Holder(t) == Owner[t[2]]

VARIABLES
  active,     \* active_connections
  locks,      \* the keys of user_locks
  counter,    \* user_online:{user}, 0 when there is no key
  endpoint,   \* where the endpoint task of each socket is
  closing,    \* where each call of disconnect is
  last,       \* should_cleanup of each call of disconnect
  waiting,    \* the sockets of a push that have not got a send slot yet
  sending,    \* the sends in progress, pairs <<push, socket>>
  pushed,     \* the pushes made
  removals,   \* history: how often each socket was taken out of the registry
  outrun,     \* history: the sockets taken out before they were counted
  wiped,      \* history: the users counted between a DECR and its DEL
  failures, expiries

registry == <<active, locks>>
pushes   == <<waiting, sending, pushed>>
history  == <<removals, outrun, wiped>>
bounds   == <<failures, expiries>>
vars     == <<registry, counter, endpoint, closing, last, pushes, history, bounds>>

TypeOK ==
  /\ active \in [User -> SUBSET Socket]
  /\ locks \subseteq User
  /\ counter \in [User -> Int]
  /\ endpoint \in [Socket -> {"new", "incr", "open", "leaving", "gone"}]
  /\ closing \in [Task -> {"idle", "decr", "del"}]
  /\ last \in [Task -> BOOLEAN]
  /\ waiting \in [Push -> SUBSET Socket]
  /\ sending \subseteq Push \X Socket
  /\ pushed \subseteq Push
  /\ removals \in [Socket -> 0..1]
  /\ outrun \subseteq Socket
  /\ wiped \subseteq User
  /\ failures \in 0..MaxFailures
  /\ expiries \in 0..MaxExpiries

Init ==
  /\ active = [u \in User |-> {}]
  /\ locks = {}
  /\ counter = [u \in User |-> 0]
  /\ endpoint = [s \in Socket |-> "new"]
  /\ closing = [t \in Task |-> "idle"]
  /\ last = [t \in Task |-> FALSE]
  /\ waiting = [p \in Push |-> {}]
  /\ sending = {}
  /\ pushed = {}
  /\ removals = [s \in Socket |-> 0]
  /\ outrun = {}
  /\ wiped = {}
  /\ failures = 0
  /\ expiries = 0

Fail == failures < MaxFailures /\ failures' = failures + 1
-----------------------------------------------------------------------------
(* connect.                                                                *)

Connect(s) ==
  LET u == Owner[s] IN
  /\ endpoint[s] = "new"
  /\ locks' = locks \union {u}
  /\ active' = [active EXCEPT ![u] = @ \union {s}]
  /\ endpoint' = [endpoint EXCEPT ![s] = IF u = Anonymous THEN "open" ELSE "incr"]
  /\ UNCHANGED <<counter, closing, last, pushes, history, bounds>>

\* _increment_online_counter: an error is swallowed.
Increment(s) ==
  /\ endpoint[s] = "incr"
  /\ \/ counter' = [counter EXCEPT ![Owner[s]] = @ + 1] /\ UNCHANGED failures
     \/ UNCHANGED counter /\ Fail
  /\ endpoint' = [endpoint EXCEPT ![s] = "open"]
  /\ wiped' = IF \E t \in Task : Holder(t) = Owner[s] /\ closing[t] = "del"
              THEN wiped \union {Owner[s]} ELSE wiped
  /\ UNCHANGED <<registry, closing, last, pushes, removals, outrun, expiries>>
-----------------------------------------------------------------------------
(* disconnect, by task t for the socket t[2].                              *)

\* The last lines of disconnect, on the registry conn.
\* Fault: the second look at the registry is left out.
WithoutLockFault(conn, u) == locks \ {u}
WithoutLock(conn, u) == IF conn[u] = {} THEN locks \ {u} ELSE locks

\* A socket that is not registered has been removed by another call.
\* Fault: the check is left out.
IsRegisteredFault(t) == TRUE
IsRegistered(t) == t[2] \in active[Holder(t)]

\* What disconnect does before it waits, which is all of it when the socket
\* is not registered or is an anonymous client's.
Remove(t) ==
  LET u == Holder(t)
      left == [active EXCEPT ![u] = @ \ {t[2]}] IN
  /\ UNCHANGED wiped
  /\ IF ~IsRegistered(t)
       THEN /\ locks' = locks \union {u}
            /\ UNCHANGED <<active, closing, last, removals, outrun>>
       ELSE /\ active' = left
            /\ removals' = [removals EXCEPT ![t[2]] = @ + 1]
            /\ outrun' = IF endpoint[t[2]] = "incr" THEN outrun \union {t[2]} ELSE outrun
            /\ IF u = Anonymous
                 THEN /\ locks' = WithoutLock(left, u)
                      /\ UNCHANGED <<closing, last>>
                 ELSE /\ locks' = locks \union {u}
                      /\ closing' = [closing EXCEPT ![t] = "decr"]
                      /\ last' = [last EXCEPT ![t] = left[u] = {}]

\* The end of a call that waited for Redis.
Finish(t) ==
  /\ locks' = IF last[t] THEN WithoutLock(active, Holder(t)) ELSE locks
  /\ closing' = [closing EXCEPT ![t] = "idle"]
  /\ last' = [last EXCEPT ![t] = FALSE]
  /\ endpoint' = IF t[1] = Endpoint THEN [endpoint EXCEPT ![t[2]] = "gone"] ELSE endpoint

\* Fault: only the last connection counts itself off.
DecrementedFault(u) == IF active[u] = {} THEN counter[u] - 1 ELSE counter[u]
Decremented(u) == counter[u] - 1

\* _decrement_online_counter: DECR, and DEL in a second round trip when the
\* result is 0 or below; without an answer, executed or not, there is no DEL.
Decrement(t) ==
  LET u == Holder(t) IN
  /\ closing[t] = "decr"
  /\ \/ /\ counter' = [counter EXCEPT ![u] = Decremented(u)]
        /\ UNCHANGED failures
        /\ IF Decremented(u) <= 0
             THEN closing' = [closing EXCEPT ![t] = "del"] /\ UNCHANGED <<locks, last, endpoint>>
             ELSE Finish(t)
     \/ /\ counter' \in {[counter EXCEPT ![u] = Decremented(u)], counter}
        /\ Fail /\ Finish(t)
  /\ UNCHANGED <<active, pushes, history, expiries>>

DeleteKey(t) ==
  /\ closing[t] = "del"
  /\ \/ counter' = [counter EXCEPT ![Holder(t)] = 0] /\ UNCHANGED failures
     \/ UNCHANGED counter /\ Fail
  /\ Finish(t)
  /\ UNCHANGED <<active, pushes, history, expiries>>

\* The endpoint's receive loop ends: the client left, was idle for too long
\* or could not be answered.
Leave(s) ==
  LET t == <<Endpoint, s>> IN
  /\ endpoint[s] = "open"
  /\ Remove(t)
  /\ endpoint' = [endpoint EXCEPT ![s] = IF IsRegistered(t) /\ Owner[s] # Anonymous
                                         THEN "leaving" ELSE "gone"]
  /\ UNCHANGED <<counter, pushes, bounds>>

\* No ping has refreshed the key for ONLINE_STATUS_TTL seconds.
ExpireOnline(u) ==
  /\ expiries < MaxExpiries
  /\ counter[u] # 0
  /\ counter' = [counter EXCEPT ![u] = 0]
  /\ expiries' = expiries + 1
  /\ UNCHANGED <<registry, endpoint, closing, last, pushes, history, failures>>
-----------------------------------------------------------------------------
(* send_personal_message, send_message_to_socket.                          *)

\* The connections are copied; anonymous ones then queue for a send slot.
StartPush(p, u) ==
  /\ p \notin pushed
  /\ pushed' = pushed \union {p}
  /\ locks' = locks \union {u}
  /\ IF u = Anonymous
       THEN waiting' = [waiting EXCEPT ![p] = active[u]] /\ UNCHANGED sending
       ELSE sending' = sending \union ({p} \X active[u]) /\ UNCHANGED waiting
  /\ UNCHANGED <<active, counter, endpoint, closing, last, history, bounds>>

InSlots == {q \in sending : Owner[q[2]] = Anonymous}

\* Fault: one slot less.
HasSlotFault == Cardinality(InSlots) < MaxConcurrentSends - 1
HasSlot == Cardinality(InSlots) < MaxConcurrentSends

TakeSlot(p, s) ==
  /\ s \in waiting[p]
  /\ HasSlot
  /\ waiting' = [waiting EXCEPT ![p] = @ \ {s}]
  /\ sending' = sending \union {<<p, s>>}
  /\ UNCHANGED <<registry, counter, endpoint, closing, last, pushed, history, bounds>>

SendSucceeds(p, s) ==
  /\ <<p, s>> \in sending
  /\ sending' = sending \ {<<p, s>>}
  /\ UNCHANGED <<registry, counter, endpoint, closing, last, waiting, pushed, history, bounds>>

SendFails(p, s) ==
  /\ <<p, s>> \in sending
  /\ sending' = sending \ {<<p, s>>}
  /\ Remove(<<p, s>>)
  /\ UNCHANGED <<counter, endpoint, waiting, pushed, bounds>>

TaskStep ==
  \/ \E s \in Socket : Increment(s)
  \/ \E t \in Task : Decrement(t) \/ DeleteKey(t)
  \/ \E p \in Push, s \in Socket : TakeSlot(p, s) \/ SendSucceeds(p, s) \/ SendFails(p, s)

Next ==
  \/ \E s \in Socket : Connect(s) \/ Leave(s)
  \/ \E u \in User : ExpireOnline(u)
  \/ \E p \in Push, u \in User : StartPush(p, u)
  \/ TaskStep

Spec == Init /\ [][Next]_vars

\* Redis and the sockets answer or fail.  Clients need not come or leave.
FairSpec == Spec /\ WF_vars(TaskStep)
-----------------------------------------------------------------------------
(* Properties.                                                             *)

\* However many pushes fail on a socket while its endpoint leaves, it is
\* taken out of the registry, and counted off, once; and never stays behind
\* when its endpoint has ended.
RemovedOnce ==
  \A s \in Socket :
    /\ Cardinality({t \in Task : t[2] = s /\ closing[t] # "idle"}) <= removals[s]
    /\ removals[s] = 1 => s \notin active[Owner[s]]
    /\ endpoint[s] \in {"leaving", "gone"} => s \notin active[Owner[s]] /\ removals[s] = 1

\* A user with a connection has a lock: a disconnect that found the registry
\* empty before it waited does not delete the lock of a user who has come back.
ConnectedHasLock == \A u \in User : active[u] # {} => u \in locks

\* The counter never exceeds the connections that are registered or still to
\* be counted off, those a failed push took out before they were counted, and
\* one for each command that failed: but for these, a user who has left does
\* not stay online.
OvercountedOnlyIfOutrun ==
  \A u \in User :
    counter[u] <= failures + Cardinality({s \in Socket : Owner[s] = u /\
      (s \in active[u] \union outrun \/ \E t \in Task : t[2] = s /\ closing[t] = "decr")})

Quiescent ==
  /\ \A s \in Socket : endpoint[s] \notin {"incr", "leaving"}
  /\ \A t \in Task : closing[t] = "idle"
  /\ sending = {} /\ \A p \in Push : waiting[p] = {}

\* connect "Also tracks online status in Redis for non-anonymous users"
\* (connection_manager.py:80): a user with a connection, whose tasks have all
\* finished without an error or an expiry, is online, unless the DEL of a
\* disconnect wiped out a connection counted after its DECR.
OnlineUnlessWiped ==
  Quiescent /\ failures = 0 /\ expiries = 0 =>
    \A u \in User \ ({Anonymous} \union wiped) : active[u] # {} => counter[u] > 0

\* Every connect, disconnect and push that has begun comes to its end, with
\* the send slots shared by all pushes.
EventuallyQuiet == <>[]Quiescent
=============================================================================
