------------------------------ MODULE Messaging ------------------------------
(***************************************************************************)
(* The events the service only passes on: chat messages, reminders and     *)
(* subscriptions, access requests, and the fan-out of block updates        *)
(* (src/app/rabbitmq_consumer.py), over the registry of ConnectionManager: *)
(* who is sent an event, in which order, and when its handler is done,     *)
(* while sockets come, go and break.                                       *)
(*                                                                         *)
(* A push is an event on its way to one user.  The list of members is      *)
(* taken without repetitions, and no chat partner is anonymous, so that    *)
(* send_to_user, which takes no send slot, does what send_personal_message *)
(* does.                                                                   *)
(***************************************************************************)
EXTENDS ConnectionManager

CONSTANTS
  NoUser,  \* a sender or a recipient the message does not name
  Event,   \* the events published: kind, sender, recipient and members
  Early    \* the sockets that are registered from the start

Kinds == {"dm", "group_message", "group_update", "notification", "access_request", "update"}

ASSUME EventAssumption ==
  /\ NoUser \notin User
  /\ \A e \in Event :
       /\ e.kind \in Kinds
       /\ e.sender \in User \union {NoUser}
       /\ e.recipient \in User \union {NoUser}
       /\ e.members \subseteq User
       /\ e.kind \in Kinds \ {"notification", "update"} =>
            Anonymous \notin {e.sender, e.recipient} \union e.members
  /\ Push = Event \X User
  /\ Early \subseteq Socket /\ IsFiniteSet(Early)

VARIABLES
  stage,    \* where the handler of each event is
  tried,    \* history: how often an event was sent to a socket
  present   \* history: the sockets registered ever since an event's handler began

messagingVars == <<vars, stage, tried, present>>

MessagingTypeOK ==
  /\ stage \in [Event -> {"queued", "running", "settled"}]
  /\ tried \in [Event \X Socket -> 0..2]
  /\ present \in [Event -> SUBSET Socket]

Opened(u) == {s \in Early : Owner[s] = u}

\* As Init, with the early sockets connected and counted.
MessagingInit ==
  /\ active = [u \in User |-> Opened(u)]
  /\ locks = {u \in User : Opened(u) # {}}
  /\ counter = [u \in User |-> IF u = Anonymous THEN 0 ELSE Cardinality(Opened(u))]
  /\ endpoint = [s \in Socket |-> IF s \in Early THEN "open" ELSE "new"]
  /\ closing = [t \in Task |-> "idle"]
  /\ last = [t \in Task |-> FALSE]
  /\ waiting = [p \in Push |-> {}]
  /\ sending = {}
  /\ pushed = {}
  /\ removals = [s \in Socket |-> 0]
  /\ outrun = {}
  /\ wiped = {}
  /\ failures = 0
  /\ expiries = 0
  /\ stage = [e \in Event |-> "queued"]
  /\ tried = [p \in Event \X Socket |-> 0]
  /\ present = [e \in Event |-> {}]
-----------------------------------------------------------------------------
\* The user of a notification, the owner a request for access is sent to, the
\* requester its response is sent to.
Addressee(e) == {e.recipient} \ {NoUser}

\* Fault: a group message goes to its sender like a group update.
TargetsFault(e) ==
  IF e.kind = "dm" THEN IF e.recipient = NoUser THEN {} ELSE {e.recipient, e.sender} \ {NoUser}
  ELSE IF e.kind \in {"group_message", "group_update", "update"} THEN e.members ELSE Addressee(e)
Targets(e) ==
  IF e.kind = "dm" THEN IF e.recipient = NoUser THEN {} ELSE {e.recipient, e.sender} \ {NoUser}
  ELSE IF e.kind = "group_message" THEN e.members \ {e.sender}
  ELSE IF e.kind \in {"group_update", "update"} THEN e.members ELSE Addressee(e)

PushDone(p) ==
  /\ p \in pushed
  /\ waiting[p] = {}
  /\ \A s \in Socket : <<p, s>> \notin sending /\ closing[<<p, s>>] = "idle"

\* A direct message is echoed to its sender when it has been delivered; all
\* other targets are served together.
\* Fault: the echo is not waited for.
MayStartFault(e, u) == TRUE
MayStart(e, u) ==
  e.kind = "dm" /\ u # e.recipient => PushDone(<<e, e.recipient>>)

Begin(e) ==
  /\ stage[e] = "queued"
  /\ stage' = [stage EXCEPT ![e] = "running"]
  /\ UNCHANGED vars

\* send_to_user, send_personal_message.
Serve(e, u) ==
  /\ stage[e] # "queued"
  /\ u \in Targets(e)
  /\ MayStart(e, u)
  /\ StartPush(<<e, u>>, u)
  /\ UNCHANGED stage

\* The handler waits for its pushes, but not for the fan-out of an update.
Settle(e) ==
  /\ stage[e] = "running"
  /\ e.kind # "update" => \A u \in Targets(e) : PushDone(<<e, u>>)
  /\ stage' = [stage EXCEPT ![e] = "settled"]
  /\ UNCHANGED vars

EventStep == \E e \in Event : Begin(e) \/ Settle(e) \/ \E u \in User : Serve(e, u)

Registered == UNION {active[u] : u \in User}

Record ==
  /\ tried' = [p \in Event \X Socket |->
       tried[p] + Cardinality({u \in User : <<<<p[1], u>>, p[2]>> \in sending' \ sending})]
  /\ present' = [e \in Event |->
       IF stage[e] = "queued" THEN IF stage'[e] = "queued" THEN {} ELSE Registered
       ELSE present[e] \intersect Registered']

SocketStep == \E s \in Socket : Connect(s) \/ Leave(s)

MessagingNext == (EventStep \/ ((SocketStep \/ TaskStep) /\ UNCHANGED stage)) /\ Record

MessagingSpec == MessagingInit /\ [][MessagingNext]_messagingVars
-----------------------------------------------------------------------------
(* Properties.                                                             *)

\* Whom the comments name: "send to recipient and sender (for multi-device
\* sync)", "send to all members except sender", "send to all members"
\* (rabbitmq_consumer.py:629, :666 and :698), the user of a notification, the
\* owner or the requester, and the subscribers of a block.
Audience(e) ==
  {u \in User :
     \/ e.kind \in {"dm", "notification", "access_request"} /\ u = e.recipient
     \/ e.kind = "dm" /\ e.recipient # NoUser /\ u = e.sender
     \/ e.kind = "group_message" /\ u \in e.members /\ u # e.sender
     \/ e.kind \in {"group_update", "update"} /\ u \in e.members}

Over(e) == stage[e] = "settled" /\ \A u \in Targets(e) : PushDone(<<e, u>>)

\* An event that is over has been sent once to every socket of its audience
\* that stayed registered all the while, whoever connected, left or broke
\* during it, and to no socket twice or of anybody else.
AudienceTriedOnce ==
  MessagingTypeOK /\
  \A e \in Event, s \in Socket :
    /\ tried[<<e, s>>] <= IF Owner[s] \in Audience(e) THEN 1 ELSE 0
    /\ Over(e) /\ s \in present[e] /\ Owner[s] \in Audience(e) => tried[<<e, s>>] = 1

\* No device of the sender is sent the echo of a direct message before the
\* message has been sent, or has failed to be sent, on all the devices of the
\* recipient that were there when it was.
EchoAfterDelivery ==
  \A e \in Event, s \in Socket :
    e.kind = "dm" /\ Owner[s] = e.sender /\ e.sender # e.recipient /\ tried[<<e, s>>] > 0 =>
      \A d \in present[e] : Owner[d] = e.recipient =>
        tried[<<e, d>>] = 1 /\ <<<<e, e.recipient>>, d>> \notin sending
=============================================================================
