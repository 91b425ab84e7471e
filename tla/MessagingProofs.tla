--------------------------- MODULE MessagingProofs ---------------------------
(***************************************************************************)
(* What is proved of Messaging for every set of users, sockets and events: *)
(* every socket of an event's audience that stays is tried once, nobody    *)
(* else is, and a sender's devices are served after the recipient's.       *)
(***************************************************************************)
EXTENDS Messaging, ConnectionManagerProofs

\* The push that sends e to s.
PushTo(e, s) == <<e, Owner[s]>>

\* Only pushes that were made have sockets, each its user's and either in the
\* queue or under way; and only those to a target are made.
PushInv ==
  /\ \A p \in Push, s \in Socket :
       /\ <<p, s>> \in sending \/ s \in waiting[p] => p \in pushed /\ Owner[s] = p[2]
       /\ ~(<<p, s>> \in sending /\ s \in waiting[p])
  /\ \A e \in Event, u \in User :
       <<e, u>> \in pushed => stage[e] # "queued" /\ u \in Targets(e)

\* A socket is tried when its send begins, and then it is not queued.
TriedInv ==
  \A e \in Event, s \in Socket :
    /\ tried[<<e, s>>] \in 0..1
    /\ tried[<<e, s>>] = 1 => PushTo(e, s) \in pushed
    /\ s \in waiting[PushTo(e, s)] => tried[<<e, s>>] = 0
    /\ <<PushTo(e, s), s>> \in sending => tried[<<e, s>>] = 1

\* A socket that has stayed is still registered, and once its user's push has
\* been made it is queued or has been tried.
PresentInv ==
  \A e \in Event : \A s \in present[e] :
    /\ s \in active[Owner[s]]
    /\ PushTo(e, s) \in pushed => s \in waiting[PushTo(e, s)] \/ tried[<<e, s>>] = 1

\* Nothing of a direct message is under way to its recipient once it is echoed.
Delivered(p) == p \in pushed /\ waiting[p] = {} /\ \A s \in Socket : <<p, s>> \notin sending
EchoInv ==
  \A e \in Event :
    e.kind = "dm" /\ e.sender # e.recipient /\ <<e, e.sender>> \in pushed =>
      Delivered(<<e, e.recipient>>)

MessagingInv ==
  Inv /\ MessagingTypeOK /\ PushInv /\ TriedInv /\ PresentInv /\ EchoInv
-----------------------------------------------------------------------------
(* Whom an event is for.                                                   *)

\* The handlers' targets are the audience that their comments name.
LEMMA AudienceIsTargets ==
  ASSUME NEW e \in Event
  PROVE  Targets(e) = Audience(e)
BY EventAssumption DEF Targets, Audience, Addressee, Kinds

LEMMA PushParts ==
  /\ \A e \in Event, u \in User : <<e, u>> \in Push
  /\ \A e \in Event, s \in Socket : PushTo(e, s) \in Push /\ Owner[s] \in User
BY EventAssumption, ManagerAssumption DEF PushTo

\* A step of the events is one of the registry or changes none of it.
LEMMA RegistryStep ==
  ASSUME Inv, [MessagingNext]_messagingVars
  PROVE  Inv'
<1>1. [Next]_vars
  BY PushParts DEF MessagingNext, EventStep, Begin, Settle, Serve, SocketStep, Next,
     messagingVars
<1> QED
  BY <1>1, NextInv

\* A step makes a push, lets one out of the queue, or ends sends.
LEMMA StepsOfPushes ==
  ASSUME MessagingNext
  PROVE  \/ UNCHANGED <<waiting, pushed>> /\ sending' \subseteq sending
         \/ \E e \in Event, u \in User : Serve(e, u)
         \/ \E p \in Push, s \in Socket : TakeSlot(p, s)
<1>1. ASSUME NEW e \in Event, Begin(e) \/ Settle(e)
      PROVE  UNCHANGED <<waiting, pushed, sending>>
  BY <1>1 DEF Begin, Settle, vars, pushes
<1>2. ASSUME NEW s \in Socket, Connect(s) \/ Leave(s) \/ Increment(s)
      PROVE  UNCHANGED <<waiting, pushed, sending>>
  BY <1>2 DEF Connect, Leave, Increment, pushes
<1>3. ASSUME NEW t \in Task, Decrement(t) \/ DeleteKey(t)
      PROVE  UNCHANGED <<waiting, pushed, sending>>
  BY <1>3 DEF Decrement, DeleteKey, pushes
<1>4. ASSUME NEW p \in Push, NEW s \in Socket, SendSucceeds(p, s) \/ SendFails(p, s)
      PROVE  UNCHANGED <<waiting, pushed>> /\ sending' \subseteq sending
  BY <1>4 DEF SendSucceeds, SendFails
<1> QED
  BY <1>1, <1>2, <1>3, <1>4 DEF MessagingNext, EventStep, SocketStep, TaskStep

\* A handler that has begun does not begin again.
LEMMA StagesGrow ==
  ASSUME MessagingTypeOK, MessagingNext, NEW e \in Event, stage[e] # "queued"
  PROVE  stage'[e] # "queued"
BY DEF MessagingTypeOK, MessagingNext, EventStep, Begin, Settle, Serve

LEMMA PushStep ==
  ASSUME Inv, MessagingTypeOK, PushInv, MessagingNext
  PROVE  PushInv'
<1>1. /\ waiting \in [Push -> SUBSET Socket] /\ active \in [User -> SUBSET Socket]
      /\ \A u \in User : \A s \in active[u] : Owner[s] = u
  BY DEF Inv, TypeOK, RegistryInv
<1>2. ASSUME NEW e \in Event, NEW u \in User, <<e, u>> \in pushed
      PROVE  stage'[e] # "queued" /\ u \in Targets(e)
  BY <1>2, StagesGrow DEF PushInv
<1>3. CASE UNCHANGED <<waiting, pushed>> /\ sending' \subseteq sending
  BY <1>2, <1>3 DEF PushInv
<1>4. ASSUME NEW f \in Event, NEW v \in User, Serve(f, v)
      PROVE  PushInv'
  <2> DEFINE q == <<f, v>>
  <2>1. /\ q \in Push /\ q \notin pushed /\ pushed' = pushed \union {q}
        /\ stage' = stage /\ stage[f] # "queued" /\ v \in Targets(f)
        /\ IF v = Anonymous
             THEN waiting' = [waiting EXCEPT ![q] = active[v]] /\ UNCHANGED sending
             ELSE sending' = sending \union ({q} \X active[v]) /\ UNCHANGED waiting
    BY <1>4, PushParts DEF Serve, StartPush
  <2>2. ASSUME NEW p \in Push, NEW s \in Socket
        PROVE  /\ <<p, s>> \in sending' \/ s \in waiting'[p] => p \in pushed' /\ Owner[s] = p[2]
               /\ ~(<<p, s>> \in sending' /\ s \in waiting'[p])
    <3>1. CASE p = q
      <4>1. <<p, s>> \notin sending /\ s \notin waiting[p]
        BY <2>1, <3>1 DEF PushInv
      <4> QED
        BY <1>1, <2>1, <3>1, <4>1
    <3>2. CASE p # q
      <4>1. (<<p, s>> \in sending' <=> <<p, s>> \in sending) /\ waiting'[p] = waiting[p]
        BY <1>1, <2>1, <3>2
      <4> QED
        BY <2>1, <4>1 DEF PushInv
    <3> QED
      BY <3>1, <3>2
  <2>3. ASSUME NEW e \in Event, NEW u \in User, <<e, u>> \in pushed'
        PROVE  stage'[e] # "queued" /\ u \in Targets(e)
    BY <1>2, <2>1, <2>3
  <2> QED
    BY <2>2, <2>3 DEF PushInv
<1>5. ASSUME NEW q \in Push, NEW d \in Socket, TakeSlot(q, d)
      PROVE  PushInv'
  BY <1>1, <1>2, <1>5 DEF TakeSlot, PushInv
<1> QED
  BY <1>3, <1>4, <1>5, StepsOfPushes

\* Record counts a socket once when its send begins.
LEMMA TriedCounts ==
  ASSUME PushInv', NEW e \in Event, NEW s \in Socket, Record, MessagingTypeOK,
         sending' \subseteq Push \X Socket
  PROVE  tried'[<<e, s>>] =
           IF <<PushTo(e, s), s>> \in sending' \ sending THEN tried[<<e, s>>] + 1
           ELSE tried[<<e, s>>]
<1> DEFINE begun == {u \in User : <<<<e, u>>, s>> \in sending' \ sending}
<1>1. tried'[<<e, s>>] = tried[<<e, s>>] + Cardinality(begun) /\ tried[<<e, s>>] \in Nat
  <2>1. <<e, s>> \in Event \X Socket /\ <<e, s>>[1] = e /\ <<e, s>>[2] = s
    OBVIOUS
  <2>2. tried'[<<e, s>>] = tried[<<e, s>>] + Cardinality(begun)
    BY <2>1 DEF Record
  <2>3. tried[<<e, s>>] \in 0..2
    BY <2>1 DEF MessagingTypeOK
  <2> QED
    BY <2>2, <2>3
<1>2. begun \subseteq {Owner[s]}
  BY PushParts DEF PushInv
<1>3. CASE <<PushTo(e, s), s>> \in sending' \ sending
  <2>1. begun = {Owner[s]}
    BY <1>2, <1>3, PushParts DEF PushTo
  <2>2. Cardinality(begun) = 1
    BY <2>1, FS_Singleton
  <2> QED
    BY <1>1, <1>3, <2>2
<1>4. CASE <<PushTo(e, s), s>> \notin sending' \ sending
  <2>1. begun = {}
    BY <1>2, <1>4 DEF PushTo
  <2>2. Cardinality(begun) = 0
    BY <2>1, FS_EmptySet
  <2> QED
    BY <1>1, <1>4, <2>2
<1> QED
  BY <1>3, <1>4

LEMMA TriedStep ==
  ASSUME Inv, Inv', MessagingTypeOK, PushInv, PushInv', TriedInv, MessagingNext
  PROVE  TriedInv'
<1> SUFFICES ASSUME NEW e \in Event, NEW s \in Socket
             PROVE  /\ tried'[<<e, s>>] \in 0..1
                    /\ tried'[<<e, s>>] = 1 => PushTo(e, s) \in pushed'
                    /\ s \in waiting'[PushTo(e, s)] => tried'[<<e, s>>] = 0
                    /\ <<PushTo(e, s), s>> \in sending' => tried'[<<e, s>>] = 1
  BY DEF TriedInv, PushTo
<1> DEFINE p == PushTo(e, s)
           before == tried[<<e, s>>]
<1>1. p \in Push /\ sending' \subseteq Push \X Socket /\ waiting \in [Push -> SUBSET Socket]
  BY PushParts DEF Inv, TypeOK
<1>2. tried'[<<e, s>>] = IF <<p, s>> \in sending' \ sending THEN before + 1 ELSE before
  BY <1>1, TriedCounts DEF MessagingNext
<1>3. /\ before \in 0..1
      /\ before = 1 => p \in pushed
      /\ s \in waiting[p] => before = 0
      /\ <<p, s>> \in sending => before = 1
  BY DEF TriedInv
<1>4. CASE UNCHANGED <<waiting, pushed>> /\ sending' \subseteq sending
  BY <1>2, <1>3, <1>4
<1>5. ASSUME NEW f \in Event, NEW v \in User, Serve(f, v)
      PROVE  /\ p \in pushed => p \in pushed' /\ waiting'[p] = waiting[p]
                                /\ (<<p, s>> \in sending' <=> <<p, s>> \in sending)
             /\ sending \subseteq sending'
  BY <1>1, <1>5, PushParts DEF Serve, StartPush
<1>6. ASSUME NEW f \in Event, NEW v \in User, Serve(f, v)
      PROVE  p \notin pushed => before = 0 /\ <<p, s>> \notin sending
  BY <1>1, <1>3 DEF PushInv
<1>7. CASE \E f \in Event, v \in User : Serve(f, v)
  <2>1. CASE p \in pushed
    BY <1>2, <1>3, <1>5, <1>7, <2>1
  <2>2. CASE p \notin pushed
    <3>1. before = 0 /\ <<p, s>> \notin sending
      BY <1>6, <1>7, <2>2
    <3>2. CASE <<p, s>> \in sending'
      <4>1. p \in pushed' /\ s \notin waiting'[p]
        BY <1>1, <3>2 DEF PushInv
      <4> QED
        BY <1>2, <3>1, <3>2, <4>1
    <3>3. CASE <<p, s>> \notin sending'
      BY <1>2, <3>1, <3>3
    <3> QED
      BY <3>2, <3>3
  <2> QED
    BY <2>1, <2>2
<1>8. ASSUME NEW q \in Push, NEW d \in Socket, TakeSlot(q, d)
      PROVE  /\ tried'[<<e, s>>] \in 0..1
             /\ tried'[<<e, s>>] = 1 => p \in pushed'
             /\ s \in waiting'[p] => tried'[<<e, s>>] = 0
             /\ <<p, s>> \in sending' => tried'[<<e, s>>] = 1
  <2>1. /\ d \in waiting[q] /\ pushed' = pushed
        /\ waiting' = [waiting EXCEPT ![q] = @ \ {d}]
        /\ sending' = sending \union {<<q, d>>}
    BY <1>8 DEF TakeSlot
  <2>2. CASE q = p /\ d = s
    <3>1. before = 0 /\ <<p, s>> \in sending' \ sending /\ p \in pushed
      BY <1>1, <1>3, <2>1, <2>2 DEF PushInv
    <3>2. s \notin waiting'[p]
      BY <1>1, <2>1, <2>2
    <3> QED
      BY <1>2, <2>1, <3>1, <3>2
  <2>3. CASE ~(q = p /\ d = s)
    <3>1. <<p, s>> \in sending' <=> <<p, s>> \in sending
      BY <2>1, <2>3
    <3>2. s \in waiting'[p] => s \in waiting[p]
      BY <1>1, <2>1
    <3> QED
      BY <1>2, <1>3, <2>1, <3>1, <3>2
  <2> QED
    BY <2>2, <2>3
<1> QED
  BY <1>4, <1>7, <1>8, StepsOfPushes

LEMMA MessagingTypes ==
  ASSUME Inv, Inv', MessagingTypeOK, TriedInv', MessagingNext
  PROVE  MessagingTypeOK'
<1>1. stage' \in [Event -> {"queued", "running", "settled"}]
  BY DEF MessagingTypeOK, MessagingNext, EventStep, Begin, Settle, Serve
<1>2. Registered \subseteq Socket /\ Registered' \subseteq Socket
  BY DEF Registered, Inv, TypeOK
<1>3. present' \in [Event -> SUBSET Socket]
  BY <1>2 DEF MessagingNext, Record, MessagingTypeOK
<1>4. tried' \in [Event \X Socket -> 0..2]
  <2>1. ASSUME NEW p \in Event \X Socket
        PROVE  tried'[p] \in 0..2
    <3>1. PICK e \in Event, s \in Socket : p = <<e, s>>
      OBVIOUS
    <3>2. tried'[<<e, s>>] \in 0..1
      BY DEF TriedInv
    <3> QED
      BY <3>1, <3>2
  <2> DEFINE counted(p) ==
        tried[p] + Cardinality({u \in User : <<<<p[1], u>>, p[2]>> \in sending' \ sending})
  <2>2. tried' = [p \in Event \X Socket |-> counted(p)]
    BY DEF MessagingNext, Record
  <2> HIDE DEF counted
  <2> QED
    BY <2>1, <2>2
<1> QED
  BY <1>1, <1>3, <1>4 DEF MessagingTypeOK

LEMMA PresentStep ==
  ASSUME Inv, Inv', MessagingTypeOK, PushInv, PushInv', TriedInv, TriedInv', PresentInv,
         MessagingNext
  PROVE  PresentInv'
<1> SUFFICES ASSUME NEW e \in Event, NEW s \in present'[e]
             PROVE  /\ s \in active'[Owner[s]]
                    /\ PushTo(e, s) \in pushed' =>
                         s \in waiting'[PushTo(e, s)] \/ tried'[<<e, s>>] = 1
  BY DEF PresentInv, PushTo
<1> DEFINE p == PushTo(e, s)
<1>1. /\ waiting \in [Push -> SUBSET Socket] /\ sending' \subseteq Push \X Socket
      /\ active \in [User -> SUBSET Socket] /\ active' \in [User -> SUBSET Socket]
      /\ \A u \in User : \A d \in active'[u] : Owner[d] = u
      /\ \A u \in User : \A d \in active[u] : Owner[d] = u
  BY DEF Inv, TypeOK, RegistryInv
<1>2. /\ present'[e] = IF stage[e] = "queued"
                         THEN IF stage'[e] = "queued" THEN {} ELSE Registered
                       ELSE present[e] \intersect Registered'
      /\ Record
  BY DEF MessagingNext, Record
<1>3. CASE stage[e] = "queued"
  <2>1. stage'[e] # "queued" /\ s \in Registered
    BY <1>2, <1>3
  <2>2. UNCHANGED vars
    BY <1>3, <2>1 DEF MessagingNext, EventStep, Begin, Settle, Serve, MessagingTypeOK
  <2>3. s \in active'[Owner[s]]
    BY <1>1, <2>1, <2>2 DEF Registered, vars, registry
  <2>4. PushTo(e, s) \notin pushed'
    <3>1. Owner[s] \in User
      BY <1>1, <2>1, ManagerAssumption DEF Registered
    <3> QED
      BY <1>3, <2>2, <3>1 DEF PushInv, PushTo, vars, pushes
  <2> QED
    BY <2>3, <2>4
<1>4. CASE stage[e] # "queued"
  <2>1. s \in present[e] /\ s \in Registered'
    BY <1>2, <1>4
  <2>2. s \in active'[Owner[s]] /\ s \in active[Owner[s]] /\ s \in Socket /\ Owner[s] \in User
    <3>1. PICK u \in User : s \in active'[u]
      BY <2>1 DEF Registered
    <3>2. Owner[s] = u /\ s \in Socket
      BY <1>1, <3>1
    <3> QED
      BY <2>1, <3>1, <3>2 DEF PresentInv
  <2>3. p \in Push /\ p \in pushed => s \in waiting[p] \/ tried[<<e, s>>] = 1
    BY <2>1 DEF PresentInv
  <2>4. p \in Push
    BY <2>2, PushParts
  <2>5. tried'[<<e, s>>] =
          IF <<p, s>> \in sending' \ sending THEN tried[<<e, s>>] + 1 ELSE tried[<<e, s>>]
    BY <1>1, <1>2, <2>2, TriedCounts
  <2>6. tried[<<e, s>>] = 1 => tried'[<<e, s>>] = 1
    BY <2>2, <2>5 DEF TriedInv
  <2>7. CASE UNCHANGED <<waiting, pushed>> /\ sending' \subseteq sending
    BY <2>2, <2>3, <2>4, <2>6, <2>7
  <2>8. ASSUME NEW f \in Event, NEW v \in User, Serve(f, v)
        PROVE  p \in pushed' => s \in waiting'[p] \/ tried'[<<e, s>>] = 1
    <3>1. CASE p \in pushed
      <4>1. waiting'[p] = waiting[p]
        BY <1>1, <2>4, <2>8, <3>1, PushParts DEF Serve, StartPush
      <4> QED
        BY <2>3, <2>4, <2>6, <3>1, <4>1
    <3>2. CASE p \notin pushed /\ p \in pushed'
      <4>1. p = <<f, v>>
        BY <2>8, <3>2 DEF Serve, StartPush
      <4>2. v = Owner[s] /\ s \in active[v]
        BY <2>2, <4>1 DEF PushTo
      <4>3. s \in waiting'[p] \/ <<p, s>> \in sending'
        BY <1>1, <2>4, <2>8, <4>1, <4>2 DEF Serve, StartPush
      <4> QED
        BY <2>2, <4>3 DEF TriedInv, PushTo
    <3> QED
      BY <3>1, <3>2
  <2>9. ASSUME NEW q \in Push, NEW d \in Socket, TakeSlot(q, d)
        PROVE  p \in pushed' => s \in waiting'[p] \/ tried'[<<e, s>>] = 1
    <3>1. /\ pushed' = pushed /\ sending' = sending \union {<<q, d>>}
          /\ waiting' = [waiting EXCEPT ![q] = @ \ {d}]
      BY <2>9 DEF TakeSlot
    <3>2. CASE p = q /\ s = d
      <4>1. <<p, s>> \in sending'
        BY <3>1, <3>2
      <4> QED
        BY <2>2, <4>1 DEF TriedInv, PushTo
    <3>3. CASE ~(p = q /\ s = d)
      <4>1. s \in waiting[p] => s \in waiting'[p]
        BY <1>1, <2>4, <3>1, <3>3
      <4> QED
        BY <2>3, <2>4, <2>6, <3>1, <4>1
    <3> QED
      BY <3>2, <3>3
  <2> QED
    BY <2>2, <2>7, <2>8, <2>9, StepsOfPushes
<1> QED
  BY <1>3, <1>4

LEMMA EchoStep ==
  ASSUME Inv, MessagingTypeOK, PushInv, EchoInv, MessagingNext
  PROVE  EchoInv'
<1> SUFFICES ASSUME NEW e \in Event, e.kind = "dm", e.sender # e.recipient,
                    <<e, e.sender>> \in pushed'
             PROVE  Delivered(<<e, e.recipient>>)'
  BY DEF EchoInv, Delivered
<1> DEFINE p == <<e, e.recipient>>
<1>1. waiting \in [Push -> SUBSET Socket] /\ pushed \subseteq Push
  BY DEF Inv, TypeOK
<1>2. ASSUME Delivered(p)
      PROVE  Delivered(p)'
  <2>1. p \in pushed /\ p \in Push /\ waiting[p] = {}
    BY <1>1, <1>2 DEF Delivered
  <2>2. ASSUME NEW f \in Event, NEW v \in User, Serve(f, v)
        PROVE  Delivered(p)'
    <3>1. p # <<f, v>>
      BY <2>1, <2>2 DEF Serve, StartPush
    <3>2. waiting'[p] = waiting[p] /\ p \in pushed'
      BY <1>1, <2>1, <2>2, <3>1 DEF Serve, StartPush
    <3>3. \A s \in Socket : <<p, s>> \in sending' => <<p, s>> \in sending
      BY <2>2, <3>1 DEF Serve, StartPush
    <3> QED
      BY <1>2, <3>2, <3>3 DEF Delivered
  <2>3. ASSUME NEW q \in Push, NEW d \in Socket, TakeSlot(q, d)
        PROVE  Delivered(p)'
    <3>1. q # p
      BY <2>1, <2>3 DEF TakeSlot
    <3> QED
      BY <1>1, <1>2, <2>1, <2>3, <3>1 DEF TakeSlot, Delivered
  <2>4. CASE UNCHANGED <<waiting, pushed>> /\ sending' \subseteq sending
    BY <1>2, <2>4 DEF Delivered
  <2> QED
    BY <2>2, <2>3, <2>4, StepsOfPushes
<1>3. CASE <<e, e.sender>> \in pushed
  BY <1>2, <1>3 DEF EchoInv
<1>4. CASE <<e, e.sender>> \notin pushed
  <2>1. PICK f \in Event, v \in User : Serve(f, v)
    BY <1>4, StepsOfPushes DEF TakeSlot
  <2>2. f = e /\ v = e.sender
    BY <1>4, <2>1 DEF Serve, StartPush
  <2>3. PushDone(p)
    BY <2>1, <2>2 DEF Serve, MayStart
  <2>4. Delivered(p)
    BY <2>3 DEF PushDone, Delivered
  <2> QED
    BY <1>2, <2>4
<1> QED
  BY <1>3, <1>4
-----------------------------------------------------------------------------
(* The invariant of every behaviour.                                       *)

LEMMA MessagingInitInv ==
  ASSUME MessagingInit
  PROVE  MessagingInv
<1>1. \A u \in User : Opened(u) \subseteq Socket /\ Cardinality(Opened(u)) \in Int
  <2> SUFFICES ASSUME NEW u \in User
               PROVE  Opened(u) \subseteq Socket /\ Cardinality(Opened(u)) \in Int
    OBVIOUS
  <2>1. Opened(u) \subseteq Early /\ Early \subseteq Socket /\ IsFiniteSet(Early)
    BY EventAssumption DEF Opened
  <2>2. IsFiniteSet(Opened(u))
    BY <2>1, FS_Subset
  <2> QED
    BY <2>1, <2>2, FS_CardinalityType
<1>2. TypeOK
  BY <1>1, ManagerAssumption DEF MessagingInit, TypeOK
<1>3. RegistryInv
  BY ManagerAssumption, EventAssumption DEF MessagingInit, RegistryInv, Opened
<1>4. DisconnectInv
  BY DEF MessagingInit, DisconnectInv
<1>5. MessagingTypeOK
  BY DEF MessagingInit, MessagingTypeOK
<1>6. PushInv
  BY DEF MessagingInit, PushInv
<1>7. TriedInv
  <2> SUFFICES ASSUME NEW e \in Event, NEW s \in Socket
               PROVE  /\ tried[<<e, s>>] \in 0..1
                      /\ tried[<<e, s>>] = 1 => PushTo(e, s) \in pushed
                      /\ s \in waiting[PushTo(e, s)] => tried[<<e, s>>] = 0
                      /\ <<PushTo(e, s), s>> \in sending => tried[<<e, s>>] = 1
    BY DEF TriedInv
  <2>1. tried[<<e, s>>] = 0 /\ waiting[PushTo(e, s)] = {} /\ sending = {}
    BY PushParts DEF MessagingInit
  <2> QED
    BY <2>1
<1>8. PresentInv /\ EchoInv
  BY DEF MessagingInit, PresentInv, EchoInv
<1> QED
  BY <1>2, <1>3, <1>4, <1>5, <1>6, <1>7, <1>8 DEF MessagingInv, Inv

LEMMA MessagingStep ==
  ASSUME MessagingInv, [MessagingNext]_messagingVars
  PROVE  MessagingInv'
<1> USE DEF MessagingInv
<1>1. Inv'
  BY RegistryStep
<1>2. CASE MessagingNext
  <2>1. PushInv'
    BY <1>2, PushStep
  <2>2. TriedInv'
    BY <1>1, <1>2, <2>1, TriedStep
  <2>3. MessagingTypeOK' /\ PresentInv' /\ EchoInv'
    BY <1>1, <1>2, <2>1, <2>2, MessagingTypes, PresentStep, EchoStep
  <2> QED
    BY <1>1, <2>1, <2>2, <2>3
<1>3. CASE UNCHANGED messagingVars
  <2>1. UNCHANGED <<active, waiting, sending, pushed, stage, tried, present>>
    BY <1>3 DEF messagingVars, vars, registry, pushes
  <2>2. MessagingTypeOK' /\ PushInv' /\ EchoInv'
    BY <2>1 DEF MessagingTypeOK, PushInv, EchoInv, Delivered
  <2>3. TriedInv' /\ PresentInv'
    BY <2>1 DEF TriedInv, PresentInv, PushTo
  <2> QED
    BY <1>1, <2>2, <2>3
<1> QED
  BY <1>2, <1>3

\* An event that is over has been sent once to every socket of its audience
\* that stayed, and nothing was sent twice or to anybody else, for any events,
\* users and sockets, whoever connects, leaves or breaks meanwhile.
THEOREM AudienceServed == MessagingSpec => []AudienceTriedOnce
<1>1. MessagingInv => AudienceTriedOnce
  <2> SUFFICES ASSUME MessagingInv, NEW e \in Event, NEW s \in Socket
               PROVE  /\ tried[<<e, s>>] <= IF Owner[s] \in Audience(e) THEN 1 ELSE 0
                      /\ Over(e) /\ s \in present[e] /\ Owner[s] \in Audience(e) =>
                           tried[<<e, s>>] = 1
    BY DEF AudienceTriedOnce, MessagingInv
  <2>1. tried[<<e, s>>] \in 0..1 /\ Owner[s] \in User
    BY PushParts DEF MessagingInv, TriedInv
  <2>2. tried[<<e, s>>] = 1 => Owner[s] \in Audience(e)
    <3>1. tried[<<e, s>>] = 1 => PushTo(e, s) \in pushed
      BY DEF MessagingInv, TriedInv
    <3>2. <<e, Owner[s]>> \in pushed => Owner[s] \in Targets(e)
      BY <2>1 DEF MessagingInv, PushInv
    <3> QED
      BY <3>1, <3>2, AudienceIsTargets DEF PushTo
  <2>3. ASSUME Over(e), s \in present[e], Owner[s] \in Audience(e)
        PROVE  tried[<<e, s>>] = 1
    <3>1. PushDone(PushTo(e, s))
      BY <2>3, AudienceIsTargets DEF Over, PushTo
    <3> QED
      BY <2>3, <3>1 DEF PushDone, MessagingInv, PresentInv
  <2> QED
    BY <2>1, <2>2, <2>3
<1> QED
  BY <1>1, MessagingInitInv, MessagingStep, PTL DEF MessagingSpec

\* No device of the sender of a direct message is sent the echo while a send
\* to one of the recipient's devices is due or under way.
THEOREM EchoWaits == MessagingSpec => []EchoAfterDelivery
<1>1. MessagingInv => EchoAfterDelivery
  <2> SUFFICES ASSUME MessagingInv, NEW e \in Event, NEW s \in Socket, e.kind = "dm",
                      Owner[s] = e.sender, e.sender # e.recipient, tried[<<e, s>>] > 0,
                      NEW d \in present[e], Owner[d] = e.recipient
               PROVE  tried[<<e, d>>] = 1 /\ <<<<e, e.recipient>>, d>> \notin sending
    BY DEF EchoAfterDelivery
  <2>1. tried[<<e, s>>] = 1
    <3>1. tried[<<e, s>>] \in 0..1
      BY DEF MessagingInv, TriedInv
    <3> QED
      BY <3>1
  <2>2. Delivered(<<e, e.recipient>>)
    BY <2>1 DEF MessagingInv, TriedInv, EchoInv, PushTo
  <2>3. d \in Socket
    BY DEF MessagingInv, MessagingTypeOK
  <2> QED
    BY <2>2, <2>3 DEF Delivered, MessagingInv, PresentInv, PushTo
<1> QED
  BY <1>1, MessagingInitInv, MessagingStep, PTL DEF MessagingSpec
=============================================================================
