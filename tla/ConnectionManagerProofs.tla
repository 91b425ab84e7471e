----------------------- MODULE ConnectionManagerProofs -----------------------
(***************************************************************************)
(* What is proved of ConnectionManager for every set of users, sockets and *)
(* pushes: a socket is taken out of the registry once, a user with a       *)
(* connection has a lock, and the online counter is bounded.               *)
(***************************************************************************)
EXTENDS ConnectionManager, FiniteSetTheorems, TLAPS

\* A registered socket is its owner's, has a running endpoint and has never
\* been taken out; one that has been taken out never comes back.
RegistryInv ==
  /\ \A u \in User : \A s \in active[u] : Owner[s] = u
  /\ \A s \in Socket :
       /\ removals[s] = 1 => s \notin active[Owner[s]]
       /\ endpoint[s] = "new" => removals[s] = 0 /\ s \notin active[Owner[s]]
       /\ endpoint[s] \in {"incr", "open"} /\ removals[s] = 0 => s \in active[Owner[s]]
       /\ endpoint[s] \in {"leaving", "gone"} => removals[s] = 1
       /\ s \in outrun => removals[s] = 1

\* A call of disconnect that waits for Redis has taken its socket out, and is
\* the only one that has.
DisconnectInv ==
  \A t \in Task : closing[t] # "idle" =>
    /\ removals[t[2]] = 1
    /\ \A n \in Task : closing[n] # "idle" /\ n[2] = t[2] => n = t

Inv == TypeOK /\ RegistryInv /\ DisconnectInv

LEMMA TaskParts ==
  ASSUME NEW t \in Task
  PROVE  t[2] \in Socket /\ Holder(t) \in User
BY ManagerAssumption DEF Task, Holder

LEMMA FailTyped ==
  ASSUME failures \in 0..MaxFailures, Fail
  PROVE  failures' \in 0..MaxFailures
BY ManagerAssumption DEF Fail
-----------------------------------------------------------------------------
(* Each action preserves the invariant.                                    *)

LEMMA ConnectStep ==
  ASSUME Inv, NEW s \in Socket, Connect(s)
  PROVE  Inv'
<1> USE DEF Inv
<1>1. Owner[s] \in User
  BY ManagerAssumption
<1>2. UNCHANGED <<counter, closing, last, waiting, sending, pushed, removals, outrun, wiped,
                  failures, expiries>>
  BY DEF Connect, pushes, history, bounds
<1>3. TypeOK'
  BY <1>1, <1>2 DEF Connect, TypeOK
<1>4. RegistryInv'
  BY <1>1, <1>2, ManagerAssumption DEF Connect, TypeOK, RegistryInv
<1>5. DisconnectInv'
  BY <1>2 DEF DisconnectInv
<1> QED
  BY <1>3, <1>4, <1>5

LEMMA IncrementStep ==
  ASSUME Inv, NEW s \in Socket, Increment(s)
  PROVE  Inv'
<1> USE DEF Inv
<1>1. Owner[s] \in User
  BY ManagerAssumption
<1>2. UNCHANGED <<active, locks, closing, last, waiting, sending, pushed, removals, outrun,
                  expiries>>
  BY DEF Increment, registry, pushes
<1>3. counter' \in [User -> Int] /\ wiped' \subseteq User
  BY <1>1 DEF Increment, TypeOK
<1>4. failures' \in 0..MaxFailures
  BY FailTyped DEF Increment, TypeOK
<1>5. endpoint' = [endpoint EXCEPT ![s] = "open"]
  BY DEF Increment
<1>6. TypeOK'
  BY <1>2, <1>3, <1>4, <1>5 DEF TypeOK
<1>7. RegistryInv'
  BY <1>2, <1>5 DEF Increment, TypeOK, RegistryInv
<1>8. DisconnectInv'
  BY <1>2 DEF DisconnectInv
<1> QED
  BY <1>6, <1>7, <1>8

\* What the first part of disconnect leaves of the registry, whoever calls it.
LEMMA RemoveStep ==
  ASSUME Inv, NEW t \in Task, Remove(t)
  PROVE  /\ active' \in [User -> SUBSET Socket]
         /\ locks' \subseteq User
         /\ closing' \in [Task -> {"idle", "decr", "del"}]
         /\ last' \in [Task -> BOOLEAN]
         /\ removals' \in [Socket -> 0..1]
         /\ outrun' \subseteq Socket
         /\ wiped' = wiped
         /\ \A u \in User : active'[u] = active[u] \ {t[2]}
         /\ \A s \in Socket \ {t[2]} : removals'[s] = removals[s] /\ (s \in outrun' <=> s \in outrun)
         /\ removals'[t[2]] = IF IsRegistered(t) THEN 1 ELSE removals[t[2]]
         /\ DisconnectInv'
<1> USE DEF Inv
<1> DEFINE s == t[2]  u == Holder(t)
<1>1. s \in Socket /\ u \in User /\ u = Owner[s]
  BY TaskParts DEF Holder
<1>2. \A v \in User : v # u => s \notin active[v]
  BY <1>1 DEF RegistryInv
<1>3. CASE ~IsRegistered(t)
  <2>1. locks' = locks \union {u} /\ UNCHANGED <<active, closing, last, removals, outrun, wiped>>
    BY <1>3 DEF Remove
  <2>2. DisconnectInv'
    BY <2>1 DEF DisconnectInv
  <2> QED
    BY <1>1, <1>2, <1>3, <2>1, <2>2 DEF TypeOK, IsRegistered
<1>4. CASE IsRegistered(t)
  <2>1. removals[s] = 0
    BY <1>1, <1>4 DEF IsRegistered, RegistryInv, TypeOK
  <2>2. /\ active' = [active EXCEPT ![u] = @ \ {s}]
        /\ removals' = [removals EXCEPT ![s] = @ + 1]
        /\ outrun' = IF endpoint[s] = "incr" THEN outrun \union {s} ELSE outrun
        /\ UNCHANGED wiped
    BY <1>4 DEF Remove
  <2>3. removals' \in [Socket -> 0..1] /\ removals'[s] = 1
    BY <1>1, <2>1, <2>2 DEF TypeOK
  <2>4. \A n \in Task : n[2] = s => closing[n] = "idle"
    BY <2>1 DEF DisconnectInv
  <2>5. \/ closing' = closing /\ last' = last
        \/ /\ closing' = [closing EXCEPT ![t] = "decr"]
           /\ last' = [last EXCEPT ![t] = active'[u] = {}]
    BY <1>4, <2>2 DEF Remove
  <2>6. closing' \in [Task -> {"idle", "decr", "del"}] /\ last' \in [Task -> BOOLEAN]
    BY <2>5 DEF TypeOK
  <2>7. locks' \subseteq User
    BY <1>1, <1>4 DEF Remove, WithoutLock, TypeOK
  <2>8. DisconnectInv'
    <3>1. \A n \in Task : closing'[n] # "idle" => n = t \/ closing[n] # "idle"
      BY <2>5 DEF TypeOK
    <3>2. \A n \in Task : removals[n[2]] = 1 => removals'[n[2]] = 1
      BY <2>2, <2>3, TaskParts DEF TypeOK
    <3>3. \A n \in Task : closing[n] # "idle" => n[2] # s /\ removals[n[2]] = 1
      BY <2>4 DEF DisconnectInv
    <3> QED
      BY <2>3, <3>1, <3>2, <3>3 DEF DisconnectInv
  <2> QED
    BY <1>1, <1>2, <1>4, <2>2, <2>3, <2>6, <2>7, <2>8 DEF TypeOK
<1> QED
  BY <1>3, <1>4

LEMMA LeaveStep ==
  ASSUME Inv, NEW s \in Socket, Leave(s)
  PROVE  Inv'
<1> USE DEF Inv
<1> DEFINE t == <<Endpoint, s>>
<1>1. t \in Task /\ t[2] = s
  BY DEF Task
<1>2. Remove(t) /\ endpoint[s] = "open"
  BY DEF Leave
<1>3. UNCHANGED <<counter, waiting, sending, pushed, failures, expiries>>
  BY DEF Leave, pushes, bounds
<1>4. PICK label \in {"leaving", "gone"} : endpoint' = [endpoint EXCEPT ![s] = label]
  BY DEF Leave
<1>5. removals'[s] = 1 /\ \A u \in User : s \notin active'[u]
  BY <1>1, <1>2, RemoveStep, ManagerAssumption DEF RegistryInv, TypeOK, IsRegistered, Holder
<1>6. TypeOK'
  BY <1>1, <1>2, <1>3, <1>4, RemoveStep DEF TypeOK
<1>7. RegistryInv'
  <2>1. \A u \in User : \A r \in active'[u] : Owner[r] = u
    BY <1>1, <1>2, RemoveStep DEF RegistryInv
  <2>2. \A r \in Socket \ {s} :
          /\ removals'[r] = removals[r] /\ (r \in outrun' <=> r \in outrun)
          /\ r \in active'[Owner[r]] <=> r \in active[Owner[r]]
    BY <1>1, <1>2, RemoveStep, ManagerAssumption
  <2>3. \A r \in Socket \ {s} : endpoint'[r] = endpoint[r]
    BY <1>4 DEF TypeOK
  <2>4. s \notin active'[Owner[s]] /\ endpoint'[s] \in {"leaving", "gone"}
    BY <1>4, <1>5, ManagerAssumption DEF TypeOK
  <2> QED
    BY <1>5, <2>1, <2>2, <2>3, <2>4 DEF RegistryInv
<1>8. DisconnectInv'
  BY <1>1, <1>2, RemoveStep
<1> QED
  BY <1>6, <1>7, <1>8

LEMMA SendFailsStep ==
  ASSUME Inv, NEW p \in Push, NEW s \in Socket, SendFails(p, s)
  PROVE  Inv'
<1> USE DEF Inv
<1> DEFINE t == <<p, s>>
<1>1. t \in Task /\ t[2] = s
  BY DEF Task
<1>2. Remove(t)
  BY DEF SendFails
<1>3. UNCHANGED <<counter, endpoint, waiting, pushed, failures, expiries>>
  BY DEF SendFails, bounds
<1>4. sending' \subseteq sending
  BY DEF SendFails
<1>5. TypeOK'
  BY <1>1, <1>2, <1>3, <1>4, RemoveStep DEF TypeOK
<1>6. \A u \in User : s \notin active'[u]
  BY <1>1, <1>2, RemoveStep
<1>7. IsRegistered(t) <=> s \in active[Owner[s]]
  BY <1>1 DEF IsRegistered, Holder
<1>8. removals'[s] = IF s \in active[Owner[s]] THEN 1 ELSE removals[s]
  BY <1>1, <1>2, <1>7, RemoveStep
<1>9. RegistryInv'
  <2>1. \A u \in User : \A r \in active'[u] : Owner[r] = u
    BY <1>1, <1>2, RemoveStep DEF RegistryInv
  <2>2. \A r \in Socket \ {s} :
          /\ removals'[r] = removals[r] /\ (r \in outrun' <=> r \in outrun)
          /\ r \in active'[Owner[r]] <=> r \in active[Owner[r]]
    BY <1>1, <1>2, RemoveStep, ManagerAssumption
  <2>3. s \in outrun' => removals'[s] = 1
    BY <1>1, <1>2, <1>7, <1>8 DEF Remove, RegistryInv
  <2>4. endpoint[s] = "new" => removals'[s] = 0
    BY <1>8 DEF RegistryInv
  <2>5. endpoint[s] # "new" => removals'[s] = 1
    BY <1>5, <1>8 DEF RegistryInv, TypeOK
  <2> QED
    BY <1>3, <1>6, <2>1, <2>2, <2>3, <2>4, <2>5, ManagerAssumption DEF RegistryInv
<1> QED
  BY <1>1, <1>2, <1>5, <1>9, RemoveStep

\* The end of a disconnect: the endpoint that has waited for it is gone.
LEMMA FinishKeeps ==
  ASSUME Inv, NEW t \in Task, closing[t] # "idle", Finish(t),
         UNCHANGED <<active, removals, outrun>>
  PROVE  /\ locks' \subseteq User
         /\ closing' \in [Task -> {"idle", "decr", "del"}]
         /\ last' \in [Task -> BOOLEAN]
         /\ endpoint' \in [Socket -> {"new", "incr", "open", "leaving", "gone"}]
         /\ RegistryInv' /\ DisconnectInv'
<1> USE DEF Inv
<1>1. t[2] \in Socket /\ Holder(t) \in User
  BY TaskParts
<1>2. removals[t[2]] = 1 /\ t[2] \notin active[Owner[t[2]]]
  BY <1>1 DEF DisconnectInv, RegistryInv
<1>3. locks' \subseteq User
  BY DEF Finish, WithoutLock, TypeOK
<1>4. closing' = [closing EXCEPT ![t] = "idle"] /\ last' = [last EXCEPT ![t] = FALSE]
  BY DEF Finish
<1>5. endpoint' = endpoint \/ endpoint' = [endpoint EXCEPT ![t[2]] = "gone"]
  BY DEF Finish
<1>6. RegistryInv'
  BY <1>1, <1>2, <1>5 DEF RegistryInv, TypeOK
<1>7. DisconnectInv'
  BY <1>4 DEF DisconnectInv, TypeOK
<1> QED
  BY <1>1, <1>3, <1>4, <1>5, <1>6, <1>7 DEF TypeOK

LEMMA DecrementStep ==
  ASSUME Inv, NEW t \in Task, Decrement(t)
  PROVE  Inv'
<1> USE DEF Inv
<1> DEFINE u == Holder(t)
<1>1. u \in User
  BY TaskParts
<1>2. closing[t] = "decr" /\ UNCHANGED <<active, waiting, sending, pushed, removals, outrun, wiped,
                                         expiries>>
  BY DEF Decrement, pushes, history
<1>3. counter' \in [User -> Int] /\ failures' \in 0..MaxFailures
  <2>1. counter[u] - 1 \in Int
    BY <1>1 DEF TypeOK
  <2> QED
    BY <2>1, FailTyped DEF Decrement, Decremented, TypeOK
<1>4. CASE Finish(t)
  BY <1>2, <1>3, <1>4, FinishKeeps DEF TypeOK
<1>5. CASE closing' = [closing EXCEPT ![t] = "del"] /\ UNCHANGED <<locks, last, endpoint>>
  <2>1. TypeOK'
    BY <1>2, <1>3, <1>5 DEF TypeOK
  <2>2. RegistryInv'
    BY <1>2, <1>5 DEF RegistryInv
  <2>3. DisconnectInv'
    BY <1>2, <1>5 DEF DisconnectInv, TypeOK
  <2> QED
    BY <2>1, <2>2, <2>3
<1> QED
  BY <1>4, <1>5 DEF Decrement

LEMMA DeleteKeyStep ==
  ASSUME Inv, NEW t \in Task, DeleteKey(t)
  PROVE  Inv'
<1> USE DEF Inv
<1>1. closing[t] = "del" /\ Finish(t)
  BY DEF DeleteKey
<1>2. UNCHANGED <<active, waiting, sending, pushed, removals, outrun, wiped, expiries>>
  BY DEF DeleteKey, pushes, history
<1>3. counter' \in [User -> Int] /\ failures' \in 0..MaxFailures
  BY FailTyped DEF DeleteKey, TypeOK
<1> QED
  BY <1>1, <1>2, <1>3, FinishKeeps DEF TypeOK

\* What the pushes and the expiry leave alone.
LEMMA OtherStep ==
  ASSUME Inv,
         UNCHANGED <<active, endpoint, closing, last, removals, outrun, wiped, failures>>,
         counter' \in [User -> Int], expiries' \in 0..MaxExpiries, locks' \subseteq User,
         waiting' \in [Push -> SUBSET Socket], sending' \subseteq Push \X Socket,
         pushed' \subseteq Push
  PROVE  Inv'
BY DEF Inv, TypeOK, RegistryInv, DisconnectInv

LEMMA StartPushStep ==
  ASSUME Inv, NEW p \in Push, NEW u \in User, StartPush(p, u)
  PROVE  Inv'
<1> USE DEF Inv
<1>1. active[u] \subseteq Socket
  BY DEF TypeOK
<1>2. waiting' \in [Push -> SUBSET Socket] /\ sending' \subseteq Push \X Socket
  BY <1>1 DEF StartPush, TypeOK
<1> QED
  BY <1>2, OtherStep DEF StartPush, TypeOK, history, bounds

LEMMA SendStep ==
  ASSUME Inv, NEW p \in Push, NEW s \in Socket, TakeSlot(p, s) \/ SendSucceeds(p, s)
  PROVE  Inv'
<1> USE DEF Inv
<1>1. CASE TakeSlot(p, s)
  BY <1>1, OtherStep DEF TakeSlot, TypeOK, registry, history, bounds
<1>2. CASE SendSucceeds(p, s)
  BY <1>2, OtherStep DEF SendSucceeds, TypeOK, registry, history, bounds
<1> QED
  BY <1>1, <1>2

LEMMA ExpireOnlineStep ==
  ASSUME Inv, NEW u \in User, ExpireOnline(u)
  PROVE  Inv'
<1>1. expiries' \in 0..MaxExpiries
  BY ManagerAssumption DEF ExpireOnline, Inv, TypeOK
<1> QED
  BY <1>1, OtherStep DEF ExpireOnline, Inv, TypeOK, registry, history, pushes
-----------------------------------------------------------------------------
(* The invariant of every behaviour.                                       *)

LEMMA InitInv ==
  ASSUME Init
  PROVE  Inv
<1>1. TypeOK
  BY ManagerAssumption DEF Init, TypeOK
<1>2. RegistryInv
  BY ManagerAssumption DEF Init, RegistryInv
<1>3. DisconnectInv
  BY DEF Init, DisconnectInv
<1> QED
  BY <1>1, <1>2, <1>3 DEF Inv

LEMMA NextInv ==
  ASSUME Inv, [Next]_vars
  PROVE  Inv'
<1>1. CASE \E s \in Socket : Connect(s) \/ Leave(s) \/ Increment(s)
  BY <1>1, ConnectStep, LeaveStep, IncrementStep
<1>2. CASE \E t \in Task : Decrement(t) \/ DeleteKey(t)
  BY <1>2, DecrementStep, DeleteKeyStep
<1>3. CASE \E p \in Push, s \in Socket : TakeSlot(p, s) \/ SendSucceeds(p, s) \/ SendFails(p, s)
  BY <1>3, SendStep, SendFailsStep
<1>4. CASE \E u \in User : ExpireOnline(u)
  BY <1>4, ExpireOnlineStep
<1>5. CASE \E p \in Push, u \in User : StartPush(p, u)
  BY <1>5, StartPushStep
<1>6. CASE UNCHANGED vars
  BY <1>6 DEF vars, registry, pushes, history, bounds, Inv, TypeOK, RegistryInv, DisconnectInv
<1> QED
  BY <1>1, <1>2, <1>3, <1>4, <1>5, <1>6 DEF Next, TaskStep

\* Every variable of the registry and of its tasks keeps its type, and a socket
\* is taken out of the registry at most once, for any users, sockets and pushes.
THEOREM TypeCorrect == Spec => []TypeOK
<1>1. Init => Inv
  BY InitInv
<1>2. Inv /\ [Next]_vars => Inv'
  BY NextInv
<1>3. Inv => TypeOK
  BY DEF Inv
<1> QED
  BY <1>1, <1>2, <1>3, PTL DEF Spec

\* However many pushes fail on a socket while its endpoint leaves, one call of
\* disconnect takes it out and counts it off, and none after its endpoint ends.
THEOREM RemovedByOne == Spec => []RemovedOnce
<1>1. Inv => RemovedOnce
  <2> SUFFICES ASSUME Inv, NEW s \in Socket
               PROVE  /\ Cardinality({t \in Task : t[2] = s /\ closing[t] # "idle"}) <= removals[s]
                      /\ removals[s] = 1 => s \notin active[Owner[s]]
                      /\ endpoint[s] \in {"leaving", "gone"} =>
                           s \notin active[Owner[s]] /\ removals[s] = 1
    BY DEF RemovedOnce
  <2> DEFINE calls == {t \in Task : t[2] = s /\ closing[t] # "idle"}
  <2>1. removals[s] \in 0..1
    BY DEF Inv, TypeOK
  <2>2. CASE calls = {}
    <3>1. Cardinality(calls) = 0
      BY <2>2, FS_EmptySet
    <3> QED
      BY <2>1, <3>1 DEF Inv, RegistryInv
  <2>3. CASE calls # {}
    <3>1. PICK t \in calls : TRUE
      BY <2>3
    <3>2. calls = {t} /\ removals[s] = 1
      BY <3>1 DEF Inv, DisconnectInv
    <3>3. Cardinality(calls) = 1
      BY <3>2, FS_Singleton
    <3> QED
      BY <3>2, <3>3 DEF Inv, RegistryInv
  <2> QED
    BY <2>2, <2>3
<1>2. Init => Inv
  BY InitInv
<1>3. Inv /\ [Next]_vars => Inv'
  BY NextInv
<1> QED
  BY <1>1, <1>2, <1>3, PTL DEF Spec

\* A disconnect that found the registry empty before it waited for Redis does
\* not delete the lock of a user who has come back meanwhile.
THEOREM ConnectedKeepLock == Spec => []ConnectedHasLock
<1>1. Init => Inv /\ ConnectedHasLock
  BY InitInv DEF Init, ConnectedHasLock
<1>2. Inv /\ ConnectedHasLock /\ [Next]_vars => (Inv /\ ConnectedHasLock)'
  <2> SUFFICES ASSUME Inv, ConnectedHasLock, [Next]_vars
               PROVE  ConnectedHasLock'
    BY NextInv
  <2> USE DEF Inv
  <2>1. ASSUME NEW s \in Socket, Connect(s)
        PROVE  ConnectedHasLock'
    BY <2>1, ManagerAssumption DEF Connect, ConnectedHasLock, TypeOK
  <2>2. ASSUME NEW t \in Task, Remove(t)
        PROVE  ConnectedHasLock'
    <3>1. \A u \in User : active'[u] # {} => active[u] # {}
      BY <2>2, RemoveStep
    <3>2. locks' = locks \union {Holder(t)} \/ locks' = WithoutLock(active', Holder(t))
      BY <2>2 DEF Remove
    <3> QED
      BY <3>1, <3>2 DEF ConnectedHasLock, WithoutLock
  <2>3. ASSUME NEW t \in Task, Decrement(t) \/ DeleteKey(t)
        PROVE  ConnectedHasLock'
    <3>1. active' = active /\ (locks' = locks \/ locks' = WithoutLock(active, Holder(t)))
      BY <2>3 DEF Decrement, DeleteKey, Finish
    <3> QED
      BY <3>1 DEF ConnectedHasLock, WithoutLock
  <2>4. ASSUME active' = active, locks \subseteq locks'
        PROVE  ConnectedHasLock'
    BY <2>4 DEF ConnectedHasLock
  <2>5. \A s \in Socket : Leave(s) => Remove(<<Endpoint, s>>) /\ <<Endpoint, s>> \in Task
    BY DEF Leave, Task
  <2>6. \A p \in Push, s \in Socket : SendFails(p, s) => Remove(<<p, s>>) /\ <<p, s>> \in Task
    BY DEF SendFails, Task
  <2>7. CASE \/ \E s \in Socket : Increment(s)
             \/ \E p \in Push, s \in Socket : TakeSlot(p, s) \/ SendSucceeds(p, s)
             \/ \E u \in User : ExpireOnline(u)
             \/ \E p \in Push, u \in User : StartPush(p, u)
             \/ UNCHANGED vars
    BY <2>4, <2>7 DEF Increment, TakeSlot, SendSucceeds, ExpireOnline, StartPush, vars, registry
  <2> QED
    BY <2>1, <2>2, <2>3, <2>5, <2>6, <2>7 DEF Next, TaskStep
<1> QED
  BY <1>1, <1>2, PTL DEF Spec
-----------------------------------------------------------------------------
(* The online counter.                                                     *)

\* The sockets that count for u: those of OvercountedOnlyIfOutrun that are past
\* their INCR.
Counted(u) ==
  {s \in Socket : Owner[s] = u /\ endpoint[s] # "incr" /\
     (s \in active[u] \union outrun \/ \E t \in Task : t[2] = s /\ closing[t] = "decr")}

Seen == {s \in Socket : endpoint[s] # "new"}

\* A socket taken out before its INCR is known to be; anonymous clients are
\* never counted; and the bound holds of the sockets past their INCR, so that
\* an INCR finds its socket not yet among them.
CounterInv ==
  /\ IsFiniteSet(Seen)
  /\ \A s \in Socket : endpoint[s] = "incr" =>
       Owner[s] # Anonymous /\ (removals[s] = 1 => s \in outrun)
  /\ \A u \in User : counter[u] <= failures + Cardinality(Counted(u))
  /\ Anonymous \in User => counter[Anonymous] <= 0

LEMMA CountedFinite ==
  ASSUME NEW u \in User
  PROVE  /\ Inv /\ IsFiniteSet(Seen) =>
              IsFiniteSet(Counted(u)) /\ Cardinality(Counted(u)) \in Nat
         /\ Inv' /\ IsFiniteSet(Seen)' =>
              IsFiniteSet(Counted(u)') /\ Cardinality(Counted(u)') \in Nat
<1>1. Inv => Counted(u) \subseteq Seen
  BY ManagerAssumption, TaskParts DEF Counted, Seen, Inv, RegistryInv, DisconnectInv
<1>2. Inv' => Counted(u)' \subseteq Seen'
  BY ManagerAssumption, TaskParts DEF Counted, Seen, Inv, RegistryInv, DisconnectInv
<1> QED
  BY <1>1, <1>2, FS_Subset, FS_CardinalityType

\* One element lost lowers a set's size by one at most; one gained raises it.
LEMMA LosesOne ==
  ASSUME NEW S, NEW T, NEW x, IsFiniteSet(S), IsFiniteSet(T), S \ {x} \subseteq T
  PROVE  Cardinality(S) - 1 <= Cardinality(T)
<1>1. /\ IsFiniteSet(S \ {x})
      /\ Cardinality(S \ {x}) = IF x \in S THEN Cardinality(S) - 1 ELSE Cardinality(S)
  BY FS_RemoveElement
<1>2. Cardinality(S \ {x}) <= Cardinality(T)
  BY FS_Subset
<1> QED
  BY <1>1, <1>2, FS_CardinalityType

LEMMA GainsOne ==
  ASSUME NEW S, NEW T, NEW x, IsFiniteSet(S), IsFiniteSet(T), x \notin S, S \union {x} \subseteq T
  PROVE  Cardinality(S) + 1 <= Cardinality(T)
<1>1. IsFiniteSet(S \union {x}) /\ Cardinality(S \union {x}) = Cardinality(S) + 1
  BY FS_AddElement
<1> QED
  BY <1>1, FS_Subset

\* A step that counts nobody and loses nobody who counts keeps the bound.
LEMMA BoundKept ==
  ASSUME Inv, Inv', CounterInv, IsFiniteSet(Seen)', failures' >= failures,
         NEW u \in User, counter'[u] <= counter[u] \/ counter'[u] <= 0,
         Counted(u) \subseteq Counted(u)'
  PROVE  counter'[u] <= failures' + Cardinality(Counted(u)')
<1> DEFINE C == Counted(u)  D == Counted(u)'
<1>1. IsFiniteSet(C) /\ Cardinality(C) \in Nat
  BY CountedFinite DEF CounterInv
<1>2. IsFiniteSet(D) /\ Cardinality(D) \in Nat
  BY CountedFinite
<1>3. Cardinality(C) <= Cardinality(D)
  BY <1>2, FS_Subset
<1>4. counter[u] <= failures + Cardinality(C)
  BY DEF CounterInv
<1>5. counter[u] \in Int /\ counter'[u] \in Int /\ failures \in Nat /\ failures' \in Nat
  BY DEF Inv, TypeOK
<1> QED
  BY <1>1, <1>2, <1>3, <1>4, <1>5

LEMMA SeenFinite ==
  ASSUME IsFiniteSet(Seen), NEW s, Seen' \subseteq Seen \union {s}
  PROVE  IsFiniteSet(Seen)'
<1>1. IsFiniteSet(Seen \union {s})
  BY FS_AddElement
<1> QED
  BY <1>1, FS_Subset

LEMMA ConnectCounter ==
  ASSUME Inv, Inv', CounterInv, NEW s \in Socket, Connect(s)
  PROVE  CounterInv'
<1> DEFINE label == IF Owner[s] = Anonymous THEN "open" ELSE "incr"
<1>1. /\ endpoint[s] = "new" /\ removals[s] = 0
      /\ endpoint' = [endpoint EXCEPT ![s] = label]
      /\ UNCHANGED <<counter, closing, removals, outrun, failures>>
      /\ \A u \in User : active[u] \subseteq active'[u]
  BY DEF Connect, Inv, RegistryInv, TypeOK, history, bounds
<1>2. IsFiniteSet(Seen)'
  <2>1. Seen' \subseteq Seen \union {s}
    BY <1>1 DEF Seen, Inv, TypeOK
  <2> QED
    BY <2>1, SeenFinite DEF CounterInv
<1>3. \A r \in Socket : endpoint'[r] = "incr" =>
        Owner[r] # Anonymous /\ (removals'[r] = 1 => r \in outrun')
  BY <1>1 DEF CounterInv, Inv, TypeOK
<1>4. \A u \in User : s \notin Counted(u)
  BY <1>1, ManagerAssumption DEF Counted, Inv, RegistryInv, DisconnectInv
<1>5. \A u \in User : Counted(u) \subseteq Counted(u)'
  BY <1>1, <1>4 DEF Counted, Inv, TypeOK
<1>6. \A u \in User : counter'[u] <= failures' + Cardinality(Counted(u)')
  BY <1>1, <1>2, <1>5, BoundKept DEF Inv, TypeOK
<1> QED
  BY <1>1, <1>2, <1>3, <1>6 DEF CounterInv

LEMMA IncrementCounter ==
  ASSUME Inv, Inv', CounterInv, NEW s \in Socket, Increment(s)
  PROVE  CounterInv'
<1> DEFINE u == Owner[s]
<1>1. /\ endpoint[s] = "incr" /\ endpoint' = [endpoint EXCEPT ![s] = "open"]
      /\ UNCHANGED <<active, closing, removals, outrun>>
  BY DEF Increment, registry
<1>2. u \in User /\ u # Anonymous
  BY <1>1, ManagerAssumption DEF CounterInv
<1>3. IsFiniteSet(Seen)'
  BY <1>1, SeenFinite DEF Seen, CounterInv, Inv, TypeOK
<1>4. \A r \in Socket : endpoint'[r] = "incr" =>
        Owner[r] # Anonymous /\ (removals'[r] = 1 => r \in outrun')
  BY <1>1 DEF CounterInv, Inv, TypeOK
<1>5. \A v \in User : Counted(v) \subseteq Counted(v)'
  BY <1>1 DEF Counted, Inv, TypeOK
<1>6. s \notin Counted(u) /\ s \in Counted(u)'
  <2>1. s \in active[u] \union outrun
    BY <1>1 DEF CounterInv, Inv, RegistryInv, TypeOK
  <2>2. endpoint'[s] = "open"
    BY <1>1 DEF Inv, TypeOK
  <2> QED
    BY <1>1, <2>1, <2>2 DEF Counted
<1>7. counter'[u] <= failures' + Cardinality(Counted(u)')
  <2>1. Cardinality(Counted(u)) + 1 <= Cardinality(Counted(u)')
    BY <1>2, <1>3, <1>5, <1>6, CountedFinite, GainsOne DEF CounterInv
  <2>2. counter[u] <= failures + Cardinality(Counted(u))
    BY <1>2 DEF CounterInv
  <2>3. \/ counter'[u] = counter[u] + 1 /\ failures' = failures
        \/ counter'[u] = counter[u] /\ failures' = failures + 1
    BY <1>2 DEF Increment, Fail, Inv, TypeOK
  <2>4. Cardinality(Counted(u)) \in Nat /\ Cardinality(Counted(u)') \in Nat
    BY <1>2, <1>3, CountedFinite DEF CounterInv
  <2>5. counter[u] \in Int /\ failures \in Nat
    BY <1>2 DEF Inv, TypeOK
  <2> QED
    BY <2>1, <2>2, <2>3, <2>4, <2>5
<1>8. ASSUME NEW v \in User \ {u}
      PROVE  counter'[v] <= failures' + Cardinality(Counted(v)')
  <2>1. counter'[v] = counter[v]
    BY <1>2 DEF Increment, Inv, TypeOK
  <2>2. counter'[v] <= counter[v] /\ failures' >= failures
    BY <2>1 DEF Increment, Fail, Inv, TypeOK
  <2> QED
    BY <1>3, <1>5, <2>2, BoundKept
<1>9. Anonymous \in User => counter'[Anonymous] <= 0
  BY <1>2 DEF Increment, CounterInv, Inv, TypeOK
<1> QED
  BY <1>3, <1>4, <1>7, <1>8, <1>9 DEF CounterInv

LEMMA RemoveCounter ==
  ASSUME Inv, Inv', CounterInv, NEW t \in Task, Remove(t), UNCHANGED <<counter, failures>>,
         \/ endpoint' = endpoint
         \/ endpoint[t[2]] = "open" /\ \E label \in {"leaving", "gone"} :
              endpoint' = [endpoint EXCEPT ![t[2]] = label]
  PROVE  CounterInv'
<1>1. t[2] \in Socket
  BY TaskParts
<1>2. IsFiniteSet(Seen)'
  BY SeenFinite DEF Seen, CounterInv, Inv, TypeOK
<1>3. ASSUME NEW r \in Socket, endpoint'[r] = "incr"
      PROVE  Owner[r] # Anonymous /\ (removals'[r] = 1 => r \in outrun')
  <2>1. endpoint[r] = "incr"
    BY <1>1, <1>3 DEF Inv, TypeOK
  <2>2. CASE r = t[2] /\ IsRegistered(t)
    BY <2>1, <2>2 DEF Remove, CounterInv
  <2>3. CASE r = t[2] /\ ~IsRegistered(t)
    BY <2>1, <2>3 DEF Remove, CounterInv
  <2>4. CASE r # t[2]
    BY <2>1, <2>4, RemoveStep DEF CounterInv
  <2> QED
    BY <2>2, <2>3, <2>4
<1>4. ASSUME NEW u \in User, u # Anonymous
      PROVE  Counted(u) \subseteq Counted(u)'
  <2> SUFFICES ASSUME NEW s \in Counted(u)
               PROVE  s \in Counted(u)'
    OBVIOUS
  <2>1. endpoint'[s] # "incr" /\ s \in Socket /\ Owner[s] = u
    BY <1>1 DEF Counted, Inv, TypeOK
  <2>2. CASE ~IsRegistered(t)
    BY <2>1, <2>2 DEF Counted, Remove
  <2>3. CASE IsRegistered(t) /\ s # t[2]
    <3>1. s \in outrun => s \in outrun'
      BY <2>3 DEF Remove
    <3>2. s \in active[u] => s \in active'[u]
      BY <2>3, RemoveStep
    <3>3. \A n \in Task : closing[n] = "decr" => closing'[n] = "decr"
      BY <2>3 DEF Remove, Inv, TypeOK
    <3> QED
      BY <2>1, <3>1, <3>2, <3>3 DEF Counted
  <2>4. CASE IsRegistered(t) /\ s = t[2]
    <3>1. closing'[t] = "decr"
      BY <1>4, <2>1, <2>4 DEF Remove, Holder, Inv, TypeOK
    <3> QED
      BY <2>1, <2>4, <3>1 DEF Counted
  <2> QED
    BY <2>2, <2>3, <2>4
<1>5. ASSUME NEW u \in User
      PROVE  counter'[u] <= failures' + Cardinality(Counted(u)')
  <2>1. CASE u # Anonymous
    BY <1>2, <1>4, <2>1, BoundKept DEF Inv, TypeOK
  <2>2. CASE u = Anonymous
    <3>1. counter'[u] <= 0 /\ counter'[u] \in Int /\ failures' \in Nat
      BY <2>2 DEF CounterInv, Inv, TypeOK
    <3>2. Cardinality(Counted(u)') \in Nat
      BY <1>2, CountedFinite
    <3> QED
      BY <3>1, <3>2
  <2> QED
    BY <2>1, <2>2
<1> QED
  BY <1>2, <1>3, <1>5 DEF CounterInv

\* What Finish does to the sockets that count: at most its own is gone.
LEMMA FinishCounted ==
  ASSUME Inv, Inv', CounterInv, NEW t \in Task, closing[t] # "idle", UNCHANGED <<active, removals, outrun>>,
         \/ Finish(t)
         \/ closing' = [closing EXCEPT ![t] = "del"] /\ UNCHANGED endpoint
  PROVE  /\ IsFiniteSet(Seen)'
         /\ \A r \in Socket : endpoint'[r] = "incr" =>
              Owner[r] # Anonymous /\ (removals'[r] = 1 => r \in outrun')
         /\ \A u \in User : Counted(u) \ {t[2]} \subseteq Counted(u)'
         /\ closing[t] = "del" => \A u \in User : Counted(u) \subseteq Counted(u)'
<1>1. t[2] \in Socket
  BY TaskParts
<1>2. endpoint' = endpoint \/ endpoint' = [endpoint EXCEPT ![t[2]] = "gone"]
  BY DEF Finish
<1>3. \A r \in Socket : endpoint'[r] = "incr" => endpoint[r] = "incr"
  BY <1>1, <1>2 DEF Inv, TypeOK
<1>4. \A n \in Task \ {t} : closing'[n] = closing[n]
  BY DEF Finish, Inv, TypeOK
<1>5. Seen' \subseteq Seen \union {t[2]}
  BY <1>2 DEF Seen, Inv, TypeOK
<1>6. IsFiniteSet(Seen)'
  BY <1>5, SeenFinite DEF CounterInv
<1>7. ASSUME NEW u \in User, NEW s \in Counted(u), s # t[2] \/ closing[t] = "del"
      PROVE  s \in Counted(u)'
  <2>1. \A n \in Task : n[2] = s /\ closing[n] = "decr" => closing'[n] = "decr"
    BY <1>4, <1>7
  <2> QED
    BY <1>3, <1>7, <2>1 DEF Counted
<1> QED
  BY <1>3, <1>6, <1>7 DEF CounterInv

LEMMA DecrementCounter ==
  ASSUME Inv, Inv', CounterInv, NEW t \in Task, Decrement(t)
  PROVE  CounterInv'
<1> DEFINE u == Holder(t)
<1>1. u \in User /\ u = Owner[t[2]]
  BY TaskParts DEF Holder
<1>2. UNCHANGED <<active, removals, outrun>> /\ closing[t] = "decr"
  BY DEF Decrement, history
<1>3. Finish(t) \/ (closing' = [closing EXCEPT ![t] = "del"] /\ UNCHANGED endpoint)
  BY DEF Decrement
<1>4. /\ IsFiniteSet(Seen)'
      /\ \A r \in Socket : endpoint'[r] = "incr" =>
           Owner[r] # Anonymous /\ (removals'[r] = 1 => r \in outrun')
      /\ \A v \in User : Counted(v) \ {t[2]} \subseteq Counted(v)'
  BY <1>2, <1>3, FinishCounted
<1>5. \/ counter' = [counter EXCEPT ![u] = counter[u] - 1] /\ failures' \in {failures, failures + 1}
      \/ counter' = counter /\ failures' = failures + 1
  BY DEF Decrement, Decremented, Fail
<1>6. counter'[u] <= failures' + Cardinality(Counted(u)')
  <2>1. Cardinality(Counted(u)) - 1 <= Cardinality(Counted(u)')
    BY <1>1, <1>4, CountedFinite, LosesOne DEF CounterInv
  <2>2. Cardinality(Counted(u)) \in Nat /\ Cardinality(Counted(u)') \in Nat
    BY <1>1, <1>4, CountedFinite DEF CounterInv
  <2>3. counter[u] <= failures + Cardinality(Counted(u)) /\ counter[u] \in Int /\ failures \in Nat
    BY <1>1 DEF CounterInv, Inv, TypeOK
  <2>4. \/ counter'[u] = counter[u] - 1 /\ failures' \in {failures, failures + 1}
        \/ counter'[u] = counter[u] /\ failures' = failures + 1
    BY <1>1, <1>5 DEF Inv, TypeOK
  <2> QED
    BY <2>1, <2>2, <2>3, <2>4
<1>7. ASSUME NEW v \in User \ {u}
      PROVE  counter'[v] <= failures' + Cardinality(Counted(v)')
  <2>1. Counted(v) \subseteq Counted(v)'
    BY <1>1, <1>4 DEF Counted
  <2>2. counter'[v] <= counter[v] /\ failures' >= failures
    BY <1>5 DEF Inv, TypeOK
  <2> QED
    BY <1>4, <2>1, <2>2, BoundKept
<1>8. Anonymous \in User => counter'[Anonymous] <= 0
  BY <1>5 DEF CounterInv, Inv, TypeOK
<1> QED
  BY <1>4, <1>6, <1>7, <1>8 DEF CounterInv

LEMMA DeleteKeyCounter ==
  ASSUME Inv, Inv', CounterInv, NEW t \in Task, DeleteKey(t)
  PROVE  CounterInv'
<1>1. UNCHANGED <<active, removals, outrun>> /\ closing[t] = "del" /\ Finish(t)
  BY DEF DeleteKey, history
<1>2. /\ IsFiniteSet(Seen)'
      /\ \A r \in Socket : endpoint'[r] = "incr" =>
           Owner[r] # Anonymous /\ (removals'[r] = 1 => r \in outrun')
      /\ \A v \in User : Counted(v) \subseteq Counted(v)'
  BY <1>1, FinishCounted
<1>3. failures' >= failures /\ \A v \in User : counter'[v] = counter[v] \/ counter'[v] = 0
  BY DEF DeleteKey, Fail, Inv, TypeOK
<1>4. \A v \in User : counter'[v] <= counter[v] \/ counter'[v] <= 0
  BY <1>3 DEF Inv, TypeOK
<1>5. \A v \in User : counter'[v] <= failures' + Cardinality(Counted(v)')
  BY <1>2, <1>3, <1>4, BoundKept
<1> QED
  BY <1>2, <1>3, <1>5 DEF CounterInv

\* A step that touches the counter only by setting it to 0, and nothing that
\* decides who counts.
LEMMA OtherCounter ==
  ASSUME Inv, Inv', CounterInv, UNCHANGED <<active, endpoint, closing, removals, outrun, failures>>,
         \A u \in User : counter'[u] = counter[u] \/ counter'[u] = 0
  PROVE  CounterInv'
<1>1. Seen' = Seen /\ \A u \in User : Counted(u)' = Counted(u)
  BY DEF Seen, Counted
<1>2. \A v \in User : counter'[v] <= counter[v] \/ counter'[v] <= 0
  BY DEF Inv, TypeOK
<1>3. IsFiniteSet(Seen)' /\ failures' >= failures
  BY <1>1 DEF CounterInv, Inv, TypeOK
<1>4. \A v \in User : counter'[v] <= failures' + Cardinality(Counted(v)')
  BY <1>1, <1>2, <1>3, BoundKept
<1> QED
  BY <1>3, <1>4 DEF CounterInv

LEMMA CounterStep ==
  ASSUME Inv, CounterInv, [Next]_vars
  PROVE  CounterInv'
<1>1. Inv'
  BY NextInv
<1>2. CASE \E s \in Socket : Connect(s) \/ Increment(s)
  BY <1>1, <1>2, ConnectCounter, IncrementCounter
<1>3. ASSUME NEW s \in Socket, Leave(s)
      PROVE  CounterInv'
  <2> DEFINE t == <<Endpoint, s>>
  <2>1. t \in Task /\ t[2] = s
    BY DEF Task
  <2>2. Remove(t) /\ UNCHANGED <<counter, failures>> /\ endpoint[t[2]] = "open"
    BY <1>3 DEF Leave, bounds
  <2>3. \E label \in {"leaving", "gone"} : endpoint' = [endpoint EXCEPT ![t[2]] = label]
    BY <1>3 DEF Leave
  <2> QED
    BY <1>1, <2>1, <2>2, <2>3, RemoveCounter
<1>4. ASSUME NEW p \in Push, NEW s \in Socket, SendFails(p, s)
      PROVE  CounterInv'
  <2>1. <<p, s>> \in Task /\ Remove(<<p, s>>) /\ UNCHANGED <<counter, failures, endpoint>>
    BY <1>4 DEF Task, SendFails, bounds
  <2> QED
    BY <1>1, <2>1, RemoveCounter
<1>5. CASE \E t \in Task : Decrement(t) \/ DeleteKey(t)
  BY <1>1, <1>5, DecrementCounter, DeleteKeyCounter
<1>6. ASSUME NEW u \in User, ExpireOnline(u)
      PROVE  CounterInv'
  <2>1. \A v \in User : counter'[v] = counter[v] \/ counter'[v] = 0
    BY <1>6 DEF ExpireOnline, Inv, TypeOK
  <2> QED
    BY <1>1, <1>6, <2>1, OtherCounter DEF ExpireOnline, registry, history
<1>7. CASE \/ \E p \in Push, u \in User : StartPush(p, u)
           \/ \E p \in Push, s \in Socket : TakeSlot(p, s) \/ SendSucceeds(p, s)
           \/ UNCHANGED vars
  <2>1. UNCHANGED <<active, counter, endpoint, closing, removals, outrun, failures>>
    BY <1>7 DEF StartPush, TakeSlot, SendSucceeds, vars, registry, history, bounds
  <2> QED
    BY <1>1, <2>1, OtherCounter
<1> QED
  BY <1>2, <1>3, <1>4, <1>5, <1>6, <1>7 DEF Next, TaskStep

LEMMA CounterBound ==
  ASSUME Inv, CounterInv
  PROVE  OvercountedOnlyIfOutrun
<1> SUFFICES ASSUME NEW u \in User
             PROVE  counter[u] <= failures + Cardinality({s \in Socket : Owner[s] = u /\
                      (s \in active[u] \union outrun \/
                         \E t \in Task : t[2] = s /\ closing[t] = "decr")})
  BY DEF OvercountedOnlyIfOutrun
<1> DEFINE bound == {s \in Socket : Owner[s] = u /\
                       (s \in active[u] \union outrun \/
                          \E t \in Task : t[2] = s /\ closing[t] = "decr")}
<1>1. bound \subseteq Seen
  BY ManagerAssumption, TaskParts DEF Seen, Inv, RegistryInv, DisconnectInv
<1>2. IsFiniteSet(bound) /\ Cardinality(bound) \in Nat
  BY <1>1, FS_Subset, FS_CardinalityType DEF CounterInv
<1>3. Counted(u) \subseteq bound
  BY DEF Counted
<1>4. Cardinality(Counted(u)) <= Cardinality(bound)
  BY <1>2, <1>3, FS_Subset
<1>5. Cardinality(Counted(u)) \in Nat
  BY CountedFinite DEF CounterInv
<1>6. counter[u] <= failures + Cardinality(Counted(u)) /\ counter[u] \in Int /\ failures \in Nat
  BY DEF CounterInv, Inv, TypeOK
<1> QED
  BY <1>2, <1>4, <1>5, <1>6

LEMMA InitCounter == Init => Inv /\ CounterInv
<1> SUFFICES ASSUME Init
             PROVE  CounterInv
  BY InitInv
<1>1. Inv
  BY InitInv
<1>2. Seen = {} /\ IsFiniteSet(Seen)
  BY FS_EmptySet DEF Init, Seen
<1>3. \A u \in User : counter[u] = 0 /\ failures = 0
  BY DEF Init
<1>4. \A u \in User : Cardinality(Counted(u)) \in Nat
  BY <1>1, <1>2, CountedFinite
<1> QED
  BY <1>2, <1>3, <1>4 DEF Init, CounterInv

\* The counter of a user never exceeds the connections that are registered or
\* still to be counted off, those a failed push took out before they were
\* counted, and the commands that failed, in whatever order INCR, DECR and DEL
\* of any number of sockets reach Redis and however often the key expires.
THEOREM NotOvercounted == Spec => []OvercountedOnlyIfOutrun
<1>1. Init => Inv /\ CounterInv
  BY InitCounter
<1>2. Inv /\ CounterInv /\ [Next]_vars => (Inv /\ CounterInv)'
  BY NextInv, CounterStep
<1>3. Inv /\ CounterInv => OvercountedOnlyIfOutrun
  BY CounterBound
<1> QED
  BY <1>1, <1>2, <1>3, PTL DEF Spec
-----------------------------------------------------------------------------
(* The other direction: who is connected is online.                        *)

\* The sockets of u that have sent their INCR, and those counted off.
Joined(u)  == {s \in Socket : Owner[s] = u /\ endpoint[s] \notin {"new", "incr"}}
CountedOff(u) == {s \in Socket : Owner[s] = u /\ removals[s] = 1 /\
                    ~\E t \in Task : t[2] = s /\ closing[t] = "decr"}

\* An endpoint that waits for its disconnect is leaving.
LeavingInv == \A s \in Socket : closing[<<Endpoint, s>>] # "idle" => endpoint[s] = "leaving"

\* What a pending DEL removes is no connection, unless one was counted since.
PendingDelInv ==
  \A t \in Task : closing[t] = "del" /\ Holder(t) \notin wiped => counter[Holder(t)] <= 0

\* But for errors and expiries the counter is at least what joined without
\* being counted off.
LowerBound(u) == counter[u] + Cardinality(CountedOff(u)) >= Cardinality(Joined(u))
LowerInv == failures = 0 /\ expiries = 0 => \A u \in User \ ({Anonymous} \union wiped) : LowerBound(u)

LEMMA JoinedFinite ==
  ASSUME NEW u \in User
  PROVE  /\ Inv /\ IsFiniteSet(Seen) =>
              /\ IsFiniteSet(Joined(u)) /\ Cardinality(Joined(u)) \in Nat
              /\ IsFiniteSet(CountedOff(u)) /\ Cardinality(CountedOff(u)) \in Nat
         /\ Inv' /\ IsFiniteSet(Seen)' =>
              /\ IsFiniteSet(Joined(u)') /\ Cardinality(Joined(u)') \in Nat
              /\ IsFiniteSet(CountedOff(u)') /\ Cardinality(CountedOff(u)') \in Nat
<1>1. Inv => Joined(u) \subseteq Seen /\ CountedOff(u) \subseteq Seen
  BY DEF Joined, CountedOff, Seen, Inv, RegistryInv
<1>2. Inv' => Joined(u)' \subseteq Seen' /\ CountedOff(u)' \subseteq Seen'
  BY DEF Joined, CountedOff, Seen, Inv, RegistryInv
<1> QED
  BY <1>1, <1>2, FS_Subset, FS_CardinalityType

LEMMA LeavingStep ==
  ASSUME Inv, LeavingInv, [Next]_vars
  PROVE  LeavingInv'
<1> SUFFICES ASSUME NEW s \in Socket, closing'[<<Endpoint, s>>] # "idle"
             PROVE  endpoint'[s] = "leaving"
  BY DEF LeavingInv
<1> DEFINE t == <<Endpoint, s>>
<1>1. t \in Task /\ t[2] = s
  BY DEF Task
<1>2. closing[t] # "idle" => endpoint[s] = "leaving"
  BY DEF LeavingInv
<1>3. CASE \E r \in Socket : Connect(r) \/ Increment(r)
  BY <1>1, <1>2, <1>3 DEF Connect, Increment, Inv, TypeOK
<1>4. ASSUME NEW r \in Socket, Leave(r)
      PROVE  endpoint'[s] = "leaving"
  <2>1. CASE r = s
    <3>1. closing[t] = "idle"
      BY <1>2, <1>4, <2>1 DEF Leave
    <3>2. IsRegistered(t) /\ Owner[s] # Anonymous
      BY <1>1, <1>4, <2>1, <3>1 DEF Leave, Remove, Holder
    <3> QED
      BY <1>4, <2>1, <3>2 DEF Leave, Inv, TypeOK
  <2>2. CASE r # s
    <3>1. <<Endpoint, r>> # t
      BY <2>2
    <3>2. closing'[t] = closing[t]
      BY <1>1, <1>4, <3>1 DEF Leave, Remove, Inv, TypeOK
    <3> QED
      BY <1>2, <1>4, <2>2, <3>2 DEF Leave, Inv, TypeOK
  <2> QED
    BY <2>1, <2>2
<1>5. ASSUME NEW p \in Push, NEW r \in Socket, SendFails(p, r)
      PROVE  endpoint'[s] = "leaving"
  <2>1. <<p, r>> # t
    BY EndpointAssumption
  <2>2. closing'[t] = closing[t]
    BY <1>1, <1>5, <2>1 DEF SendFails, Remove, Inv, TypeOK
  <2> QED
    BY <1>2, <1>5, <2>2 DEF SendFails
<1>6. ASSUME NEW n \in Task, Decrement(n) \/ DeleteKey(n)
      PROVE  endpoint'[s] = "leaving"
  <2>1. closing[n] # "idle"
    BY <1>6 DEF Decrement, DeleteKey
  <2>2. CASE n = t
    BY <1>1, <1>2, <1>6, <2>1, <2>2 DEF Decrement, DeleteKey, Finish, Inv, TypeOK
  <2>3. CASE n # t
    <3>1. closing'[t] = closing[t]
      BY <1>1, <1>6, <2>3 DEF Decrement, DeleteKey, Finish, Inv, TypeOK
    <3>2. n[2] # s
      BY <1>1, <2>1, <2>3, <3>1 DEF Inv, DisconnectInv
    <3>3. endpoint'[s] = endpoint[s]
      BY <1>6, <3>2 DEF Decrement, DeleteKey, Finish, Inv, TypeOK
    <3> QED
      BY <1>2, <3>1, <3>3
  <2> QED
    BY <2>2, <2>3
<1>7. CASE \/ \E p \in Push, u \in User : StartPush(p, u)
           \/ \E p \in Push, r \in Socket : TakeSlot(p, r) \/ SendSucceeds(p, r)
           \/ \E u \in User : ExpireOnline(u)
           \/ UNCHANGED vars
  BY <1>2, <1>7 DEF StartPush, TakeSlot, SendSucceeds, ExpireOnline, vars
<1> QED
  BY <1>3, <1>4, <1>5, <1>6, <1>7 DEF Next, TaskStep

LEMMA PendingDelStep ==
  ASSUME Inv, PendingDelInv, [Next]_vars
  PROVE  PendingDelInv'
<1> SUFFICES ASSUME NEW t \in Task, closing'[t] = "del", Holder(t) \notin wiped'
             PROVE  counter'[Holder(t)] <= 0
  BY DEF PendingDelInv, Holder
<1> DEFINE u == Holder(t)
<1>1. u \in User /\ counter[u] \in Int
  BY TaskParts DEF Inv, TypeOK
<1>2. closing[t] = "del" /\ u \notin wiped => counter[u] <= 0
  BY DEF PendingDelInv
<1>3. ASSUME NEW s \in Socket, Increment(s)
      PROVE  counter'[u] <= 0
  <2>1. closing[t] = "del" /\ u # Owner[s] /\ u \notin wiped
    BY <1>3 DEF Increment
  <2>2. counter'[u] = counter[u]
    BY <1>1, <1>3, <2>1 DEF Increment, Inv, TypeOK
  <2> QED
    BY <1>2, <2>1, <2>2
<1>4. CASE \E s \in Socket : Connect(s)
  BY <1>2, <1>4 DEF Connect, history
<1>5. ASSUME NEW n \in Task, Remove(n), counter' = counter
      PROVE  counter'[u] <= 0
  <2>1. closing[t] = "del" /\ wiped' = wiped
    BY <1>5 DEF Remove, Inv, TypeOK
  <2> QED
    BY <1>2, <1>5, <2>1
<1>6. \A s \in Socket : Leave(s) => Remove(<<Endpoint, s>>) /\ <<Endpoint, s>> \in Task /\ counter' = counter
  BY DEF Leave, Task
<1>7. \A p \in Push, s \in Socket : SendFails(p, s) => Remove(<<p, s>>) /\ <<p, s>> \in Task /\ counter' = counter
  BY DEF SendFails, Task
<1>8. ASSUME NEW n \in Task, Decrement(n)
      PROVE  counter'[u] <= 0
  <2>1. wiped' = wiped
    BY <1>8 DEF Decrement, history
  <2>2. CASE n = t
    BY <1>1, <1>8, <2>2 DEF Decrement, Decremented, Finish, Inv, TypeOK
  <2>3. CASE n # t
    <3>1. closing[t] = "del"
      BY <1>8, <2>3 DEF Decrement, Finish, Inv, TypeOK
    <3>2. counter'[u] <= counter[u]
      BY <1>1, <1>8 DEF Decrement, Decremented, Inv, TypeOK
    <3>3. counter'[u] \in Int
      BY <1>1, NextInv DEF Inv, TypeOK
    <3> QED
      BY <1>1, <1>2, <2>1, <3>1, <3>2, <3>3
  <2> QED
    BY <2>2, <2>3
<1>9. ASSUME NEW n \in Task, DeleteKey(n)
      PROVE  counter'[u] <= 0
  <2>1. closing[t] = "del" /\ wiped' = wiped
    BY <1>9 DEF DeleteKey, Finish, history, Inv, TypeOK
  <2>2. counter'[u] = 0 \/ counter'[u] = counter[u]
    BY <1>1, <1>9 DEF DeleteKey, Inv, TypeOK
  <2> QED
    BY <1>2, <2>1, <2>2
<1>10. ASSUME NEW v \in User, ExpireOnline(v)
       PROVE  counter'[u] <= 0
  <2>1. closing[t] = "del" /\ wiped' = wiped
    BY <1>10 DEF ExpireOnline, history
  <2>2. counter'[u] = 0 \/ counter'[u] = counter[u]
    BY <1>1, <1>10 DEF ExpireOnline, Inv, TypeOK
  <2> QED
    BY <1>2, <2>1, <2>2
<1>11. CASE \/ \E p \in Push, v \in User : StartPush(p, v)
            \/ \E p \in Push, s \in Socket : TakeSlot(p, s) \/ SendSucceeds(p, s)
            \/ UNCHANGED vars
  BY <1>2, <1>11 DEF StartPush, TakeSlot, SendSucceeds, vars, history
<1> QED
  BY <1>3, <1>4, <1>5, <1>6, <1>7, <1>8, <1>9, <1>10, <1>11 DEF Next, TaskStep

\* A step by which nobody joins, nobody counted off is forgotten and the
\* counter does not fall keeps the bound.
LEMMA LowerKept ==
  ASSUME Inv, Inv', IsFiniteSet(Seen), IsFiniteSet(Seen)', NEW u \in User, LowerBound(u),
         counter'[u] >= counter[u], Joined(u)' \subseteq Joined(u), CountedOff(u) \subseteq CountedOff(u)'
  PROVE  LowerBound(u)'
<1>1. Cardinality(Joined(u)') <= Cardinality(Joined(u))
  BY JoinedFinite, FS_Subset
<1>2. Cardinality(CountedOff(u)) <= Cardinality(CountedOff(u)')
  BY JoinedFinite, FS_Subset
<1>3. counter[u] \in Int /\ counter'[u] \in Int
  BY DEF Inv, TypeOK
<1>4. /\ Cardinality(Joined(u)) \in Nat /\ Cardinality(CountedOff(u)) \in Nat
      /\ Cardinality(Joined(u)') \in Nat /\ Cardinality(CountedOff(u)') \in Nat
  BY JoinedFinite
<1> QED
  BY <1>1, <1>2, <1>3, <1>4 DEF LowerBound

LEMMA LowerStep ==
  ASSUME Inv, CounterInv, LeavingInv, PendingDelInv, LowerInv, [Next]_vars
  PROVE  LowerInv'
<1> SUFFICES ASSUME failures' = 0, expiries' = 0, NEW u \in User, u # Anonymous, u \notin wiped'
             PROVE  LowerBound(u)'
  BY DEF LowerInv
<1>1. Inv' /\ IsFiniteSet(Seen) /\ IsFiniteSet(Seen)'
  BY NextInv, CounterStep DEF CounterInv
<1>2. failures \in Nat /\ expiries \in Nat /\ counter[u] \in Int
  BY DEF Inv, TypeOK
<1>3. ASSUME UNCHANGED <<failures, expiries, counter>>, wiped' = wiped,
             Joined(u)' \subseteq Joined(u), CountedOff(u) \subseteq CountedOff(u)'
      PROVE  LowerBound(u)'
  BY <1>1, <1>2, <1>3, LowerKept DEF LowerInv
<1>4. ASSUME NEW s \in Socket, Connect(s)
      PROVE  LowerBound(u)'
  <2>1. \A r \in Socket : Owner[r] = u => endpoint'[r] = endpoint[r] \/ endpoint'[r] = "incr"
    BY <1>4 DEF Connect, Inv, TypeOK
  <2>2. Joined(u)' \subseteq Joined(u) /\ CountedOff(u) \subseteq CountedOff(u)'
    BY <1>4, <2>1 DEF Connect, Joined, CountedOff, history
  <2> QED
    BY <1>3, <1>4, <2>2 DEF Connect, history, bounds
<1>5. ASSUME NEW s \in Socket, Increment(s)
      PROVE  LowerBound(u)'
  <2>1. /\ counter' = [counter EXCEPT ![Owner[s]] = @ + 1] /\ failures = 0 /\ expiries = 0
        /\ UNCHANGED <<closing, removals>> /\ u \notin wiped
        /\ endpoint' = [endpoint EXCEPT ![s] = "open"]
    BY <1>2, <1>5 DEF Increment, Fail
  <2>2. CountedOff(u)' = CountedOff(u)
    BY <2>1 DEF CountedOff
  <2>3. LowerBound(u)
    BY <2>1 DEF LowerInv
  <2>4. CASE Owner[s] # u
    <3>1. Joined(u)' \subseteq Joined(u)
      BY <2>1, <2>4 DEF Joined, Inv, TypeOK
    <3>2. counter'[u] >= counter[u]
      BY <1>2, <2>1, <2>4 DEF Inv, TypeOK
    <3> QED
      BY <1>1, <2>2, <2>3, <3>1, <3>2, LowerKept
  <2>5. CASE Owner[s] = u
    <3>1. Joined(u)' \ {s} \subseteq Joined(u)
      BY <2>1 DEF Joined, Inv, TypeOK
    <3>2. Cardinality(Joined(u)') - 1 <= Cardinality(Joined(u))
      BY <1>1, <3>1, JoinedFinite, LosesOne
    <3>3. counter'[u] = counter[u] + 1
      BY <2>1, <2>5 DEF Inv, TypeOK
    <3>4. /\ Cardinality(Joined(u)) \in Nat /\ Cardinality(CountedOff(u)) \in Nat
          /\ Cardinality(Joined(u)') \in Nat /\ Cardinality(CountedOff(u)') = Cardinality(CountedOff(u))
      BY <1>1, <2>2, JoinedFinite
    <3> QED
      BY <1>2, <2>3, <3>2, <3>3, <3>4 DEF LowerBound
  <2> QED
    BY <2>4, <2>5
<1>6. ASSUME NEW t \in Task, Remove(t), UNCHANGED <<counter, failures, expiries>>,
             \A s \in Socket : endpoint'[s] \notin {"new", "incr"} => endpoint[s] \notin {"new", "incr"}
      PROVE  LowerBound(u)'
  <2>1. Joined(u)' \subseteq Joined(u)
    BY <1>6 DEF Joined
  <2>2. ASSUME NEW s \in CountedOff(u)
        PROVE  s \in CountedOff(u)'
    <3>1. s \in Socket /\ Owner[s] = u /\ removals[s] = 1
      BY <2>2 DEF CountedOff
    <3>2. CASE ~IsRegistered(t)
      BY <1>6, <2>2, <3>2 DEF Remove, CountedOff
    <3>3. CASE IsRegistered(t)
      <4>1. s # t[2]
        BY <3>1, <3>3 DEF IsRegistered, Holder, Inv, RegistryInv
      <4>2. \A n \in Task : n[2] = s => closing'[n] = closing[n]
        BY <1>6, <4>1 DEF Remove, Inv, TypeOK
      <4>3. removals'[s] = 1
        BY <1>6, <3>1, <4>1, RemoveStep
      <4> QED
        BY <2>2, <3>1, <4>2, <4>3 DEF CountedOff
    <3> QED
      BY <3>2, <3>3
  <2>3. wiped' = wiped
    BY <1>6 DEF Remove
  <2> QED
    BY <1>3, <1>6, <2>1, <2>2, <2>3
<1>7. ASSUME NEW s \in Socket, Leave(s)
      PROVE  LowerBound(u)'
  <2>1. <<Endpoint, s>> \in Task /\ Remove(<<Endpoint, s>>) /\ UNCHANGED <<counter, failures, expiries>>
    BY <1>7 DEF Leave, Task, bounds
  <2>2. \A r \in Socket : endpoint'[r] \notin {"new", "incr"} => endpoint[r] \notin {"new", "incr"}
    BY <1>7 DEF Leave, Inv, TypeOK
  <2> QED
    BY <1>6, <2>1, <2>2
<1>8. ASSUME NEW p \in Push, NEW s \in Socket, SendFails(p, s)
      PROVE  LowerBound(u)'
  <2>1. <<p, s>> \in Task /\ Remove(<<p, s>>) /\ UNCHANGED <<counter, failures, expiries, endpoint>>
    BY <1>8 DEF SendFails, Task, bounds
  <2> QED
    BY <1>6, <2>1
<1>9. ASSUME NEW t \in Task, closing[t] # "idle", closing'[t] # "decr",
             UNCHANGED <<active, removals>>,
             \/ Finish(t)
             \/ closing' = [closing EXCEPT ![t] = "del"] /\ UNCHANGED endpoint
      PROVE  /\ Joined(u)' \subseteq Joined(u)
             /\ CountedOff(u) \subseteq CountedOff(u)'
             /\ closing[t] = "decr" /\ Owner[t[2]] = u =>
                  t[2] \notin CountedOff(u) /\ t[2] \in CountedOff(u)'
  <2>1. t[2] \in Socket /\ removals[t[2]] = 1
    BY <1>9, TaskParts DEF Inv, DisconnectInv
  <2>2. \A n \in Task \ {t} : closing'[n] = closing[n]
    BY <1>9 DEF Finish, Inv, TypeOK
  <2>3. \A r \in Socket : endpoint'[r] # endpoint[r] => endpoint[r] = "leaving"
    <3> SUFFICES ASSUME NEW r \in Socket, endpoint'[r] # endpoint[r]
                 PROVE  endpoint[r] = "leaving"
      OBVIOUS
    <3>1. t[1] = Endpoint /\ r = t[2]
      BY <1>9 DEF Finish, Inv, TypeOK
    <3>2. t = <<Endpoint, r>>
      BY <3>1 DEF Task
    <3> QED
      BY <1>9, <3>2 DEF LeavingInv
  <2>4. Joined(u)' \subseteq Joined(u)
    BY <2>3 DEF Joined
  <2>5. \A s \in Socket, n \in Task : n[2] = s /\ closing'[n] = "decr" => closing[n] = "decr"
    BY <1>9, <2>2
  <2>6. CountedOff(u) \subseteq CountedOff(u)'
    BY <1>9, <2>5 DEF CountedOff
  <2>7. \A n \in Task : n[2] = t[2] => closing'[n] # "decr"
    BY <1>9, <2>2 DEF Inv, DisconnectInv
  <2> QED
    BY <1>9, <2>1, <2>4, <2>6, <2>7 DEF CountedOff
<1>10. ASSUME NEW t \in Task, Decrement(t)
       PROVE  LowerBound(u)'
  <2>1. /\ closing[t] = "decr" /\ UNCHANGED <<active, removals>> /\ u \notin wiped
        /\ failures = 0 /\ expiries = 0
        /\ counter' = [counter EXCEPT ![Holder(t)] = counter[Holder(t)] - 1]
    BY <1>2, <1>10 DEF Decrement, Decremented, Fail, history
  <2>2. closing'[t] # "decr"
    BY <1>10 DEF Decrement, Finish, Inv, TypeOK
  <2>3. Finish(t) \/ (closing' = [closing EXCEPT ![t] = "del"] /\ UNCHANGED endpoint)
    BY <1>10 DEF Decrement
  <2>4. /\ Joined(u)' \subseteq Joined(u)
        /\ CountedOff(u) \subseteq CountedOff(u)'
        /\ Owner[t[2]] = u => t[2] \notin CountedOff(u) /\ t[2] \in CountedOff(u)'
    BY <1>9, <2>1, <2>2, <2>3
  <2>5. LowerBound(u)
    BY <2>1 DEF LowerInv
  <2>6. CASE Holder(t) # u
    <3>1. counter'[u] >= counter[u]
      BY <1>2, <2>1, <2>6 DEF Inv, TypeOK
    <3> QED
      BY <1>1, <2>4, <2>5, <3>1, LowerKept
  <2>7. CASE Holder(t) = u
    <3>1. Cardinality(CountedOff(u)) + 1 <= Cardinality(CountedOff(u)')
      BY <1>1, <2>4, <2>7, JoinedFinite, GainsOne DEF Holder
    <3>2. Cardinality(Joined(u)') <= Cardinality(Joined(u))
      BY <1>1, <2>4, JoinedFinite, FS_Subset
    <3>3. counter'[u] = counter[u] - 1
      BY <2>1, <2>7 DEF Inv, TypeOK
    <3>4. /\ Cardinality(Joined(u)) \in Nat /\ Cardinality(CountedOff(u)) \in Nat
          /\ Cardinality(Joined(u)') \in Nat /\ Cardinality(CountedOff(u)') \in Nat
      BY <1>1, JoinedFinite
    <3> QED
      BY <1>2, <2>5, <3>1, <3>2, <3>3, <3>4 DEF LowerBound
  <2> QED
    BY <2>6, <2>7
<1>11. ASSUME NEW t \in Task, DeleteKey(t)
       PROVE  LowerBound(u)'
  <2>1. /\ closing[t] = "del" /\ UNCHANGED <<active, removals>> /\ u \notin wiped /\ Finish(t)
        /\ failures = 0 /\ expiries = 0 /\ counter' = [counter EXCEPT ![Holder(t)] = 0]
    BY <1>2, <1>11 DEF DeleteKey, Fail, history
  <2>2. closing'[t] # "decr"
    BY <2>1 DEF Finish, Inv, TypeOK
  <2>3. Joined(u)' \subseteq Joined(u) /\ CountedOff(u) \subseteq CountedOff(u)'
    BY <1>9, <2>1, <2>2
  <2>4. counter'[u] >= counter[u]
    <3>1. CASE Holder(t) = u
      BY <1>2, <2>1, <3>1 DEF PendingDelInv, Inv, TypeOK
    <3>2. CASE Holder(t) # u
      BY <1>2, <2>1, <3>2 DEF Inv, TypeOK
    <3> QED
      BY <3>1, <3>2
  <2> QED
    BY <1>1, <2>1, <2>3, <2>4, LowerKept DEF LowerInv
<1>12. CASE \/ \E p \in Push, v \in User : StartPush(p, v)
            \/ \E p \in Push, s \in Socket : TakeSlot(p, s) \/ SendSucceeds(p, s)
            \/ UNCHANGED vars
  <2>1. UNCHANGED <<counter, endpoint, closing, removals, wiped, failures, expiries>>
    BY <1>12 DEF StartPush, TakeSlot, SendSucceeds, vars, registry, history, bounds
  <2>2. Joined(u)' = Joined(u) /\ CountedOff(u)' = CountedOff(u)
    BY <2>1 DEF Joined, CountedOff
  <2> QED
    BY <1>3, <2>1, <2>2
<1>13. ~\E v \in User : ExpireOnline(v)
  BY <1>2 DEF ExpireOnline
<1> QED
  BY <1>4, <1>5, <1>7, <1>8, <1>10, <1>11, <1>12, <1>13 DEF Next, TaskStep

\* With everything settled, who has a connection has joined more often than it
\* has been counted off.
LEMMA OnlineBound ==
  ASSUME Inv, CounterInv, LowerInv
  PROVE  OnlineUnlessWiped
<1> SUFFICES ASSUME Quiescent, failures = 0, expiries = 0,
                    NEW u \in User \ ({Anonymous} \union wiped), active[u] # {}
             PROVE  counter[u] > 0
  BY DEF OnlineUnlessWiped
<1>1. PICK s \in active[u] : s \in Socket /\ Owner[s] = u
  BY DEF Inv, TypeOK, RegistryInv
<1>2. s \in Joined(u)
  BY <1>1 DEF Quiescent, Joined, Inv, RegistryInv
<1>3. s \notin CountedOff(u) /\ CountedOff(u) \subseteq Joined(u)
  BY <1>1 DEF Quiescent, CountedOff, Joined, Inv, RegistryInv
<1>4. Cardinality(CountedOff(u)) + 1 <= Cardinality(Joined(u))
  BY <1>2, <1>3, JoinedFinite, GainsOne DEF CounterInv
<1>5. Cardinality(CountedOff(u)) \in Nat /\ Cardinality(Joined(u)) \in Nat /\ counter[u] \in Int
  BY JoinedFinite DEF CounterInv, Inv, TypeOK
<1> QED
  BY <1>4, <1>5 DEF LowerInv, LowerBound

LEMMA InitLower == Init => LeavingInv /\ PendingDelInv /\ LowerInv
<1> SUFFICES ASSUME Init
             PROVE  LowerInv
  BY DEF Init, LeavingInv, PendingDelInv, Task
<1>1. \A u \in User : Joined(u) = {} /\ counter[u] = 0
  BY DEF Init, Joined
<1>2. \A u \in User : Cardinality(Joined(u)) = 0
  BY <1>1, FS_EmptySet
<1>3. \A u \in User : Cardinality(CountedOff(u)) \in Nat
  BY InitCounter, JoinedFinite DEF CounterInv
<1> QED
  BY <1>1, <1>2, <1>3 DEF LowerInv, LowerBound

\* A user with a connection is online once his tasks have finished without an
\* error or an expiry, unless the DEL of a disconnect wiped out a connection
\* that had been counted after its DECR (_decrement_online_counter): that race
\* is the only way a connected user is left offline.
THEOREM ConnectedIsOnline == Spec => []OnlineUnlessWiped
<1> DEFINE IInv == Inv /\ CounterInv /\ LeavingInv /\ PendingDelInv /\ LowerInv
<1>1. Init => IInv
  BY InitCounter, InitLower
<1>2. IInv /\ [Next]_vars => IInv'
  BY NextInv, CounterStep, LeavingStep, PendingDelStep, LowerStep
<1>3. IInv => OnlineUnlessWiped
  BY OnlineBound
<1> QED
  BY <1>1, <1>2, <1>3, PTL DEF Spec
=============================================================================
