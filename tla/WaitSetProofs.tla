---------------------------- MODULE WaitSetProofs ----------------------------
(***************************************************************************)
(* What holds of rmw_wait for any number of waiters, entities and          *)
(* notifiers, whatever each waiter waits on.                               *)
(***************************************************************************)
EXTENDS WaitSet, TLAPS

USE SetsAssumption, WaitsOnAssumption, BoundsAssumption

\* A notifier that is to signal holds the mutex of an entity with a wait set
\* attached; one that is to push holds a queue with room.
NotifierInv ==
  /\ \A n \in Notifiers : notifier[n].pc = "signal" =>
       /\ mutex[notifier[n].entity] = n
       /\ wait_set[notifier[n].entity] \in Waiters
  /\ notifier[ReadTask].pc # "idle" => notifier[ReadTask].entity \in Queues
  /\ notifier[ReadTask].pc \in {"push", "replace"} => size[notifier[ReadTask].entity] < Depth
  /\ \A t \in Triggerers :
       /\ notifier[t].pc \in {"idle", "signal"}
       /\ notifier[t].pc = "signal" => notifier[t].entity \in GuardConditions

\* The loops of rmw_wait have attached e and not yet detached it.
StillAttached(w, e) ==
  \E i \in 1 .. Len(WaitsOn[w]) :
    /\ WaitsOn[w][i] = e
    /\ \/ pc[w] = "attach" /\ i < next[w]
       \/ pc[w] \in {"block", "asleep"}
       \/ pc[w] = "detach" /\ i >= next[w]
       \/ pc[w] = "check_empty" /\ i > next[w]

\* An entity points only to the wait set of a call that is yet to detach it.
AttachInv ==
  \A e \in Entities, w \in Waiters : wait_set[e] = w => StillAttached(w, e)

IInv == TypeOK /\ NotifierInv /\ AttachInv

-----------------------------------------------------------------------------

LEMMA InitIInv == Init => IInv
  BY DEF Init, IInv, TypeOK, NotifierInv, AttachInv, Idle, Phases, NotifierStates, Notifiers,
         Entities

\* Every step keeps the types: only the read task, and with it no early return,
\* keeps the mutex of a queue.
LEMMA NextTypeOK == TypeOK /\ NotifierInv /\ [Next]_vars => TypeOK'
<1> SUFFICES ASSUME TypeOK, NotifierInv, [Next]_vars PROVE TypeOK'
  OBVIOUS
<1> USE DEF TypeOK, Phases, NotifierStates, waitVars
<1>1. ASSUME NEW w \in Waiters, RmwWait(w) PROVE TypeOK'
  BY <1>1 DEF RmwWait
<1>2. ASSUME NEW w \in Waiters, AttachReadyGuard(w) PROVE TypeOK'
  BY <1>2 DEF AttachReadyGuard, GoTo, Entities
<1>3. ASSUME NEW w \in Waiters, AttachReadyQueue(w) PROVE TypeOK'
  BY <1>3 DEF AttachReadyQueue, GoTo
<1>4. ASSUME NEW w \in Waiters, Attach(w) PROVE TypeOK'
  BY <1>4 DEF Attach
<1>5. ASSUME NEW w \in Waiters, AttachDone(w) PROVE TypeOK'
  BY <1>5 DEF AttachDone
<1>6. ASSUME NEW w \in Waiters, Resume(w) PROVE TypeOK'
  BY <1>6 DEF Resume, GoTo
<1>7. ASSUME NEW w \in Waiters, Sleep(w) PROVE TypeOK'
  BY <1>7 DEF Sleep
<1>8. ASSUME NEW w \in Waiters, Expire(w) PROVE TypeOK'
  BY <1>8 DEF Expire
<1>9. ASSUME NEW w \in Waiters, SpuriousWake(w) PROVE TypeOK'
  BY <1>9 DEF SpuriousWake
<1>10. ASSUME NEW w \in Waiters, DetachGuard(w) PROVE TypeOK'
  BY <1>10 DEF DetachGuard, Entities
<1>11. ASSUME NEW w \in Waiters, DetachQueue(w) PROVE TypeOK'
  BY <1>11 DEF DetachQueue, Entities
<1>12. ASSUME NEW w \in Waiters, CheckEmpty(w) PROVE TypeOK'
  BY <1>12 DEF CheckEmpty, Entities
<1>13. ASSUME NEW w \in Waiters, Return(w) PROVE TypeOK'
  BY <1>13 DEF Return
<1>14. ASSUME NEW q \in Queues, Arrive(q) PROVE TypeOK'
  <2>1. size' \in [Queues -> 0 .. Depth]
    BY <1>14 DEF Arrive
  <2>2. notifier' \in [Notifiers -> NotifierStates]
    BY <1>14 DEF Arrive, Entities
  <2>3. arrivals' \in 0 .. MaxArrivals
    BY <1>14 DEF Arrive
  <2> QED BY <1>14, <2>1, <2>2, <2>3 DEF Arrive
<1>15. ASSUME NEW q \in Queues, Push(q) PROVE TypeOK'
  <2>1. size' \in [Queues -> 0 .. Depth]
    BY <1>15 DEF Push, Pushing, NotifierInv
  <2>2. notifier' \in [Notifiers -> NotifierStates]
    BY <1>15 DEF Push, Notifiers, Entities
  <2> QED BY <1>15, <2>1, <2>2 DEF Push
<1>16. ASSUME NEW q \in Queues, PushFails(q) PROVE TypeOK'
  BY <1>16 DEF PushFails, Idle
<1>17. ASSUME NEW q \in Queues, Notify(q) PROVE TypeOK'
  <2>1. notifier' \in [Notifiers -> NotifierStates]
    <3>1. Idle \in NotifierStates /\ [pc |-> "signal", entity |-> q] \in NotifierStates
      BY DEF Idle, Entities
    <3>2. \E s \in NotifierStates : notifier' = [notifier EXCEPT ![ReadTask] = s]
      BY <1>17, <3>1 DEF Notify
    <3> HIDE DEF NotifierStates
    <3> QED BY <3>2
  <2>2. mutex' \in [Entities -> Waiters \cup Notifiers \cup {NoOne}]
    BY <1>17 DEF Notify, Notifiers
  <2>3. \A p \in Queues : mutex'[p] \in {NoOne, ReadTask}
    BY <1>17 DEF Notify, Entities
  <2> QED BY <1>17, <2>1, <2>2, <2>3 DEF Notify
<1>18. ASSUME NEW q \in Queues, Signal(q) PROVE TypeOK'
  <2>1. mutex' = [mutex EXCEPT ![q] = NoOne] /\ q \in Entities
    BY <1>18 DEF Signal, Entities
  <2>2. /\ mutex' \in [Entities -> Waiters \cup Notifiers \cup {NoOne}]
        /\ \A p \in Queues : mutex'[p] \in {NoOne, ReadTask}
    BY <2>1 DEF Entities
  <2>3. notifier' \in [Notifiers -> NotifierStates]
    BY <1>18 DEF Signal, Idle, Notifiers
  <2>4. pc' \in [Waiters -> Phases]
    BY <1>18 DEF Signal
  <2>5. triggered' \in [Waiters -> BOOLEAN]
    BY <1>18 DEF Signal
  <2> QED BY <1>18, <2>2, <2>3, <2>4, <2>5 DEF Signal
<1>19. ASSUME NEW t \in Triggerers, NEW g \in GuardConditions, Trigger(t, g) PROVE TypeOK'
  <2>1. notifier' \in [Notifiers -> NotifierStates]
    <3>1. [pc |-> "signal", entity |-> g] \in NotifierStates
      BY DEF Entities
    <3>2. notifier' \in {notifier, [notifier EXCEPT ![t] = [pc |-> "signal", entity |-> g]]}
      BY <1>19 DEF Trigger
    <3> QED BY <3>1, <3>2
  <2>2. /\ mutex' \in [Entities -> Waiters \cup Notifiers \cup {NoOne}]
        /\ \A p \in Queues : mutex'[p] \in {NoOne, ReadTask}
    <3>1. t \in Notifiers
      BY DEF Notifiers
    <3>2. mutex' \in {mutex, [mutex EXCEPT ![g] = t]}
      BY <1>19 DEF Trigger
    <3>3. mutex' \in [Entities -> Waiters \cup Notifiers \cup {NoOne}]
      BY <3>1, <3>2
    <3>4. \A p \in Queues : mutex'[p] \in {NoOne, ReadTask}
      BY <3>2 DEF Entities
    <3> QED BY <3>3, <3>4
  <2>3. triggers' \in 0 .. MaxTriggers
    BY <1>19 DEF Trigger
  <2> QED BY <1>19, <2>1, <2>2, <2>3 DEF Trigger
<1>20. ASSUME NEW t \in Triggerers, NEW g \in GuardConditions, SetTriggered(t, g) PROVE TypeOK'
  BY <1>20 DEF SetTriggered, Idle, NotifierInv, Notifiers, Entities
<1>21. ASSUME NEW q \in Queues, Take(q) PROVE TypeOK'
  BY <1>21 DEF Take
<1>22. CASE UNCHANGED vars
  BY <1>22 DEF vars
<1> QED
  BY <1>1, <1>2, <1>3, <1>4, <1>5, <1>6, <1>7, <1>8, <1>9, <1>10, <1>11, <1>12, <1>13, <1>14,
     <1>15, <1>16, <1>17, <1>18, <1>19, <1>20, <1>21, <1>22
     DEF Next, WaiterStep, ReadTaskStep, TriggererStep

\* A notifier's mutex keeps the wait set it found attached until it has signalled.
LEMMA NextNotifierInv == TypeOK /\ NotifierInv /\ [Next]_vars => NotifierInv'
<1> SUFFICES ASSUME TypeOK, NotifierInv, [Next]_vars PROVE NotifierInv'
  OBVIOUS
<1> USE DEF NotifierInv, waitVars
<1>0. /\ ReadTask \in Notifiers /\ NoOne \notin Notifiers /\ NoOne \notin Entities
      /\ \A t \in Triggerers : t \in Notifiers /\ t # ReadTask
      /\ \A n \in Notifiers : n = ReadTask \/ n \in Triggerers
      /\ \A n \in Notifiers : notifier[n].pc = "signal" => notifier[n].entity \in Entities
  BY DEF Notifiers, Entities
<1>1. ASSUME NEW w \in Waiters, AttachReadyGuard(w) PROVE NotifierInv'
  BY <1>0, <1>1 DEF AttachReadyGuard, TypeOK, GoTo, Entities
<1>2. ASSUME NEW w \in Waiters, Attach(w) PROVE NotifierInv'
  BY <1>0, <1>2 DEF Attach, TypeOK
<1>3. ASSUME NEW w \in Waiters, DetachGuard(w) PROVE NotifierInv'
  BY <1>0, <1>3 DEF DetachGuard, TypeOK, Entities
<1>4. ASSUME NEW w \in Waiters, DetachQueue(w) PROVE NotifierInv'
  BY <1>0, <1>4 DEF DetachQueue, TypeOK, Entities
<1>5. ASSUME NEW w \in Waiters,
             \/ RmwWait(w) \/ AttachReadyQueue(w) \/ AttachDone(w) \/ Resume(w) \/ Sleep(w)
             \/ Expire(w) \/ SpuriousWake(w) \/ CheckEmpty(w) \/ Return(w)
      PROVE  NotifierInv'
  BY <1>5 DEF RmwWait, AttachReadyQueue, AttachDone, Resume, Sleep, Expire, SpuriousWake,
              CheckEmpty, Return, GoTo
<1>6. ASSUME NEW q \in Queues, Arrive(q) PROVE NotifierInv'
  <2>1. /\ notifier'[ReadTask].pc \in {"push", "replace"} /\ notifier'[ReadTask].entity = q
        /\ \A t \in Triggerers : notifier'[t] = notifier[t]
        /\ size'[q] < Depth
    BY <1>0, <1>6 DEF Arrive, TypeOK
  <2> QED BY <1>0, <1>6, <2>1 DEF Arrive
<1>7. ASSUME NEW q \in Queues, Push(q) \/ PushFails(q) PROVE NotifierInv'
  <2>1. /\ notifier'[ReadTask].pc \in {"idle", "notify"}
        /\ notifier'[ReadTask].pc # "idle" => notifier'[ReadTask].entity = q
        /\ \A t \in Triggerers : notifier'[t] = notifier[t]
    BY <1>0, <1>7 DEF Push, PushFails, Pushing, Idle, TypeOK, NotifierStates
  <2> QED BY <1>0, <1>7, <2>1 DEF Push, PushFails
<1>8. ASSUME NEW q \in Queues, Notify(q) PROVE NotifierInv'
  <2>1. \A t \in Triggerers : notifier'[t] = notifier[t]
    BY <1>0, <1>8 DEF Notify, TypeOK
  <2>2. CASE wait_set[q] = NoOne
    <3>1. notifier' = [notifier EXCEPT ![ReadTask] = Idle] /\ mutex' = mutex
      BY <1>8, <2>2 DEF Notify
    <3>2. notifier'[ReadTask].pc = "idle"
      BY <1>0, <3>1 DEF Idle, TypeOK
    <3> QED BY <1>0, <1>8, <2>1, <3>1, <3>2 DEF Notify
  <2>3. CASE wait_set[q] # NoOne
    <3>1. /\ notifier'[ReadTask].pc = "signal" /\ notifier'[ReadTask].entity = q
          /\ mutex'[q] = ReadTask
          /\ \A e \in Entities : e # q => mutex'[e] = mutex[e]
          /\ wait_set'[q] \in Waiters
      BY <1>0, <1>8, <2>3 DEF Notify, TypeOK, NotifierStates, Entities
    <3>2. \A t \in Triggerers : notifier[t].pc = "signal" => notifier[t].entity # q
      BY <1>0, <1>8 DEF Notify
    <3> QED BY <1>0, <1>8, <2>1, <3>1, <3>2 DEF Notify
  <2> QED BY <2>2, <2>3
<1>9. ASSUME NEW q \in Queues, Signal(q) PROVE NotifierInv'
  <2>1. \A t \in Triggerers : notifier'[t] = notifier[t]
    BY <1>0, <1>9 DEF Signal, TypeOK
  <2>2. notifier'[ReadTask].pc = "idle"
    BY <1>0, <1>9 DEF Signal, Idle, TypeOK
  <2>3. mutex[q] = ReadTask
    BY <1>0, <1>9 DEF Signal
  <2>4. \A e \in Entities : e # q => mutex'[e] = mutex[e]
    BY <1>9 DEF Signal, TypeOK
  <2>5. \A t \in Triggerers : notifier[t].pc = "signal" => notifier[t].entity # q
    BY <1>0, <2>3
  <2> QED BY <1>0, <1>9, <2>1, <2>2, <2>4, <2>5 DEF Signal
<1>10. ASSUME NEW t \in Triggerers, NEW g \in GuardConditions, Trigger(t, g) PROVE NotifierInv'
  <2>1. CASE wait_set[g] = NoOne
    BY <1>0, <1>10, <2>1 DEF Trigger
  <2>2. CASE wait_set[g] # NoOne
    <3>1. /\ notifier'[t].pc = "signal" /\ notifier'[t].entity = g
          /\ \A n \in Notifiers : n # t => notifier'[n] = notifier[n]
          /\ mutex'[g] = t
          /\ \A e \in Entities : e # g => mutex'[e] = mutex[e]
          /\ wait_set' = wait_set /\ wait_set[g] \in Waiters
      BY <1>0, <1>10, <2>2 DEF Trigger, TypeOK, NotifierStates, Entities
    <3>2. \A n \in Notifiers : notifier[n].pc = "signal" => notifier[n].entity # g
      BY <1>0, <1>10 DEF Trigger
    <3>3. /\ \A n \in Notifiers : notifier'[n].pc = "signal" =>
               /\ mutex'[notifier'[n].entity] = n
               /\ wait_set'[notifier'[n].entity] \in Waiters
      BY <1>0, <3>1, <3>2
    <3>4. notifier'[ReadTask] = notifier[ReadTask] /\ size' = size
      BY <1>0, <1>10, <3>1 DEF Trigger
    <3> QED BY <1>0, <3>1, <3>3, <3>4
  <2> QED BY <2>1, <2>2
<1>11. ASSUME NEW t \in Triggerers, NEW g \in GuardConditions, SetTriggered(t, g)
       PROVE  NotifierInv'
  <2>1. /\ notifier'[t].pc = "idle"
        /\ \A n \in Notifiers : n # t => notifier'[n] = notifier[n]
        /\ mutex[g] = t
        /\ \A e \in Entities : e # g => mutex'[e] = mutex[e]
    BY <1>0, <1>11 DEF SetTriggered, Idle, TypeOK
  <2>2. \A n \in Notifiers : n # t /\ notifier[n].pc = "signal" => notifier[n].entity # g
    BY <1>0, <2>1
  <2> QED BY <1>0, <1>11, <2>1, <2>2 DEF SetTriggered
<1>12. ASSUME NEW q \in Queues, Take(q) PROVE NotifierInv'
  <2>1. /\ notifier' = notifier /\ mutex' = mutex /\ wait_set' = wait_set
        /\ \A p \in Queues : size'[p] <= size[p] /\ size[p] \in 0 .. Depth /\ size'[p] \in Int
    BY <1>12 DEF Take, TypeOK
  <2> QED BY <1>0, <2>1
<1>13. CASE UNCHANGED vars
  BY <1>13 DEF vars
<1> QED
  BY <1>1, <1>2, <1>3, <1>4, <1>5, <1>6, <1>7, <1>8, <1>9, <1>10, <1>11, <1>12, <1>13
     DEF Next, WaiterStep, ReadTaskStep, TriggererStep

\* Each pass of the two loops over the entities keeps the record of what is
\* attached: attaching adds the entity just passed, detaching takes it away.
LEMMA NextAttachInv == TypeOK /\ NotifierInv /\ AttachInv /\ [Next]_vars => AttachInv'
<1> SUFFICES ASSUME TypeOK, NotifierInv, AttachInv, [Next]_vars PROVE AttachInv'
  OBVIOUS
<1> USE DEF AttachInv
<1>0. \A w \in Waiters : Len(WaitsOn[w]) \in Nat /\ next[w] \in Nat \ {0}
  BY DEF TypeOK
<1>a. ASSUME NEW w \in Waiters, wait_set' = wait_set,
             \A x \in Waiters \ {w} : pc'[x] = pc[x] /\ next'[x] = next[x],
             \A e \in Entities : StillAttached(w, e) /\ wait_set[e] = w => StillAttached(w, e)'
      PROVE  AttachInv'
  <2> SUFFICES ASSUME NEW d \in Entities, NEW x \in Waiters, wait_set'[d] = x
               PROVE  StillAttached(x, d)'
    OBVIOUS
  <2>1. wait_set[d] = x /\ StillAttached(x, d)
    BY <1>a
  <2>2. CASE x = w
    BY <1>a, <2>1, <2>2
  <2>3. CASE x # w
    BY <1>a, <2>1, <2>3 DEF StillAttached
  <2> QED BY <2>2, <2>3
<1>1. ASSUME NEW w \in Waiters, RmwWait(w) PROVE AttachInv'
  BY <1>a, <1>1 DEF RmwWait, StillAttached, TypeOK
<1>2. ASSUME NEW w \in Waiters, AttachReadyGuard(w) \/ AttachReadyQueue(w) PROVE AttachInv'
  <2>1. /\ wait_set' = wait_set
        /\ pc' = [pc EXCEPT ![w] = "detach"] /\ next' = [next EXCEPT ![w] = 1]
    BY <1>2 DEF AttachReadyGuard, AttachReadyQueue, GoTo
  <2>2. /\ pc'[w] = "detach" /\ next'[w] = 1
        /\ \A x \in Waiters \ {w} : pc'[x] = pc[x] /\ next'[x] = next[x]
    BY <2>1 DEF TypeOK
  <2>3. \A e \in Entities : StillAttached(w, e) => StillAttached(w, e)'
    BY <1>0, <2>2 DEF StillAttached
  <2> QED BY <1>a, <2>1, <2>2, <2>3
<1>3. ASSUME NEW w \in Waiters, Attach(w) PROVE AttachInv'
  <2>1. PICK e \in Entities : /\ At(w, "attach", e)
                              /\ wait_set' = [wait_set EXCEPT ![e] = w]
                              /\ next' = [next EXCEPT ![w] = next[w] + 1]
                              /\ pc' = pc
    BY <1>3 DEF Attach
  <2> SUFFICES ASSUME NEW d \in Entities, NEW x \in Waiters, wait_set'[d] = x
               PROVE  StillAttached(x, d)'
    OBVIOUS
  <2>2. CASE d = e
    <3>1. x = w
      BY <2>1, <2>2 DEF TypeOK
    <3>2. /\ next[w] <= Len(WaitsOn[w]) /\ WaitsOn[w][next[w]] = e /\ pc'[w] = "attach"
          /\ next'[w] = next[w] + 1
      BY <2>1 DEF At, TypeOK
    <3>3. next[w] \in 1 .. Len(WaitsOn[w])
      BY <1>0, <3>2
    <3> QED
      BY <1>0, <2>2, <3>1, <3>2, <3>3 DEF StillAttached
  <2>3. CASE d # e
    <3>1. StillAttached(x, d)
      BY <2>1, <2>3 DEF TypeOK
    <3>2. next'[x] >= next[x] /\ (pc[x] # "attach" => next'[x] = next[x])
      BY <1>0, <2>1 DEF At, TypeOK
    <3> QED BY <1>0, <2>1, <3>1, <3>2 DEF StillAttached
  <2> QED BY <2>2, <2>3
<1>4. ASSUME NEW w \in Waiters, AttachDone(w) PROVE AttachInv'
  <2>1. /\ wait_set' = wait_set /\ pc[w] = "attach" /\ pc'[w] = "block"
        /\ \A x \in Waiters \ {w} : pc'[x] = pc[x] /\ next'[x] = next[x]
    BY <1>4 DEF AttachDone, Passed, TypeOK
  <2> QED BY <1>a, <2>1 DEF StillAttached
<1>5. ASSUME NEW w \in Waiters, Resume(w) PROVE AttachInv'
  <2>1. /\ wait_set' = wait_set
        /\ pc' = [pc EXCEPT ![w] = "detach"] /\ next' = [next EXCEPT ![w] = 1]
    BY <1>5 DEF Resume, GoTo
  <2>2. /\ pc'[w] = "detach" /\ next'[w] = 1
        /\ \A x \in Waiters \ {w} : pc'[x] = pc[x] /\ next'[x] = next[x]
    BY <2>1 DEF TypeOK
  <2>3. \A e \in Entities : StillAttached(w, e) => StillAttached(w, e)'
    BY <1>0, <2>2 DEF StillAttached
  <2> QED BY <1>a, <2>1, <2>2, <2>3
<1>6. ASSUME NEW w \in Waiters, Sleep(w) \/ Expire(w) \/ SpuriousWake(w) PROVE AttachInv'
  <2>1. /\ wait_set' = wait_set /\ next' = next
        /\ pc[w] \in {"block", "asleep"} /\ pc'[w] \in {"block", "asleep"}
        /\ \A x \in Waiters \ {w} : pc'[x] = pc[x]
    BY <1>6 DEF Sleep, Expire, SpuriousWake, TypeOK
  <2> QED BY <1>a, <2>1 DEF StillAttached
<1>7. ASSUME NEW w \in Waiters, NEW e \in Entities, At(w, "detach", e),
             wait_set' = [wait_set EXCEPT ![e] = NoOne],
             \A x \in Waiters \ {w} : pc'[x] = pc[x] /\ next'[x] = next[x],
             \/ pc'[w] = "detach" /\ next'[w] = next[w] + 1
             \/ pc'[w] = "check_empty" /\ next'[w] = next[w]
      PROVE  AttachInv'
  <2> SUFFICES ASSUME NEW d \in Entities, NEW x \in Waiters, wait_set'[d] = x
               PROVE  StillAttached(x, d)'
    OBVIOUS
  <2>1. d # e /\ wait_set[d] = x /\ StillAttached(x, d)
    BY <1>7 DEF TypeOK
  <2>2. CASE x = w
    BY <1>0, <1>7, <2>1, <2>2 DEF StillAttached, At
  <2>3. CASE x # w
    BY <1>7, <2>1, <2>3 DEF StillAttached
  <2> QED BY <2>2, <2>3
<1>8. ASSUME NEW w \in Waiters, DetachGuard(w) PROVE AttachInv'
  <2>1. PICK g \in GuardConditions :
          /\ At(w, "detach", g)
          /\ wait_set' = [wait_set EXCEPT ![g] = NoOne]
          /\ next' = [next EXCEPT ![w] = next[w] + 1]
          /\ pc' = pc
    BY <1>8 DEF DetachGuard
  <2>2. g \in Entities /\ pc'[w] = "detach" /\ next'[w] = next[w] + 1
    BY <2>1 DEF Entities, At, TypeOK
  <2>3. \A x \in Waiters \ {w} : pc'[x] = pc[x] /\ next'[x] = next[x]
    BY <2>1 DEF TypeOK
  <2> QED BY <1>7, <2>1, <2>2, <2>3
<1>9. ASSUME NEW w \in Waiters, DetachQueue(w) PROVE AttachInv'
  <2>1. PICK q \in Queues :
          /\ At(w, "detach", q)
          /\ wait_set' = [wait_set EXCEPT ![q] = NoOne]
          /\ pc' = [pc EXCEPT ![w] = "check_empty"]
          /\ next' = next
    BY <1>9 DEF DetachQueue
  <2>2. q \in Entities /\ pc'[w] = "check_empty" /\ next'[w] = next[w]
    BY <2>1 DEF Entities, TypeOK
  <2>3. \A x \in Waiters \ {w} : pc'[x] = pc[x] /\ next'[x] = next[x]
    BY <2>1 DEF TypeOK
  <2> QED BY <1>7, <2>1, <2>2, <2>3
<1>10. ASSUME NEW w \in Waiters, CheckEmpty(w) PROVE AttachInv'
  <2>1. /\ wait_set' = wait_set /\ pc[w] = "check_empty" /\ pc'[w] = "detach"
        /\ next'[w] = next[w] + 1
        /\ \A x \in Waiters \ {w} : pc'[x] = pc[x] /\ next'[x] = next[x]
    BY <1>10 DEF CheckEmpty, At, TypeOK
  <2> QED BY <1>0, <1>a, <2>1 DEF StillAttached
<1>11. ASSUME NEW w \in Waiters, Return(w) PROVE AttachInv'
  <2>1. /\ wait_set' = wait_set /\ pc[w] = "detach" /\ next[w] > Len(WaitsOn[w])
        /\ \A x \in Waiters \ {w} : pc'[x] = pc[x] /\ next'[x] = next[x]
    BY <1>11 DEF Return, Passed, TypeOK
  <2>2. \A e \in Entities : ~ StillAttached(w, e)
    BY <1>0, <2>1 DEF StillAttached
  <2> QED BY <1>a, <2>1, <2>2
<1>12. ASSUME NEW q \in Queues, Signal(q) PROVE AttachInv'
  <2>1. /\ wait_set' = wait_set /\ next' = next
        /\ \A x \in Waiters : \/ pc'[x] = pc[x]
                              \/ pc[x] = "asleep" /\ pc'[x] = "block"
    BY <1>12 DEF Signal, TypeOK
  <2> QED BY <2>1 DEF StillAttached
<1>s. ASSUME UNCHANGED <<pc, next, wait_set>> PROVE AttachInv'
  BY <1>s DEF StillAttached
<1>13. ASSUME NEW q \in Queues, Arrive(q) \/ Push(q) \/ PushFails(q) \/ Notify(q) \/ Take(q)
       PROVE  AttachInv'
  <2>1. UNCHANGED <<pc, next, wait_set>>
    BY <1>13 DEF Arrive, Push, PushFails, Notify, Take, waitVars
  <2> QED BY <2>1, <1>s
<1>14. ASSUME NEW t \in Triggerers, NEW g \in GuardConditions,
              Trigger(t, g) \/ SetTriggered(t, g)
       PROVE  AttachInv'
  <2>1. UNCHANGED <<pc, next, wait_set>>
    BY <1>14 DEF Trigger, SetTriggered, waitVars
  <2> QED BY <2>1, <1>s
<1>15. CASE UNCHANGED vars
  <2>1. UNCHANGED <<pc, next, wait_set>>
    BY <1>15 DEF vars, waitVars
  <2> QED BY <2>1, <1>s
<1> QED
  BY <1>1, <1>2, <1>3, <1>4, <1>5, <1>6, <1>8, <1>9, <1>10, <1>11, <1>12, <1>13, <1>14, <1>15
     DEF Next, WaiterStep, ReadTaskStep, TriggererStep

\* The invariant holds throughout.
THEOREM Invariance == Spec => []IInv
<1>1. IInv /\ [Next]_vars => IInv'
  BY NextTypeOK, NextNotifierInv, NextAttachInv DEF IInv
<1> QED BY InitIInv, <1>1, PTL DEF Spec

\* The types hold, and no queue outgrows its depth, for any waiters on any entities.
THEOREM TypeCorrect == Spec => []TypeOK
<1>1. IInv => TypeOK
  BY DEF IInv
<1> QED BY <1>1, Invariance, PTL

\* For any waiters, on any entities, shared or not: a call of rmw_wait leaves no
\* pointer to its wait set behind in an entity.
THEOREM NoStalePointer == Spec => []NoDanglingAttachment
<1>1. IInv => NoDanglingAttachment
  BY DEF IInv, AttachInv, StillAttached, NoDanglingAttachment
<1> QED BY <1>1, Invariance, PTL

\* Nor with a notifier about to signal.
THEOREM NoStaleWaitSet == Spec => []SignalsLiveWaitSet
<1>1. IInv => SignalsLiveWaitSet
  <2> SUFFICES ASSUME IInv, NEW n \in Notifiers, notifier[n].pc = "signal"
               PROVE  LET w == wait_set[notifier[n].entity] IN w \in Waiters /\ pc[w] # "idle"
    BY DEF SignalsLiveWaitSet
  <2> DEFINE e == notifier[n].entity
             w == wait_set[e]
  <2>1. w \in Waiters
    BY DEF IInv, NotifierInv
  <2>2. e \in Entities
    BY DEF IInv, NotifierInv, Notifiers, Entities
  <2>3. StillAttached(w, e)
    BY <2>1, <2>2 DEF IInv, AttachInv
  <2> QED BY <2>1, <2>3 DEF StillAttached
<1> QED BY <1>1, Invariance, PTL

\* A trigger is cleared by a call that reports it, for any waiters and triggerers.
THEOREM TriggersAreReported == Spec => TriggerIsReported
<1> DEFINE Reported == \A g \in GuardConditions : has_triggered[g] /\ ~ has_triggered'[g] =>
                         \E w \in Waiters : g \in ready'[w] /\ pc[w] = "detach"
<1>1. IInv /\ [Next]_vars => [Reported]_vars
  <2> SUFFICES ASSUME IInv, Next, NEW g \in GuardConditions,
                      has_triggered[g], ~ has_triggered'[g]
               PROVE  \E w \in Waiters : g \in ready'[w] /\ pc[w] = "detach"
    OBVIOUS
  <2>0. has_triggered \in [GuardConditions -> BOOLEAN] /\ ready \in [Waiters -> SUBSET Entities]
    BY DEF IInv, TypeOK
  <2>c. has_triggered' # has_triggered
    OBVIOUS
  <2>1. ASSUME NEW w \in Waiters, DetachGuard(w) PROVE g \in ready'[w] /\ pc[w] = "detach"
    <3>1. PICK h \in GuardConditions :
            /\ At(w, "detach", h)
            /\ has_triggered' = [has_triggered EXCEPT ![h] = FALSE]
            /\ ready' = [ready EXCEPT ![w] = ready[w] \cup {x \in {h} : has_triggered[x]}]
      BY <2>1 DEF DetachGuard
    <3>2. h = g
      BY <2>0, <3>1
    <3> QED BY <2>0, <3>1, <3>2 DEF At
  <2>2. ASSUME NEW w \in Waiters,
               \/ RmwWait(w) \/ AttachReadyGuard(w) \/ AttachReadyQueue(w) \/ Attach(w)
               \/ AttachDone(w) \/ Resume(w) \/ Sleep(w) \/ Expire(w) \/ SpuriousWake(w)
               \/ DetachQueue(w) \/ CheckEmpty(w) \/ Return(w)
        PROVE  FALSE
    BY <2>2, <2>c DEF RmwWait, AttachReadyGuard, AttachReadyQueue, Attach, AttachDone, Resume,
                      Sleep, Expire, SpuriousWake, DetachQueue, CheckEmpty, Return
  <2>3. ASSUME NEW q \in Queues,
               \/ Arrive(q) \/ Take(q) \/ Push(q) \/ PushFails(q) \/ Notify(q) \/ Signal(q)
        PROVE  FALSE
    BY <2>3, <2>c DEF Arrive, Take, Push, PushFails, Notify, Signal
  <2>4. ASSUME NEW t \in Triggerers, NEW h \in GuardConditions,
               Trigger(t, h) \/ SetTriggered(t, h)
        PROVE  FALSE
    BY <2>0, <2>4, <2>c DEF Trigger, SetTriggered
  <2> QED BY <2>1, <2>2, <2>3, <2>4 DEF Next, WaiterStep, ReadTaskStep, TriggererStep
<1> QED BY <1>1, Invariance, PTL DEF Spec, TriggerIsReported

-----------------------------------------------------------------------------
(* No wakeup is lost.  This needs each queue to be waited on by one waiter  *)
(* only: it can point to only one wait set.                                 *)

WaitsFor(w, q) == \E i \in 1 .. Len(WaitsOn[w]) : WaitsOn[w][i] = q

Exclusive == \A w, x \in Waiters, q \in Queues : WaitsFor(w, q) /\ WaitsFor(x, q) => w = x

\* The read task has counted a message of q and not yet signalled it.
Pending(q) == notifier[ReadTask].entity = q /\ notifier[ReadTask].pc \in {"notify", "signal"}

\* The call of w has attached the i-th of its entities and not begun to detach.
Covered(w, i) == \/ pc[w] = "attach" /\ i < next[w]
                 \/ pc[w] \in {"block", "asleep"}

\* A queue that was passed as empty points to the wait set; if it holds a message
\* now, triggered has been set, or will be.  Asleep, only the latter.
Watched(w, q) == /\ wait_set[q] = w
                 /\ size[q] > 0 => Pending(q) \/ (triggered[w] /\ pc[w] # "asleep")

WakeInv ==
  \A w \in Waiters : \A i \in 1 .. Len(WaitsOn[w]) :
    Covered(w, i) /\ WaitsOn[w][i] \in Queues => Watched(w, WaitsOn[w][i])

LEMMA NextWakeInv ==
  ASSUME Exclusive
  PROVE  IInv /\ WakeInv /\ [Next]_vars => WakeInv'
<1> SUFFICES ASSUME IInv, WakeInv, [Next]_vars PROVE WakeInv'
  OBVIOUS
<1> USE DEF WakeInv
<1>0. /\ \A w \in Waiters : Len(WaitsOn[w]) \in Nat /\ next[w] \in Nat \ {0}
      /\ \A q \in Queues : size[q] \in 0 .. Depth
      /\ ReadTask \in Notifiers
      /\ TypeOK
  BY DEF IInv, TypeOK, Notifiers
<1>s. SUFFICES ASSUME NEW x \in Waiters, NEW j \in 1 .. Len(WaitsOn[x]),
                      WaitsOn[x][j] \in Queues, Covered(x, j)'
               PROVE  Watched(x, WaitsOn[x][j])'
  OBVIOUS
<1> DEFINE p == WaitsOn[x][j]
<1>p. WaitsFor(x, p)
  BY DEF WaitsFor
\* A step that leaves the queues and the notifiers alone, and does not touch x.
<1>a. ASSUME pc'[x] = pc[x], next'[x] = next[x], triggered'[x] = triggered[x],
             wait_set'[p] = wait_set[p], size'[p] = size[p], notifier' = notifier
      PROVE  Watched(x, p)'
  <2>1. Watched(x, p)
    BY <1>a, <1>s DEF Covered
  <2> QED BY <1>a, <2>1 DEF Watched, Pending
<1>1. ASSUME NEW w \in Waiters, RmwWait(w) PROVE Watched(x, p)'
  <2>1. CASE x = w
    BY <1>0, <1>1, <1>s, <2>1 DEF RmwWait, Covered, TypeOK
  <2>2. CASE x # w
    BY <1>0, <1>1, <1>a, <2>2 DEF RmwWait, TypeOK
  <2> QED BY <2>1, <2>2
<1>2. ASSUME NEW w \in Waiters, AttachReadyGuard(w) \/ AttachReadyQueue(w) \/ Resume(w)
      PROVE  Watched(x, p)'
  <2>1. /\ pc' = [pc EXCEPT ![w] = "detach"] /\ next' = [next EXCEPT ![w] = 1]
        /\ size' = size /\ wait_set' = wait_set /\ notifier' = notifier
        /\ x # w => triggered'[x] = triggered[x]
    BY <1>0, <1>2 DEF AttachReadyGuard, AttachReadyQueue, Resume, GoTo, TypeOK
  <2>2. x # w
    BY <1>0, <1>s, <2>1 DEF Covered, TypeOK
  <2> QED BY <1>0, <1>a, <2>1, <2>2 DEF TypeOK
<1>3. ASSUME NEW w \in Waiters, Attach(w) PROVE Watched(x, p)'
  <2>1. PICK e \in Entities :
          /\ At(w, "attach", e)
          /\ e \in Queues => size[e] = 0
          /\ wait_set' = [wait_set EXCEPT ![e] = w]
          /\ next' = [next EXCEPT ![w] = next[w] + 1]
          /\ pc' = pc /\ triggered' = triggered /\ size' = size /\ notifier' = notifier
    BY <1>3 DEF Attach
  <2>2. next[w] \in 1 .. Len(WaitsOn[w]) /\ WaitsFor(w, e)
    BY <1>0, <2>1 DEF At, WaitsFor
  <2>3. CASE p = e
    <3>1. x = w
      BY <1>p, <1>s, <2>2, <2>3 DEF Exclusive
    <3> QED BY <1>0, <1>s, <2>1, <2>3, <3>1 DEF Watched, TypeOK
  <2>4. CASE p # e
    <3>1. wait_set'[p] = wait_set[p]
      BY <1>0, <2>1, <2>4 DEF TypeOK
    <3>2. Covered(x, j)
      <4>1. CASE x = w
        BY <1>0, <1>s, <2>1, <2>2, <2>4, <4>1 DEF Covered, At, TypeOK
      <4>2. CASE x # w
        BY <1>0, <1>s, <2>1, <4>2 DEF Covered, TypeOK
      <4> QED BY <4>1, <4>2
    <3>3. Watched(x, p)
      BY <1>s, <3>2
    <3> QED BY <2>1, <3>1, <3>3 DEF Watched, Pending
  <2> QED BY <2>3, <2>4
<1>4. ASSUME NEW w \in Waiters, AttachDone(w) \/ Sleep(w) \/ Expire(w) \/ SpuriousWake(w)
      PROVE  Watched(x, p)'
  <2>1. /\ size' = size /\ wait_set' = wait_set /\ notifier' = notifier /\ next' = next
        /\ triggered' = triggered
        /\ x # w => pc'[x] = pc[x]
    BY <1>0, <1>4 DEF AttachDone, Sleep, Expire, SpuriousWake, TypeOK
  <2>2. CASE x # w
    BY <1>a, <2>1, <2>2
  <2>3. CASE x = w
    <3>1. Covered(x, j)
      BY <1>0, <1>4, <2>3 DEF AttachDone, Sleep, Expire, SpuriousWake, Passed, Covered
    <3>2. pc'[x] = "asleep" => ~ triggered[x]
      BY <1>0, <1>4, <2>3 DEF AttachDone, Sleep, Expire, SpuriousWake, TypeOK
    <3>3. Watched(x, p)
      BY <1>s, <3>1
    <3>4. triggered[x] => pc'[x] # "asleep"
      BY <3>2
    <3>5. Pending(p) => Pending(p)'
      BY <2>1 DEF Pending
    <3> QED BY ONLY <2>1, <3>3, <3>4, <3>5 DEF Watched
  <2> QED BY <2>2, <2>3
<1>5. ASSUME NEW w \in Waiters, DetachGuard(w) \/ DetachQueue(w) PROVE Watched(x, p)'
  <2>1. PICK e \in Entities : At(w, "detach", e) /\ wait_set' = [wait_set EXCEPT ![e] = NoOne]
    BY <1>5 DEF DetachGuard, DetachQueue, Entities
  <2>2. /\ size' = size /\ notifier' = notifier /\ triggered' = triggered
        /\ x # w => pc'[x] = pc[x] /\ next'[x] = next[x]
        /\ pc'[w] \in {"detach", "check_empty"}
    BY <1>0, <1>5, <2>1 DEF DetachGuard, DetachQueue, At, TypeOK
  <2>3. x # w
    BY <1>s, <2>2 DEF Covered
  <2>4. p # e
    BY <1>0, <1>p, <1>s, <2>1, <2>3 DEF Exclusive, At, WaitsFor
  <2>5. wait_set'[p] = wait_set[p]
    BY <1>0, <2>1, <2>4 DEF TypeOK
  <2> QED BY <1>a, <2>2, <2>3, <2>5
<1>6. ASSUME NEW w \in Waiters, CheckEmpty(w) \/ Return(w) PROVE Watched(x, p)'
  <2>1. /\ size' = size /\ wait_set' = wait_set /\ notifier' = notifier
        /\ triggered' = triggered
        /\ x # w => pc'[x] = pc[x] /\ next'[x] = next[x]
        /\ pc'[w] \in {"detach", "idle"}
    BY <1>0, <1>6 DEF CheckEmpty, Return, TypeOK
  <2> QED BY <1>a, <1>s, <2>1 DEF Covered
\* The notifiers' steps: x stays where it is, unless it is woken.
<1>b. ASSUME pc' = pc, next' = next PROVE Watched(x, p)
  BY <1>b, <1>s DEF Covered
<1>7. ASSUME NEW q \in Queues, Arrive(q) \/ Take(q) PROVE Watched(x, p)'
  <2>1. Watched(x, p)
    BY <1>7, <1>b DEF Arrive, Take, waitVars
  <2>2. wait_set' = wait_set /\ triggered' = triggered /\ pc' = pc
    BY <1>7 DEF Arrive, Take, waitVars
  <2>4. size'[p] > 0 => size[p] > 0
    <3>1. \/ size' = [size EXCEPT ![q] = IF size[q] >= Depth THEN size[q] - 1 ELSE size[q]]
          \/ size' = [size EXCEPT ![q] = size[q] - 1]
      BY <1>7 DEF Arrive, Take
    <3>2. size \in [Queues -> 0 .. Depth] /\ p \in Queues
      BY <1>0, <1>s DEF TypeOK
    <3>3. size'[p] \in {size[p], size[p] - 1} /\ size[p] \in Nat
      BY ONLY <3>1, <3>2, BoundsAssumption
    <3> QED BY ONLY <3>3
  <2>3. Pending(p) => Pending(p)'
    BY <1>7 DEF Arrive, Take, Pending, Idle
  <2> QED BY <2>1, <2>2, <2>3, <2>4 DEF Watched
<1>8. ASSUME NEW q \in Queues, Push(q) \/ PushFails(q) PROVE Watched(x, p)'
  <2>1. Watched(x, p)
    BY <1>8, <1>b DEF Push, PushFails, waitVars
  <2>2. wait_set' = wait_set /\ triggered' = triggered /\ pc' = pc
    BY <1>8 DEF Push, PushFails, waitVars
  <2>3. ~ Pending(p)
    BY <1>8 DEF Push, PushFails, Pushing, Pending
  <2>4. size'[p] > 0 => size[p] > 0 \/ Pending(p)'
    <3>1. CASE Push(q) /\ p = q
      BY <1>0, <3>1 DEF Push, Pending, TypeOK
    <3>2. CASE (Push(q) /\ p # q) \/ PushFails(q)
      BY <1>0, <1>s, <3>2 DEF Push, PushFails, TypeOK
    <3> QED BY <1>8, <3>1, <3>2
  <2>5. size'[p] > 0 => Pending(p)' \/ (triggered[x] /\ pc[x] # "asleep")
    BY ONLY <2>1, <2>3, <2>4 DEF Watched
  <2> QED BY ONLY <2>1, <2>2, <2>5 DEF Watched
<1>9. ASSUME NEW q \in Queues, Notify(q) PROVE Watched(x, p)'
  <2>1. Watched(x, p)
    BY <1>9, <1>b DEF Notify, waitVars
  <2>2. wait_set' = wait_set /\ triggered' = triggered /\ pc' = pc /\ size' = size
    BY <1>9 DEF Notify, waitVars
  <2>3. Pending(p) => Pending(p)'
    <3>1. Pending(p) => p = q
      BY <1>9 DEF Notify, Pending
    <3>2. p = q => wait_set[q] # NoOne
      BY <2>1 DEF Watched
    <3> QED BY <1>0, <1>9, <3>1, <3>2 DEF Notify, Pending, TypeOK
  <2> QED BY <2>1, <2>2, <2>3 DEF Watched
<1>10. ASSUME NEW q \in Queues, Signal(q) PROVE Watched(x, p)'
  <2>1. /\ wait_set' = wait_set /\ size' = size /\ next' = next
        /\ triggered' = [triggered EXCEPT ![wait_set[q]] = TRUE]
        /\ \A w \in Waiters : pc'[w] = IF w = wait_set[q] /\ pc[w] = "asleep" THEN "block"
                                                                           ELSE pc[w]
    BY <1>10 DEF Signal
  <2>2. Watched(x, p)
    BY <1>s, <2>1 DEF Covered
  <2>3. CASE p = q
    <3>1. x = wait_set[q]
      BY <2>2, <2>3 DEF Watched
    <3>2. triggered'[x] = TRUE /\ pc'[x] # "asleep"
      BY <1>0, <2>1, <3>1 DEF TypeOK
    <3> QED BY <2>1, <2>2, <3>2 DEF Watched
  <2>4. CASE p # q
    <3>1. ~ Pending(p)
      BY <1>10, <2>4 DEF Signal, Pending
    <3>2. triggered[x] => triggered'[x]
      BY <1>0, <2>1 DEF TypeOK
    <3>3. pc[x] # "asleep" => pc'[x] # "asleep"
      BY <2>1
    <3> QED BY <2>1, <2>2, <3>1, <3>2, <3>3 DEF Watched
  <2> QED BY <2>3, <2>4
<1>11. ASSUME NEW t \in Triggerers, NEW g \in GuardConditions,
              Trigger(t, g) \/ SetTriggered(t, g)
       PROVE  Watched(x, p)'
  <2>1. Watched(x, p)
    BY <1>11, <1>b DEF Trigger, SetTriggered, waitVars
  <2>2. wait_set' = wait_set /\ size' = size /\ pc' = pc
    BY <1>11 DEF Trigger, SetTriggered, waitVars
  <2>3. triggered[x] => triggered'[x]
    BY <1>0, <1>11 DEF Trigger, SetTriggered, TypeOK
  <2>4. notifier'[ReadTask] = notifier[ReadTask]
    BY <1>0, <1>11 DEF Trigger, SetTriggered, TypeOK
  <2> QED BY <2>1, <2>2, <2>3, <2>4 DEF Watched, Pending
<1>12. CASE UNCHANGED vars
  BY <1>12, <1>a DEF vars, waitVars
<1> QED
  BY <1>1, <1>2, <1>3, <1>4, <1>5, <1>6, <1>7, <1>8, <1>9, <1>10, <1>11, <1>12
     DEF Next, WaiterStep, ReadTaskStep, TriggererStep

\* When no two waiters wait on the same queue, none of them ever sleeps on a
\* message: the scheme of detail/wait_set.h closes the race it describes, for any
\* number of queues and of guard conditions triggered in between.
THEOREM WakeupsAreNotLost ==
  ASSUME Exclusive
  PROVE  Spec => []NoLostWakeup
<1>1. Init => WakeInv
  BY DEF Init, WakeInv, Covered
<1>2. WakeInv => NoLostWakeup
  <2> SUFFICES ASSUME WakeInv, NEW w \in Waiters, pc[w] = "asleep", NEW i \in DOMAIN WaitsOn[w],
                      WaitsOn[w][i] \in Queues, size[WaitsOn[w][i]] > 0
               PROVE  Pending(WaitsOn[w][i])
    BY DEF NoLostWakeup, Pending
  <2>1. i \in 1 .. Len(WaitsOn[w])
    OBVIOUS
  <2> QED BY <2>1 DEF WakeInv, Covered, Watched
<1>3. IInv /\ WakeInv /\ [Next]_vars => WakeInv'
  BY NextWakeInv
<1> QED BY <1>1, <1>2, <1>3, Invariance, PTL DEF Spec
=============================================================================
