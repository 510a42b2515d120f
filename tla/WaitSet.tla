------------------------------- MODULE WaitSet -------------------------------
(***************************************************************************)
(* rmw_wait (rmw_wait_set.c) against everything that can end it: the       *)
(* messages zenoh's read task adds to the queues of subscriptions,         *)
(* services and clients, and the guard conditions other threads trigger    *)
(* (detail/guard_condition.c).  A waiter is a thread with a wait set of    *)
(* its own.  The condition_mutex of a wait set is never held from one step *)
(* to the next, so what happens under it is one step; the mutex of an      *)
(* entity is held across steps by a notifier that has found a wait set to  *)
(* notify.  Of a queue only its size matters here (see Subscription).      *)
(***************************************************************************)
EXTENDS Integers, Sequences, FiniteSets

CONSTANTS
  Waiters,           \* threads in rmw_wait
  GuardConditions,   \* rmw_zp_guard_condition_t
  Queues,            \* subscriptions, services and clients
  WaitsOn,           \* the entities each waiter passes, in the order checked
  Triggerers,        \* threads in rmw_trigger_guard_condition
  ReadTask,          \* zenoh's read task, where every handler runs
  NoOne,             \* a null wait_set pointer, a free mutex
  Depth,             \* depth of the adapted QoS profiles
  MaxArrivals,       \* bound on the samples that arrive
  MaxTriggers,       \* bound on the triggers of guard conditions
  ConcurrentTake     \* whether messages are taken while a waiter is in rmw_wait

Entities == GuardConditions \cup Queues
Notifiers == Triggerers \cup {ReadTask}

ASSUME SetsAssumption ==
  /\ GuardConditions \cap Queues = {}
  /\ Waiters \cap Notifiers = {} /\ ReadTask \notin Triggerers
  /\ NoOne \notin Waiters \cup Notifiers \cup Entities
ASSUME WaitsOnAssumption == WaitsOn \in [Waiters -> Seq(Entities)]
ASSUME BoundsAssumption ==
  Depth \in Nat \ {0} /\ MaxArrivals \in Nat /\ MaxTriggers \in Nat /\ ConcurrentTake \in BOOLEAN

VARIABLES
  pc,              \* where each waiter is in rmw_wait
  next,            \* index of the entity its loop is at
  timeout,         \* wait_timeout: NULL, zero or some time
  expired,         \* whether that time has passed
  ready,           \* the entities not set to NULL so far
  triggered,       \* of the wait set of each waiter
  wait_set,        \* the waiter whose wait set is attached to each entity
  mutex,           \* who holds condition_mutex, or internal_mutex, of each entity
  size,            \* of each queue
  has_triggered,   \* of each guard condition
  notifier,        \* what each notifier is doing, and to which entity
  arrivals,
  triggers

waitVars == <<pc, next, timeout, expired, ready>>
vars == <<waitVars, triggered, wait_set, mutex, size, has_triggered, notifier, arrivals, triggers>>

Idle == [pc |-> "idle", entity |-> NoOne]

Init == /\ pc = [w \in Waiters |-> "idle"]
        /\ next = [w \in Waiters |-> 1]
        /\ timeout = [w \in Waiters |-> "zero"]
        /\ expired = [w \in Waiters |-> FALSE]
        /\ ready = [w \in Waiters |-> {}]
        /\ triggered = [w \in Waiters |-> FALSE]
        /\ wait_set = [e \in Entities |-> NoOne]
        /\ mutex = [e \in Entities |-> NoOne]
        /\ size = [q \in Queues |-> 0]
        /\ has_triggered = [g \in GuardConditions |-> FALSE]
        /\ notifier = [n \in Notifiers |-> Idle]
        /\ arrivals = 0
        /\ triggers = 0

-----------------------------------------------------------------------------
(* rmw_wait: check_and_attach_condition.                                   *)

RmwWait(w) ==
  /\ pc[w] = "idle"
  /\ pc' = [pc EXCEPT ![w] = "attach"]
  /\ next' = [next EXCEPT ![w] = 1]
  /\ \E t \in {"infinite", "finite", "zero"} : timeout' = [timeout EXCEPT ![w] = t]
  /\ expired' = [expired EXCEPT ![w] = FALSE]
  /\ ready' = [ready EXCEPT ![w] = {}]
  /\ UNCHANGED <<triggered, wait_set, mutex, size, has_triggered, notifier, arrivals, triggers>>

\* The loop of w, in the phase p, is at entity e.
At(w, p, e) ==
  pc[w] = p /\ next[w] <= Len(WaitsOn[w]) /\ e = WaitsOn[w][next[w]]

\* The loop of w has passed its last entity in phase p.
Passed(w, p) == pc[w] = p /\ next[w] > Len(WaitsOn[w])

\* w leaves a loop for the phase p.
GoTo(w, p) == /\ pc' = [pc EXCEPT ![w] = p]
              /\ next' = [next EXCEPT ![w] = 1]

\* check_and_attach_condition_if_not finds the guard condition triggered.  It
\* returns true, which skips the wait, with internal_mutex still locked.
AttachReadyGuard(w) ==
  \E g \in GuardConditions :
    /\ At(w, "attach", g)
    /\ mutex[g] = NoOne
    /\ has_triggered[g]
    /\ mutex' = [mutex EXCEPT ![g] = w]
    /\ GoTo(w, "detach")
    /\ UNCHANGED <<timeout, expired, ready, triggered, wait_set, size, has_triggered,
                   notifier, arrivals, triggers>>

AttachReadyQueueReturns(w) ==
  \E q \in Queues :
    /\ At(w, "attach", q)
    /\ mutex[q] = NoOne
    /\ size[q] > 0
    /\ ready' = [ready EXCEPT ![w] = {q}]
    /\ pc' = [pc EXCEPT ![w] = "idle"]
    /\ UNCHANGED <<next, timeout, expired, triggered, wait_set, mutex, size, has_triggered,
                   notifier, arrivals, triggers>>

AttachReadyQueueKeepsLock(w) ==
  \E q \in Queues :
    /\ At(w, "attach", q)
    /\ mutex[q] = NoOne
    /\ size[q] > 0
    /\ mutex' = [mutex EXCEPT ![q] = w]
    /\ GoTo(w, "detach")
    /\ UNCHANGED <<timeout, expired, ready, triggered, wait_set, size, has_triggered,
                   notifier, arrivals, triggers>>

\* queue_has_data_and_attach_condition_if_not finds a message, without the mutex
\* of the queue: the wait is skipped.
AttachReadyQueue(w) ==
  \E q \in Queues :
    /\ At(w, "attach", q)
    /\ mutex[q] = NoOne
    /\ size[q] > 0
    /\ GoTo(w, "detach")
    /\ UNCHANGED <<timeout, expired, ready, triggered, wait_set, mutex, size, has_triggered,
                   notifier, arrivals, triggers>>

\* Nothing is ready at this entity: the wait set is attached to it.
Attach(w) ==
  \E e \in Entities :
    /\ At(w, "attach", e)
    /\ mutex[e] = NoOne
    /\ IF e \in Queues THEN size[e] = 0 ELSE ~ has_triggered[e]
    /\ wait_set' = [wait_set EXCEPT ![e] = w]
    /\ next' = [next EXCEPT ![w] = @ + 1]
    /\ UNCHANGED <<pc, timeout, expired, ready, triggered, mutex, size, has_triggered,
                   notifier, arrivals, triggers>>

AttachDone(w) ==
  /\ Passed(w, "attach")
  /\ pc' = [pc EXCEPT ![w] = "block"]
  /\ UNCHANGED <<next, timeout, expired, ready, triggered, wait_set, mutex, size, has_triggered,
                 notifier, arrivals, triggers>>

-----------------------------------------------------------------------------
(* rmw_wait: the sleep, under the condition_mutex of the wait set.         *)

\* The loop on triggered ends: notified, out of time, or not asked to wait.
Resume(w) ==
  /\ pc[w] = "block"
  /\ triggered[w] \/ expired[w] \/ timeout[w] = "zero"
  /\ triggered' = [triggered EXCEPT ![w] = FALSE]
  /\ GoTo(w, "detach")
  /\ UNCHANGED <<timeout, expired, ready, wait_set, mutex, size, has_triggered,
                 notifier, arrivals, triggers>>

SleepUnchecked(w) ==
  /\ pc[w] = "block"
  /\ ~ expired[w] /\ timeout[w] # "zero"
  /\ pc' = [pc EXCEPT ![w] = "asleep"]
  /\ UNCHANGED <<next, timeout, expired, ready, triggered, wait_set, mutex, size, has_triggered,
                 notifier, arrivals, triggers>>

\* z_condvar_wait or z_condvar_wait_for_us.
Sleep(w) ==
  /\ pc[w] = "block"
  /\ ~ triggered[w] /\ ~ expired[w] /\ timeout[w] # "zero"
  /\ pc' = [pc EXCEPT ![w] = "asleep"]
  /\ UNCHANGED <<next, timeout, expired, ready, triggered, wait_set, mutex, size, has_triggered,
                 notifier, arrivals, triggers>>

ExpireRestartsClock(w) ==
  /\ timeout[w] = "finite" /\ ~ expired[w]
  /\ pc[w] \in {"block", "asleep"}
  /\ pc' = [pc EXCEPT ![w] = "block"]
  /\ UNCHANGED <<next, timeout, expired, ready, triggered, wait_set, mutex, size, has_triggered,
                 notifier, arrivals, triggers>>

\* The time is up: the next turn of the loop ends it.
Expire(w) ==
  /\ timeout[w] = "finite" /\ ~ expired[w]
  /\ pc[w] \in {"block", "asleep"}
  /\ expired' = [expired EXCEPT ![w] = TRUE]
  /\ pc' = [pc EXCEPT ![w] = "block"]
  /\ UNCHANGED <<next, timeout, ready, triggered, wait_set, mutex, size, has_triggered,
                 notifier, arrivals, triggers>>

\* A condition variable may wake its waiter for no reason.
SpuriousWake(w) ==
  /\ pc[w] = "asleep"
  /\ pc' = [pc EXCEPT ![w] = "block"]
  /\ UNCHANGED <<next, timeout, expired, ready, triggered, wait_set, mutex, size, has_triggered,
                 notifier, arrivals, triggers>>

-----------------------------------------------------------------------------
(* rmw_wait: detaching, and collecting what is ready.                      *)

DetachGuardForgetsReady(w) ==
  \E g \in GuardConditions :
    /\ At(w, "detach", g)
    /\ mutex[g] = NoOne
    /\ wait_set' = [wait_set EXCEPT ![g] = NoOne]
    /\ has_triggered' = [has_triggered EXCEPT ![g] = FALSE]
    /\ next' = [next EXCEPT ![w] = @ + 1]
    /\ UNCHANGED <<pc, timeout, expired, ready, triggered, mutex, size, notifier, arrivals, triggers>>

\* detach_condition_and_is_trigger_set: internal_mutex is not recursive, so a
\* waiter that still holds it stops here.
DetachGuard(w) ==
  \E g \in GuardConditions :
    /\ At(w, "detach", g)
    /\ mutex[g] = NoOne
    /\ wait_set' = [wait_set EXCEPT ![g] = NoOne]
    /\ has_triggered' = [has_triggered EXCEPT ![g] = FALSE]
    /\ ready' = [ready EXCEPT ![w] = @ \cup {x \in {g} : has_triggered[x]}]
    /\ next' = [next EXCEPT ![w] = @ + 1]
    /\ UNCHANGED <<pc, timeout, expired, triggered, mutex, size, notifier, arrivals, triggers>>

DetachQueueForgetsPointer(w) ==
  \E q \in Queues :
    /\ At(w, "detach", q)
    /\ mutex[q] = NoOne
    /\ pc' = [pc EXCEPT ![w] = "check_empty"]
    /\ UNCHANGED <<next, timeout, expired, ready, triggered, wait_set, mutex, size, has_triggered,
                   notifier, arrivals, triggers>>

DetachQueueUnlocked(w) ==
  \E q \in Queues :
    /\ At(w, "detach", q)
    /\ wait_set' = [wait_set EXCEPT ![q] = NoOne]
    /\ pc' = [pc EXCEPT ![w] = "check_empty"]
    /\ UNCHANGED <<next, timeout, expired, ready, triggered, mutex, size, has_triggered,
                   notifier, arrivals, triggers>>

\* detach_condition_and_queue_is_empty, up to its unlock.
DetachQueue(w) ==
  \E q \in Queues :
    /\ At(w, "detach", q)
    /\ mutex[q] = NoOne
    /\ wait_set' = [wait_set EXCEPT ![q] = NoOne]
    /\ pc' = [pc EXCEPT ![w] = "check_empty"]
    /\ UNCHANGED <<next, timeout, expired, ready, triggered, mutex, size, has_triggered,
                   notifier, arrivals, triggers>>

\* Then it reads the size of the queue with no lock held.
CheckEmpty(w) ==
  \E q \in Queues :
    /\ At(w, "check_empty", q)
    /\ ready' = [ready EXCEPT ![w] = @ \cup {x \in {q} : size[x] > 0}]
    /\ pc' = [pc EXCEPT ![w] = "detach"]
    /\ next' = [next EXCEPT ![w] = @ + 1]
    /\ UNCHANGED <<timeout, expired, triggered, wait_set, mutex, size, has_triggered,
                   notifier, arrivals, triggers>>

\* RMW_RET_OK when something is ready, RMW_RET_TIMEOUT otherwise.
Return(w) ==
  /\ Passed(w, "detach")
  /\ pc' = [pc EXCEPT ![w] = "idle"]
  /\ UNCHANGED <<next, timeout, expired, ready, triggered, wait_set, mutex, size, has_triggered,
                 notifier, arrivals, triggers>>

-----------------------------------------------------------------------------
(* The read task: add_new_message, add_new_query and add_new_reply.        *)

\* A message arrives; with the mutex of the queue, the oldest one is dropped
\* from a full queue.  The mutex is held until the push.
Arrive(q) ==
  /\ notifier[ReadTask] = Idle /\ arrivals < MaxArrivals
  /\ arrivals' = arrivals + 1
  /\ size' = [size EXCEPT ![q] = IF @ >= Depth THEN @ - 1 ELSE @]
  /\ notifier' = [notifier EXCEPT ![ReadTask] =
                    [pc |-> IF size[q] >= Depth THEN "replace" ELSE "push", entity |-> q]]
  /\ UNCHANGED <<waitVars, triggered, wait_set, mutex, has_triggered, triggers>>

\* The read task is between the drop and the push, with the mutex of q.
Pushing(q) == notifier[ReadTask].pc \in {"push", "replace"} /\ notifier[ReadTask].entity = q

\* push_back, which refuses a full queue.
Push(q) ==
  /\ Pushing(q)
  /\ size[q] # Depth
  /\ size' = [size EXCEPT ![q] = @ + 1]
  /\ notifier' = [notifier EXCEPT ![ReadTask] = [pc |-> "notify", entity |-> q]]
  /\ UNCHANGED <<waitVars, triggered, wait_set, mutex, has_triggered, arrivals, triggers>>

\* push_back gives up on the message: no one is notified.
PushFails(q) ==
  /\ Pushing(q)
  /\ notifier' = [notifier EXCEPT ![ReadTask] = Idle]
  /\ UNCHANGED <<waitVars, triggered, wait_set, mutex, size, has_triggered, arrivals, triggers>>

\* notify: under condition_mutex of the entity, is a wait set attached?
Notify(q) ==
  /\ notifier[ReadTask] = [pc |-> "notify", entity |-> q]
  /\ mutex[q] = NoOne
  /\ \/ /\ wait_set[q] = NoOne
        /\ notifier' = [notifier EXCEPT ![ReadTask] = Idle]
        /\ UNCHANGED mutex
     \/ /\ wait_set[q] # NoOne
        /\ notifier' = [notifier EXCEPT ![ReadTask] = [pc |-> "signal", entity |-> q]]
        /\ mutex' = [mutex EXCEPT ![q] = ReadTask]
  /\ UNCHANGED <<waitVars, triggered, wait_set, size, has_triggered, arrivals, triggers>>

SignalOnlyWakes(q) ==
  LET w == wait_set[q]
  IN  /\ notifier[ReadTask] = [pc |-> "signal", entity |-> q]
      /\ pc' = [x \in Waiters |-> IF x = w /\ pc[x] = "asleep" THEN "block" ELSE pc[x]]
      /\ mutex' = [mutex EXCEPT ![q] = NoOne]
      /\ notifier' = [notifier EXCEPT ![ReadTask] = Idle]
      /\ UNCHANGED <<next, timeout, expired, ready, triggered, wait_set, size, has_triggered,
                     arrivals, triggers>>

\* It is: set triggered and signal the condition variable, which wakes the
\* waiter if it sleeps and is lost otherwise.  Both mutexes are released.
Signal(q) ==
  LET w == wait_set[q]
  IN  /\ notifier[ReadTask] = [pc |-> "signal", entity |-> q]
      /\ triggered' = [triggered EXCEPT ![w] = TRUE]
      /\ pc' = [x \in Waiters |-> IF x = w /\ pc[x] = "asleep" THEN "block" ELSE pc[x]]
      /\ mutex' = [mutex EXCEPT ![q] = NoOne]
      /\ notifier' = [notifier EXCEPT ![ReadTask] = Idle]
      /\ UNCHANGED <<next, timeout, expired, ready, wait_set, size, has_triggered,
                     arrivals, triggers>>

-----------------------------------------------------------------------------
(* rmw_trigger_guard_condition, and taking.                                *)

\* Under internal_mutex: has_triggered is set; is a wait set attached?
Trigger(t, g) ==
  /\ notifier[t] = Idle /\ triggers < MaxTriggers
  /\ triggers' = triggers + 1
  /\ mutex[g] = NoOne
  /\ has_triggered' = [has_triggered EXCEPT ![g] = TRUE]
  /\ \/ /\ wait_set[g] = NoOne
        /\ UNCHANGED <<mutex, notifier>>
     \/ /\ wait_set[g] # NoOne
        /\ mutex' = [mutex EXCEPT ![g] = t]
        /\ notifier' = [notifier EXCEPT ![t] = [pc |-> "signal", entity |-> g]]
  /\ UNCHANGED <<waitVars, triggered, wait_set, size, arrivals>>

\* It is: set triggered, but (a TODO in the code) signal nothing.
SetTriggered(t, g) ==
  /\ notifier[t] = [pc |-> "signal", entity |-> g]
  /\ triggered' = [triggered EXCEPT ![wait_set[g]] = TRUE]
  /\ mutex' = [mutex EXCEPT ![g] = NoOne]
  /\ notifier' = [notifier EXCEPT ![t] = Idle]
  /\ UNCHANGED <<waitVars, wait_set, size, has_triggered, arrivals, triggers>>

\* A message is taken, which needs the mutex of the queue.
Take(q) ==
  /\ ConcurrentTake \/ \A w \in Waiters : pc[w] = "idle"
  /\ size[q] > 0
  /\ ~ Pushing(q)
  /\ size' = [size EXCEPT ![q] = @ - 1]
  /\ UNCHANGED <<waitVars, triggered, wait_set, mutex, has_triggered, notifier, arrivals, triggers>>

-----------------------------------------------------------------------------
\* The steps of a call of rmw_wait in progress, but for the wakes.
WaiterStep(w) == \/ AttachReadyGuard(w) \/ AttachReadyQueue(w) \/ Attach(w) \/ AttachDone(w)
                 \/ Resume(w) \/ Sleep(w)
                 \/ DetachGuard(w) \/ DetachQueue(w) \/ CheckEmpty(w) \/ Return(w)

\* The steps of a notification in progress.
ReadTaskStep == \E q \in Queues : Push(q) \/ PushFails(q) \/ Notify(q) \/ Signal(q)
TriggererStep(t) == \E g \in GuardConditions : SetTriggered(t, g)

Next == \/ \E w \in Waiters : RmwWait(w) \/ WaiterStep(w) \/ Expire(w) \/ SpuriousWake(w)
        \/ \E q \in Queues : Arrive(q) \/ Take(q)
        \/ ReadTaskStep
        \/ \E t \in Triggerers : TriggererStep(t) \/ \E g \in GuardConditions : Trigger(t, g)

Spec == Init /\ [][Next]_vars

\* A call in progress goes on, time passes, and a notification that has begun is
\* finished.  Nothing forces a message, a trigger, a take or a spurious wake.
Fairness == /\ \A w \in Waiters : WF_vars(WaiterStep(w)) /\ WF_vars(Expire(w))
            /\ WF_vars(ReadTaskStep)
            /\ \A t \in Triggerers : WF_vars(TriggererStep(t))

FairSpec == Spec /\ Fairness

-----------------------------------------------------------------------------
(* Properties.                                                             *)

Phases == {"idle", "attach", "block", "asleep", "detach", "check_empty"}
NotifierStates == [pc : {"idle", "push", "replace", "notify", "signal"}, entity : Entities \cup {NoOne}]

\* The state keeps its types.  No thread but the read task keeps the mutex of a
\* queue from one step to the next: no early return leaves it locked.
TypeOK ==
  /\ pc \in [Waiters -> Phases]
  /\ next \in [Waiters -> Nat \ {0}]
  /\ timeout \in [Waiters -> {"infinite", "finite", "zero"}]
  /\ expired \in [Waiters -> BOOLEAN]
  /\ ready \in [Waiters -> SUBSET Entities]
  /\ triggered \in [Waiters -> BOOLEAN]
  /\ wait_set \in [Entities -> Waiters \cup {NoOne}]
  /\ mutex \in [Entities -> Waiters \cup Notifiers \cup {NoOne}]
  /\ \A q \in Queues : mutex[q] \in {NoOne, ReadTask}
  /\ size \in [Queues -> 0 .. Depth]
  /\ has_triggered \in [GuardConditions -> BOOLEAN]
  /\ notifier \in [Notifiers -> NotifierStates]
  /\ arrivals \in 0 .. MaxArrivals
  /\ triggers \in 0 .. MaxTriggers

\* When rmw_wait has returned no entity still points to its wait set, which the
\* caller may now destroy.
NoDanglingAttachment ==
  \A w \in Waiters : pc[w] = "idle" => \A e \in Entities : wait_set[e] # w

\* A notifier that has found a wait set attached signals it before the call of
\* rmw_wait that attached it can return: it never touches a wait set that is gone.
SignalsLiveWaitSet ==
  \A n \in Notifiers :
    notifier[n].pc = "signal" =>
      LET w == wait_set[notifier[n].entity] IN w \in Waiters /\ pc[w] # "idle"

\* The race detail/wait_set.h describes does not happen: a waiter sleeps only
\* while its queues are empty, or while the read task has yet to signal it.
NoLostWakeup ==
  \A w \in Waiters : pc[w] = "asleep" =>
    \A i \in DOMAIN WaitsOn[w] :
      LET q == WaitsOn[w][i]
      IN  q \in Queues /\ size[q] > 0 =>
            notifier[ReadTask].entity = q /\ notifier[ReadTask].pc \in {"notify", "signal"}

\* A trigger of a guard condition is consumed only by a call of rmw_wait that
\* will report the guard condition as ready.
TriggerIsReported ==
  [][\A g \in GuardConditions : has_triggered[g] /\ ~ has_triggered'[g] =>
       \E w \in Waiters : g \in ready'[w] /\ pc[w] = "detach"]_vars

\* "rmw_wait should return *all* entities that have data available"
\* (rmw_wait_set.c): a queue it reports as not ready holds no message, nor one
\* that is just being replaced.
NotReadyMeansEmpty ==
  [][\A w \in Waiters, q \in Queues :
       At(w, "check_empty", q) /\ pc'[w] # "check_empty" /\ q \notin ready'[w] =>
         size[q] = 0 /\ notifier[ReadTask] # [pc |-> "replace", entity |-> q]]_vars

\* A message that arrives while a waiter sleeps wakes it, unless it is taken.
MessageWakes ==
  \A w \in Waiters, q \in Queues :
    (pc[w] = "asleep" /\ q \in {WaitsOn[w][i] : i \in DOMAIN WaitsOn[w]} /\ size[q] > 0)
      ~> (pc[w] # "asleep" \/ size[q] = 0)

\* A call with a timeout returns.
TimedWaitReturns ==
  \A w \in Waiters : (pc[w] # "idle" /\ timeout[w] # "infinite") ~> pc[w] = "idle"

\* "If any of the entities has an event during that time, it will wake up from
\* that sleep" (rmw_wait_set.c): a guard condition that is triggered ends the
\* sleep of a waiter attached to it.
TriggerWakes ==
  \A w \in Waiters, g \in GuardConditions :
    pc[w] = "asleep" /\ wait_set[g] = w /\ has_triggered[g] ~> pc[w] # "asleep"

\* triggered is reset "otherwise every subsequent call to rmw_wait() will be
\* immediately ready" (rmw_wait_set.c): no call leaves it set for the next one.
TriggerIsReset ==
  [][\A w \in Waiters : pc[w] # "idle" /\ pc'[w] = "idle" => ~ triggered'[w]]_vars

\* Once rmw_wait has got to its "last part" (rmw_wait_set.c), where each entity
\* is checked, it returns.
LastPartReturns == \A w \in Waiters : pc[w] = "detach" ~> pc[w] = "idle"

\* "if wait_timeout is NULL that means 'wait forever'" (rmw_wait_set.c): such a
\* call does not return with nothing ready.
WaitForeverReturnsReady ==
  [][\A w \in Waiters :
       pc[w] # "idle" /\ pc'[w] = "idle" /\ timeout[w] = "infinite" => ready'[w] # {}]_vars
=============================================================================
