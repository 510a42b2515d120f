------------------------------ MODULE Lifecycle ------------------------------
(***************************************************************************)
(* Creating and destroying a context and what lives in it, part by part,   *)
(* with each part failing: one entity of each kind.  An application thread *)
(* runs one operation at a time, in the order rcl allows; another thread,  *)
(* as a signal handler does, may call rmw_shutdown in the middle of it.    *)
(* A release may fail, and then take effect or not; stopping the tasks and *)
(* closing the session take effect whatever they return.                   *)
(***************************************************************************)
EXTENDS Ownership, Qos, Functions

CONSTANT Profiles   \* the QoS profiles applications ask for

ASSUME ProfilesAssumption == Profiles \subseteq QosProfiles

VARIABLES
  held,          \* of each kind: the parts acquired and not released
  released,      \* of each kind: the parts this incarnation has called the release of
  live,          \* the kinds whose create function returned a handle
  op,            \* the operation in progress
  capacity,      \* the depth of the adapted profile of each entity of a node
  shutting,      \* what rmw_shutdown in progress has yet to stop
  is_shutdown

vars == <<held, released, live, op, capacity, shutting, is_shutdown>>

Steps == [init_options    |-> InitOptionsInit,
          context         |-> InitContext,
          node            |-> CreateNode,
          publisher       |-> CreatePublisher,
          subscription    |-> CreateSubscription,
          service         |-> CreateService,
          client          |-> CreateClient,
          guard_condition |-> CreateGuardCondition,
          wait_set        |-> CreateWaitSet]

Releases == [init_options    |-> InitOptionsFini,
             context         |-> ContextFini,
             node            |-> DestroyNode,
             publisher       |-> DestroyPublisher,
             subscription    |-> DestroySubscription,
             service         |-> DestroyService,
             client          |-> DestroyClient,
             guard_condition |-> DestroyGuardCondition,
             wait_set        |-> DestroyWaitSet]

Kinds == DOMAIN Steps
OfNode == {"publisher", "subscription", "service", "client"}

TemporariesOfAll(k) == IF k \in {"publisher", "subscription"}
                         THEN <<"keyexpr_c_str", "type_hash_c_str">> ELSE <<"type_hash_c_str">>

\* The strings a create function frees when it has succeeded.
Temporaries(k) == CASE k \in {"publisher", "subscription"} -> <<"keyexpr_c_str", "type_hash_c_str">>
                    [] k \in {"service", "client"}         -> <<"type_hash_c_str">>
                    [] OTHER                               -> <<>>

\* What has to be live to create k, and what must be gone to destroy it.
Needs(k) == CASE k = "init_options" -> {}
              [] k = "context"      -> {"init_options"}
              [] k \in OfNode       -> {"context", "node"}
              [] OTHER              -> {"context"}
Users(k) == IF k = "init_options" THEN {} ELSE {u \in Kinds : k \in Needs(u)}

\* todo holds steps in the phase "create" and parts to release in the others.
NoOp == [kind |-> "init_options", phase |-> "idle", todo |-> <<>>, ret |-> "RMW_RET_OK"]

Init == /\ held = [k \in Kinds |-> {}]
        /\ released = [k \in Kinds |-> {}]
        /\ live = {}
        /\ op = NoOp
        /\ capacity = [k \in OfNode |-> 0]
        /\ shutting = <<>>
        /\ is_shutdown = FALSE

-----------------------------------------------------------------------------
(* Creation.                                                               *)

\* A create function begins.  rmw_create_node refuses a context that was shut
\* down; for the others rcl does.
Create(k) ==
  /\ op = NoOp
  /\ k \notin live /\ Needs(k) \subseteq live
  /\ k \in {"init_options", "context"} \/ ~ is_shutdown
  /\ op' = [kind |-> k, phase |-> "create", todo |-> Steps[k], ret |-> "RMW_RET_OK"]
  /\ UNCHANGED <<held, released, live, capacity, shutting, is_shutdown>>

SessionIsOpen == "session" \in held["context"]

\* The next part is there: memory, a mutex, a task, a declaration in an open
\* session.  The queue is made with the depth of the profile once adapted.
Acquire ==
  /\ op.phase = "create" /\ op.todo # <<>>
  /\ LET part == Head(op.todo).part
     IN  /\ part = "declaration" => SessionIsOpen
         /\ held' = [held EXCEPT ![op.kind] = @ \cup ({part} \ Checks)]
         /\ IF part = "adapted_qos"
              THEN \E profile \in Profiles :
                     /\ CanAdapt(profile)
                     /\ capacity' = [capacity EXCEPT ![op.kind] = Adapt(profile).depth]
              ELSE UNCHANGED capacity
  /\ op' = [op EXCEPT !.todo = Tail(@)]
  /\ UNCHANGED <<released, live, shutting, is_shutdown>>

\* rmw_zp_query_map_init looks at keys again: that queries is null goes unnoticed.
AllocateQueriesFails ==
  /\ op.phase = "create" /\ op.todo # <<>> /\ Head(op.todo).part = "queries"
  /\ op' = [op EXCEPT !.todo = Tail(@)]
  /\ UNCHANGED <<held, released, live, capacity, shutting, is_shutdown>>

\* These failures of rmw_init leave ret as rmw_init_options_copy set it.
SilentFailures == {"graph_guard_condition", "read_task", "lease_task"}

\* A step fails: the function jumps to its label.
AcquireFails ==
  /\ op.phase = "create" /\ op.todo # <<>>
  /\ LET step == Head(op.todo)
     IN  /\ step.part \notin {"queries", "config"}
         /\ step.part = "adapted_qos" => \E profile \in Profiles : ~ CanAdapt(profile)
         /\ op' = [op EXCEPT !.phase = "unwind",
                             !.todo  = step.undo,
                             !.ret   = IF step.part \in SilentFailures THEN @
                                       ELSE "RMW_RET_ERROR"]
  /\ UNCHANGED <<held, released, live, capacity, shutting, is_shutdown>>

\* Everything is there: what is left is to free the temporary strings.
Settle == /\ op.phase = "create" /\ op.todo = <<>>
          /\ op' = [op EXCEPT !.phase = "settle", !.todo = Temporaries(op.kind)]
          /\ UNCHANGED <<held, released, live, capacity, shutting, is_shutdown>>

-----------------------------------------------------------------------------
(* Destruction, and the end of an operation.                               *)

DestroyUnchecked(k) ==
  /\ op = NoOp
  /\ k \in live /\ Users(k) \cap live = {}
  /\ \E left \in SUBSET Stored(k) : held' = [held EXCEPT ![k] = @ \cup left]
  /\ op' = [kind |-> k, phase |-> "destroy", todo |-> Releases[k], ret |-> "RMW_RET_OK"]
  /\ UNCHANGED <<released, live, capacity, shutting, is_shutdown>>

\* A destroy function begins, whatever messages and queries callbacks have left in
\* the entity; rmw_context_fini refuses a context that was not shut down, rmw does
\* not look at what else still lives, but rcl does.
Destroy(k) ==
  /\ op = NoOp
  /\ k \in live /\ Users(k) \cap live = {}
  /\ k = "context" => is_shutdown
  /\ \E left \in SUBSET Stored(k) : held' = [held EXCEPT ![k] = @ \cup left]
  /\ op' = [kind |-> k, phase |-> "destroy", todo |-> Releases[k], ret |-> "RMW_RET_OK"]
  /\ UNCHANGED <<released, live, capacity, shutting, is_shutdown>>

\* A part is about to be released.
Releasing == op.phase \in {"settle", "unwind", "destroy"} /\ op.todo # <<>>

\* The next part is released; nothing can be undeclared in a closed session.
Release ==
  /\ Releasing
  /\ LET part == Head(op.todo)
     IN  /\ part = "declaration" => SessionIsOpen
         /\ held' = [held EXCEPT ![op.kind] = @ \ {part}]
         /\ released' = [released EXCEPT ![op.kind] = @ \cup {part}]
  /\ op' = [op EXCEPT !.todo = Tail(@)]
  /\ UNCHANGED <<live, capacity, shutting, is_shutdown>>

\* What is left to do when the release of the next part has failed: the rest, but
\* rmw_init_options_fini returns before it comes to the discovery options.
AfterFailure ==
  LET rest == Tail(op.todo)
  IN  IF Head(op.todo) = "security" /\ rest # <<>> /\ Head(rest) = "discovery"
        THEN Tail(rest) ELSE rest

\* A release fails, or frees through a pointer that is not the allocator: the part
\* is gone or not, and the function goes on.  A create function that unwinds and
\* rmw_destroy_guard_condition do not look at the result.
ReleaseFails ==
  /\ Releasing
  /\ LET part == Head(op.todo)
     IN  /\ part \in Fallible \cup ThroughState(op.kind)
         /\ \E gone \in SUBSET {part} : held' = [held EXCEPT ![op.kind] = @ \ gone]
         /\ released' = [released EXCEPT ![op.kind] = @ \cup {part}]
         /\ op' = [op EXCEPT !.todo = AfterFailure,
                             !.ret  = IF /\ op.phase = "destroy" /\ part \in Fallible
                                         /\ op.kind # "guard_condition"
                                        THEN "RMW_RET_ERROR" ELSE @]
  /\ UNCHANGED <<live, capacity, shutting, is_shutdown>>

\* Or the pointer is no allocator at all, and the process crashes.
Crash == /\ Releasing /\ Head(op.todo) \in ThroughState(op.kind)
         /\ op' = [op EXCEPT !.phase = "crashed"]
         /\ UNCHANGED <<held, released, live, capacity, shutting, is_shutdown>>

\* The function returns.  What it leaves behind is forgotten, a declaration too that
\* could not be withdrawn.
Return ==
  /\ op.phase \in {"settle", "unwind", "destroy"} /\ op.todo = <<>>
  /\ LET k == op.kind
         made == op.phase = "settle"
     IN  /\ live' = IF made THEN live \cup {k} ELSE live \ {k}
         /\ held' = IF made THEN held ELSE [held EXCEPT ![k] = {}]
         /\ released' = [released EXCEPT ![k] = {}]
         /\ capacity' = IF made \/ k \notin OfNode THEN capacity
                        ELSE [capacity EXCEPT ![k] = 0]
         /\ is_shutdown' = (is_shutdown /\ k # "context")
  /\ op' = NoOp
  /\ UNCHANGED shutting

-----------------------------------------------------------------------------
(* rmw_shutdown, in any thread, once for each context.                     *)

ShutdownBegins == /\ op.phase # "crashed"
                  /\ "context" \in live /\ ~ is_shutdown /\ shutting = <<>>
                  /\ shutting' = ShutdownContext
                  /\ UNCHANGED <<held, released, live, op, capacity, is_shutdown>>

ShutdownStep ==
  /\ op.phase # "crashed"
  /\ shutting # <<>>
  /\ held' = [held EXCEPT !["context"] = @ \ {Head(shutting)}]
  /\ released' = [released EXCEPT !["context"] = @ \cup {Head(shutting)}]
  /\ shutting' = Tail(shutting)
  /\ is_shutdown' = (shutting' = <<>>)
  /\ UNCHANGED <<live, op, capacity>>

Next == \/ \E k \in Kinds : Create(k) \/ Destroy(k)
        \/ Acquire \/ AllocateQueriesFails \/ AcquireFails \/ Settle
        \/ Release \/ ReleaseFails \/ Crash \/ Return
        \/ ShutdownBegins \/ ShutdownStep

Spec == Init /\ [][Next]_vars

-----------------------------------------------------------------------------
(* Properties.                                                             *)

PartsOf(k) == {s.part : s \in Range(Steps[k])} \cup Range(Releases[k]) \cup Stored(k)

\* The state keeps its types.
TypeOK == /\ \A k \in Kinds : held[k] \subseteq PartsOf(k) /\ released[k] \subseteq PartsOf(k)
          /\ live \subseteq Kinds
          /\ op.kind \in Kinds
          /\ op.phase \in {"idle", "create", "settle", "unwind", "destroy", "crashed"}
          /\ op.ret \in {"RMW_RET_OK", "RMW_RET_ERROR"}
          /\ capacity \in [OfNode -> Nat]
          /\ is_shutdown \in BOOLEAN

\* What a part of k is reached through when it is released: a local needs nothing.
Container(k, part) ==
  CASE k = "init_options"  -> IF part = "config" THEN {"options_impl"} ELSE {}
    [] k = "context"       -> IF part \in {"session", "graph_guard_condition"} THEN {"impl"}
                              ELSE IF part \in {"read_task", "lease_task"}
                              THEN {"impl", "session"} ELSE {}
    [] part \in {"data", "name", "namespace"} -> {"handle"}
    [] part \in {"handle", "type_hash_c_str"} -> {}
    [] part = "keyexpr_c_str" /\ k \in {"publisher", "subscription"} -> {}
    [] part = "type_name"  -> {"data", "type_support"}
    [] OTHER               -> {"data"}

\* What may be released without having been acquired: the pointer is null, and
\* free or the function called takes that.
NullIsFreed == {"name", "queries", "lease_task", "security"}

\* Wherever a create function fails, and in whatever order an application and a
\* signal handler take things down: nothing is released twice, or without being
\* there, or after what leads to it.  But rmw_init_options_fini frees the
\* enclave, which rmw_init_options_init made a literal.
ReleasedOnce ==
  /\ Releasing => LET k    == op.kind
                      part == Head(op.todo)
                  IN  /\ part \notin released[k]
                      /\ \/ part \in held[k]
                         \/ part \in NullIsFreed
                         \/ k = "init_options" /\ part = "enclave"
                      /\ Container(k, part) \subseteq held[k]
  /\ shutting # <<>> =>
       {Head(shutting)} \cup Container("context", Head(shutting)) \subseteq held["context"]

\* The parts that are lost although no release has failed, or none that the function
\* reports: see the README for where.
KnownLeaks == [unwind  |-> [k \in Kinds |->
                 CASE k = "publisher" -> {"type_support", "type_name"}
                   [] k = "wait_set"  -> {"data"}
                   [] k = "context"   -> {"options_impl", "read_task", "security", "discovery"}
                   [] OTHER           -> {}],
               destroy |-> [k \in Kinds |->
                 CASE k = "context"         -> {"options_impl", "graph_guard_condition"}
                   [] k = "init_options"    -> {"options_impl", "config"}
                   [] k = "subscription"    -> Stored(k) \cup {"type_name"}
                   [] k = "guard_condition" -> {"internal_mutex"}
                   [] OTHER                 -> Stored(k)]]

\* What a function that reports an error may leave besides: what it could not
\* release, and the discovery options, which it may not have come to.
Unreleased(k) == IF op.ret = "RMW_RET_ERROR" THEN released[k] \cup {"discovery"} ELSE {}

\* A create function that fails, at whatever step, and a destroy function, session
\* closed or not, leave nothing behind but the known leaks, and what they say they
\* could not release.
NothingIsLeft ==
  op.phase \in {"unwind", "destroy"} /\ op.todo = <<>> =>
    held[op.kind] \subseteq KnownLeaks[op.phase][op.kind] \cup Unreleased(op.kind)

\* What the data handler of k uses, but for queries, whose allocation is not checked.
HandlerUses(k) ==
  {"data", "messages", "message_queue_mutex", "condition_mutex"}
    \cup (IF k = "service" THEN {"keys"} ELSE {})

\* All that the handler of k needs is there, and the queue has room for a message.
Reachable(k) == HandlerUses(k) \subseteq held[k] /\ capacity[k] >= 1

\* "after this, callbacks may come in at any time" (rmw_subscription.c): whenever
\* the read task may call a handler, the handler finds its entity, in the middle of
\* a create, a destroy or a shutdown too.  So the comment has it; it is not so once
\* undeclaring has failed, since the function goes on to free the entity.
CallbacksFindEntity ==
  \A k \in {"subscription", "service"} :
    "declaration" \in held[k] /\ "read_task" \in held["context"] => Reachable(k)

\* It is so from the declaration to the call that undeclares: nothing of the entity
\* is missing before the one, and nothing of it is freed before the other.
DeclaredFindEntity ==
  \A k \in {"subscription", "service"} :
    "declaration" \in held[k] \ released[k] /\ "read_task" \in held["context"] =>
      Reachable(k)

\* The tasks run on an open session, whatever the order of failures and shutdown;
\* but a lease task that fails to start leaves the read task running.
TasksRunOnSession ==
  held["context"] \cap {"read_task", "lease_task"} # {} =>
    \/ {"impl", "session"} \subseteq held["context"]
    \/ op.kind = "context" /\ op.phase = "unwind"

\* "Failed to start zenoh-pico read task" (rmw_init.c): a create function that fails
\* returns an error.  Three failures of rmw_init do not.
FailuresAreReported == op.phase = "unwind" => op.ret = "RMW_RET_ERROR"

\* rmw_zp_message_type_support_fini takes an rcutils_allocator_t (type_support.h): no
\* create and no destroy function crashes.  Those of a subscription pass another.
NeverCrashes == op.phase # "crashed"
=============================================================================
