# rmw_zenohpico in TLA+

A verification of `rmw_zenohpico_c`, the implementation of the ROS 2 middleware
interface (rmw) on zenoh-pico. Paths below are relative to
`src/rmw_zenohpico_c/src/`.

## The system

rmw_zenohpico is a library in the process of a ROS 2 node. Two kinds of threads
run its code: **application threads** (executors, through rcl) call the `rmw_*`
functions, and **zenoh-pico's read task**, one thread for each context
(`rmw_init.c:61`), runs every zenoh callback: the data handlers of subscriptions,
services and clients, and the dropper of a client's queries. They meet in the
message queues, the query map and the wait sets; a signal handler may call
`rmw_shutdown` in the middle of anything.

| Component | State | Operations | Interacts with |
|---|---|---|---|
| message queue (`detail/message_queue.c`) | ring of slots: `messages`, `capacity`, `size`, `idx_front`, `idx_back` | init, push_back, pop_front, fini | owned by a subscription, service or client, under its mutex |
| subscription (`detail/subscription.c`, `rmw_subscription.c`) | queue, adapted QoS, `wait_set_data` | data handler, five take calls, attach, notify, detach, create, destroy | read task, executor, wait set |
| publisher (`detail/publisher.c`, `rmw_publisher.c`) | `sequence_number` | `rmw_publish`, create, destroy | zenoh, subscriptions of other nodes |
| service (`detail/service.c`, `rmw_service.c`) | queue, query map, `wait_set_data` | data handler, `rmw_take_request`, `rmw_send_response`, attach, notify, detach, create, destroy | read task, executor, wait set |
| query map (`detail/query_map.c`) | `keys` (32-bit hashes, 0 for free) and `queries` | init, insert, extract, fini | owned by a service |
| client (`detail/client.c`, `rmw_client.c`) | reply queue, `sequence_number`, `num_in_flight`, `is_shutdown`, `wait_set_data` | `rmw_send_request`, reply handler, dropper, `rmw_take_response`, attach, notify, detach, create, destroy | zenoh queries, read task, executor |
| guard condition (`detail/guard_condition.c`) | `has_triggered`, `wait_set` | trigger, attach, detach, create, destroy | any thread, wait set |
| wait set (`detail/wait_set.c`, `rmw_wait_set.c`) | `triggered`, a condition variable and its mutex | `rmw_wait`, create, destroy | everything that can be waited on |
| context (`rmw_init.c`) | session, its two tasks, `graph_guard_condition`, `is_shutdown` | `rmw_init`, `rmw_shutdown`, `rmw_context_fini` | owns the session everything uses |
| node, init options (`rmw_node.c`, `rmw_init_options.c`) | names, the zenoh config, copies of rcl's options | create, destroy; init, copy, fini | context |
| attachments (`detail/attachment_helpers.c`) | none | write and read the pairs that go with each sample, query and reply | publisher, client, service, queue |
| QoS adaptation (`detail/qos.c`) | none | adapt a profile | every create function |
| type support, key expressions, time (`detail/*.c`) | a type name; none; none | conversions | called by all of them |
| graph, events, features, dynamic messages | none | stubs that return `RMW_RET_UNSUPPORTED` or a constant | |

What is hard, and what each component is correct by:

- **Queues.** The ring must stay consistent through pushes, pops, drops at the
  limit and pushes that give up half way, deliver in order and at most once, and
  keep the newest `depth` messages.
- **Topics.** Threads that publish at once take numbers in one order and put in
  another; the session loses samples; what is reported with a message must be
  what was sent with it.
- **Waiting.** A message may arrive at any point of `rmw_wait`; no wakeup may be
  lost, no pointer to a wait set may outlive the call, a timed wait must return,
  and what is ready must be reported.
- **Requests and replies.** A response must go to the query of its request, once,
  with its number; a client must not be freed under a query; numbers must stay
  unique with several threads sending.
- **Lifecycle.** Each create function fails at any of a dozen steps and unwinds by
  `goto`; entities are destroyed after, and created during, a shutdown of their
  context; callbacks may come before a create function returns.

`PROJECT.json` lists each hazard with its line and the properties that would
catch it.

## The modules

| Module | Models |
|---|---|
| `MessageQueue` | `detail/message_queue.c` as operators on a queue. A message is the number of the sample it arrived with; a slot records, for each part that is written separately, which sample that part came from, so that a half-finished push is visible |
| `EntityQueue` | what subscription, service and client do alike with a queue: its depth, making room, outcomes of decoding |
| `Subscription` | one subscription, its read task and one executor |
| `KeepLast`, `LatestMailbox` | abstract: the KEEP_LAST history, and a one-place mailbox with a count of takes |
| `Attachment` | `detail/attachment_helpers.c`: the list of pairs written, and the loop that reads one |
| `Publisher` | `rmw_publish` by several threads |
| `PublishSubscribe` | a publisher, other peers, a session that loses samples, and a subscription |
| `Topic` | abstract: a log read in order, each entry at most once |
| `QueryMap`, `Service` | `detail/query_map.c` as operators; a service with threads that respond |
| `Client` | a client with threads that send, queries in flight, and their replies |
| `RequestReply` | a client and the service that answers it |
| `RemoteCall` | abstract: a request is worked on, answered and returned at most once, in this order |
| `WaitSet` | `rmw_wait` of several threads, the attach, detach and notify of subscriptions, services and clients (the three have the same code on fields of the same names, so a queue of the model stands for any of them), guard conditions and their triggers |
| `Ownership` | for each entity, its parts in the order its create function acquires them, where each `goto` leads, and the order its destroy function releases them: the create and destroy code, as data |
| `Qos` | the profiles an application may ask for, and `rmw_zp_adapt_qos_profile` as an operator on them |
| `Lifecycle` | the machine that runs `Ownership`: one operation of the application at a time, part by part, each failing, against `rmw_shutdown` in another thread |
| `MC*` | values of the constants for TLC |
| `*Proofs` | the theorems |

`Subscription`, `Service` and `Client` extend `EntityQueue`, which extends
`MessageQueue`. `PublishSubscribe` extends `Subscription` and instantiates `Publisher`;
`RequestReply` extends `Client` and instantiates `Service`: their steps are those of
the parts, with what travels between them. `Lifecycle` extends `Ownership` and `Qos`.
`WaitSet` abstracts a queue to its size: what the queue stores is the matter of the
others. Operators that only differ from the code by a plausible slip
(`PushBackForgetsIndex`, `GotoBelow`, ...) stand before the one they vary: the mutants
of `PROJECT.json`, by which each property is shown to be able to fail.

### How steps were chosen

What a thread does under one mutex is one step, unless it can be seen without it:

- In `WaitSet` the pop that makes room and the push are two steps under
  `message_queue_mutex`, because `rmw_wait` reads `size` without that mutex.
- A notifier holds `condition_mutex` of the entity (`internal_mutex` of a guard
  condition) across two steps, since it takes the mutex of the wait set inside; no
  thread holds the latter while it waits for another, so it needs no variable.
- `rmw_take_sequence` takes the mutex anew for each message: one step per turn.
- `rmw_publish` is two steps, taking the number and putting the sample;
  `rmw_send_response` two, extracting the query and answering it;
  `rmw_send_request` three: the number is taken, the query is counted, `z_get`.
- In `Lifecycle` each part acquired or released is a step, so that a callback or a
  shutdown may fall between any two.

Undefined values are nondeterministic. A slot of the queue that was never written
holds `Uninit` (the array comes from `allocate`, which does not clear it); a
payload that was moved out is `Moved`, a null slice that never decodes; decoding an
uninitialized payload may do anything, and an uninitialized header may have any
hash, 0 included. What happens after a client was freed is not modelled: the model
shows whether zenoh still has a closure that points to it.

External to the repository, and modelled from its calls:

- zenoh calls handlers on one thread, and undeclaring waits for the handler that
  runs: after it no callback comes for that entity, unless it failed; nothing can be
  undeclared in a closed session, and nothing calls back in one;
- a session delivers the puts of one publisher in order, each at most once, or
  loses them; a query and a reply travel at most once, in any order;
- a reply comes only for a query in flight; the dropper is called once for a query
  that was sent, and may or may not be when `z_get` fails;
- `z_open` consumes the config it is given, whether it succeeds or not;
- stopping a task and closing a session take effect whatever they return; any other
  release that returns a result may fail at any time, and then take effect or not;
- `allocator->state` is null, as with the default allocator, or points to whatever an
  application keeps there: calling through it crashes the process or does anything to
  the string it should free;
- a condition variable may wake for no reason, and a signal nobody waits for is lost;
- rcl creates an entity in a live context and node, destroys it before them, shuts a
  context down once and finalizes it after that, answers a request once, and adds
  an entity to one wait set at a time (`WaitShared` drops this last rule).

In `Lifecycle` the parts are names. A part that a function leaves behind is forgotten
when it returns, so that the leaks named in `KnownLeaks` do not pile up; `released`
remembers what the current incarnation of an entity has called the release of. A
destroy function begins with whatever payloads and queries callbacks have left in the
entity (`Stored`), which nothing releases. A declaration that could not be withdrawn
is forgotten with its entity: `CallbacksFindEntity` looks at the states before that.

## The runs

| Run | Result | Shows |
|---|---|---|
| `SubscriptionDepth3` | holds | ring of three slots, five samples: `RingIsConsistent`, `DropsWrittenPayload`, `OnlyFrontHoldsPayload`, `DeliveredInOrder`, `SequenceReportsTaken`; implements `LatestMailbox` |
| `PublishSubscribe` | holds | two threads publish to a subscription of depth one, peers send attachments in other orders, with extra, doubled, malformed or no pairs, samples are lost: `AttachmentMatchesPayload`, `CountedMessagesAreStored`, `OrderOfCalls`, `InfoMatchesPublication`; implements `KeepLast` and, end to end, `Topic` |
| `SubscriptionDepth2` | violated | `CountedMessagesAreStored` |
| `WaitQueues` | holds | one waiter on two queues of depth two, four samples, takes at any time: `NoDanglingAttachment`, `SignalsLiveWaitSet`, `NoLostWakeup`, and, under fairness, `MessageWakes` and `TimedWaitReturns` |
| `WaitShared` | holds | two waiters that share a guard condition and a queue, two samples, two triggers: `NoDanglingAttachment`, `SignalsLiveWaitSet`, `TriggerIsReported` |
| `WaitGuardStuck` | violated | `LastPartReturns` |
| `WaitForever` | violated | `WaitForeverReturnsReady` |
| `ServiceQueries` | holds | two slots, four requests whose hashes are 1, 0, 3 and 1, two responders: `KeysIdentifyQueries`, `AnswersMatchingQuery`, `QueriesDroppedOnce`, `AcceptedIsKept` |
| `ServiceRefused` | violated | `TakenIsAnswerable` |
| `RequestReply` | holds | two threads send, two answer, all that travels in any order: `CountCoversInFlight`, `SequenceNumbersUnique`, `ResponsesKeepTheirNumber`, `ResponseMatchesRequest`; implements `RemoteCall` |
| `ClientDestroy` | violated | `ClosuresPointToClient` |
| `Lifecycle` | holds | every create and destroy function, each step and each release failing, shutdown at any time: `ReleasedOnce`, `NothingIsLeft`, `DeclaredFindEntity`, `TasksRunOnSession` |

Eight more configurations each check one claim that is false of the code; what they
show is below, under "Met on the way":

| Configuration | Module | Violated |
|---|---|---|
| `SequenceDrained.cfg` | `Subscription` | `DrainedIsNoError` |
| `WaitReplaced.cfg` | `MCWaitSet` | `NotReadyMeansEmpty` |
| `WaitStaleTrigger.cfg` | `MCWaitSet` | `TriggerIsReset` |
| `WaitGuardSleeps.cfg` | `MCWaitSet` | `TriggerWakes` |
| `ServiceHashZero.cfg` | `MCService` | `ZeroHashFindsNothing` |
| `SubscriptionCrash.cfg` | `MCLifecycle` | `NeverCrashes` |
| `UndeclareFails.cfg` | `MCLifecycle` | `CallbacksFindEntity` |
| `InitSilentFailure.cfg` | `MCLifecycle` | `FailuresAreReported` |

### Bounds

`MaxArrivals`, `MaxPublished`, `MaxTriggers`, `MaxRequests` and `MaxCount` bound what
would be counted without end; `Depth` and the sets of threads and entities are small.

- Five samples go round a ring of three slots more than once, fill it, and drop
  from it after it has wrapped around. A depth of three is the least at which the
  slot before the front one and the slot after it are not the same.
- Two threads and two publications are what it takes for a put to overtake another;
  with a third sample from a peer the queue gives up a message and a push that
  fails can spoil a slot between the two. The compositions are at depth one because
  of the finding at depth two, which breaks what they state.
- Two waiters and one entity of each kind are what it takes to take over an
  attachment. Two queues are what it takes for the race `detail/wait_set.h:14-21`
  describes: a message for the first while the second is being checked.
- Two slots in the query map, with four requests, let a slot be used again, the map
  refuse for each of its three reasons (full, known key, hash 0), and a free slot lie
  in front of one in use.
- A client of depth one, two threads and two requests: replies overtake each other
  and are dropped while another thread is between its number and its `z_get`; three
  replies may come to two requests, as an error or another peer adds one.
- One entity of each kind and one context: entities of a node do not share parts, so
  what one of them does to another goes through the session. Profiles: a depth left
  to the middleware, and a history it refuses; the theorems take any.

Deadlock is checked where the model cannot stop: a subscription always takes, a
waiter on queues always calls again. `CHECK_DEADLOCK FALSE` is set where arrivals are
bounded and nothing else is left to do (service, client, request and reply), where a
guard condition stops its waiter or does not wake it, and where the process may crash
(`Lifecycle`).

### Fairness

`FairSpec` of `WaitSet` has weak fairness on the steps of a call of `rmw_wait` in
progress, on the clock of a timed wait, and on a notification that has begun: these
are straight-line code in a thread that runs. A notification holds a mutex for a
bounded time and each arrival or trigger is one notification, so weak fairness is
enough for a waiter to get the mutex it wants: with arrivals and triggers bounded,
the mutex is free from some point on, as it is in a program between messages. There
is no fairness on samples, triggers, takes or spurious wakes. The other modules state
no liveness: no text promises that a message is taken, a response sent or an entity
destroyed.

### What the violated runs show

- **A queue deeper than one does not store what it counts**
  (`detail/message_queue.c:67`). `push_back` fills the slot at `idx_front`, not the
  one at `idx_back`. With a depth of two, two samples leave one stored and a `size`
  of two; the second take gets an uninitialized or null payload. What the queue does
  implement at any depth is `LatestMailbox`, and that is proved.
- **A guard condition triggered before the wait stops the waiter**
  (`detail/guard_condition.c:51`): the early return keeps `internal_mutex`, which
  the same thread locks again in the last part.
- **A wait without a timeout returns with nothing ready** (`rmw_wait_set.c:194`). The
  trace: a message is queued, and the application takes it before the read task comes
  to `rmw_zp_subscription_notify`; it calls `rmw_wait` without a timeout, which finds
  the queue empty and attaches to it; the late notification finds a wait set, sets
  `triggered` and ends the wait; the queue is empty, and the call returns
  `RMW_RET_TIMEOUT`.
- **A refused query is not noticed** (`detail/service.c:114`): `RMW_RET_ERROR` is 1,
  not below 0. (The branch would also leave `message_queue_mutex` locked.)
- **A client is freed under its queries** (`rmw_client.c:158`): `is_shutdown` is
  never set and `num_in_flight` never looked at.

### Met on the way

Claims of comments, messages and declarations that the code does not keep. Each is a
property of its module; the configuration named has the counterexample.

- **A drained sequence is an error** (`SequenceDrained.cfg`, `rmw_subscription.c:400`).
  A `rmw_take_sequence` that has drained the queue before its count returns
  `RMW_RET_ERROR`, since `take_one` returns that for an empty queue; the branch for "No
  error, but there was nothing left to be taken" (lines 411-415) is never reached.
- **A queue that is never empty is reported as not ready** (`WaitReplaced.cfg`,
  `detail/subscription.c:166`, also `service.c:198` and `client.c:239`). At a depth of one
  `add_new_message` drops the only message before it pushes the new one; `rmw_wait`,
  which reads `size` without the mutex, may look in between, against "rmw_wait should
  return *all* entities that have data available" (`rmw_wait_set.c:167`). At a greater
  depth the drop never empties a queue.
- **A trigger outlives its call** (`WaitStaleTrigger.cfg`, `rmw_wait_set.c:221`).
  `triggered` is reset before the entities are detached, so a message that arrives in
  between sets it again, and the next call does not sleep: what "otherwise every
  subsequent call to rmw_wait() will be immediately ready" (lines 216-217) is about.
- **A guard condition triggered during a wait does not end it** (`WaitGuardSleeps.cfg`,
  `detail/guard_condition.c:36-39`, marked TODO). The condition variable is not
  signalled, and the waiter sleeps until something else, or its timeout, wakes it,
  against `rmw_wait_set.c:173-174`.
- **The hash 0 finds a free slot** (`ServiceHashZero.cfg`, `detail/query_map.c:99`).
  `insert` refuses it ("not allowed", line 73), `extract` looks for it, and the response
  goes through whatever query was left in the slot. The properties of `Service` leave
  that hash out where they must.
- **Destroying a subscription crashes** (`SubscriptionCrash.cfg`,
  `rmw_subscription.c:146,178`). `allocator->state` is passed for the allocator to
  `rmw_zp_message_type_support_fini`, which `detail/type_support.h:43-44` declares to take
  an `rcutils_allocator_t *`. With the default allocator it is null. The other properties
  of `Lifecycle` hold until then, and after it where the call comes back.
- **A handler outlives its entity** (`UndeclareFails.cfg`, `rmw_subscription.c:171`, also
  `rmw_service.c:157`). A destroy function whose undeclare fails records that in `ret`
  and goes on to free what the handler uses, while the read task still runs. What holds
  is `DeclaredFindEntity`: up to the call that undeclares, everything is there.
- **`rmw_init` fails with `RMW_RET_OK`** (`InitSilentFailure.cfg`, `rmw_init.c:57,61,66`):
  after three of its failures `ret` is what `rmw_init_options_copy` returned.

Others, which no text of the repository speaks of, or a property would only restate:

- At a depth of two or more, `AttachmentMatchesPayload`, `ResponsesKeepTheirNumber` and
  the properties of the two compositions fail, as `CountedMessagesAreStored` does.
- `received_timestamp` is never copied out of the queue (`detail/message_queue.c:45-46`), so
  the three take calls report an uninitialized one.
- `rmw_time_to_us` (`rmw_wait_set.c:154`) computes in `size_t`: with 32 bits a timeout
  of 4295 seconds wraps around.
- The query of a request that is given up for a new one, or does not decode, stays in
  the map for good (`detail/service.c:99`); a response that fails has lost its query
  (`rmw_service.c:262`). The model has both.
- A received key is compared over its own length (`detail/attachment_helpers.c:74`), so
  a proper prefix of a name fills that field, and the empty key the first one not yet
  found. `Named` has all of them; no run sends such a key.

The parts in `KnownLeaks`, and the exceptions in the other properties of `Lifecycle`:

- `rmw_zp_message_queue_fini` frees the slots, not the payloads still queued in them
  (`detail/message_queue.c:25`); `rmw_zp_query_map_fini` frees the arrays, not the queries
  still stored (`detail/query_map.c:62`).
- A publisher whose topic name cannot be allocated jumps past the release of its type
  support (`rmw_publisher.c:125`, label at 187).
- A wait set that fails to initialize frees `wait_set->data`, not set yet, and leaks its
  data (`rmw_wait_set.c:43`).
- `rmw_init` that fails to start the lease task stops the lease task again and leaves
  the read task running on the session it closes (`rmw_init.c:74`). It does not look at
  whether the copy of the options could be finalized either: with `ret` at `RMW_RET_OK`,
  `security` and `discovery` may be left without a word.
- `rmw_context_fini` releases neither the graph guard condition nor the `impl` of its
  options; `rmw_init_options_fini` releases neither that `impl` nor its config, and
  frees an enclave that `rmw_init_options_init` made a string literal
  (`rmw_init_options.c:149`).
- The type name of a subscription, when the call through `allocator->state` comes back
  (`rmw_subscription.c:178`), and the mutex of a guard condition, whose fini result
  `rmw_destroy_guard_condition` does not look at (`rmw_guard_condition.c:53`).
- What a function could not release it reports (`Unreleased`): `ret` is then
  `RMW_RET_ERROR`. When the security options cannot be finalized,
  `rmw_init_options_fini` returns before the discovery options
  (`rmw_init_options.c:151-153`).
- `rmw_zp_query_map_init` checks `keys` after it allocated `queries`
  (`detail/query_map.c:47`): a service without queries passes for created. For this
  reason `HandlerUses` does not ask for them.

## What is proved

For every value of the constants (`Depth >= 1`; the sets and bounds are natural
numbers and finite sets where the code needs it; `Profiles` any set of
`QosProfiles`; the named assumptions are in the modules that declare the
constants):

| Theorem | States |
|---|---|
| `SubscriptionProofs!TypeCorrect`, `IndicesAgree`, `DropsAreSafe`, `PayloadAtFrontOnly`, `DeliveryInOrder`, `SequencesAreReported` | every invariant and the action property of `SubscriptionDepth3` |
| `SubscriptionProofs!AttachmentsMatch`, `CountedIsStored` | `AttachmentMatchesPayload`, `CountedMessagesAreStored`, if `Depth = 1` |
| `SubscriptionProofs!ImplementsMailbox` | `Spec => MailboxSpec` |
| `SubscriptionProofs!DepthOneImplementsHistory` | `Spec => HistorySpec`, if `Depth = 1` |
| `PublishSubscribeProofs!SubscriptionInSystem` | the composition only takes steps of `Subscription`, so all of the above holds in it |
| `PublishSubscribeProofs!SystemImplementsHistory`, `PublicationsInOrder`, `ImplementsTopic` | `HistorySpec`, `OrderOfCalls`, `TopicSpec` of the composition, if `Depth = 1` |
| `PublishSubscribeProofs!InfoIsTheSenders` | `InfoMatchesPublication`, if `Depth = 1` and the keys peers send are the names of fields or begin none (`WholeNames`) |
| `ServiceProofs!TypeCorrect`, `QueriesAreIdentified`, `AnswersMatch`, `AnsweredOnce`, `AcceptedStays` | every property of `ServiceQueries`, for every hash function |
| `ClientProofs!TypeCorrect`, `QueriesAreCounted`, `NumbersAreUnique` | the invariants of a client, for any number of threads |
| `ClientProofs!NumbersAreKept` | `ResponsesKeepTheirNumber`, if `Depth = 1` |
| `RequestReplyProofs!ClientInSystem`, `ServiceInSystem` | the composition only takes steps of `Client` and of `Service`, so all of the above holds in it |
| `RequestReplyProofs!ResponsesMatch`, `ImplementsCall` | `ResponseMatchesRequest` and `SystemSpec => CallSpec`, if `Depth = 1` and the hashes are distinct and not 0 (`HashesDiffer`) |
| `WaitSetProofs!TypeCorrect`, `NoStalePointer`, `NoStaleWaitSet`, `TriggersAreReported` | the safety properties of `WaitShared` |
| `WaitSetProofs!WakeupsAreNotLost` | `NoLostWakeup`, if no two waiters wait on the same queue |
| `LifecycleProofs!TypeCorrect`, `ReleasesAreSafe`, `OnlyLeaksAreLeft`, `CallbacksAreSafe`, `TasksHaveSession` | every property of `Lifecycle`, for any set of profiles |

The arguments:

- **Queue.** `EntityQueueProofs` shows that making room, push, failed push and pop
  keep a queue `WellFormed`: typed, its indices `size` apart, no payload but in the
  front slot, and, when full, a front payload that was written. The last part is
  why dropping is safe, and is not inductive without the rest: a failed push may
  blank the front slot, but only of a queue that is not full. `SubscriptionProofs` adds
  that what is in the front slot is newer than what was delivered, which gives the
  order. With a depth of one a queue is `Intact`: what it counts is whole, since a
  push that fails leaves it empty.
- **Topic.** `TopicInv` relates the log, the threads that publish and the samples: the
  numbers in the log and those threads hold are distinct and below the next one; a
  call that took its number when the log had `began` entries has a larger number than
  each of those, which is what a thread between its number and its put has to carry
  along; samples arrive at growing positions. With the order of delivery this gives
  `OrderOfCalls`. Each step then maps to a step of `Topic`: a put appends, a take
  moves the position to that of the message it hands out, all others stutter.
- **Attachments.** The loop of `deserialize_attachment` is a function on the turns it
  has left. That it is defined, and that the fields found so far are those of the
  first pair of each name, is shown by induction on the turns, as an argument about
  the first turn at which it would fail. `InfoInv` then says that what a publication
  wrote is readable and what is queued was read from it, so that the info of a
  message taken is the one its sender attached. A key that is a proper prefix of a
  name fills the wrong field, hence `WholeNames`.
- **Waiting.** The invariant ties the program counter of a waiter to the entities it
  may still be attached to (those its loop has not detached yet), and says that an
  attachment to a waiter is under a notifier's mutex as long as that notifier
  signals. For lost wakeups it says that from the moment an entity has been checked
  until the waiter wakes, the entity is attached to that waiter and either empty, or
  about to be notified, or `triggered` is set. Two waiters on one queue break it, by
  taking over the attachment: hence the hypothesis, which rcl's use meets.
- **Query map.** The invariant is that of the map alone (typed, keys in use distinct,
  each the hash of its query), with what each responder holds. That `get_index`
  returns an index it was asked for is a least-element argument. For `AnsweredOnce` a
  second one places each query: in one slot in use, with one responder, or dropped,
  and none of these before it arrived.
- **Client.** `num_in_flight` lies between what it has to cover (queries in flight
  and threads past their increment) and the numbers given out, less the threads not
  counted yet. The upper half bounds it, and makes the decrement safe.
- **Calls.** `RequestReplyProofs!PlaceInv` places each request: sent and on its way,
  received, queued, handed to the application, with one responder who holds its own
  query, answered and on its way back, queued at the client, returned. A request is
  in one of these at a time, so no step can do its part twice. The two hypotheses are
  used once each: the depth makes header and payload of a queue belong to one message
  (`Intact`), the hashes make the query found that of the header.

- **Lifecycle.** First, facts about `Ownership` alone, no state involved: `Sound(k)`
  says of the tables of one entity that wherever a step fails, what it releases was
  acquired, in an order in which it can be released, and is all but the known leaks;
  that a step comes after what it needs; that destroying releases the rest; that a
  release whose failure nobody reports is of a part `KnownLeaks` names. Each of
  the nine entities is shown sound by computing with its table (`GotoInOrder` and
  `Gotos` say what a `goto` into a list of labels releases). `IInv` then places the
  operation in progress: the first n steps of the table are done, or what is left to
  release is there, in order, and not yet released; an entity no operation is on has
  all its parts or none, and the session and its tasks are those `rmw_shutdown` has
  not stopped. `ReleasedOnce` alone says nothing of what comes after the next part,
  which is why all of the list is in the invariant. For `NothingIsLeft` with releases
  that fail, `Tolerated` says of each part still to release, and able to fail, that it
  is a known leak, or an error is or will be returned. A destroy function never releases
  a task or the session, and `rmw_shutdown` nothing else: so neither disturbs the
  other. For `DeclaredFindEntity`, the declaration is the last
  part acquired and the first whose release is called, and the profile is adapted
  before it (`Follows`), with a depth of at least one (`AdaptedDepth`); this is also what
  justifies `DepthAssumption`.

Every safety property of a passing run is a theorem; the violated ones have their
counterexample. Left to TLC is liveness (`MessageWakes`, `TimedWaitReturns` and the
violated `LastPartReturns`), which needs fairness and is out of the prover's reach.

## Not modelled, and the plan

Not modelled:

- zenoh-pico itself and the Micro-CDR encoding: libraries outside this repository, of
  which only the outcomes appear;
- the text of key expressions and type hashes (`detail/ros_topic_name_to_zenoh_key.c`):
  which topics share a key is formatting that no property is about; that the string is
  owned and freed is in `Ownership`;
- the arithmetic of `rmw_time_to_us` and of `detail/time.c`: `WaitSet` has three kinds of
  timeout (none, zero, some), and the clock may fail;
- the stubs: graph, events, features, dynamic messages, loaned and serialized
  publications, callbacks on new messages, content filters.

The plan, in this order:

1. **Hypotheses.** How far `Depth = 1` can be dropped: which parts of `TopicInv` and
   `PlaceInv` hold at any depth, as `LatestMailbox` does.
2. **Liveness.** The safety half of `TimedWaitReturns`: a state function that each
   fair step decreases, so that only the fairness itself is left to TLC.
3. **Conversions.** An adapted profile is adapted to itself.
