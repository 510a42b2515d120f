------------------------------ MODULE Ownership ------------------------------
(***************************************************************************)
(* What each rmw entity is made of, in the order in which its create       *)
(* function acquires the parts, its gotos undo them, and its destroy       *)
(* function releases them.  "handle" is the rmw_*_t, "data" the rmw_zp_*_t *)
(* behind it, "name" the topic, service or node name.                      *)
(***************************************************************************)
EXTENDS Integers, Sequences

\* A step of a create function: a part to acquire, and the parts released when
\* that fails.  The parts in Checks are conditions, which hold nothing.
Get(part, undo) == [part |-> part, undo |-> undo]
Checks == {"adapted_qos", "keyexpr", "config_insert"}

GotoAbove(unwind, part) ==
  LET i == CHOOSE i \in DOMAIN unwind : unwind[i] = part
  IN  SubSeq(unwind, IF i = 1 THEN 1 ELSE i - 1, Len(unwind))

GotoBelow(unwind, part) ==
  SubSeq(unwind, 1 + CHOOSE i \in DOMAIN unwind : unwind[i] = part, Len(unwind))

\* Where a goto leads: the rest of unwind from the release of part on.
Goto(unwind, part) ==
  SubSeq(unwind, CHOOSE i \in DOMAIN unwind : unwind[i] = part, Len(unwind))

\* detail/type_support.c, alike for messages and services.
TypeSupportFini == <<"type_name">>

\* What is freed through the pointer passed for the allocator.  The subscription
\* code passes allocator->state: null with the default allocator, and otherwise
\* whatever an application keeps there.
ThroughState(k) == IF k = "subscription" THEN {"type_name"} ELSE {}

\* What rmw_zp_message_queue_fini and rmw_zp_query_map_fini do not look for, and
\* nobody else releases: the payloads still queued and the queries still stored.
Stored(k) == CASE k \in {"subscription", "client"} -> {"payloads"}
               [] k = "service" -> {"payloads", "query_clones"}
               [] OTHER -> {}

Mutexes == {"sequence_number_mutex", "message_queue_mutex", "condition_mutex",
            "in_flight_mutex", "reply_queue_mutex", "internal_mutex"}

\* The parts whose release returns a result: it may fail at any time.
Fallible == Mutexes \cup {"declaration", "condition_variable", "security", "discovery"}

-----------------------------------------------------------------------------
(* Publisher.                                                              *)

PublisherFini == <<"sequence_number_mutex">>

PublisherUnwind ==
  <<"keyexpr_c_str", "type_hash_c_str">> \o TypeSupportFini \o <<"type_support", "name">>
    \o PublisherFini \o <<"data", "handle">>

PublisherInit == << Get("adapted_qos", Goto(PublisherUnwind, "data")),
                    Get("sequence_number_mutex", Goto(PublisherUnwind, "data")) >>

CreatePublisher ==
  LET fail(part) == Goto(PublisherUnwind, part)
  IN  << Get("handle", <<>>), Get("data", fail("handle")) >>
      \o PublisherInit
      \o << Get("type_support", fail("name")), Get("type_name", fail("type_support")),
            Get("name", fail("sequence_number_mutex")),
            Get("type_hash_c_str", fail("type_name")),
            Get("keyexpr_c_str", fail("type_hash_c_str")),
            Get("declaration", fail("keyexpr_c_str")) >>

DestroyPublisher ==
  <<"declaration">> \o TypeSupportFini \o <<"type_support", "name">>
    \o PublisherFini \o <<"data", "handle">>

-----------------------------------------------------------------------------
(* Subscription.                                                           *)

SubscriptionFini == <<"condition_mutex", "messages", "message_queue_mutex">>

SubscriptionUnwind ==
  <<"keyexpr_c_str", "type_hash_c_str", "name">> \o TypeSupportFini \o <<"type_support">>
    \o SubscriptionFini \o <<"data", "handle">>

SubscriptionInit ==
  LET fail(part) == Goto(SubscriptionUnwind, part)
  IN  << Get("adapted_qos", fail("data")), Get("message_queue_mutex", fail("data")),
         Get("messages", fail("message_queue_mutex")),
         Get("condition_mutex", fail("messages")) >>

CreateSubscription ==
  LET fail(part) == Goto(SubscriptionUnwind, part)
  IN  << Get("handle", <<>>), Get("data", fail("handle")) >>
      \o SubscriptionInit
      \o << Get("type_support", fail("condition_mutex")),
            Get("type_name", fail("type_support")), Get("name", fail("type_name")),
            Get("type_hash_c_str", fail("name")),
            Get("keyexpr_c_str", fail("type_hash_c_str")),
            Get("declaration", fail("keyexpr_c_str")) >>

DestroySubscriptionLate ==
  <<"name">> \o TypeSupportFini \o <<"type_support">>
    \o SubscriptionFini \o <<"declaration", "data", "handle">>

DestroySubscription ==
  <<"declaration", "name">> \o TypeSupportFini \o <<"type_support">>
    \o SubscriptionFini \o <<"data", "handle">>

-----------------------------------------------------------------------------
(* Service.                                                                *)

QueryMapFini == <<"keys", "queries">>

ServiceFini == <<"condition_mutex", "message_queue_mutex">> \o QueryMapFini \o <<"messages">>

ServiceUnwind ==
  <<"keyexpr_c_str", "type_hash_c_str", "name">> \o TypeSupportFini \o <<"type_support">>
    \o ServiceFini \o <<"data", "handle">>

\* That "queries" could not be allocated goes unnoticed.
ServiceInit ==
  LET fail(part) == Goto(ServiceUnwind, part)
  IN  << Get("adapted_qos", fail("data")), Get("messages", fail("data")),
         Get("keys", fail("messages")), Get("queries", fail("keys")),
         Get("message_queue_mutex", fail("keys")),
         Get("condition_mutex", fail("message_queue_mutex")) >>

CreateService ==
  LET fail(part) == Goto(ServiceUnwind, part)
  IN  << Get("handle", <<>>), Get("data", fail("handle")) >>
      \o ServiceInit
      \o << Get("type_support", fail("condition_mutex")),
            Get("type_name", fail("type_support")), Get("name", fail("type_name")),
            Get("type_hash_c_str", fail("name")),
            Get("keyexpr_c_str", fail("type_hash_c_str")),
            Get("keyexpr", fail("keyexpr_c_str")),
            Get("declaration", fail("keyexpr_c_str")) >>

DestroyService ==
  <<"declaration", "keyexpr_c_str", "name">> \o TypeSupportFini \o <<"type_support">>
    \o ServiceFini \o <<"data", "handle">>

-----------------------------------------------------------------------------
(* Client.                                                                 *)

ClientFini == <<"in_flight_mutex", "reply_queue_mutex", "messages",
                "condition_mutex", "sequence_number_mutex">>

ClientUnwind ==
  <<"keyexpr_c_str", "type_hash_c_str", "name">> \o TypeSupportFini \o <<"type_support">>
    \o ClientFini \o <<"data", "handle">>

ClientInit ==
  LET fail(part) == Goto(ClientUnwind, part)
  IN  << Get("adapted_qos", fail("data")), Get("sequence_number_mutex", fail("data")),
         Get("condition_mutex", fail("sequence_number_mutex")),
         Get("messages", fail("condition_mutex")),
         Get("reply_queue_mutex", fail("messages")),
         Get("in_flight_mutex", fail("reply_queue_mutex")) >>

CreateClient ==
  LET fail(part) == Goto(ClientUnwind, part)
  IN  << Get("handle", <<>>), Get("data", fail("handle")) >>
      \o ClientInit
      \o << Get("type_support", fail("in_flight_mutex")),
            Get("type_name", fail("type_support")), Get("name", fail("type_name")),
            Get("type_hash_c_str", fail("name")),
            Get("keyexpr_c_str", fail("type_hash_c_str")),
            Get("keyexpr", fail("keyexpr_c_str")) >>

DestroyClient ==
  <<"keyexpr_c_str", "name">> \o TypeSupportFini \o <<"type_support">>
    \o ClientFini \o <<"data", "handle">>

-----------------------------------------------------------------------------
(* Guard condition, wait set, node.                                        *)

CreateGuardCondition ==
  << Get("handle", <<>>), Get("data", <<"handle">>),
     Get("internal_mutex", <<"data", "handle">>) >>

DestroyGuardCondition == <<"internal_mutex", "data", "handle">>

WaitSetFini == <<"condition_mutex", "condition_variable">>

WaitSetInit == << Get("condition_mutex", <<"handle">>),
                  Get("condition_variable", <<"condition_mutex", "handle">>) >>

\* When rmw_zp_wait_set_init fails, what is freed as the data is wait_set->data,
\* which is still null.
CreateWaitSet ==
  << Get("handle", <<>>), Get("data", <<"handle">>) >> \o WaitSetInit

DestroyWaitSet == WaitSetFini \o <<"data", "handle">>

NodeUnwind == <<"data", "namespace", "name", "handle">>

CreateNode == << Get("handle", <<>>), Get("name", Goto(NodeUnwind, "handle")),
                 Get("namespace", Goto(NodeUnwind, "name")),
                 Get("data", Goto(NodeUnwind, "namespace")) >>

DestroyNode == <<"data", "namespace", "name", "handle">>

-----------------------------------------------------------------------------
(* Init options and context.                                               *)

InitOptionsUnwind == <<"config", "options_impl", "discovery">>

InitOptionsInit ==
  << Get("discovery", <<>>), Get("options_impl", Goto(InitOptionsUnwind, "discovery")),
     Get("config", <<>>), Get("config_insert", InitOptionsUnwind) >>

\* It frees the enclave, but neither its impl nor the config in it.
InitOptionsFini == <<"enclave", "security", "discovery">>

\* rmw_init_options_copy, before the copy is in the context.
InitOptionsCopy ==
  LET undo == <<"enclave", "discovery", "security", "impl">>
  IN  << Get("security", Goto(undo, "impl")), Get("discovery", Goto(undo, "security")),
         Get("enclave", Goto(undo, "discovery")), Get("options_impl", undo) >>

\* Under fail_start_lease_task it is the lease task that is stopped.
ContextUnwind ==
  <<"lease_task", "graph_guard_condition", "session">> \o InitOptionsFini \o <<"impl">>

InitContext ==
  LET fail(part) == Goto(ContextUnwind, part)
  IN  << Get("impl", <<>>) >>
      \o InitOptionsCopy
      \o << Get("session", fail("enclave")), Get("graph_guard_condition", fail("session")),
            Get("read_task", fail("graph_guard_condition")),
            Get("lease_task", fail("lease_task")) >>

ShutdownContext == <<"lease_task", "read_task", "session">>

ContextFini == <<"impl">> \o InitOptionsFini
=============================================================================
