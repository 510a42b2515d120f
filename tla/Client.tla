------------------------------- MODULE Client -------------------------------
(***************************************************************************)
(* A client (detail/client.c, rmw_client.c): application threads send      *)
(* requests as zenoh queries and take the replies out of a message queue;  *)
(* zenoh's read task calls the data handler for each reply to a query and, *)
(* when the query is over, its dropper.  Both are given a pointer to the   *)
(* client, which num_in_flight and is_shutdown are there to keep alive.    *)
(* A query is the sequence number of its request.                          *)
(***************************************************************************)
EXTENDS EntityQueue, FiniteSets

CONSTANTS
  Senders,           \* application threads in rmw_send_request
  MaxRequests,       \* bound on the sequence numbers
  DestroyInFlight    \* whether rmw_destroy_client may be called with queries in flight

ASSUME SendersAssumption == IsFiniteSet(Senders)
ASSUME ClientAssumption == MaxRequests \in Nat /\ DestroyInFlight \in BOOLEAN

Requests == 1 .. MaxRequests

VARIABLES
  sequence_number,   \* the next one
  num_in_flight,     \* what the client counts
  is_shutdown,       \* no code sets it
  allocated,         \* whether the client has not been freed
  reply_queue,
  sender,            \* of each thread: where it is in rmw_send_request, its number
  in_flight,         \* queries zenoh has a closure for
  arrived,           \* replies that reached rmw_zp_client_data_handler so far
  reply_to,          \* history: the query each of them was a reply to
  taken              \* history: replies rmw_take_response handed out

vars == <<sequence_number, num_in_flight, is_shutdown, allocated, reply_queue, sender,
          in_flight, arrived, reply_to, taken>>

queueVars == <<reply_queue, arrived, reply_to, taken>>

Idle == [pc |-> "idle", number |-> 0]

Init == /\ sequence_number = 1
        /\ num_in_flight = 0
        /\ is_shutdown = FALSE
        /\ allocated = TRUE
        /\ reply_queue = QueueInit(Depth)
        /\ sender = [t \in Senders |-> Idle]
        /\ in_flight = {}
        /\ arrived = 0
        /\ reply_to = [m \in Messages |-> 0]
        /\ taken = {}

-----------------------------------------------------------------------------
(* rmw_send_request.                                                       *)

\* A call begins: the request serializes and is given its sequence number,
\* under sequence_number_mutex.  (Before that a call may fail and change nothing.)
GetNextSequenceNumber(t) ==
  /\ allocated /\ ~ is_shutdown
  /\ sender[t] = Idle
  /\ sequence_number <= MaxRequests
  /\ sender' = [sender EXCEPT ![t] = [pc |-> "numbered", number |-> sequence_number]]
  /\ sequence_number' = sequence_number + 1
  /\ UNCHANGED <<num_in_flight, is_shutdown, allocated, in_flight, queueVars>>

SendRequestFailsReturnsNumber(t) ==
  /\ sender[t].pc = "numbered"
  /\ sender' = [sender EXCEPT ![t] = Idle]
  /\ sequence_number' = sequence_number - 1
  /\ UNCHANGED <<num_in_flight, is_shutdown, allocated, in_flight, queueVars>>

\* There is no clock, or the attachment does not serialize: the number is lost.
SendRequestFails(t) ==
  /\ sender[t].pc = "numbered"
  /\ sender' = [sender EXCEPT ![t] = Idle]
  /\ UNCHANGED <<sequence_number, num_in_flight, is_shutdown, allocated, in_flight, queueVars>>

IncrementForgotten(t) ==
  /\ sender[t].pc = "numbered"
  /\ sender' = [sender EXCEPT ![t].pc = "counted"]
  /\ UNCHANGED <<num_in_flight, sequence_number, is_shutdown, allocated, in_flight, queueVars>>

\* The query is counted before zenoh can call the dropper for it.
IncrementQueriesInFlight(t) ==
  /\ sender[t].pc = "numbered"
  /\ sender' = [sender EXCEPT ![t].pc = "counted"]
  /\ num_in_flight' = num_in_flight + 1
  /\ UNCHANGED <<sequence_number, is_shutdown, allocated, in_flight, queueVars>>

\* z_get takes the closure; its replies may come before it returns.
ZGet(t) ==
  /\ sender[t].pc = "counted"
  /\ sender' = [sender EXCEPT ![t] = Idle]
  /\ in_flight' = in_flight \cup {sender[t].number}
  /\ UNCHANGED <<sequence_number, num_in_flight, is_shutdown, allocated, queueVars>>

\* The dropper's decrement.  num_in_flight is a size_t: below 0 it wraps around.
Decremented(n) == IF n = 0 THEN MaxRequests + 1 ELSE n - 1

\* z_get fails.  Whether zenoh-pico calls the dropper then depends on where.
ZGetFails(t) ==
  /\ sender[t].pc = "counted"
  /\ sender' = [sender EXCEPT ![t] = Idle]
  /\ num_in_flight' \in {num_in_flight, Decremented(num_in_flight)}
  /\ UNCHANGED <<sequence_number, is_shutdown, allocated, in_flight, queueVars>>

-----------------------------------------------------------------------------
(* The read task.  With the client freed, what these calls do is undefined. *)

\* rmw_zp_client_data_handler gets a reply to query q, with an attachment.
ReplyArrives(q) ==
  /\ allocated
  /\ q \in in_flight
  /\ arrived < MaxArrivals
  /\ arrived' = arrived + 1
  /\ reply_to' = [reply_to EXCEPT ![arrived'] = q]
  /\ UNCHANGED <<sequence_number, num_in_flight, is_shutdown, allocated, sender, in_flight, taken>>

\* The reply is queued.
AddNewReply(q) == /\ ~ is_shutdown
                  /\ ReplyArrives(q)
                  /\ ~ IsFull(MakeRoom(reply_queue))
                  /\ reply_queue' = PushBack(MakeRoom(reply_queue), arrived')

\* push_back fails, after room was made.
AddNewReplyFails(q) == /\ ~ is_shutdown
                       /\ ReplyArrives(q)
                       /\ reply_queue' \in PushFails(MakeRoom(reply_queue), arrived')

\* The reply is an error or has no attachment, or the client is shut down.
IgnoreReply(q) == ReplyArrives(q) /\ UNCHANGED reply_queue

DataDropperCountsTwice(q) ==
  /\ allocated
  /\ q \in in_flight
  /\ in_flight' = in_flight \ {q}
  /\ num_in_flight' = Decremented(Decremented(num_in_flight))
  /\ allocated' = ~ (is_shutdown /\ num_in_flight' = 0)
  /\ UNCHANGED <<sequence_number, is_shutdown, sender, queueVars>>

\* Query q is over: rmw_zp_client_data_dropper.  The last one frees a client that
\* is shut down.
DataDropper(q) ==
  /\ allocated
  /\ q \in in_flight
  /\ in_flight' = in_flight \ {q}
  /\ num_in_flight' = Decremented(num_in_flight)
  /\ allocated' = ~ (is_shutdown /\ num_in_flight' = 0)
  /\ UNCHANGED <<sequence_number, is_shutdown, sender, queueVars>>

-----------------------------------------------------------------------------
(* The application again.                                                  *)

\* rmw_take_response.  On an empty queue it returns RMW_RET_OK, with taken false.
TakeResponse ==
  /\ allocated
  /\ reply_queue.size > 0
  /\ reply_queue' = PopFront(reply_queue)
  /\ \E r \in DeserializeResults(Front(reply_queue).payload) :
       taken' = IF r = "RMW_RET_OK" THEN taken \cup {Popped(reply_queue)} ELSE taken
  /\ UNCHANGED <<sequence_number, num_in_flight, is_shutdown, allocated, sender, in_flight,
                 arrived, reply_to>>

\* rmw_destroy_client, with no other call on the client in progress: it frees
\* the client whatever is in flight.
DestroyClient ==
  /\ allocated
  /\ \A t \in Senders : sender[t] = Idle
  /\ DestroyInFlight \/ in_flight = {}
  /\ allocated' = FALSE
  /\ UNCHANGED <<sequence_number, num_in_flight, is_shutdown, sender, in_flight, queueVars>>

-----------------------------------------------------------------------------
Next == \/ \E t \in Senders : \/ GetNextSequenceNumber(t) \/ SendRequestFails(t)
                              \/ IncrementQueriesInFlight(t) \/ ZGet(t) \/ ZGetFails(t)
        \/ \E q \in Requests : \/ AddNewReply(q) \/ AddNewReplyFails(q) \/ IgnoreReply(q)
                               \/ DataDropper(q)
        \/ TakeResponse \/ DestroyClient

Spec == Init /\ [][Next]_vars

-----------------------------------------------------------------------------
(* Properties.                                                             *)

\* The state keeps its types; the count of queries is small or has wrapped around.
TypeOK ==
  /\ sequence_number \in 1 .. MaxRequests + 1
  /\ num_in_flight \in 0 .. MaxRequests + 1
  /\ is_shutdown \in BOOLEAN
  /\ allocated \in BOOLEAN
  /\ reply_queue \in MessageQueues(Depth, Messages)
  /\ sender \in [Senders -> [pc : {"idle", "numbered", "counted"}, number : 0 .. MaxRequests]]
  /\ in_flight \subseteq Requests
  /\ arrived \in 0 .. MaxArrivals
  /\ reply_to \in [Messages -> 0 .. MaxRequests]
  /\ taken \subseteq Slots(Messages)

Counted == {t \in Senders : sender[t].pc = "counted"}

\* Every query zenoh has a closure for, or is about to get one for, is counted,
\* in whatever order senders and droppers run: the count never wraps around.
CountCoversInFlight ==
  num_in_flight \in Cardinality(in_flight) + Cardinality(Counted) .. MaxRequests

\* Requests sent at the same time, failed or not, never share a sequence number,
\* by which a reply is told from another.
SequenceNumbersUnique ==
  /\ \A t, u \in Senders : sender[t].number = sender[u].number /\ sender[t] # Idle => t = u
  /\ \A t \in Senders : sender[t].number \notin in_flight \cup {reply_to[m] : m \in 1 .. arrived}

\* A response handed to the application comes with the sequence number of the
\* reply it was decoded from: rcl finds the request it answers by that number.
ResponsesKeepTheirNumber ==
  \A message \in taken :
    message.payload \in Messages /\ message.attachment_data = message.payload

\* "there is no way to cancel a query once it is in-flight via the z_get() zenoh-c
\* API"; num_in_flight and is_shutdown "are used to avoid" that it is
\* answered with the client freed (detail/client.h).
ClosuresPointToClient == in_flight # {} => allocated
=============================================================================
