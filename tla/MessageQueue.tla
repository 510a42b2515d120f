---------------------------- MODULE MessageQueue ----------------------------
(***************************************************************************)
(* The ring buffer of detail/message_queue.c, the store of every           *)
(* subscription, client and service.  A message is the number of the       *)
(* sample it arrived with; a slot keeps, for each part the code writes     *)
(* separately, the sample that part came from.  The callers hold the       *)
(* mutex of the queue, so each function is one operator on the queue.      *)
(***************************************************************************)
EXTENDS Integers

CONSTANTS
  Uninit,     \* what malloc left in a slot that was never written
  Moved       \* a payload slice that z_move, z_take or z_drop left null

ASSUME BlankAssumption == Uninit \notin Nat /\ Moved \notin Nat /\ Uninit # Moved

\* rmw_zp_message_t over the samples S.  The three fields of
\* rmw_zp_attachment_data_t are one value: the sample that wrote to it last.
Slots(S) == [received_timestamp : {Uninit} \cup S,
             attachment_data    : {Uninit} \cup S,
             payload            : {Uninit, Moved} \cup S]

UninitSlot == [received_timestamp |-> Uninit,
               attachment_data    |-> Uninit,
               payload            |-> Uninit]

\* rmw_zp_message_queue_t with a capacity of n slots.
MessageQueues(n, S) == [messages  : [0 .. n - 1 -> Slots(S)],
                        capacity  : {n},
                        size      : 0 .. n,
                        idx_front : 0 .. n - 1,
                        idx_back  : 0 .. n - 1]

\* rmw_zp_message_queue_init: allocate() does not clear the slots.
QueueInit(n) == [messages  |-> [i \in 0 .. n - 1 |-> UninitSlot],
                 capacity  |-> n,
                 size      |-> 0,
                 idx_front |-> 0,
                 idx_back  |-> 0]

Front(q) == q.messages[q.idx_front]

AdvanceNoWrap(q, i) == i + 1

\* The next index after i.
Advance(q, i) == IF i + 1 = q.capacity THEN 0 ELSE i + 1

\* The copy pop_front hands out: the attachment is cloned and the payload
\* taken, but received_timestamp of the caller's struct is never written.
Popped(q) == [received_timestamp |-> Uninit,
              attachment_data    |-> Front(q).attachment_data,
              payload            |-> Front(q).payload]

PopFrontKeepsPayload(q) ==
  [q EXCEPT !.size      = @ - 1,
            !.idx_front = Advance(q, @)]

\* rmw_zp_message_queue_pop_front on a queue that is not empty: the payload of
\* the front slot is taken or dropped, which leaves it null either way.
PopFront(q) ==
  [q EXCEPT !.messages[q.idx_front].payload = Moved,
            !.size      = @ - 1,
            !.idx_front = Advance(q, @)]

\* rmw_zp_message_queue_push_back refuses a message for a queue with no free slot.
IsFull(q) == q.size = q.capacity

PushBackForgetsIndex(q, m) ==
  [q EXCEPT !.messages[q.idx_front] = [received_timestamp |-> m,
                                       attachment_data    |-> m,
                                       payload            |-> m],
            !.size = @ + 1]

PushBackForgetsAttachment(q, m) ==
  [q EXCEPT !.messages[q.idx_front].payload = m,
            !.size     = @ + 1,
            !.idx_back = Advance(q, @)]

\* What push_back makes of a queue that is not full.  The slot it fills is the
\* one at idx_front.
PushBack(q, m) ==
  [q EXCEPT !.messages[q.idx_front] = [received_timestamp |-> m,
                                       attachment_data    |-> m,
                                       payload            |-> m],
            !.size     = @ + 1,
            !.idx_back = Advance(q, @)]

\* What push_back may leave in slot s when it gives up half way: nothing
\* written (no clock); only the timestamp (no attachment field reached); some
\* or all attachment fields (a pair or the payload does not decode); and, when
\* decoding the payload fails, the payload as it was or null.
FailedSlots(s, m) ==
  LET stamped  == [s EXCEPT !.received_timestamp = m]
      attached == [stamped EXCEPT !.attachment_data = m]
  IN  {s, stamped, attached, [attached EXCEPT !.payload = Moved]}

PushFailsCounts(q, m) ==
  {[q EXCEPT !.messages[q.idx_front] = s, !.size = @ + 1] : s \in FailedSlots(Front(q), m)}

\* The queues push_back may leave when it returns RMW_RET_ERROR: a full one is
\* left as it was.
PushFails(q, m) ==
  IF IsFull(q) THEN {q}
  ELSE {[q EXCEPT !.messages[q.idx_front] = s] : s \in FailedSlots(Front(q), m)}
=============================================================================
