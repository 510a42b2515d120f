---------------------------- MODULE Subscription ----------------------------
(***************************************************************************)
(* A subscription (detail/subscription.c, rmw_subscription.c): zenoh's     *)
(* read task puts samples into its message queue while an executor thread  *)
(* takes them out, one by one or with rmw_take_sequence.  Each operation   *)
(* on the queue holds message_queue_mutex, so it is one step;              *)
(* rmw_take_sequence takes the mutex anew for each message.  Waiting for   *)
(* the queue is modelled in WaitSet.                                       *)
(***************************************************************************)
EXTENDS EntityQueue, Sequences

CONSTANT MaxCount   \* bound on the count an application asks of rmw_take_sequence

ASSUME MaxCountAssumption == MaxCount \in Nat

VARIABLES
  message_queue,
  arrived,       \* samples that reached rmw_zp_sub_data_handler so far
  taken,         \* the rmw_zp_message_t last popped for the application
  delivered,     \* history: payloads handed over with RMW_RET_OK
  sequence,      \* locals of a running rmw_take_sequence
  ret,           \* what the last finished take call returned
  is_shutdown    \* of the context

vars == <<message_queue, arrived, taken, delivered, sequence, ret, is_shutdown>>

Init == /\ message_queue = QueueInit(Depth)
        /\ arrived = 0
        /\ taken = UninitSlot
        /\ delivered = <<>>
        /\ sequence = [active |-> FALSE, count |-> 0, taken |-> 0]
        /\ ret = "RMW_RET_OK"
        /\ is_shutdown = FALSE

-----------------------------------------------------------------------------
(* The read task: rmw_zp_sub_data_handler and add_new_message.             *)

\* A sample comes in; zp_stop_read_task ends the arrivals.
SampleArrives == /\ ~ is_shutdown
                 /\ arrived < MaxArrivals
                 /\ arrived' = arrived + 1
                 /\ UNCHANGED <<taken, delivered, sequence, ret, is_shutdown>>

AddNewMessage == /\ SampleArrives
                 /\ ~ IsFull(MakeRoom(message_queue))
                 /\ message_queue' = PushBack(MakeRoom(message_queue), arrived')

\* push_back fails, after room was made.
AddNewMessageFails == /\ SampleArrives
                      /\ message_queue' \in PushFails(MakeRoom(message_queue), arrived')

\* The handler returns early for a sample without an attachment.
IgnoreSample == SampleArrives /\ UNCHANGED message_queue

-----------------------------------------------------------------------------
(* The application.                                                        *)

\* What copying payload p into a serialized message may return: resizing the
\* buffer can fail, and is not needed for the zero bytes of a null slice.
CopyResults(p) == IF p = Moved THEN {"RMW_RET_OK"} ELSE ReturnCodes

PopNextMessagePeeks(r) ==
  /\ message_queue.size > 0
  /\ message_queue' = IF r = "RMW_RET_OK" THEN message_queue ELSE PopFront(message_queue)
  /\ taken' = Popped(message_queue)
  /\ delivered' = IF r = "RMW_RET_OK"
                    THEN Append(delivered, Front(message_queue).payload)
                    ELSE delivered

\* take_one and take_one_serialized on a queue that holds a message: the
\* message is popped under the mutex, then decoded or copied with result r, and
\* is gone whatever r is.
PopNextMessage(r) ==
  /\ message_queue.size > 0
  /\ message_queue' = PopFront(message_queue)
  /\ taken' = Popped(message_queue)
  /\ delivered' = IF r = "RMW_RET_OK"
                    THEN Append(delivered, Front(message_queue).payload)
                    ELSE delivered

\* pop_next_message finds the queue empty: both return RMW_RET_ERROR.
NothingToPop == message_queue.size = 0 /\ UNCHANGED <<message_queue, taken, delivered>>

TakeOne(r) ==
  \/ PopNextMessage(r) /\ r \in DeserializeResults(Front(message_queue).payload)
  \/ NothingToPop /\ r = "RMW_RET_ERROR"

TakeOneSerialized(r) ==
  \/ PopNextMessage(r) /\ r \in CopyResults(Front(message_queue).payload)
  \/ NothingToPop /\ r = "RMW_RET_ERROR"

\* rmw_take and rmw_take_with_info.  One thread takes from a subscription.
Take == /\ ~ sequence.active
        /\ \E r \in ReturnCodes : TakeOne(r) /\ ret' = r
        /\ UNCHANGED <<arrived, sequence, is_shutdown>>

\* rmw_take_serialized_message and rmw_take_serialized_message_with_info.
TakeSerialized == /\ ~ sequence.active
                  /\ \E r \in ReturnCodes : TakeOneSerialized(r) /\ ret' = r
                  /\ UNCHANGED <<arrived, sequence, is_shutdown>>

\* rmw_take_sequence up to its loop; with a count of 0 it returns at once.
TakeSequence == /\ ~ sequence.active
                /\ \E n \in 1 .. MaxCount :
                     sequence' = [active |-> ~ is_shutdown, count |-> n, taken |-> 0]
                /\ ret' = IF is_shutdown THEN "RMW_RET_OK" ELSE ret
                /\ UNCHANGED <<message_queue, arrived, taken, delivered, is_shutdown>>

TakeSequenceStepIgnoresError ==
  /\ sequence.active
  /\ \E r \in ReturnCodes :
       /\ TakeOne(r)
       /\ sequence' = [sequence EXCEPT !.taken = @ + 1,
                                       !.active = @ /\ sequence.taken + 1 < sequence.count]
       /\ ret' = IF sequence'.active THEN ret ELSE r
  /\ UNCHANGED <<arrived, is_shutdown>>

\* One turn of the loop of rmw_take_sequence: an error ends it and is returned,
\* the messages taken before it are still reported in taken.
TakeSequenceStep ==
  /\ sequence.active
  /\ \E r \in ReturnCodes :
       LET n == sequence.taken + (IF r = "RMW_RET_OK" THEN 1 ELSE 0)
       IN  /\ TakeOne(r)
           /\ sequence' = [sequence EXCEPT !.taken = n,
                                           !.active = r = "RMW_RET_OK" /\ n < sequence.count]
           /\ ret' = IF sequence'.active THEN ret ELSE r
  /\ UNCHANGED <<arrived, is_shutdown>>

\* rmw_shutdown stops the read task and closes the session.
Shutdown == /\ ~ is_shutdown
            /\ is_shutdown' = TRUE
            /\ UNCHANGED <<message_queue, arrived, taken, delivered, sequence, ret>>

-----------------------------------------------------------------------------
Next == \/ AddNewMessage \/ AddNewMessageFails \/ IgnoreSample
        \/ Take \/ TakeSerialized
        \/ TakeSequence \/ TakeSequenceStep
        \/ Shutdown

Spec == Init /\ [][Next]_vars

-----------------------------------------------------------------------------
(* Properties.                                                             *)

\* The state keeps its types; the indices of the ring never leave its slots.
TypeOK == /\ message_queue \in MessageQueues(Depth, Messages)
          /\ arrived \in 0 .. MaxArrivals
          /\ taken \in Slots(Messages)
          /\ delivered \in Seq(Messages \cup Blanks)
          /\ sequence \in [active : BOOLEAN, count : 0 .. MaxCount, taken : 0 .. MaxCount]
          /\ ret \in ReturnCodes
          /\ is_shutdown \in BOOLEAN

\* size and the two indices of the ring agree after any run of pushes, drops,
\* takes and pushes that gave up half way: idx_back is size slots after
\* idx_front, which wraps around.
RingIsConsistent ==
  LET end == message_queue.idx_front + message_queue.size
  IN  message_queue.idx_back = IF end < Depth THEN end ELSE end - Depth

\* When add_new_message finds the queue full, the payload it drops to make room
\* is one that was written: z_drop is never called on what malloc left.  (A take
\* has no such guarantee: see taken.)
DropsWrittenPayload ==
  message_queue.size = Depth => Front(message_queue).payload \in Messages

\* No slot but the front one ever holds a payload, so no sample is handed out
\* by way of a slot the ring has moved past, however often it wraps around.
OnlyFrontHoldsPayload ==
  \A i \in 0 .. Depth - 1 \ {message_queue.idx_front} :
    message_queue.messages[i].payload \in Blanks

\* Samples reach the application in the order of their arrival and at most
\* once, across failed pushes, dropped messages and failed takes.
DeliveredInOrder ==
  \A i, j \in DOMAIN delivered :
    i < j /\ delivered[i] \in Messages /\ delivered[j] \in Messages
      => delivered[i] < delivered[j]

\* A message taken carries the attachment its payload arrived with, whatever a
\* push that gave up half way wrote over the slot.  (True of a depth of one.)
AttachmentMatchesPayload ==
  taken.payload \in Messages => taken.attachment_data = taken.payload

\* "more messages are stored in memory" the higher the depth (detail/qos.c):
\* each message the queue counts is stored in its slot until it is taken.
CountedMessagesAreStored ==
  \A n \in 0 .. message_queue.size - 1 :
    message_queue.messages[(message_queue.idx_front + n) % Depth].payload \in Messages

\* rmw_take_sequence reports as many messages as it appended, never more than its
\* count, and an error only when it is short of that.
SequenceReportsTaken ==
  [][sequence.active =>
       /\ Len(delivered') - Len(delivered) = sequence'.taken - sequence.taken
       /\ sequence'.taken <= sequence.count
       /\ ~ sequence'.active /\ sequence'.taken = sequence.count => ret' = "RMW_RET_OK"]_vars

\* "No error, but there was nothing left to be taken, so break out of the loop"
\* (rmw_subscription.c): a queue that rmw_take_sequence has drained ends it with
\* RMW_RET_OK.
DrainedIsNoError ==
  [][sequence.active /\ sequence.taken > 0 /\ message_queue.size = 0 /\ ~ sequence'.active =>
       ret' = "RMW_RET_OK"]_vars

\* Whatever its depth, the queue is a mailbox for the newest sample.
Mailbox == INSTANCE LatestMailbox
             WITH latest <- Front(message_queue).payload, credit <- message_queue.size
MailboxSpec == Mailbox!Spec

\* With a depth of one the queue is the KEEP_LAST history it should be.
History == INSTANCE KeepLast
             WITH queue <- IF message_queue.size = 0 THEN <<>>
                           ELSE <<Front(message_queue).payload>>
HistorySpec == History!Spec
=============================================================================
