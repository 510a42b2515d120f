----------------------------- MODULE Publisher -----------------------------
(***************************************************************************)
(* A publisher (detail/publisher.c, rmw_publisher.c) that several threads  *)
(* call rmw_publish on.  Only the sequence number is taken under a mutex:  *)
(* between it and z_publisher_put calls fail, and overtake each other.     *)
(***************************************************************************)
EXTENDS Attachment

CONSTANTS
  Publishers,      \* application threads in rmw_publish
  MaxPublished     \* bound on the sequence numbers

VARIABLES
  sequence_number,   \* the next one
  publishing,        \* of each thread: where it is in rmw_publish, its number
  log                \* history: what was put on the topic, in this order

vars == <<sequence_number, publishing, log>>

\* began is history: how much had been put when the call took its number.  All of
\* it was put by calls that had returned by then.
Idle == [pc |-> "idle", number |-> 0, began |-> 0]

Init == /\ sequence_number = 1
        /\ publishing = [t \in Publishers |-> Idle]
        /\ log = <<>>

\* The attachment data of publication n.
AttachmentData(n) == [f \in FieldNames |-> <<f, n>>]

\* A call begins: the message serializes and is given its number, under
\* sequence_number_mutex.  (Before that a call may fail and change nothing.)
GetNextSequenceNumber(t) ==
  /\ publishing[t] = Idle
  /\ sequence_number <= MaxPublished
  /\ publishing' = [publishing EXCEPT ![t] = [pc     |-> "numbered",
                                              number |-> sequence_number,
                                              began  |-> Len(log)]]
  /\ sequence_number' = sequence_number + 1
  /\ UNCHANGED log

PublishFailsReturnsNumber(t) ==
  /\ publishing[t].pc = "numbered"
  /\ publishing' = [publishing EXCEPT ![t] = Idle]
  /\ sequence_number' = sequence_number - 1
  /\ UNCHANGED log

\* There is no clock, the attachment does not serialize, or the put fails: the
\* number is lost.
PublishFails(t) ==
  /\ publishing[t].pc = "numbered"
  /\ publishing' = [publishing EXCEPT ![t] = Idle]
  /\ UNCHANGED <<sequence_number, log>>

\* z_publisher_put hands the sample to the session and rmw_publish returns.
PublisherPut(t) ==
  /\ publishing[t].pc = "numbered"
  /\ publishing' = [publishing EXCEPT ![t] = Idle]
  /\ log' = Append(log, [number     |-> publishing[t].number,
                         began      |-> publishing[t].began,
                         attachment |-> Serialize(AttachmentData(publishing[t].number))])
  /\ UNCHANGED sequence_number

Next == \E t \in Publishers : \/ GetNextSequenceNumber(t)
                              \/ PublishFails(t) \/ PublisherPut(t)

Spec == Init /\ [][Next]_vars
=============================================================================
