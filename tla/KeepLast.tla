------------------------------ MODULE KeepLast ------------------------------
(***************************************************************************)
(* What the KEEP_LAST history of a subscription promises: a bounded FIFO   *)
(* of the last Depth samples, the oldest given up for a new one, and each  *)
(* sample handed to the application at most once, in order of arrival.     *)
(***************************************************************************)
EXTENDS Integers, Sequences

CONSTANTS Depth, MaxArrivals

VARIABLES
  arrived,    \* how many samples have reached the handler
  queue,      \* the samples kept, oldest first
  delivered   \* the samples handed to the application with RMW_RET_OK

vars == <<arrived, queue, delivered>>

Init == arrived = 0 /\ queue = <<>> /\ delivered = <<>>

\* The last Depth elements of a sequence that is at most one longer.
KeepNewest(q) == IF Len(q) > Depth THEN Tail(q) ELSE q

Arrive == /\ arrived < MaxArrivals
          /\ arrived' = arrived + 1
          /\ queue' = KeepNewest(Append(queue, arrived'))
          /\ UNCHANGED delivered

\* A sample that does not decode is not kept, but the room made for it stays.
Reject == /\ arrived < MaxArrivals
          /\ arrived' = arrived + 1
          /\ queue' \in {queue} \cup (IF Len(queue) = Depth THEN {Tail(queue)} ELSE {})
          /\ UNCHANGED delivered

\* A take consumes the oldest sample; it reaches the application if it decodes.
Take == /\ queue # <<>>
        /\ queue' = Tail(queue)
        /\ delivered' \in {delivered, Append(delivered, Head(queue))}
        /\ UNCHANGED arrived

Next == Arrive \/ Reject \/ Take

Spec == Init /\ [][Next]_vars
=============================================================================
