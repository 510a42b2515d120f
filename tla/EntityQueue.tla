----------------------------- MODULE EntityQueue -----------------------------
(***************************************************************************)
(* How subscriptions, services and clients use a message queue: its depth, *)
(* the room they make in it before a message is added, and the outcomes of *)
(* decoding what they pop.  The three do the same in code of their own.    *)
(***************************************************************************)
EXTENDS MessageQueue

CONSTANTS
  Depth,         \* depth of the adapted QoS profile, capacity of the queue
  MaxArrivals    \* bound on the messages that arrive

\* rmw_zp_adapt_qos_profile guarantees a depth of at least one.
ASSUME DepthAssumption == Depth \in Nat \ {0} /\ MaxArrivals \in Nat

Messages == 1 .. MaxArrivals
Blanks == {Uninit, Moved}
ReturnCodes == {"RMW_RET_OK", "RMW_RET_ERROR"}

\* The oldest message is given up when the queue holds depth of them.
MakeRoom(q) == IF q.size >= Depth THEN PopFront(q) ELSE q

\* What deserializing payload p into a ROS message may return.  A null slice
\* never decodes, an uninitialized one may do anything.
DeserializeResults(p) == IF p = Moved THEN {"RMW_RET_ERROR"} ELSE ReturnCodes
=============================================================================
