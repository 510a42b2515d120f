----------------------------- MODULE MCWaitSet -----------------------------
(***************************************************************************)
(* Instances of WaitSet: which entities the waiters wait on.  Guard        *)
(* conditions come first, as in check_and_attach_condition.                *)
(***************************************************************************)
EXTENDS WaitSet

CONSTANTS t1, w1, w2, g1, q1, q2

OneWaitsOnQueues == [w \in {w1} |-> <<q1, q2>>]
OneWaitsOnQueue == [w \in {w1} |-> <<q1>>]
OneWaitsOnGuard == [w \in {w1} |-> <<g1>>]
BothWaitOnGuardAndQueue == [w \in {w1, w2} |-> <<g1, q1>>]
=============================================================================
