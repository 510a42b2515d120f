----------------------------- MODULE RemoteCall -----------------------------
(***************************************************************************)
(* What a client and a service promise together: a request that was sent   *)
(* is worked on at most once, answered at most once after that, and its    *)
(* response handed to the caller at most once after that.                  *)
(***************************************************************************)
EXTENDS Integers

CONSTANT Requests

VARIABLES
  called,                        \* the requests sent
  served, answered, returned     \* of each request: how often

vars == <<called, served, answered, returned>>

Never == [q \in Requests |-> 0]

Init == called = {} /\ served = Never /\ answered = Never /\ returned = Never

Call(q) == /\ q \notin called
           /\ called' = called \cup {q}
           /\ UNCHANGED <<served, answered, returned>>

Serve(q) == /\ q \in called /\ served[q] = 0
            /\ served' = [served EXCEPT ![q] = 1]
            /\ UNCHANGED <<called, answered, returned>>

Answer(q) == /\ served[q] = 1 /\ answered[q] = 0
             /\ answered' = [answered EXCEPT ![q] = 1]
             /\ UNCHANGED <<called, served, returned>>

Return(q) == /\ answered[q] = 1 /\ returned[q] = 0
             /\ returned' = [returned EXCEPT ![q] = 1]
             /\ UNCHANGED <<called, served, answered>>

Next == \E q \in Requests : Call(q) \/ Serve(q) \/ Answer(q) \/ Return(q)

Spec == Init /\ [][Next]_vars
=============================================================================
