----------------------------- MODULE MCService -----------------------------
(***************************************************************************)
(* Instances of Service: the hashes of the first headers.                  *)
(***************************************************************************)
EXTENDS Service

DistinctHashes == [m \in Messages |-> m]
\* The second header has the hash that marks a free slot, the first and the last
\* one collide.
CollidingHashes == [m \in Messages |-> CASE m = 2 -> 0 [] m = MaxArrivals -> 1 [] OTHER -> m]
=============================================================================
