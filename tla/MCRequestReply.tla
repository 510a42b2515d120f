--------------------------- MODULE MCRequestReply ---------------------------
(***************************************************************************)
(* An instance of RequestReply: request ids whose hashes do not collide.   *)
(***************************************************************************)
EXTENDS RequestReply

DistinctHashes == [m \in Requests |-> m]
=============================================================================
