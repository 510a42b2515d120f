------------------------- MODULE MCPublishSubscribe -------------------------
(***************************************************************************)
(* An instance of PublishSubscribe: what other peers attach.               *)
(***************************************************************************)
EXTENDS PublishSubscribe

Pair(key, value) == [key |-> key, value |-> value]

\* Pairs in another order, one twice, among others; a field that is malformed; no
\* attachment.
SomePeerAttachments ==
  { <<Pair("source_gid", "gid"), Pair("other", Malformed),
      Pair("source_timestamp", "time"), Pair("source_gid", "again"),
      Pair("sequence_number", "number")>>,
    <<Pair("sequence_number", "number"), Pair("source_gid", Malformed),
      Pair("source_timestamp", "time")>>,
    <<>> }
=============================================================================
