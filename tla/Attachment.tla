----------------------------- MODULE Attachment -----------------------------
(***************************************************************************)
(* detail/attachment_helpers.c: the attachment that goes with every        *)
(* sample, query and reply is a list of pairs of a key and a value.  This  *)
(* code writes three of them; what it reads comes from any peer and may    *)
(* hold them in another order, hold others, or lack some.                  *)
(***************************************************************************)
EXTENDS Integers, Sequences

CONSTANT Malformed   \* a value that does not decode, or a gid of another length

\* In the order of create_attachment_iter, and of the branches of the reader.
Fields == <<"sequence_number", "source_timestamp", "source_gid">>
FieldNames == {"sequence_number", "source_timestamp", "source_gid"}

SerializeSwapped(data) == <<[key |-> Fields[1], value |-> data[Fields[2]]],
                            [key |-> Fields[2], value |-> data[Fields[1]]],
                            [key |-> Fields[3], value |-> data[Fields[3]]]>>

\* rmw_zp_attachment_data_serialize_to_zbytes.
Serialize(data) == [i \in 1 .. 3 |-> [key |-> Fields[i], value |-> data[Fields[i]]]]

\* The keys shorter than a name that begin like it.
Prefixes ==
  LET start  == {"", "s"}
      source == start \cup {"so", "sou", "sour", "sourc", "source", "source_"}
  IN  [sequence_number  |-> start \cup
         {"se", "seq", "sequ", "seque", "sequen", "sequenc", "sequence", "sequence_",
          "sequence_n", "sequence_nu", "sequence_num", "sequence_numb", "sequence_numbe"},
       source_timestamp |-> source \cup
         {"source_t", "source_ti", "source_tim", "source_time",
          "source_times", "source_timest", "source_timesta", "source_timestam"},
       source_gid       |-> source \cup {"source_g", "source_gi"}]

\* The fields a received key may name: strncmp compares as many characters as
\* the key has, so a key names every field it is a prefix of.
Named(key) == {f \in FieldNames : key = f \/ key \in Prefixes[f]}

\* The fields, by position, that key names and the reader has not found yet.
Wanted(reader, key) == {i \in 1 .. 3 : Fields[i] \in Named(key) \ reader.found}

ReadPairAgain(reader, pair) ==
  IF Named(pair.key) = {} THEN reader
  ELSE LET f == CHOOSE f \in Named(pair.key) : TRUE
       IN  [reader EXCEPT !.found = @ \cup {f}, !.data[f] = pair.value]

\* One turn of the loop: the pair fills the first field wanted; it is skipped
\* when there is none.
ReadPair(reader, pair) ==
  LET wanted == Wanted(reader, pair.key)
      field  == Fields[CHOOSE i \in wanted : \A j \in wanted : i <= j]
  IN  IF reader.failed \/ wanted = {} THEN reader
      ELSE IF pair.value = Malformed THEN [reader EXCEPT !.failed = TRUE]
      ELSE [reader EXCEPT !.found = @ \cup {field}, !.data[field] = pair.value]

\* rmw_zp_attachment_data_deserialize_from_zbytes into a struct that holds data.
Deserialize(pairs, data) ==
  LET read[i \in 0 .. Len(pairs)] ==
        IF i = 0 THEN [found |-> {}, failed |-> FALSE, data |-> data]
                 ELSE ReadPair(read[i - 1], pairs[i])
  IN  read[Len(pairs)]

\* It returns RMW_RET_OK.
Accepted(reader) == ~ reader.failed /\ reader.found = FieldNames
=============================================================================
