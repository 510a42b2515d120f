------------------------------ MODULE QueryMap ------------------------------
(***************************************************************************)
(* detail/query_map.c: the queries a service has yet to answer, found by a *)
(* 32-bit hash of the request id.  A key of 0 marks a free slot.  The      *)
(* query of a slot is whatever was stored in it last.                      *)
(***************************************************************************)
EXTENDS Integers

\* rmw_zp_query_map_t with n slots, hashes in H and queries in Q.
QueryMaps(n, H, Q) == [keys : [1 .. n -> H], queries : [1 .. n -> Q]]

\* rmw_zp_query_map_init clears the keys, but not the queries.
QueryMapInit(n, uninit) == [keys    |-> [i \in 1 .. n |-> 0],
                            queries |-> [i \in 1 .. n |-> uninit]]

\* The slots whose key is the given one; get_index returns the first of them.
IndexesOf(map, key) == {i \in DOMAIN map.keys : map.keys[i] = key}

FirstOf(I) == CHOOSE i \in I : \A j \in I : i <= j

CanInsertAllowsDuplicate(map, hash) == hash # 0 /\ IndexesOf(map, 0) # {}

\* Whether rmw_zp_query_map_insert returns RMW_RET_OK: it refuses the hash that
\* marks free slots, a hash it holds already, and any hash once it is full.
CanInsert(map, hash) == /\ hash # 0
                        /\ IndexesOf(map, hash) = {}
                        /\ IndexesOf(map, 0) # {}

\* The map after an insert that succeeds: the first free slot is used.
Insert(map, hash, query) ==
  LET i == FirstOf(IndexesOf(map, 0))
  IN  [keys |-> [map.keys EXCEPT ![i] = hash], queries |-> [map.queries EXCEPT ![i] = query]]

ExtractedNext(map, hash) ==
  LET i == FirstOf(IndexesOf(map, hash))
  IN  map.queries[IF i + 1 \in DOMAIN map.queries THEN i + 1 ELSE i]

\* What rmw_zp_query_map_extract hands out for a hash that is a key.
Extracted(map, hash) == map.queries[FirstOf(IndexesOf(map, hash))]

ExtractKeepsKey(map, hash) == map

\* The map it leaves: only the key is cleared.
Extract(map, hash) == [map EXCEPT !.keys[FirstOf(IndexesOf(map, hash))] = 0]
=============================================================================
