---------------------------- MODULE ServiceProofs ----------------------------
(***************************************************************************)
(* What holds of a service for every depth, whatever its requests hash to. *)
(***************************************************************************)
EXTENDS Service, EntityQueueProofs, WellFoundedInduction

-----------------------------------------------------------------------------
(* The query map.                                                          *)

\* The index get_index returns, where there is one, is one of those asked for.
LEMMA FirstIsMember ==
  ASSUME NEW I \in SUBSET Nat, I # {}
  PROVE  FirstOf(I) \in I
<1> DEFINE R == OpToRel(<, Nat)
<1>1. PICK i \in I : \A j \in I : <<j, i>> \notin R
  BY NatLessThanWellFounded, WFMin
<1>2. \A j \in I : ~ (j < i)
  BY <1>1 DEF OpToRel
<1>3. \A j \in I : i <= j
  BY <1>2
<1> QED BY <1>3 DEF FirstOf

\* What a query map in use looks like: its type, and KeysIdentifyQueries.
MapInv(map) ==
  /\ map \in QueryMaps(Depth, Hashes, Headers)
  /\ \A i, j \in 1 .. Depth : map.keys[i] # 0 /\ map.keys[i] = map.keys[j] => i = j
  /\ \A i \in 1 .. Depth :
       map.keys[i] # 0 => map.queries[i] \in Messages /\ map.keys[i] = Hash[map.queries[i]]

\* An index of a map is one of its slots.
LEMMA IndexInMap ==
  ASSUME NEW map, MapInv(map), NEW hash, IndexesOf(map, hash) # {}
  PROVE  /\ FirstOf(IndexesOf(map, hash)) \in 1 .. Depth
         /\ map.keys[FirstOf(IndexesOf(map, hash))] = hash
<1>1. IndexesOf(map, hash) \in SUBSET (1 .. Depth)
  BY DepthAssumption DEF IndexesOf, MapInv, QueryMaps
<1>2. IndexesOf(map, hash) \in SUBSET Nat
  BY <1>1, DepthAssumption
<1>3. FirstOf(IndexesOf(map, hash)) \in IndexesOf(map, hash)
  BY <1>2, FirstIsMember
<1> QED BY <1>1, <1>3 DEF IndexesOf

\* An insert that succeeds keeps one slot for each key, and changes a free one.
LEMMA InsertKeepsMap ==
  ASSUME NEW map, MapInv(map), NEW m \in Messages, CanInsert(map, Hash[m])
  PROVE  /\ MapInv(Insert(map, Hash[m], m))
         /\ \E i \in 1 .. Depth :
              /\ map.keys[i] = 0
              /\ \A j \in 1 .. Depth :
                   /\ Insert(map, Hash[m], m).keys[j] = IF j = i THEN Hash[m] ELSE map.keys[j]
                   /\ Insert(map, Hash[m], m).queries[j] = IF j = i THEN m ELSE map.queries[j]
<1> DEFINE i == FirstOf(IndexesOf(map, 0))
           new == Insert(map, Hash[m], m)
<1>1. i \in 1 .. Depth /\ map.keys[i] = 0
  BY IndexInMap DEF CanInsert
<1>2. /\ map.keys \in [1 .. Depth -> Hashes]
      /\ map.queries \in [1 .. Depth -> Headers]
  BY DEF MapInv, QueryMaps
<1>3. /\ new.keys = [map.keys EXCEPT ![i] = Hash[m]]
      /\ new.queries = [map.queries EXCEPT ![i] = m]
      /\ new = [keys |-> new.keys, queries |-> new.queries]
  BY DEF Insert
<1>4. new \in QueryMaps(Depth, Hashes, Headers)
  <2>1. Hash[m] \in Hashes /\ m \in Headers
    BY DEF Hashes, Headers
  <2>2. new.keys \in [1 .. Depth -> Hashes] /\ new.queries \in [1 .. Depth -> Headers]
    BY <1>2, <1>3, <2>1
  <2> QED BY <1>3, <2>2 DEF QueryMaps
<1>5. \A j \in 1 .. Depth : map.keys[j] # Hash[m]
  BY <1>2 DEF CanInsert, IndexesOf
<1>6. \A j \in 1 .. Depth :
        /\ new.keys[j] = IF j = i THEN Hash[m] ELSE map.keys[j]
        /\ new.queries[j] = IF j = i THEN m ELSE map.queries[j]
  BY <1>1, <1>2, <1>3
<1>7. MapInv(new)
  BY <1>4, <1>5, <1>6 DEF MapInv
<1> QED BY <1>1, <1>6, <1>7

\* So does an extract, which frees the slot of the query it hands out; a key that is
\* not 0 leads to a query with that hash.
LEMMA ExtractKeepsMap ==
  ASSUME NEW map, MapInv(map), NEW hash, IndexesOf(map, hash) # {}
  PROVE  /\ MapInv(Extract(map, hash))
         /\ Extracted(map, hash) \in Headers
         /\ hash # 0 => /\ Extracted(map, hash) \in Messages
                        /\ Hash[Extracted(map, hash)] = hash
         /\ \E i \in 1 .. Depth :
              /\ map.keys[i] = hash
              /\ map.queries[i] = Extracted(map, hash)
              /\ \A j \in 1 .. Depth :
                   /\ Extract(map, hash).keys[j] = IF j = i THEN 0 ELSE map.keys[j]
                   /\ Extract(map, hash).queries[j] = map.queries[j]
<1> DEFINE i == FirstOf(IndexesOf(map, hash))
           new == Extract(map, hash)
<1>1. i \in 1 .. Depth /\ map.keys[i] = hash
  BY IndexInMap
<1>2. /\ map.keys \in [1 .. Depth -> Hashes]
      /\ map.queries \in [1 .. Depth -> Headers]
      /\ map = [keys |-> map.keys, queries |-> map.queries]
  BY DEF MapInv, QueryMaps
<1>3. /\ new.keys = [map.keys EXCEPT ![i] = 0]
      /\ new.queries = map.queries
      /\ new = [keys |-> new.keys, queries |-> new.queries]
  BY <1>2 DEF Extract
<1>4. new \in QueryMaps(Depth, Hashes, Headers)
  BY <1>1, <1>2, <1>3 DEF QueryMaps, Hashes
<1>5. \A j \in 1 .. Depth : new.keys[j] = IF j = i THEN 0 ELSE map.keys[j]
  BY <1>1, <1>2, <1>3
<1>6. MapInv(new)
  BY <1>3, <1>4, <1>5 DEF MapInv
<1>7. map.queries[i] = Extracted(map, hash)
  BY DEF Extracted
<1> QED BY <1>1, <1>2, <1>3, <1>5, <1>6, <1>7 DEF Extracted, MapInv

-----------------------------------------------------------------------------
(* The inductive invariant.                                                *)

IInv == /\ WellFormed(message_queue)
        /\ MapInv(query_map)
        /\ arrived \in 0 .. MaxArrivals
        /\ taken \subseteq Headers
        /\ response \in [Responders -> [header : Headers, hash : Hashes, query : Headers] \cup {Idle}]
        /\ refused \subseteq Messages
        /\ dropped \subseteq Headers
        /\ AnswersMatchingQuery

LEMMA InitIInv == Init => IInv
<1> SUFFICES ASSUME Init PROVE IInv
  OBVIOUS
<1> USE DepthAssumption DEF Init
<1>1. WellFormed(message_queue)
  BY BlankAssumption DEF WellFormed, MessageQueues, QueueInit, UninitSlot, Slots, Blanks, Front
<1>2. MapInv(query_map)
  BY DEF MapInv, QueryMapInit, QueryMaps, Hashes, Headers
<1>3. AnswersMatchingQuery
  BY NoRequestAssumption DEF AnswersMatchingQuery, Idle, Headers
<1> QED BY <1>1, <1>2, <1>3 DEF IInv

\* The read task's steps.
LEMMA ArrivalIInv ==
  ASSUME IInv, AddNewQuery \/ AddNewQueryFails \/ IgnoreQuery
  PROVE  IInv'
<1> USE DEF IInv
<1>1. /\ arrived' \in 0 .. MaxArrivals /\ arrived' \in Messages
      /\ taken' = taken /\ response' = response /\ dropped' = dropped
  BY DepthAssumption DEF AddNewQuery, AddNewQueryFails, IgnoreQuery, QueryArrives, Messages
<1>2. AnswersMatchingQuery'
  BY <1>1 DEF AnswersMatchingQuery
<1>r. WellFormed(MakeRoom(message_queue)) /\ MakeRoom(message_queue).size < Depth
  BY MakeRoomWellFormed, DepthAssumption
<1>3. CASE AddNewQuery
  <2>1. WellFormed(message_queue')
    BY <1>1, <1>3, <1>r, PushBackWellFormed DEF AddNewQuery
  <2>2. MapInv(query_map')
    BY <1>1, <1>3, InsertKeepsMap DEF AddNewQuery
  <2>3. refused' \subseteq Messages
    BY <1>1, <1>3 DEF AddNewQuery
  <2> QED BY <1>1, <1>2, <2>1, <2>2, <2>3
<1>4. CASE AddNewQueryFails
  <2>1. WellFormed(message_queue')
    BY <1>1, <1>4, <1>r, PushFailsWellFormed DEF AddNewQueryFails
  <2> QED BY <1>1, <1>2, <1>4, <2>1 DEF AddNewQueryFails
<1>5. CASE IgnoreQuery
  BY <1>1, <1>2, <1>5 DEF IgnoreQuery
<1> QED BY <1>3, <1>4, <1>5

LEMMA TakeRequestIInv ==
  ASSUME IInv, TakeRequest
  PROVE  IInv'
<1> USE DEF IInv, TakeRequest
<1>1. WellFormed(message_queue')
  BY PopFrontWellFormed
<1>2. Front(message_queue).attachment_data \in Headers
  BY DEF WellFormed, MessageQueues, Front, Slots, Headers
<1>3. taken' \subseteq Headers
  BY <1>2
<1>4. AnswersMatchingQuery'
  BY DEF AnswersMatchingQuery
<1> QED BY <1>1, <1>3, <1>4

LEMMA TakeFromQueryMapIInv ==
  ASSUME IInv, NEW t \in Responders, NEW header \in Headers, TakeFromQueryMap(t, header)
  PROVE  IInv'
<1> USE DEF IInv
<1>1. PICK hash \in HashesOf(header) :
        IF IndexesOf(query_map, hash) # {}
          THEN /\ query_map' = Extract(query_map, hash)
               /\ response' = [response EXCEPT ![t] = [header |-> header,
                                                       hash   |-> hash,
                                                       query  |-> Extracted(query_map, hash)]]
          ELSE query_map' = query_map /\ response' = response
  BY DEF TakeFromQueryMap
<1>2. /\ message_queue' = message_queue /\ arrived' = arrived
      /\ refused' = refused /\ dropped' = dropped /\ taken' \subseteq Headers
  BY DEF TakeFromQueryMap
<1>3. CASE IndexesOf(query_map, hash) # {}
  <2> DEFINE q == Extracted(query_map, hash)
  <2>1. /\ MapInv(query_map') /\ q \in Headers
        /\ hash # 0 => q \in Messages /\ Hash[q] = hash
    BY <1>1, <1>3, ExtractKeepsMap
  <2>2. hash \in Hashes /\ (header \in Messages => hash = Hash[header])
    BY BlankAssumption, HashAssumption DEF HashesOf, Hashes, Headers, Messages
  <2>3. response' \in [Responders -> [header : Headers, hash : Hashes, query : Headers] \cup {Idle}]
    BY <1>1, <1>3, <2>1, <2>2
  <2>4. ASSUME NEW u \in Responders
        PROVE  LET r == response'[u]
               IN  /\ r.header \in Messages => r.hash = Hash[r.header]
                   /\ r.hash # 0 => r.query \in Messages /\ Hash[r.query] = r.hash
    <3>1. CASE u = t
      <4>1. response'[u] = [header |-> header, hash |-> hash, query |-> q]
        BY <1>1, <1>3, <3>1
      <4> QED BY <2>1, <2>2, <4>1
    <3>2. CASE u # t
      <4>1. response'[u] = response[u]
        BY <1>1, <1>3, <3>2
      <4> QED BY <4>1 DEF AnswersMatchingQuery
    <3> QED BY <3>1, <3>2
  <2>5. AnswersMatchingQuery'
    BY <2>4 DEF AnswersMatchingQuery
  <2> QED BY <1>2, <2>1, <2>3, <2>5
<1>4. CASE IndexesOf(query_map, hash) = {}
  BY <1>1, <1>2, <1>4 DEF AnswersMatchingQuery
<1> QED BY <1>3, <1>4

LEMMA ReplyIInv ==
  ASSUME IInv, NEW t \in Responders, Reply(t)
  PROVE  IInv'
<1> USE DEF IInv
<1>1. /\ response' = [response EXCEPT ![t] = Idle]
      /\ dropped' \in {dropped, dropped \cup {response[t].query}}
      /\ message_queue' = message_queue /\ query_map' = query_map /\ arrived' = arrived
      /\ taken' = taken /\ refused' = refused
      /\ response[t] # Idle
  BY DEF Reply
<1>2. response[t].query \in Headers
  BY <1>1
<1>3. \A u \in Responders : response'[u] \in {response[u], Idle}
  BY <1>1
<1>4. Idle.header \notin Messages /\ Idle.hash = 0
  BY NoRequestAssumption DEF Idle, Headers
<1>5. AnswersMatchingQuery'
  BY <1>3, <1>4 DEF AnswersMatchingQuery
<1> QED BY <1>1, <1>2, <1>5

LEMMA NextIInv == IInv /\ [Next]_vars => IInv'
<1> SUFFICES ASSUME IInv, [Next]_vars PROVE IInv'
  OBVIOUS
<1>1. CASE UNCHANGED vars
  BY <1>1 DEF vars, IInv, AnswersMatchingQuery
<1> QED
  BY <1>1, ArrivalIInv, TakeRequestIInv, TakeFromQueryMapIInv, ReplyIInv DEF Next

\* The invariant holds throughout.
THEOREM Invariance == Spec => []IInv
  BY InitIInv, NextIInv, PTL DEF Spec

\* The types hold for every depth and every hash of the headers: neither store
\* outgrows its slots.
THEOREM TypeCorrect == Spec => []TypeOK
<1>1. IInv => TypeOK
  BY DEF IInv, TypeOK, WellFormed, MapInv
<1> QED BY <1>1, Invariance, PTL

\* For every depth and every hash of the headers a key leads to one query in the
\* map, which has that hash.
THEOREM QueriesAreIdentified == Spec => []KeysIdentifyQueries
<1>1. IInv => KeysIdentifyQueries
  BY DEF IInv, MapInv, KeysIdentifyQueries, Used
<1> QED BY <1>1, Invariance, PTL

\* So does the header a responder answers, the hash 0 apart.
THEOREM AnswersMatch == Spec => []AnswersMatchingQuery
<1>1. IInv => AnswersMatchingQuery
  BY DEF IInv
<1> QED BY <1>1, Invariance, PTL

-----------------------------------------------------------------------------
(* Where a query is: in one slot, with one responder, or dropped.          *)

Slot(m) == {i \in 1 .. Depth : query_map.keys[i] # 0 /\ query_map.queries[i] = m}
Busy(m) == {t \in Responders : response[t].hash # 0 /\ response[t].query = m}

\* A query to come is nowhere yet.
PlaceInv ==
  \A m \in Messages :
    /\ Slot(m) # {} \/ Busy(m) # {} \/ m \in dropped => m <= arrived
    /\ \A t, u \in Busy(m) : t = u
    /\ Slot(m) # {} => Busy(m) = {} /\ m \notin dropped
    /\ Busy(m) # {} => m \notin dropped

\* A step that moves no query keeps each where it is.
LEMMA StillKeepsPlaces ==
  ASSUME PlaceInv, UNCHANGED <<query_map, response, dropped>>,
         arrived \in Nat, arrived' \in {arrived, arrived + 1}
  PROVE  PlaceInv'
<1> SUFFICES ASSUME NEW m \in Messages
             PROVE  /\ Slot(m)' # {} \/ Busy(m)' # {} \/ m \in dropped' => m <= arrived'
                    /\ \A t, u \in Busy(m)' : t = u
                    /\ Slot(m)' # {} => Busy(m)' = {} /\ m \notin dropped'
                    /\ Busy(m)' # {} => m \notin dropped'
  BY DEF PlaceInv
<1>1. Slot(m)' = Slot(m) /\ Busy(m)' = Busy(m) /\ dropped' = dropped
  BY DEF Slot, Busy
<1>2. m \in Nat
  BY DepthAssumption DEF Messages
<1> QED BY <1>1, <1>2 DEF PlaceInv

\* A query that is accepted comes to a slot, from nowhere.
LEMMA AddNewQueryPlaces ==
  ASSUME IInv, PlaceInv, AddNewQuery, CanInsert(query_map, Hash[arrived'])
  PROVE  PlaceInv'
<1>1. /\ arrived \in Nat /\ arrived' = arrived + 1 /\ arrived' \in Messages
      /\ response' = response /\ dropped' = dropped
      /\ query_map' = Insert(query_map, Hash[arrived'], arrived')
  BY DepthAssumption DEF IInv, AddNewQuery, QueryArrives, Messages
<1>2. PICK i \in 1 .. Depth :
        /\ query_map.keys[i] = 0
        /\ \A j \in 1 .. Depth :
             /\ query_map'.keys[j] = IF j = i THEN Hash[arrived'] ELSE query_map.keys[j]
             /\ query_map'.queries[j] = IF j = i THEN arrived' ELSE query_map.queries[j]
  BY <1>1, InsertKeepsMap DEF IInv
<1> SUFFICES ASSUME NEW m \in Messages
             PROVE  /\ Slot(m)' # {} \/ Busy(m)' # {} \/ m \in dropped' => m <= arrived'
                    /\ \A t, u \in Busy(m)' : t = u
                    /\ Slot(m)' # {} => Busy(m)' = {} /\ m \notin dropped'
                    /\ Busy(m)' # {} => m \notin dropped'
  BY DEF PlaceInv
<1>3. m \in Nat /\ Busy(m)' = Busy(m)
  BY <1>1, DepthAssumption DEF Messages, Busy
<1>4. CASE m = arrived'
  <2>1. Busy(m) = {} /\ m \notin dropped
    BY <1>1, <1>3, <1>4 DEF PlaceInv
  <2> QED BY <1>1, <1>3, <1>4, <2>1
<1>5. CASE m # arrived'
  <2>1. Slot(m)' = Slot(m)
    BY <1>2, <1>5 DEF Slot
  <2> QED BY <1>1, <1>3, <2>1 DEF PlaceInv
<1> QED BY <1>4, <1>5

\* A responder takes a query out of its slot; the hash 0 moves none.
LEMMA TakeFromQueryMapPlaces ==
  ASSUME IInv, PlaceInv, NEW t \in Responders, NEW header \in Headers,
         TakeFromQueryMap(t, header)
  PROVE  PlaceInv'
<1>1. PICK hash \in HashesOf(header) :
        IF IndexesOf(query_map, hash) # {}
          THEN /\ query_map' = Extract(query_map, hash)
               /\ response' = [response EXCEPT ![t] = [header |-> header,
                                                       hash   |-> hash,
                                                       query  |-> Extracted(query_map, hash)]]
          ELSE query_map' = query_map /\ response' = response
  BY DEF TakeFromQueryMap
<1>2. /\ arrived \in Nat /\ arrived' = arrived /\ dropped' = dropped
      /\ response[t] = Idle /\ Idle.hash = 0
      /\ response \in [Responders -> [header : Headers, hash : Hashes, query : Headers] \cup {Idle}]
  BY DEF IInv, TakeFromQueryMap, Idle
<1>3. CASE IndexesOf(query_map, hash) = {}
  BY <1>1, <1>2, <1>3, StillKeepsPlaces
<1>4. CASE IndexesOf(query_map, hash) # {}
  <2> DEFINE q == Extracted(query_map, hash)
  <2>1. PICK i \in 1 .. Depth :
          /\ query_map.keys[i] = hash
          /\ query_map.queries[i] = q
          /\ \A j \in 1 .. Depth :
               /\ query_map'.keys[j] = IF j = i THEN 0 ELSE query_map.keys[j]
               /\ query_map'.queries[j] = query_map.queries[j]
    BY <1>1, <1>4, ExtractKeepsMap DEF IInv
  <2>2. \A u \in Responders :
          response'[u] = IF u = t THEN [header |-> header, hash |-> hash, query |-> q]
                                  ELSE response[u]
    BY <1>1, <1>2, <1>4
  <2> SUFFICES ASSUME NEW m \in Messages
               PROVE  /\ Slot(m)' # {} \/ Busy(m)' # {} \/ m \in dropped' => m <= arrived'
                      /\ \A u, v \in Busy(m)' : u = v
                      /\ Slot(m)' # {} => Busy(m)' = {} /\ m \notin dropped'
                      /\ Busy(m)' # {} => m \notin dropped'
    BY DEF PlaceInv
  <2> HIDE DEF q
  <2>3. Slot(m)' = Slot(m) \ {i}
    BY <2>1 DEF Slot
  <2>4. CASE hash # 0 /\ m = q
    <3>1. i \in Slot(m)
      BY <2>1, <2>4 DEF Slot
    <3>2. Busy(m) = {} /\ m \notin dropped /\ m <= arrived
      BY <3>1 DEF PlaceInv
    <3>3. Busy(m)' = {t}
      BY <2>2, <2>4, <3>2 DEF Busy
    <3>4. Slot(m)' = {}
      <4>1. \A j \in Slot(m) : j = i
        BY <3>1 DEF IInv, MapInv, Slot
      <4> QED BY <2>3, <4>1
    <3> QED BY <1>2, <3>2, <3>3, <3>4
  <2>5. CASE hash = 0 \/ m # q
    <3>1. Busy(m)' = Busy(m)
      BY <1>2, <2>2, <2>5 DEF Busy
    <3>2. Slot(m)' = Slot(m)
      BY <2>1, <2>3, <2>5 DEF Slot
    <3> QED BY <1>2, <3>1, <3>2 DEF PlaceInv
  <2> QED BY <2>4, <2>5
<1> QED BY <1>3, <1>4

\* A responder drops the query it has.
LEMMA ReplyPlaces ==
  ASSUME IInv, PlaceInv, NEW t \in Responders, Reply(t)
  PROVE  PlaceInv'
<1> DEFINE q == response[t].query
<1>1. /\ query_map' = query_map /\ arrived' = arrived
      /\ dropped' = IF response[t].hash = 0 THEN dropped ELSE dropped \cup {q}
      /\ \A u \in Responders : response'[u] = IF u = t THEN Idle ELSE response[u]
      /\ Idle.hash = 0
  BY DEF Reply, IInv, Idle
<1> SUFFICES ASSUME NEW m \in Messages
             PROVE  /\ Slot(m)' # {} \/ Busy(m)' # {} \/ m \in dropped' => m <= arrived'
                    /\ \A u, v \in Busy(m)' : u = v
                    /\ Slot(m)' # {} => Busy(m)' = {} /\ m \notin dropped'
                    /\ Busy(m)' # {} => m \notin dropped'
  BY DEF PlaceInv
<1>2. Slot(m)' = Slot(m) /\ Busy(m)' = Busy(m) \ {t}
  BY <1>1 DEF Slot, Busy
<1>3. CASE m = q /\ response[t].hash # 0
  <2>1. t \in Busy(m)
    BY <1>3 DEF Busy
  <2>2. Busy(m)' = {} /\ Slot(m)' = {} /\ m <= arrived
    BY <1>2, <2>1 DEF PlaceInv
  <2> QED BY <1>1, <2>2
<1>4. CASE m # q \/ response[t].hash = 0
  <2>1. Busy(m)' = Busy(m) /\ (m \in dropped' <=> m \in dropped)
    BY <1>1, <1>2, <1>4 DEF Busy
  <2> QED BY <1>1, <1>2, <2>1 DEF PlaceInv
<1> QED BY <1>3, <1>4

LEMMA NextPlaceInv == IInv /\ PlaceInv /\ [Next]_vars => PlaceInv'
<1> SUFFICES ASSUME IInv, PlaceInv, [Next]_vars PROVE PlaceInv'
  OBVIOUS
<1>0. arrived \in Nat
  BY DepthAssumption DEF IInv
<1>1. CASE AddNewQuery /\ ~ CanInsert(query_map, Hash[arrived'])
  BY <1>0, <1>1, StillKeepsPlaces DEF AddNewQuery, QueryArrives
<1>2. CASE AddNewQueryFails \/ IgnoreQuery
  BY <1>0, <1>2, StillKeepsPlaces DEF AddNewQueryFails, IgnoreQuery, QueryArrives
<1>3. CASE TakeRequest \/ UNCHANGED vars
  BY <1>0, <1>3, StillKeepsPlaces DEF TakeRequest, vars
<1> QED
  BY <1>1, <1>2, <1>3, AddNewQueryPlaces, TakeFromQueryMapPlaces, ReplyPlaces DEF Next

\* A query is answered and dropped at most once, for every depth, every hash of the
\* headers and any number of responders.
THEOREM AnsweredOnce == Spec => []QueriesDroppedOnce
<1>1. Init => PlaceInv
  BY DEF Init, PlaceInv, Slot, Busy, QueryMapInit, Idle
<1>2. IInv /\ PlaceInv => QueriesDroppedOnce
  <2> SUFFICES ASSUME IInv, PlaceInv PROVE QueriesDroppedOnce
    OBVIOUS
  <2>1. \A m \in Messages : SlotsOf(m) = Slot(m)
    BY DEF SlotsOf, Used, Slot
  <2>2. \A m \in Messages : \A i, j \in Slot(m) : i = j
    BY DEF IInv, MapInv, Slot
  <2> QED BY <2>1, <2>2 DEF PlaceInv, QueriesDroppedOnce, Busy
<1>3. IInv /\ PlaceInv /\ [Next]_vars => PlaceInv'
  BY NextPlaceInv
<1> QED BY <1>1, <1>2, <1>3, Invariance, PTL DEF Spec

\* An accepted query leaves the map only to a responder that was idle, for every
\* depth and every hash of the headers.
THEOREM AcceptedStays == Spec => AcceptedIsKept
<1> DEFINE Kept == \A m \in Messages : SlotsOf(m) # {} /\ SlotsOf(m)' = {} =>
                     \E t \in Responders : response[t] = Idle /\ response'[t].query = m
<1>1. IInv /\ [Next]_vars => [Kept]_vars
  <2> SUFFICES ASSUME IInv, Next, NEW m \in Messages, SlotsOf(m) # {}, SlotsOf(m)' = {}
               PROVE  \E t \in Responders : response[t] = Idle /\ response'[t].query = m
    OBVIOUS
  <2>0. SlotsOf(m) = Slot(m) /\ SlotsOf(m)' = Slot(m)'
    BY DEF SlotsOf, Used, Slot
  <2>1. PICK j \in 1 .. Depth : query_map.keys[j] # 0 /\ query_map.queries[j] = m
    BY <2>0 DEF Slot
  <2>2. query_map'.keys[j] = 0 \/ query_map'.queries[j] # m
    BY <2>0 DEF Slot
  <2>3. ASSUME NEW t \in Responders, NEW header \in Headers, TakeFromQueryMap(t, header)
        PROVE  response[t] = Idle /\ response'[t].query = m
    <3>1. PICK hash \in HashesOf(header) :
            /\ IndexesOf(query_map, hash) # {}
            /\ query_map' = Extract(query_map, hash)
            /\ response' = [response EXCEPT ![t] = [header |-> header,
                                                    hash   |-> hash,
                                                    query  |-> Extracted(query_map, hash)]]
      BY <2>1, <2>2, <2>3 DEF TakeFromQueryMap
    <3>2. Extracted(query_map, hash) = m
      BY <2>1, <2>2, <3>1, ExtractKeepsMap DEF IInv
    <3>3. response'[t].query = Extracted(query_map, hash)
      BY <3>1 DEF IInv
    <3> QED BY <2>3, <3>2, <3>3 DEF TakeFromQueryMap
  <2>4. CASE AddNewQuery
    <3>1. arrived' \in Messages
      BY <2>4, DepthAssumption DEF IInv, AddNewQuery, QueryArrives, Messages
    <3>2. CASE CanInsert(query_map, Hash[arrived'])
      BY <2>1, <2>2, <2>4, <3>1, <3>2, InsertKeepsMap DEF IInv, AddNewQuery
    <3>3. CASE ~ CanInsert(query_map, Hash[arrived'])
      BY <2>1, <2>2, <2>4, <3>3 DEF AddNewQuery
    <3> QED BY <3>2, <3>3
  <2>5. CASE AddNewQueryFails \/ IgnoreQuery \/ TakeRequest
    BY <2>1, <2>2, <2>5 DEF AddNewQueryFails, IgnoreQuery, TakeRequest
  <2>6. ASSUME NEW t \in Responders, Reply(t) PROVE query_map' = query_map
    BY <2>6 DEF Reply
  <2> QED BY <2>1, <2>2, <2>3, <2>4, <2>5, <2>6 DEF Next
<1> QED BY <1>1, Invariance, PTL DEF Spec, AcceptedIsKept
=============================================================================
