------------------------------ MODULE Service ------------------------------
(***************************************************************************)
(* A service (detail/service.c, rmw_service.c): zenoh's read task puts a   *)
(* request into the message queue and the query it came with into the      *)
(* query map, both under message_queue_mutex; the application takes the    *)
(* request, works on it, and answers through the query it finds in the map *)
(* by the header of the request.  Both stores hold depth entries.  A       *)
(* request, its header and its query are the number it arrived with.       *)
(***************************************************************************)
EXTENDS EntityQueue, QueryMap

CONSTANTS
  Hash,          \* get_query_id_hash of each header
  Responders,    \* threads that call rmw_send_response
  NoRequest      \* what an idle responder works on

Headers == Messages \cup {Uninit}

\* A hash may be 0, and headers may collide.
ASSUME HashAssumption == Hash \in [Messages -> Nat]
ASSUME NoRequestAssumption == NoRequest \notin Headers

VARIABLES
  message_queue,
  query_map,
  arrived,       \* queries that reached rmw_zp_service_data_handler so far
  taken,         \* headers handed out by rmw_take_request, not answered yet
  response,      \* of each responder: header, its hash and query, between the two calls
  refused,       \* history: requests whose query the map refused
  dropped        \* history: queries rmw_send_response dropped, hash 0 apart

vars == <<message_queue, query_map, arrived, taken, response, refused, dropped>>

Idle == [header |-> NoRequest, hash |-> 0, query |-> NoRequest]

Init == /\ message_queue = QueueInit(Depth)
        /\ query_map = QueryMapInit(Depth, Uninit)
        /\ arrived = 0
        /\ taken = {}
        /\ response = [t \in Responders |-> Idle]
        /\ refused = {}
        /\ dropped = {}

-----------------------------------------------------------------------------
(* The read task: rmw_zp_service_data_handler and add_new_query.           *)

QueryArrives == /\ arrived < MaxArrivals
                /\ arrived' = arrived + 1
                /\ UNCHANGED <<taken, response, dropped>>

AddNewQueryEvicts ==
  /\ QueryArrives
  /\ ~ IsFull(MakeRoom(message_queue))
  /\ message_queue' = PushBack(MakeRoom(message_queue), arrived')
  /\ LET full == IndexesOf(query_map, 0) = {}
         room == IF full THEN [query_map EXCEPT !.keys[1] = 0] ELSE query_map
     IN  IF CanInsert(room, Hash[arrived'])
           THEN query_map' = Insert(room, Hash[arrived'], arrived') /\ UNCHANGED refused
           ELSE refused' = refused \cup {arrived'} /\ UNCHANGED query_map

\* The request is queued.  When the query map refuses its query the code goes on
\* as if it had not: RMW_RET_ERROR is not below 0.  The query of a request given
\* up to make room stays in the map.
AddNewQuery ==
  /\ QueryArrives
  /\ ~ IsFull(MakeRoom(message_queue))
  /\ message_queue' = PushBack(MakeRoom(message_queue), arrived')
  /\ LET hash == Hash[arrived']
     IN  IF CanInsert(query_map, hash)
           THEN query_map' = Insert(query_map, hash, arrived') /\ UNCHANGED refused
           ELSE refused' = refused \cup {arrived'} /\ UNCHANGED query_map

\* push_back fails, after room was made.
AddNewQueryFails == /\ QueryArrives
                    /\ message_queue' \in PushFails(MakeRoom(message_queue), arrived')
                    /\ UNCHANGED <<query_map, refused>>

\* The handler returns early for a query without an attachment.
IgnoreQuery == QueryArrives /\ UNCHANGED <<message_queue, query_map, refused>>

-----------------------------------------------------------------------------
(* The application: rmw_take_request and rmw_send_response.                *)

TakeRequestPeeks ==
  /\ message_queue.size > 0
  /\ \E r \in DeserializeResults(Front(message_queue).payload) :
       IF r = "RMW_RET_OK"
         THEN /\ taken' = taken \cup {Front(message_queue).attachment_data}
              /\ UNCHANGED message_queue
         ELSE message_queue' = PopFront(message_queue) /\ UNCHANGED taken
  /\ UNCHANGED <<query_map, arrived, response, refused, dropped>>

\* A request that does not decode is lost, its query stays in the map.  On an
\* empty queue rmw_take_request returns RMW_RET_ERROR and changes nothing.
TakeRequest ==
  /\ message_queue.size > 0
  /\ message_queue' = PopFront(message_queue)
  /\ \E r \in DeserializeResults(Front(message_queue).payload) :
       taken' = IF r = "RMW_RET_OK" THEN taken \cup {Front(message_queue).attachment_data}
                                    ELSE taken
  /\ UNCHANGED <<query_map, arrived, response, refused, dropped>>

\* The hashes a header may have: that of an uninitialized one is anything.
HashesOf(header) == IF header = Uninit THEN {0} \cup {Hash[m] : m \in DOMAIN Hash} ELSE {Hash[header]}

TakeFromQueryMapShared(t, header) ==
  /\ response[t] = Idle
  /\ header \in taken
  /\ taken' = taken \ {header}
  /\ \E hash \in HashesOf(header) :
       IF IndexesOf(query_map, hash) # {}
         THEN /\ query_map' = Extract(query_map, hash)
              /\ response' = [u \in Responders |->
                                CASE u = t -> [header |-> header,
                                               hash   |-> hash,
                                               query  |-> Extracted(query_map, hash)]
                                  [] u # t /\ response[u] = Idle -> Idle
                                  [] OTHER -> [response[u] EXCEPT !.query =
                                                 Extracted(query_map, hash)]]
         ELSE UNCHANGED <<query_map, response>>
  /\ UNCHANGED <<message_queue, arrived, refused, dropped>>

\* rmw_send_response up to its unlock: the query leaves the map.  An
\* application answers a request it has taken once.
TakeFromQueryMap(t, header) ==
  /\ response[t] = Idle
  /\ header \in taken
  /\ taken' = taken \ {header}
  /\ \E hash \in HashesOf(header) :
       IF IndexesOf(query_map, hash) # {}
         THEN /\ query_map' = Extract(query_map, hash)
              /\ response' = [response EXCEPT ![t] = [header |-> header,
                                                      hash   |-> hash,
                                                      query  |-> Extracted(query_map, hash)]]
         ELSE UNCHANGED <<query_map, response>>   \* RMW_RET_ERROR: no answer
  /\ UNCHANGED <<message_queue, arrived, refused, dropped>>

\* The rest of it: the query is answered, or not when serializing or sending
\* fails, and dropped in both cases.
Reply(t) ==
  /\ response[t] # Idle
  /\ response' = [response EXCEPT ![t] = Idle]
  /\ dropped' = IF response[t].hash = 0 THEN dropped ELSE dropped \cup {response[t].query}
  /\ UNCHANGED <<message_queue, query_map, arrived, taken, refused>>

-----------------------------------------------------------------------------
Next == \/ AddNewQuery \/ AddNewQueryFails \/ IgnoreQuery
        \/ TakeRequest
        \/ \E t \in Responders : \/ \E header \in Headers : TakeFromQueryMap(t, header)
                                 \/ Reply(t)

Spec == Init /\ [][Next]_vars

-----------------------------------------------------------------------------
(* Properties.                                                             *)

Hashes == {0} \cup {Hash[m] : m \in Messages}

\* The state keeps its types; the rings and the map never outgrow their slots.
TypeOK ==
  /\ message_queue \in MessageQueues(Depth, Messages)
  /\ query_map \in QueryMaps(Depth, Hashes, Headers)
  /\ arrived \in 0 .. MaxArrivals
  /\ taken \subseteq Headers
  /\ response \in [Responders -> [header : Headers, hash : Hashes, query : Headers] \cup {Idle}]
  /\ refused \subseteq Messages
  /\ dropped \subseteq Headers

\* The slots in use.
Used == {i \in 1 .. Depth : query_map.keys[i] # 0}

\* No two slots in use hold the same key, and each holds the query of a request
\* with that hash, whatever was refused, extracted and put in its place: a header
\* finds one query at most, and not one that is left from an earlier use.
KeysIdentifyQueries ==
  /\ \A i, j \in Used : query_map.keys[i] = query_map.keys[j] => i = j
  /\ \A i \in Used : /\ query_map.queries[i] \in Messages
                     /\ query_map.keys[i] = Hash[query_map.queries[i]]

\* A responder answers the query of a request with the hash of its header: its
\* own query, where hashes do not collide.  (The hash 0 finds a free slot.)
AnswersMatchingQuery ==
  \A t \in Responders :
    LET r == response[t]
    IN  /\ r.header \in Messages => r.hash = Hash[r.header]
        /\ r.hash # 0 => r.query \in Messages /\ Hash[r.query] = r.hash

\* The slots in use that hold the query of request m.
SlotsOf(m) == {i \in Used : query_map.queries[i] = m}

\* A query is answered and dropped once, though its slot keeps it: it is in one
\* slot in use, with one responder, or dropped.  (Again, the hash 0 apart.)
QueriesDroppedOnce ==
  \A m \in Messages :
    LET busy == {t \in Responders : response[t].hash # 0 /\ response[t].query = m}
    IN  /\ \A i, j \in SlotsOf(m) : i = j
        /\ \A t, u \in busy : t = u
        /\ SlotsOf(m) # {} => busy = {} /\ m \notin dropped
        /\ busy # {} => m \notin dropped

\* A query that was accepted stays until a responder takes it: no request that
\* comes in, is refused or is given up for a new one costs it its slot.
AcceptedIsKept ==
  [][\A m \in Messages : SlotsOf(m) # {} /\ SlotsOf(m)' = {} =>
       \E t \in Responders : response[t] = Idle /\ response'[t].query = m]_vars

\* A request whose query was refused is not one to hand out: "pop the message
\* pushed to message queue" (detail/service.c).
TakenIsAnswerable == taken \cap refused = {}

\* "Computed query id hash of value 0 is not allowed" (detail/query_map.c): no
\* request is answered through a query that is found under this hash.
ZeroHashFindsNothing == \A t \in Responders : response[t] # Idle => response[t].hash # 0
=============================================================================
