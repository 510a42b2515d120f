------------------------- MODULE RequestReplyProofs -------------------------
(***************************************************************************)
(* What holds of a client and the service that answers it: the two keep    *)
(* what they promise alone, and, with queues of depth one and hashes that  *)
(* tell requests apart, a response goes with its request.                  *)
(***************************************************************************)
EXTENDS RequestReply, ClientProofs

\* The theorems on a service, about the one here.
SP == INSTANCE ServiceProofs
        WITH MaxArrivals   <- MaxRequests,
             message_queue <- service_queue,
             arrived       <- received,
             taken         <- requests

LEMMA ServiceAssumptions ==
  SP!BlankAssumption /\ SP!DepthAssumption /\ SP!HashAssumption /\ SP!NoRequestAssumption
  BY BlankAssumption, DepthAssumption, ClientAssumption, ServiceAssumption
     DEF SP!BlankAssumption, SP!DepthAssumption, SP!HashAssumption, SP!NoRequestAssumption,
         SP!Headers, SP!Messages, Requests

-----------------------------------------------------------------------------
(* The parts.                                                              *)

\* A step of the system is a step of the client, or leaves it alone.
LEMMA ClientSteps == IInv /\ [SystemNext]_systemVars => [Next]_vars
<1> SUFFICES ASSUME IInv, [SystemNext]_systemVars PROVE [Next]_vars
  OBVIOUS
<1>1. CASE SendRequest
  BY <1>1 DEF SendRequest, Next
<1>2. ASSUME NEW q \in Requests, ReadTask(q) PROVE Next
  BY <1>2 DEF ReadTask, Next
<1>3. ASSUME NEW r \in replies, ReplyReaches(r) PROVE Next
  BY <1>3 DEF ReplyReaches, AddNewReply, ReplyArrives, Next, IInv, Types
<1>4. CASE ClientTakes \/ Destroy
  BY <1>4 DEF ClientTakes, Destroy, Next
<1>5. ASSUME NEW q \in Requests, RequestReaches(q) PROVE UNCHANGED vars
  BY <1>5 DEF RequestReaches
<1>6. ASSUME NEW t \in Responders, SendResponse(t) PROVE UNCHANGED vars
  BY <1>6 DEF SendResponse
<1>7. ASSUME ServiceTakes \/ TakeFromQueryMap \/ UNCHANGED systemVars PROVE UNCHANGED vars
  BY <1>7 DEF ServiceTakes, TakeFromQueryMap, systemVars
<1> QED BY <1>1, <1>2, <1>3, <1>4, <1>5, <1>6, <1>7 DEF SystemNext

\* And one of the service, or leaves that alone.
LEMMA ServiceSteps == [SystemNext]_systemVars => [S!Next]_(S!vars)
<1> SUFFICES ASSUME [SystemNext]_systemVars PROVE [S!Next]_(S!vars)
  OBVIOUS
<1>1. ASSUME UNCHANGED serviceVars PROVE UNCHANGED S!vars
  BY <1>1 DEF serviceVars, S!vars
<1>2. CASE SendRequest \/ ClientTakes \/ Destroy \/ UNCHANGED systemVars
  BY <1>1, <1>2 DEF SendRequest, ClientTakes, Destroy, systemVars
<1>3. ASSUME NEW q \in Requests, ReadTask(q) PROVE UNCHANGED serviceVars
  BY <1>3 DEF ReadTask
<1>4. ASSUME NEW r \in replies, ReplyReaches(r) PROVE UNCHANGED serviceVars
  BY <1>4 DEF ReplyReaches
<1>5. ASSUME NEW q \in Requests, RequestReaches(q) PROVE S!Next
  BY <1>5 DEF RequestReaches, S!Next
<1>6. CASE ServiceTakes \/ TakeFromQueryMap
  BY <1>6 DEF ServiceTakes, TakeFromQueryMap, S!Next
<1>7. ASSUME NEW t \in Responders, SendResponse(t) PROVE S!Next
  BY <1>7 DEF SendResponse, S!Next
<1> QED BY <1>1, <1>2, <1>3, <1>4, <1>5, <1>6, <1>7 DEF SystemNext

\* A client that is answered keeps every promise of a client alone.
THEOREM ClientInSystem == SystemSpec => Spec
<1>1. SystemInit => Init
  BY DEF SystemInit
<1> QED BY <1>1, ClientSteps, InitIInv, NextIInv, PTL DEF SystemSpec, Spec

\* A service keeps every promise of a service alone.
THEOREM ServiceInSystem == SystemSpec => S!Spec
<1>1. SystemInit => S!Init
  BY DEF SystemInit
<1> QED BY <1>1, ServiceSteps, PTL DEF SystemSpec, S!Spec

-----------------------------------------------------------------------------
(* The way of a request, with queues of depth one.                         *)

\* No header has the hash of a free slot, and no two of them share one.
HashesDiffer == \A m, n \in Requests : Hash[m] # 0 /\ (Hash[m] = Hash[n] => m = n)

\* A reply, made for request q all of it.
Whole(q) == [to |-> q, number |-> q, work |-> q]
Wholes == {Whole(q) : q \in Requests}

Once == [Requests -> {0, 1}]

PlaceTypes ==
  /\ called \in SUBSET Requests /\ posted \in SUBSET called
  /\ request_of \in Seq(Requests) /\ Len(request_of) = received
  /\ received \in 0 .. MaxRequests
  /\ work \in [Requests -> 0 .. MaxRequests]
  /\ served \in Once /\ answered \in Once /\ returned \in Once
  /\ replies \in SUBSET Wholes
  /\ content \in [Messages -> {NoContent} \cup Wholes]

\* Numbers that are sent are used up, and each reaches the service once.
Sent ==
  /\ \A q \in called : q < sequence_number
  /\ \A t \in Senders : sender[t].pc # "idle" => sender[t].number \notin called
  /\ \A m \in 1 .. received : request_of[m] \in called \ posted
  /\ \A m, n \in 1 .. received : request_of[m] = request_of[n] => m = n

\* What was done to a request was done in this order.
InOrder ==
  \A q \in Requests : /\ served[q] = 1 => \E m \in 1 .. received : request_of[m] = q
                      /\ answered[q] = 1 => served[q] = 1
                      /\ returned[q] = 1 => answered[q] = 1

\* What waits in the service's queue is whole, and no one has worked on it.
Waiting ==
  service_queue.size > 0 =>
    /\ Front(service_queue).payload \in 1 .. received
    /\ Front(service_queue).attachment_data = Front(service_queue).payload
    /\ served[request_of[Front(service_queue).payload]] = 0

\* Header h was handed out with its request, which was not answered.
InWork(h) == /\ h \in 1 .. received
             /\ work[h] = request_of[h]
             /\ served[request_of[h]] = 1
             /\ answered[request_of[h]] = 0

Responding(t) == response[t].header # NoRequest

\* A header is with the application or with one responder, who has its query.
Working ==
  /\ \A h \in requests : InWork(h)
  /\ \A t \in Responders : Responding(t) => /\ InWork(response[t].header)
                                            /\ response[t].query = response[t].header
                                            /\ response[t].header \notin requests
  /\ \A t, u \in Responders :
       Responding(t) /\ Responding(u) /\ response[t].header = response[u].header => t = u

\* A reply is on its way or has reached the client.
Back ==
  /\ \A q \in Requests : Whole(q) \in replies => /\ answered[q] = 1 /\ returned[q] = 0
                                                 /\ \A k \in Messages : content[k] # Whole(q)
  /\ \A k \in Messages, q \in Requests : content[k] = Whole(q) => answered[q] = 1
  /\ \A k \in Messages : k > arrived => content[k] = NoContent

\* What waits in the client's queue was not returned.
Returning ==
  reply_queue.size > 0 =>
    \E q \in Requests : content[Front(reply_queue).payload] = Whole(q) /\ returned[q] = 0

PlaceInv == PlaceTypes /\ Sent /\ InOrder /\ Waiting /\ Working /\ Back /\ Returning

LEMMA InitPlaceInv == SystemInit => PlaceInv
<1> SUFFICES ASSUME SystemInit PROVE PlaceInv
  OBVIOUS
<1> USE DepthAssumption, ClientAssumption, ServiceAssumption
        DEF SystemInit, Init, S!Init, Never, NoContent
<1>1. PlaceTypes
  BY DEF PlaceTypes, Once
<1>2. Sent /\ InOrder
  BY DEF Sent, InOrder, Idle
<1>3. Waiting /\ Returning
  BY DEF Waiting, Returning, QueueInit, S!QueueInit
<1>4. Working
  BY DEF Working, Responding, S!Idle
<1>5. Back
  BY DEF Back, Whole, Messages, Requests
<1> QED BY <1>1, <1>2, <1>3, <1>4, <1>5 DEF PlaceInv

-----------------------------------------------------------------------------
(* The client's steps.                                                     *)

\* The invariant does not look at what these steps change, numbers apart.
LEMMA OthersKeepPlaces ==
  ASSUME PlaceInv,
         UNCHANGED <<service_queue, received, requests, response, posted, replies, historyVars>>,
         UNCHANGED <<arrived, reply_queue>>
  PROVE  /\ PlaceTypes' /\ InOrder' /\ Waiting' /\ Working' /\ Back' /\ Returning'
         /\ UNCHANGED <<sequence_number, sender>> => Sent'
<1> USE DEF PlaceInv, historyVars
<1>1. PlaceTypes' /\ InOrder'
  BY DEF PlaceTypes, InOrder
<1>2. Waiting' /\ Returning'
  BY DEF Waiting, Returning
<1>3. Working'
  BY DEF Working, InWork, Responding
<1>4. Back'
  BY DEF Back
<1>5. UNCHANGED <<sequence_number, sender>> => Sent'
  BY DEF Sent
<1> QED BY <1>1, <1>2, <1>3, <1>4, <1>5

LEMMA SendRequestPlaceInv ==
  ASSUME IInv, PlaceInv, NEW t \in Senders,
         GetNextSequenceNumber(t) \/ SendRequestFails(t) \/ IncrementQueriesInFlight(t) \/ ZGetFails(t),
         UNCHANGED <<serviceVars, posted, replies, historyVars>>
  PROVE  PlaceInv'
<1> USE DEF PlaceInv
<1>1. UNCHANGED <<reply_queue, arrived>>
  BY DEF GetNextSequenceNumber, SendRequestFails, IncrementQueriesInFlight, ZGetFails, queueVars
<1>2. UNCHANGED <<called, posted, received, request_of>>
  BY DEF serviceVars, historyVars
<1>3. /\ sequence_number \in Nat /\ sequence_number' \in Nat
      /\ sequence_number <= sequence_number'
  BY ClientAssumption
     DEF IInv, Types, GetNextSequenceNumber, SendRequestFails, IncrementQueriesInFlight, ZGetFails
<1>4. ASSUME NEW u \in Senders, sender'[u].pc # "idle"
      PROVE  \/ sender[u].pc # "idle" /\ sender'[u].number = sender[u].number
             \/ sender'[u].number = sequence_number
  <2>1. sender[u] \in [pc : {"idle", "numbered", "counted"}, number : 0 .. MaxRequests]
    BY DEF IInv, Types
  <2>2. CASE GetNextSequenceNumber(t)
    BY <1>4, <2>1, <2>2 DEF GetNextSequenceNumber, IInv, Types
  <2>3. CASE SendRequestFails(t) \/ ZGetFails(t)
    BY <1>4, <2>1, <2>3 DEF SendRequestFails, ZGetFails, Idle, IInv, Types
  <2>4. CASE IncrementQueriesInFlight(t)
    BY <1>4, <2>1, <2>4 DEF IncrementQueriesInFlight, IInv, Types
  <2> QED BY <2>2, <2>3, <2>4
<1>5. Sent'
  <2>1. \A q \in called : q \in Nat /\ q < sequence_number
    <3>1. \A q \in Requests : q \in Nat
      BY ClientAssumption DEF Requests
    <3>2. called \subseteq Requests
      BY DEF PlaceTypes
    <3> QED BY <3>1, <3>2 DEF Sent
  <2>2. \A q \in called' : q < sequence_number' /\ q # sequence_number
    BY <1>2, <1>3, <2>1
  <2> QED BY <1>2, <1>4, <2>2 DEF Sent
<1> QED BY <1>1, <1>5, OthersKeepPlaces DEF serviceVars

\* A request is sent.
LEMMA ZGetPlaceInv ==
  ASSUME IInv, PlaceInv, NEW t \in Senders, ZGet(t),
         posted' = posted \cup {sender[t].number},
         called' = called \cup {sender[t].number},
         UNCHANGED <<serviceVars, replies, request_of, work, content, served, answered, returned>>
  PROVE  PlaceInv'
<1> USE DEF PlaceInv
<1> DEFINE n == sender[t].number
<1>1. n \in Requests /\ n < sequence_number /\ n \notin called
  BY DEF ZGet, IInv, Numbers, Sent
<1>2. /\ sequence_number' = sequence_number /\ reply_queue' = reply_queue /\ arrived' = arrived
      /\ \A u \in Senders : sender'[u] = IF u = t THEN Idle ELSE sender[u]
  BY DEF ZGet, IInv, Types, queueVars
<1>3. UNCHANGED <<service_queue, received, requests, response>>
  BY DEF serviceVars
<1>4. PlaceTypes' /\ InOrder'
  BY <1>1, <1>3 DEF PlaceTypes, InOrder
<1>5. Waiting' /\ Returning'
  BY <1>2, <1>3 DEF Waiting, Returning
<1>6. Working'
  BY <1>3 DEF Working, InWork, Responding
<1>7. Back'
  BY <1>2 DEF Back
<1>8. Sent'
  <2>1. \A u \in Senders : sender'[u].pc # "idle" =>
          u # t /\ sender[u].pc # "idle" /\ sender'[u].number = sender[u].number
    BY <1>2 DEF Idle
  <2>2. \A u \in Senders : u # t /\ sender[u].pc # "idle" => sender[u].number # n
    BY DEF ZGet, IInv, Numbers, SequenceNumbersUnique, Idle
  <2>3. \A u \in Senders : sender'[u].pc # "idle" => sender'[u].number \notin called'
    BY <2>1, <2>2 DEF Sent
  <2>4. \A q \in called' : q < sequence_number'
    BY <1>1, <1>2 DEF Sent
  <2>5. \A m \in 1 .. received' : request_of'[m] \in called' \ posted'
    BY <1>1, <1>3 DEF Sent
  <2> QED BY <1>3, <2>3, <2>4, <2>5 DEF Sent
<1> QED BY <1>4, <1>5, <1>6, <1>7, <1>8

\* A reply comes in that is ignored or does not decode, a query ends.
LEMMA ReadTaskPlaceInv ==
  ASSUME Depth = 1, IInv, PlaceInv, NEW q \in Requests, ReadTask(q)
  PROVE  PlaceInv'
<1> USE DEF PlaceInv
<1>1. /\ UNCHANGED <<serviceVars, posted, replies, historyVars, sequence_number, sender>>
      /\ arrived \in 0 .. MaxArrivals /\ arrived' \in {arrived, arrived + 1}
  BY DEF ReadTask, AddNewReplyFails, IgnoreReply, ReplyArrives, DataDropper, queueVars, IInv, Types
<1>2. UNCHANGED <<service_queue, received, requests, response, called, posted, request_of,
                  work, content, served, answered, returned>>
  BY <1>1 DEF serviceVars, historyVars
<1>3. reply_queue' = reply_queue \/ reply_queue'.size = 0
  <2>1. CASE AddNewReplyFails(q)
    <3>1. arrived + 1 \in Messages /\ arrived' = arrived + 1
      BY <1>1, <2>1, DepthAssumption DEF AddNewReplyFails, ReplyArrives, Messages
    <3> QED BY <2>1, <3>1, DepthOneFront DEF AddNewReplyFails, IInv, Types
  <2>2. CASE IgnoreReply(q) \/ DataDropper(q)
    BY <2>2 DEF IgnoreReply, DataDropper, queueVars
  <2> QED BY <2>1, <2>2 DEF ReadTask
<1>4. PlaceTypes' /\ InOrder' /\ Sent'
  BY <1>1, <1>2 DEF PlaceTypes, InOrder, Sent
<1>5. Waiting' /\ Returning'
  BY <1>2, <1>3 DEF Waiting, Returning
<1>6. Working'
  BY <1>2 DEF Working, InWork, Responding
<1>7. Back'
  BY <1>1, <1>2, DepthAssumption DEF Back, Messages
<1> QED BY <1>4, <1>5, <1>6, <1>7

\* A reply of the service reaches the client: it is in the queue now, and only there.
LEMMA ReplyReachesPlaceInv ==
  ASSUME Depth = 1, IInv, PlaceInv, NEW r \in replies, ReplyReaches(r)
  PROVE  PlaceInv'
<1> USE DEF PlaceInv
<1>1. PICK q \in Requests : r = Whole(q)
  BY DEF PlaceTypes, Wholes
<1>2. answered[q] = 1 /\ returned[q] = 0 /\ \A k \in Messages : content[k] # Whole(q)
  BY <1>1 DEF Back
<1>3. /\ arrived' = arrived + 1 /\ arrived' \in Messages /\ arrived \in Nat
      /\ replies' = replies \ {r}
      /\ content' = [content EXCEPT ![arrived'] = r]
      /\ reply_queue' = PushBack(MakeRoom(reply_queue), arrived')
      /\ UNCHANGED <<serviceVars, posted, request_of, work, called, served, answered, returned,
                     sequence_number, sender>>
  BY DepthAssumption DEF ReplyReaches, AddNewReply, ReplyArrives, IInv, Types, Messages
<1>4. \A k \in Messages : content'[k] = IF k = arrived' THEN r ELSE content[k]
  BY <1>3 DEF PlaceTypes
<1>5. Front(reply_queue').payload = arrived'
  BY <1>3, DepthOneFront DEF IInv, Types
<1>6. UNCHANGED <<service_queue, received, requests, response>>
  BY <1>3 DEF serviceVars
<1>7. PlaceTypes'
  BY <1>1, <1>3, <1>6 DEF PlaceTypes, Wholes
<1>8. Sent' /\ InOrder' /\ Waiting'
  BY <1>3, <1>6 DEF Sent, InOrder, Waiting
<1>9. Working'
  BY <1>3, <1>6 DEF Working, InWork, Responding
<1>10. Back'
  <2>1. ASSUME NEW p \in Requests, Whole(p) \in replies'
        PROVE  /\ answered[p] = 1 /\ returned[p] = 0
               /\ \A k \in Messages : content'[k] # Whole(p)
    <3>1. Whole(p) \in replies /\ Whole(p) # r
      BY <1>3, <2>1
    <3> QED BY <1>4, <3>1 DEF Back
  <2>2. ASSUME NEW k \in Messages, NEW p \in Requests, content'[k] = Whole(p)
        PROVE  answered[p] = 1
    <3>1. Whole(p) = Whole(q) => p = q
      BY DEF Whole
    <3> QED BY <1>1, <1>2, <1>4, <2>2, <3>1 DEF Back
  <2>3. \A k \in Messages : k > arrived' => content'[k] = NoContent
    BY <1>3, <1>4, DepthAssumption DEF Back, Messages
  <2> QED BY <1>3, <2>1, <2>2, <2>3 DEF Back
<1>11. Returning'
  <2>1. content'[arrived'] = Whole(q) /\ returned'[q] = 0
    BY <1>1, <1>2, <1>3, <1>4
  <2> QED BY <1>5, <2>1 DEF Returning
<1> QED BY <1>7, <1>8, <1>9, <1>10, <1>11

\* A response is handed out: the queue is empty then, and the call counted.
LEMMA ClientTakesPlaceInv ==
  ASSUME Depth = 1, IInv, WholeInv, PlaceInv, ClientTakes
  PROVE  PlaceInv'
<1> USE DEF PlaceInv
<1> DEFINE m == Front(reply_queue).payload
<1>1. PICK q \in Requests : content[m] = Whole(q) /\ returned[q] = 0
  BY DEF ClientTakes, TakeResponse, Returning
<1>2. m \in Messages
  BY DEF ClientTakes, TakeResponse, WholeInv, Intact
<1>3. answered[q] = 1 /\ Whole(q) \notin replies
  BY <1>1, <1>2 DEF Back
<1>4. /\ reply_queue'.size = 0 /\ arrived' = arrived
      /\ UNCHANGED <<sequence_number, sender, serviceVars, posted, replies, request_of, work,
                     content, called, served, answered>>
      /\ returned' \in {returned, Count(returned, q)}
  <2>1. reply_queue.size > 0 /\ reply_queue' = PopFront(reply_queue)
    BY DEF ClientTakes, TakeResponse
  <2>2. reply_queue'.size = 0
    BY <1>2, <2>1, DepthOneFront DEF IInv, Types
  <2>3. content[m].work = q
    BY <1>1 DEF Whole
  <2> QED BY <2>2, <2>3 DEF ClientTakes, TakeResponse
<1>5. UNCHANGED <<service_queue, received, requests, response>>
  BY <1>4 DEF serviceVars
<1>6. /\ returned' \in Once
      /\ \A p \in Requests : p # q => returned'[p] = returned[p]
  <2>1. returned \in Once
    BY DEF PlaceTypes
  <2>2. Count(returned, q) = [returned EXCEPT ![q] = 1]
    BY <1>1 DEF Count
  <2> QED BY <1>4, <2>1, <2>2 DEF Once
<1>7. PlaceTypes'
  BY <1>4, <1>5, <1>6 DEF PlaceTypes
<1>8. Sent' /\ Waiting'
  BY <1>4, <1>5 DEF Sent, Waiting
<1>9. InOrder'
  BY <1>3, <1>4, <1>5, <1>6 DEF InOrder
<1>10. Working'
  BY <1>4, <1>5 DEF Working, InWork, Responding
<1>11. Back'
  BY <1>3, <1>4, <1>6 DEF Back
<1>12. Returning'
  BY <1>4 DEF Returning
<1> QED BY <1>7, <1>8, <1>9, <1>10, <1>11, <1>12

-----------------------------------------------------------------------------
(* The service's steps.                                                    *)

\* What a queue of depth one is after an arrival, by the lemmas on the service's.
LEMMA ServiceQueue ==
  ASSUME Depth = 1, SP!IInv, NEW m \in Requests
  PROVE  /\ LET q == S!PushBack(S!MakeRoom(service_queue), m)
            IN  Front(q).payload = m /\ Front(q).attachment_data = m
         /\ \A q \in S!PushFails(S!MakeRoom(service_queue), m) : q.size = 0
         /\ service_queue.size > 0 => S!PopFront(service_queue).size = 0
<1> USE ServiceAssumptions
<1>1. SP!WellFormed(service_queue) /\ m \in SP!Messages
  BY DEF SP!IInv, SP!Messages, Requests
<1>2. Front(SP!PushBack(SP!MakeRoom(service_queue), m)).payload = m
  BY <1>1, SP!DepthOneFront DEF SP!Front, Front
<1>3. Front(SP!PushBack(SP!MakeRoom(service_queue), m)).attachment_data = m
  <2>1. SP!PushBack(SP!MakeRoom(service_queue), m).size > 0
    BY <1>1, SP!MakeRoomWellFormed, SP!PushBackWellFormed
       DEF SP!WellFormed, SP!MessageQueues
  <2>2. SP!Intact(SP!PushBack(SP!MakeRoom(service_queue), m))
    BY <1>1, SP!DepthOneIntact
  <2> QED BY <1>2, <2>1, <2>2 DEF SP!Intact, SP!Front, Front
<1>4. /\ \A q \in SP!PushFails(SP!MakeRoom(service_queue), m) : q.size = 0
      /\ service_queue.size > 0 => SP!PopFront(service_queue).size = 0
  BY <1>1, SP!DepthOneFront
<1>5. /\ S!MakeRoom(service_queue) = SP!MakeRoom(service_queue)
      /\ S!PopFront(service_queue) = SP!PopFront(service_queue)
      /\ \A q : S!PushBack(q, m) = SP!PushBack(q, m) /\ S!PushFails(q, m) = SP!PushFails(q, m)
  BY DEF S!MakeRoom, SP!MakeRoom, S!PopFront, SP!PopFront, S!PushBack, SP!PushBack,
         S!PushFails, SP!PushFails, S!FailedSlots, SP!FailedSlots, S!Front, SP!Front,
         S!Advance, SP!Advance, S!IsFull, SP!IsFull
<1> QED BY <1>2, <1>3, <1>4, <1>5

\* A request reaches the service: no one has worked on it before.
LEMMA RequestReachesPlaceInv ==
  ASSUME Depth = 1, SP!IInv, PlaceInv, NEW q \in Requests, RequestReaches(q)
  PROVE  PlaceInv'
<1> USE DEF PlaceInv
<1> DEFINE m == received + 1
<1>1. /\ received' = m /\ m \in Requests /\ received \in Nat
      /\ q \in posted /\ posted' = posted \ {q}
      /\ request_of' = Append(request_of, q)
      /\ UNCHANGED <<vars, replies, work, content, called, served, answered, returned,
                     requests, response>>
  BY ClientAssumption
     DEF RequestReaches, S!AddNewQuery, S!AddNewQueryFails, S!IgnoreQuery, S!QueryArrives,
         PlaceTypes, Requests
<1>2. UNCHANGED <<sequence_number, sender, arrived, reply_queue>>
  BY <1>1 DEF vars
<1>3. /\ request_of' \in Seq(Requests) /\ Len(request_of') = m
      /\ request_of'[m] = q
      /\ \A k \in 1 .. received : request_of'[k] = request_of[k]
  BY <1>1 DEF PlaceTypes
<1>4. \A k \in 1 .. m : k \in 1 .. received \/ k = m
  BY <1>1
<1>5. \A k \in 1 .. received : k \in 1 .. m /\ request_of[k] # q
  BY <1>1 DEF Sent
<1>6. served[q] = 0
  BY <1>1, <1>5 DEF PlaceTypes, InOrder, Once
<1>7. PlaceTypes'
  BY <1>1, <1>3 DEF PlaceTypes, Requests
<1>8. Sent'
  <2>1. \A k \in 1 .. m : request_of'[k] \in called \ posted'
    BY <1>1, <1>3, <1>4, <1>5 DEF Sent, PlaceTypes
  <2>2. \A k, n \in 1 .. m : request_of'[k] = request_of'[n] => k = n
    BY <1>3, <1>4, <1>5 DEF Sent
  <2> QED BY <1>1, <1>2, <2>1, <2>2 DEF Sent
<1>9. InOrder'
  BY <1>1, <1>3, <1>5 DEF InOrder
<1>10. Waiting'
  <2>1. CASE S!AddNewQuery
    <3>1. service_queue' = S!PushBack(S!MakeRoom(service_queue), m)
      BY <1>1, <2>1 DEF S!AddNewQuery
    <3> QED BY <1>1, <1>3, <1>6, <3>1, ServiceQueue DEF Waiting
  <2>2. CASE S!AddNewQueryFails
    <3>1. service_queue' \in S!PushFails(S!MakeRoom(service_queue), m)
      BY <1>1, <2>2 DEF S!AddNewQueryFails
    <3>2. service_queue'.size = 0
      BY <1>1, <3>1, ServiceQueue
    <3> QED BY <3>2 DEF Waiting
  <2>3. CASE S!IgnoreQuery
    <3>1. service_queue' = service_queue
      BY <2>3 DEF S!IgnoreQuery
    <3> QED BY <1>1, <1>3, <1>5, <3>1 DEF Waiting
  <2> QED BY <2>1, <2>2, <2>3 DEF RequestReaches
<1>11. Working'
  <2>1. \A h : InWork(h) => InWork(h)'
    BY <1>1, <1>3, <1>5 DEF InWork
  <2> QED BY <1>1, <2>1 DEF Working, Responding
<1>12. Back' /\ Returning'
  BY <1>1, <1>2 DEF Back, Returning
<1> QED BY <1>7, <1>8, <1>9, <1>10, <1>11, <1>12

\* What the service's application is handed.
LEMMA ServiceTakesEffect ==
  ASSUME Depth = 1, SP!IInv, PlaceInv, ServiceTakes
  PROVE  LET m == Front(service_queue).payload
             q == request_of[m]
         IN  /\ m \in 1 .. received /\ q \in called /\ q \in Requests /\ served[q] = 0
             /\ service_queue'.size = 0
             /\ UNCHANGED <<vars, received, response, posted, replies, request_of, content, called,
                            answered, returned>>
             /\ \/ requests' = requests /\ UNCHANGED <<work, served>>
                \/ /\ requests' = requests \cup {m}
                   /\ work' = [work EXCEPT ![m] = q]
                   /\ served' = [served EXCEPT ![q] = 1]
<1> USE DEF PlaceInv
<1> DEFINE m == Front(service_queue).payload
           q == request_of[m]
<1>1. service_queue.size > 0 /\ service_queue' = S!PopFront(service_queue)
  BY DEF ServiceTakes, S!TakeRequest
<1>2. m \in 1 .. received /\ Front(service_queue).attachment_data = m /\ served[q] = 0
  BY <1>1 DEF Waiting
<1>3. q \in called /\ q \in Requests /\ m \in Requests /\ m \in S!Messages
  <2>1. q \in called /\ called \subseteq Requests
    BY <1>2 DEF Sent, PlaceTypes
  <2>2. received \in 0 .. MaxRequests
    BY DEF PlaceTypes
  <2>3. m \in Requests /\ m \in S!Messages
    BY <1>2, <2>2, ClientAssumption DEF Requests, S!Messages
  <2> QED BY <2>1, <2>3
<1>4. service_queue'.size = 0
  BY <1>1, <1>3, ServiceQueue
<1>5. requests' = requests \/ requests' = requests \cup {m}
  BY <1>2 DEF ServiceTakes, S!TakeRequest, S!Front, Front
<1>6. /\ requests' = requests => UNCHANGED <<work, served>>
      /\ requests' # requests => /\ work' = [work EXCEPT ![m] = q]
                                 /\ served' = [served EXCEPT ![q] = 1]
  BY <1>2, <1>3 DEF ServiceTakes, Count
<1>7. UNCHANGED <<vars, received, response, posted, replies, request_of, content, called,
                  answered, returned>>
  BY DEF ServiceTakes, S!TakeRequest
<1> QED BY <1>2, <1>3, <1>4, <1>5, <1>6, <1>7

\* A header that is new is one no one has: its request was not worked on.
LEMMA ServiceTakesPlaceInv ==
  ASSUME Depth = 1, SP!IInv, PlaceInv, ServiceTakes
  PROVE  PlaceInv'
<1> USE DEF PlaceInv
<1> DEFINE m == Front(service_queue).payload
           q == request_of[m]
<1>0. \A h \in 1 .. received : h \in Requests /\ request_of[h] \in Requests
  BY ClientAssumption DEF PlaceTypes, Requests
<1>1. /\ m \in 1 .. received /\ q \in Requests /\ served[q] = 0 /\ m \in Requests
      /\ service_queue'.size = 0
      /\ UNCHANGED <<vars, received, response, posted, replies, request_of, content, called,
                     answered, returned>>
  BY <1>0, ServiceTakesEffect
<1>2. UNCHANGED <<sequence_number, sender, arrived, reply_queue>>
  BY <1>1 DEF vars
<1>3. Sent' /\ Waiting' /\ Back' /\ Returning'
  BY <1>1, <1>2 DEF Sent, Waiting, Back, Returning
<1>4. CASE requests' = requests /\ UNCHANGED <<work, served>>
  <2>1. PlaceTypes' /\ InOrder'
    BY <1>1, <1>4 DEF PlaceTypes, InOrder
  <2>2. Working'
    BY <1>1, <1>4 DEF Working, InWork, Responding
  <2> QED BY <1>3, <2>1, <2>2
<1>5. CASE /\ requests' = requests \cup {m}
           /\ work' = [work EXCEPT ![m] = q]
           /\ served' = [served EXCEPT ![q] = 1]
  <2>1. /\ \A h \in Requests : work'[h] = IF h = m THEN q ELSE work[h]
        /\ \A p \in Requests : served'[p] = IF p = q THEN 1 ELSE served[p]
        /\ work' \in [Requests -> 0 .. MaxRequests] /\ served' \in Once
    BY <1>1, <1>5, ClientAssumption DEF PlaceTypes, Once, Requests
  <2>2. PlaceTypes'
    BY <1>1, <2>1 DEF PlaceTypes
  <2>3. InOrder'
    BY <1>1, <2>1 DEF InOrder
  <2>4. ASSUME NEW h, InWork(h)
        PROVE  InWork(h)' /\ h # m
    <3>1. h \in Requests /\ request_of[h] \in Requests
      BY <1>0, <2>4 DEF InWork
    <3>2. h # m
      BY <1>1, <2>4 DEF InWork
    <3> QED BY <1>1, <2>1, <2>4, <3>1, <3>2 DEF InWork
  <2>5. ASSUME NEW h, h = m
        PROVE  InWork(h)'
    <3>1. answered[q] = 0
      BY <1>1 DEF InOrder, PlaceTypes, Once
    <3> QED BY <1>1, <2>1, <2>5, <3>1 DEF InWork
  <2>6. Working'
    <3>1. ASSUME NEW h \in requests' PROVE InWork(h)'
      <4>1. h = m \/ InWork(h)
        BY <1>5 DEF Working
      <4> QED BY <2>4, <2>5, <4>1
    <3>2. ASSUME NEW t \in Responders, Responding(t)'
          PROVE  /\ Responding(t) /\ response'[t] = response[t]
                 /\ response[t].header # m
      <4>1. Responding(t) /\ response'[t] = response[t]
        BY <1>1, <3>2 DEF Responding
      <4> QED BY <4>1, <2>4 DEF Working
    <3>3. ASSUME NEW t \in Responders, NEW h, Responding(t), h = response[t].header
          PROVE  InWork(h)'
      BY <2>4, <3>3 DEF Working
    <3>4. ASSUME NEW t \in Responders, Responding(t)'
          PROVE  /\ InWork(response[t].header)'
                 /\ response'[t].query = response'[t].header
                 /\ response'[t].header \notin requests'
      BY <1>1, <1>5, <3>2, <3>3, <3>4 DEF Working
    <3> QED BY <1>1, <3>1, <3>2, <3>4 DEF Working
  <2> QED BY <1>3, <2>2, <2>3, <2>6
<1> QED BY <1>4, <1>5, ServiceTakesEffect

\* What a responder finds in the map is the query of its header.
LEMMA TakeFromQueryMapPlaceInv ==
  ASSUME HashesDiffer, PlaceInv, SP!IInv', TakeFromQueryMap
  PROVE  PlaceInv'
<1> USE DEF PlaceInv
<1>1. PICK t \in Responders, h \in S!Headers : S!TakeFromQueryMap(t, h)
  BY DEF TakeFromQueryMap
<1>2. UNCHANGED <<vars, posted, replies, historyVars>>
  BY DEF TakeFromQueryMap
<1>3. /\ h \in requests /\ requests' = requests \ {h}
      /\ UNCHANGED <<service_queue, received>>
      /\ response' = response \/ \E hash, query :
           response' = [response EXCEPT ![t] = [header |-> h, hash |-> hash, query |-> query]]
  BY <1>1 DEF S!TakeFromQueryMap
<1>4. /\ UNCHANGED <<sequence_number, sender, arrived, reply_queue>>
      /\ UNCHANGED <<request_of, work, content, called, served, answered, returned>>
  BY <1>2 DEF vars, historyVars
<1>5. PlaceTypes' /\ Sent' /\ InOrder'
  BY <1>2, <1>3, <1>4 DEF PlaceTypes, Sent, InOrder
<1>6. Waiting' /\ Back' /\ Returning'
  BY <1>2, <1>3, <1>4 DEF Waiting, Back, Returning
<1>7. \A k : InWork(k)' <=> InWork(k)
  BY <1>3, <1>4 DEF InWork
<1>8. Working'
  <2>1. CASE response' = response
    BY <1>3, <1>7, <2>1 DEF Working, Responding
  <2>2. CASE response' # response
    <3>1. PICK hash, query :
            response' = [response EXCEPT ![t] = [header |-> h, hash |-> hash, query |-> query]]
      BY <1>3, <2>2
    <3>2. /\ response' \in [Responders -> [header : SP!Headers, hash : SP!Hashes, query : SP!Headers]
                                            \cup {SP!Idle}]
          /\ SP!AnswersMatchingQuery'
      BY DEF SP!IInv
    <3>3. /\ DOMAIN response = Responders
          /\ response'[t].header = h /\ response'[t].query = query
          /\ \A u \in Responders : u # t => response'[u] = response[u]
      BY <3>1, <3>2
    <3>4. InWork(h) /\ h \in Requests
      BY <1>3, ClientAssumption DEF Working, InWork, PlaceTypes, Requests
    <3>5. query = h
      <4>1. response'[t].hash = Hash[h] /\ Hash[h] # 0
        BY <3>2, <3>3, <3>4 DEF SP!AnswersMatchingQuery, SP!Messages, HashesDiffer, Requests
      <4>2. query \in Requests /\ Hash[query] = Hash[h]
        BY <3>2, <3>3, <4>1 DEF SP!AnswersMatchingQuery, SP!Messages, Requests
      <4> QED BY <3>4, <4>2 DEF HashesDiffer
    <3>6. \A u \in Responders : u # t /\ Responding(u)' =>
            Responding(u) /\ response'[u].header = response[u].header /\ response[u].header # h
      BY <1>3, <3>3 DEF Working, Responding
    <3> QED BY <1>3, <1>7, <3>3, <3>4, <3>5, <3>6 DEF Working, Responding
  <2> QED BY <2>1, <2>2
<1> QED BY <1>5, <1>6, <1>8

\* What a responder sends: a reply made of one request, not answered before.
LEMMA SendResponseEffect ==
  ASSUME SP!IInv, PlaceInv, NEW t \in Responders, SendResponse(t)
  PROVE  LET h == response[t].header
             q == request_of[h]
         IN  /\ Responding(t) /\ InWork(h) /\ q \in Requests /\ served[q] = 1 /\ answered[q] = 0
             /\ response' = [response EXCEPT ![t] = S!Idle]
             /\ UNCHANGED <<vars, service_queue, received, requests, posted, request_of, work,
                            content, called, served, returned>>
             /\ \/ UNCHANGED <<replies, answered>>
                \/ /\ replies' = replies \cup {Whole(q)}
                   /\ answered' = [answered EXCEPT ![q] = 1]
<1> USE DEF PlaceInv
<1> DEFINE h == response[t].header
           q == request_of[h]
<1>1. /\ response[t] # S!Idle
      /\ response' = [response EXCEPT ![t] = S!Idle]
      /\ UNCHANGED <<vars, service_queue, received, requests, posted, request_of, work,
                     content, called, served, returned>>
  BY DEF SendResponse, S!Reply
<1>2. Responding(t)
  <2>1. response[t] \in [header : SP!Headers, hash : SP!Hashes, query : SP!Headers] \cup {SP!Idle}
    BY DEF SP!IInv
  <2>2. SP!Idle = S!Idle
    BY DEF SP!Idle, S!Idle
  <2> QED BY <1>1, <2>1, <2>2, ServiceAssumption
          DEF SP!Headers, SP!Messages, Responding, Requests
<1>3. InWork(h) /\ response[t].query = h
  BY <1>2 DEF Working
<1>4. q \in Requests /\ served[q] = 1 /\ answered[q] = 0 /\ work[h] = q
  BY <1>3 DEF InWork, PlaceTypes
<1>5. \/ UNCHANGED <<replies, answered>>
      \/ /\ replies' = replies \cup {Whole(q)}
         /\ answered' = [answered EXCEPT ![q] = 1]
  BY <1>3, <1>4 DEF SendResponse, Count, Whole
<1> QED BY <1>1, <1>2, <1>3, <1>4, <1>5

\* The responder is free again; its request is answered, or never will be.
LEMMA SendResponsePlaceInv ==
  ASSUME SP!IInv, PlaceInv, NEW t \in Responders, SendResponse(t)
  PROVE  PlaceInv'
<1> USE DEF PlaceInv
<1> DEFINE h == response[t].header
           q == request_of[h]
<1>1. /\ Responding(t) /\ InWork(h) /\ q \in Requests /\ served[q] = 1 /\ answered[q] = 0
      /\ response' = [response EXCEPT ![t] = S!Idle]
      /\ UNCHANGED <<vars, service_queue, received, requests, posted, request_of, work,
                     content, called, served, returned>>
  BY SendResponseEffect
<1>2. UNCHANGED <<sequence_number, sender, arrived, reply_queue>>
  BY <1>1 DEF vars
<1>3. Sent' /\ Waiting' /\ Returning'
  BY <1>1, <1>2 DEF Sent, Waiting, Returning
<1>4. ASSUME NEW u \in Responders, Responding(u)'
      PROVE  u # t /\ Responding(u) /\ response'[u] = response[u]
  BY <1>1, <1>4 DEF SP!IInv, Responding, S!Idle
<1>5. CASE UNCHANGED <<replies, answered>>
  <2>1. PlaceTypes' /\ InOrder' /\ Back'
    BY <1>1, <1>2, <1>5 DEF PlaceTypes, InOrder, Back
  <2>2. \A k : InWork(k)' <=> InWork(k)
    BY <1>1, <1>5 DEF InWork
  <2>3. Working'
    BY <1>1, <1>4, <2>2 DEF Working
  <2> QED BY <1>3, <2>1, <2>3
<1>6. CASE /\ replies' = replies \cup {Whole(q)}
           /\ answered' = [answered EXCEPT ![q] = 1]
  <2>1. /\ \A p \in Requests : answered'[p] = IF p = q THEN 1 ELSE answered[p]
        /\ answered' \in Once
    BY <1>1, <1>6 DEF PlaceTypes, Once
  <2>2. PlaceTypes' /\ InOrder'
    BY <1>1, <1>6, <2>1 DEF PlaceTypes, InOrder, Wholes
  <2>3. \A p \in Requests : Whole(p) = Whole(q) => p = q
    BY DEF Whole
  <2>4. returned[q] = 0 /\ \A k \in Messages : content[k] # Whole(q)
    BY <1>1 DEF InOrder, Back, PlaceTypes, Once
  <2>5. Back'
    BY <1>1, <1>2, <1>6, <2>1, <2>3, <2>4 DEF Back
  <2>6. \A k : InWork(k) /\ k # h => InWork(k)'
    <3> SUFFICES ASSUME NEW k, InWork(k), k # h PROVE InWork(k)'
      OBVIOUS
    <3>1. request_of[k] # q /\ request_of[k] \in Requests
      BY <1>1 DEF InWork, Sent, PlaceTypes
    <3> QED BY <1>1, <2>1, <3>1 DEF InWork
  <2>7. Working'
    BY <1>1, <1>4, <2>6 DEF Working
  <2> QED BY <1>3, <2>2, <2>5, <2>7
<1> QED BY <1>5, <1>6, SendResponseEffect

-----------------------------------------------------------------------------
(* The system.                                                             *)

\* A step of the service here is a step of the service of those theorems.
LEMMA SameService == S!Next => SP!Next
<1> USE DEF S!Messages, SP!Messages, S!Front, SP!Front, S!Advance, SP!Advance,
            S!PopFront, SP!PopFront, S!MakeRoom, SP!MakeRoom, S!IndexesOf, SP!IndexesOf,
            S!FirstOf, SP!FirstOf, S!IsFull, SP!IsFull
<1>1. ASSUME S!QueryArrives PROVE SP!QueryArrives
  BY <1>1 DEF S!QueryArrives, SP!QueryArrives
<1>2. S!AddNewQuery => SP!AddNewQuery
  BY <1>1 DEF S!AddNewQuery, SP!AddNewQuery, S!PushBack, SP!PushBack, S!CanInsert, SP!CanInsert,
              S!Insert, SP!Insert
<1>3. S!AddNewQueryFails => SP!AddNewQueryFails
  BY <1>1 DEF S!AddNewQueryFails, SP!AddNewQueryFails, S!PushFails, SP!PushFails,
              S!FailedSlots, SP!FailedSlots
<1>4. S!IgnoreQuery => SP!IgnoreQuery
  BY <1>1 DEF S!IgnoreQuery, SP!IgnoreQuery
<1>5. S!TakeRequest => SP!TakeRequest
  BY DEF S!TakeRequest, SP!TakeRequest, S!DeserializeResults, SP!DeserializeResults,
         S!ReturnCodes, SP!ReturnCodes
<1>6. ASSUME NEW t \in Responders, NEW h, S!TakeFromQueryMap(t, h) PROVE SP!TakeFromQueryMap(t, h)
  BY <1>6 DEF S!TakeFromQueryMap, SP!TakeFromQueryMap, S!Idle, SP!Idle, S!HashesOf, SP!HashesOf,
              S!Extract, SP!Extract, S!Extracted, SP!Extracted
<1>7. ASSUME NEW t \in Responders, S!Reply(t) PROVE SP!Reply(t)
  BY <1>7 DEF S!Reply, SP!Reply, S!Idle, SP!Idle
<1>8. S!Headers = SP!Headers
  BY DEF S!Headers, SP!Headers
<1> QED BY <1>2, <1>3, <1>4, <1>5, <1>6, <1>7, <1>8 DEF S!Next, SP!Next

\* So the invariant of its proofs holds of the service here.
LEMMA InitService == SystemInit => SP!IInv
<1>1. S!Init => SP!Init
  BY DEF S!Init, SP!Init, S!QueueInit, SP!QueueInit, S!UninitSlot, SP!UninitSlot,
         S!QueryMapInit, SP!QueryMapInit, S!Idle, SP!Idle
<1> QED BY <1>1, ServiceAssumptions, SP!InitIInv DEF SystemInit

LEMMA NextService == SP!IInv /\ [SystemNext]_systemVars => SP!IInv'
<1>1. UNCHANGED S!vars => UNCHANGED SP!vars
  BY DEF S!vars, SP!vars
<1> QED BY <1>1, ServiceAssumptions, ServiceSteps, SameService, SP!NextIInv

\* Every step leaves each request in its place.
LEMMA NextPlaceInv ==
  ASSUME Depth = 1, HashesDiffer
  PROVE  IInv /\ WholeInv /\ SP!IInv /\ PlaceInv /\ [SystemNext]_systemVars => PlaceInv'
<1> SUFFICES ASSUME IInv, WholeInv, SP!IInv, PlaceInv, [SystemNext]_systemVars
             PROVE  PlaceInv'
  OBVIOUS
<1>1. CASE SendRequest
  BY <1>1, SendRequestPlaceInv, ZGetPlaceInv DEF SendRequest
<1>2. CASE Destroy \/ UNCHANGED systemVars
  <2>1. /\ UNCHANGED <<service_queue, received, requests, response, posted, replies, historyVars>>
        /\ UNCHANGED <<arrived, reply_queue, sequence_number, sender>>
    BY <1>2 DEF Destroy, DestroyClient, queueVars, systemVars, vars, serviceVars
  <2> QED BY <2>1, OthersKeepPlaces DEF PlaceInv
<1>3. CASE ClientTakes
  BY <1>3, ClientTakesPlaceInv
<1>4. ASSUME NEW r \in replies, ReplyReaches(r) PROVE PlaceInv'
  BY <1>4, ReplyReachesPlaceInv
<1>5. ASSUME NEW q \in Requests, ReadTask(q) \/ RequestReaches(q) PROVE PlaceInv'
  BY <1>5, ReadTaskPlaceInv, RequestReachesPlaceInv
<1>6. CASE ServiceTakes
  BY <1>6, ServiceTakesPlaceInv
<1>7. CASE TakeFromQueryMap
  BY <1>7, NextService, TakeFromQueryMapPlaceInv
<1>8. ASSUME NEW t \in Responders, SendResponse(t) PROVE PlaceInv'
  BY <1>8, SendResponsePlaceInv
<1> QED BY <1>1, <1>2, <1>3, <1>4, <1>5, <1>6, <1>7, <1>8 DEF SystemNext

SystemInv == IInv /\ WholeInv /\ SP!IInv /\ PlaceInv

LEMMA SystemInvariance ==
  ASSUME Depth = 1, HashesDiffer
  PROVE  SystemSpec => []SystemInv
<1>1. SystemInit => SystemInv
  <2>1. Init => WholeInv
    BY DEF Init, WholeInv, Intact, QueueInit, ResponsesKeepTheirNumber
  <2> QED BY <2>1, InitIInv, InitService, InitPlaceInv DEF SystemInit, SystemInv
<1>2. SystemInv /\ [SystemNext]_systemVars => SystemInv'
  BY ClientSteps, NextIInv, NextWholeInv, NextService, NextPlaceInv DEF SystemInv
<1> QED BY <1>1, <1>2, PTL DEF SystemSpec

\* With a depth of one and hashes that tell the headers apart, for any number of
\* requests, senders and responders, the response handed out for a request was
\* made from it: where ResponseMatchesRequest fails, a queue was deeper or two
\* headers had one hash.
THEOREM ResponsesMatch ==
  ASSUME Depth = 1, HashesDiffer
  PROVE  SystemSpec => []ResponseMatchesRequest
<1>1. SystemInv => ResponseMatchesRequest
  <2> SUFFICES ASSUME SystemInv, NEW message \in taken, message.payload \in Messages
               PROVE  LET decoded == content[message.payload]
                      IN  /\ decoded.to = decoded.work
                          /\ message.attachment_data \in Messages
                          /\ content[message.attachment_data].number = decoded.work
    BY DEF ResponseMatchesRequest
  <2>1. message.attachment_data = message.payload
    BY DEF SystemInv, WholeInv, ResponsesKeepTheirNumber
  <2>2. content[message.payload] \in {NoContent} \cup Wholes
    BY DEF SystemInv, PlaceInv, PlaceTypes
  <2>3. ASSUME NEW d \in {NoContent} \cup Wholes
        PROVE  d.to = d.work /\ d.number = d.work
    <3>1. CASE d = NoContent
      BY <3>1 DEF NoContent
    <3>2. ASSUME NEW q \in Requests, d = Whole(q) PROVE d.to = d.work /\ d.number = d.work
      BY <3>2 DEF Whole
    <3> QED BY <3>1, <3>2 DEF Wholes
  <2> QED BY <2>1, <2>2, <2>3
<1> QED BY <1>1, SystemInvariance, PTL

-----------------------------------------------------------------------------
(* A call happens at most once, each part of it after the one before.      *)

LEMMA CallSteps ==
  SystemInv /\ Depth = 1 /\ [SystemNext]_systemVars => [Call!Next]_(Call!vars)
<1> SUFFICES ASSUME SystemInv, Depth = 1, [SystemNext]_systemVars
             PROVE  [Call!Next]_(Call!vars)
  OBVIOUS
<1> USE DEF SystemInv
<1>1. ASSUME UNCHANGED <<called, served, answered, returned>> PROVE UNCHANGED Call!vars
  BY <1>1 DEF Call!vars
<1>2. ASSUME NEW t \in Senders, ZGet(t), called' = called \cup {sender[t].number},
             UNCHANGED <<served, answered, returned>>
      PROVE  Call!Next
  <2>1. sender[t].number \in Requests /\ sender[t].number \notin called
    BY <1>2 DEF ZGet, IInv, Numbers, PlaceInv, Sent
  <2> QED BY <1>2, <2>1 DEF Call!Next, Call!Call
<1>3. CASE SendRequest
  BY <1>1, <1>2, <1>3 DEF SendRequest, historyVars
<1>4. CASE Destroy \/ TakeFromQueryMap \/ UNCHANGED systemVars
  BY <1>1, <1>4 DEF Destroy, TakeFromQueryMap, systemVars, historyVars
<1>5. ASSUME NEW r \in replies, ReplyReaches(r) PROVE UNCHANGED Call!vars
  BY <1>1, <1>5 DEF ReplyReaches
<1>6. ASSUME NEW q \in Requests, ReadTask(q) \/ RequestReaches(q) PROVE UNCHANGED Call!vars
  BY <1>1, <1>6 DEF ReadTask, RequestReaches, historyVars
<1>7. CASE ClientTakes
  <2>1. PICK q \in Requests : content[Front(reply_queue).payload] = Whole(q) /\ returned[q] = 0
    BY <1>7 DEF ClientTakes, TakeResponse, PlaceInv, Returning
  <2>2. Front(reply_queue).payload \in Messages
    BY <1>7 DEF ClientTakes, TakeResponse, WholeInv, Intact
  <2>3. answered[q] = 1
    BY <2>1, <2>2 DEF PlaceInv, Back
  <2>4. UNCHANGED <<called, served, answered>> /\ returned' \in {returned, Count(returned, q)}
    BY <1>7, <2>1 DEF ClientTakes, Whole
  <2>5. Count(returned, q) = [returned EXCEPT ![q] = 1]
    BY <2>1 DEF Count
  <2> QED BY <1>1, <2>1, <2>3, <2>4, <2>5 DEF Call!Next, Call!Return
<1>8. CASE ServiceTakes
  BY <1>1, <1>8, ServiceTakesEffect DEF Call!Next, Call!Serve
<1>9. ASSUME NEW t \in Responders, SendResponse(t) PROVE [Call!Next]_(Call!vars)
  BY <1>1, <1>9, SendResponseEffect DEF Call!Next, Call!Answer
<1> QED BY <1>3, <1>4, <1>5, <1>6, <1>7, <1>8, <1>9 DEF SystemNext

\* Under the same conditions the two components together implement RemoteCall:
\* nothing on the way makes the service work on a request twice, answers it
\* twice, or hands its response out twice, before its time or for no call.
THEOREM ImplementsCall ==
  ASSUME Depth = 1, HashesDiffer
  PROVE  SystemSpec => CallSpec
<1>1. SystemInit => Call!Init
  BY DEF SystemInit, Call!Init, Never, Call!Never
<1>2. SystemInv /\ [SystemNext]_systemVars => [Call!Next]_(Call!vars)
  BY CallSteps
<1> QED BY <1>1, <1>2, SystemInvariance, PTL DEF SystemSpec, CallSpec, Call!Spec
=============================================================================
