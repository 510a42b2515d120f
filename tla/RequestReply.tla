---------------------------- MODULE RequestReply ----------------------------
(***************************************************************************)
(* A client and the service that answers it.  zenoh takes each query to    *)
(* the service, and each reply back to the client, at most once and in any *)
(* order.  What travels is followed by number: a request by its sequence   *)
(* number, a query by its arrival at the service, a reply by its arrival   *)
(* at the client.                                                          *)
(***************************************************************************)
EXTENDS Client, Sequences

CONSTANTS Hash, Responders, NoRequest   \* of the service

ASSUME ServiceAssumption == /\ Hash \in [Requests -> Nat]
                            /\ NoRequest \notin Requests \cup {Uninit}

VARIABLES
  service_queue, query_map, received, requests, response, refused, dropped,   \* the service
  posted,        \* requests z_get has sent that have not reached the service
  replies,       \* replies sent that have not reached the client
  request_of,    \* history: of each query received, its request
  work,          \* history: of each header taken, the request decoded with it
  content,       \* history: of each reply that reached the client, what it was sent as
  called, served, answered, returned   \* history: see RemoteCall

serviceVars == <<service_queue, query_map, received, requests, response, refused, dropped>>
historyVars == <<request_of, work, content, called, served, answered, returned>>
systemVars == <<vars, serviceVars, posted, replies, historyVars>>

\* A request reaches the service once, so it receives as many.
S == INSTANCE Service
       WITH MaxArrivals   <- MaxRequests,
            message_queue <- service_queue,
            arrived       <- received,
            taken         <- requests

NoContent == [to |-> 0, number |-> 0, work |-> 0]
Never == [q \in Requests |-> 0]
Count(counts, q) == [counts EXCEPT ![q] = @ + 1]

SystemInit == /\ Init /\ S!Init
              /\ posted = {} /\ replies = {}
              /\ request_of = <<>>
              /\ work = Never
              /\ content = [m \in Messages |-> NoContent]
              /\ called = {} /\ served = Never /\ answered = Never /\ returned = Never

-----------------------------------------------------------------------------
(* The client.                                                             *)

SendRequest ==
  \E t \in Senders :
    \/ /\ \/ GetNextSequenceNumber(t) \/ SendRequestFails(t)
          \/ IncrementQueriesInFlight(t) \/ ZGetFails(t)
       /\ UNCHANGED <<serviceVars, posted, replies, historyVars>>
    \/ /\ ZGet(t)
       /\ posted' = posted \cup {sender[t].number}
       /\ called' = called \cup {sender[t].number}
       /\ UNCHANGED <<serviceVars, replies, request_of, work, content, served, answered, returned>>

\* A reply of the service reaches its query, if that is still in flight.
ReplyReaches(r) ==
  /\ AddNewReply(r.to)
  /\ replies' = replies \ {r}
  /\ content' = [content EXCEPT ![arrived'] = r]
  /\ UNCHANGED <<serviceVars, posted, request_of, work, called, served, answered, returned>>

\* A reply that does not decode, an error or timeout of zenoh, the end of a query.
ReadTask(q) == /\ AddNewReplyFails(q) \/ IgnoreReply(q) \/ DataDropper(q)
               /\ UNCHANGED <<serviceVars, posted, replies, historyVars>>

ClientTakes ==
  /\ TakeResponse
  /\ LET payload == Front(reply_queue).payload
     IN  returned' = IF taken' # taken /\ payload \in Messages
                       THEN Count(returned, content[payload].work) ELSE returned
  /\ UNCHANGED <<serviceVars, posted, replies, request_of, work, content, called, served, answered>>

Destroy == DestroyClient /\ UNCHANGED <<serviceVars, posted, replies, historyVars>>

-----------------------------------------------------------------------------
(* The service.                                                            *)

RequestReaches(q) ==
  /\ q \in posted
  /\ S!AddNewQuery \/ S!AddNewQueryFails \/ S!IgnoreQuery
  /\ posted' = posted \ {q}
  /\ request_of' = Append(request_of, q)
  /\ UNCHANGED <<vars, replies, work, content, called, served, answered, returned>>

\* The application is handed a header and a request: those of one message.
ServiceTakes ==
  /\ S!TakeRequest
  /\ LET header  == Front(service_queue).attachment_data
         payload == Front(service_queue).payload
     IN  IF requests' # requests /\ {header, payload} \subseteq S!Messages
           THEN /\ work' = [work EXCEPT ![header] = request_of[payload]]
                /\ served' = Count(served, request_of[payload])
           ELSE UNCHANGED <<work, served>>
  /\ UNCHANGED <<vars, posted, replies, request_of, content, called, answered, returned>>

TakeFromQueryMap ==
  /\ \E t \in Responders, header \in S!Headers : S!TakeFromQueryMap(t, header)
  /\ UNCHANGED <<vars, posted, replies, historyVars>>

\* rmw_send_response answers through the query it found, with the sequence number
\* of the header it was given; or something in it fails.  (With a depth of one
\* the header and the query are never uninitialized.)
SendResponse(t) ==
  /\ S!Reply(t)
  /\ LET r == response[t]
     IN  \/ /\ {r.header, r.query} \subseteq S!Messages
            /\ replies' = replies \cup {[to     |-> request_of[r.query],
                                         number |-> request_of[r.header],
                                         work   |-> work[r.header]]}
            /\ answered' = Count(answered, work[r.header])
         \/ UNCHANGED <<replies, answered>>
  /\ UNCHANGED <<vars, posted, request_of, work, content, called, served, returned>>

SystemNext == \/ SendRequest \/ ClientTakes \/ Destroy
              \/ \E r \in replies : ReplyReaches(r)
              \/ \E q \in Requests : ReadTask(q) \/ RequestReaches(q)
              \/ ServiceTakes \/ TakeFromQueryMap
              \/ \E t \in Responders : SendResponse(t)

SystemSpec == SystemInit /\ [][SystemNext]_systemVars

-----------------------------------------------------------------------------
(* Properties.                                                             *)

\* The response handed out for a request was made from that request, through two
\* queues, the query map and failures on the way: the sequence number reported
\* with it, by which rcl finds the caller, is that of the request the service's
\* application was given, and it came as a reply to that query.
ResponseMatchesRequest ==
  \A message \in taken :
    message.payload \in Messages =>
      LET decoded == content[message.payload]
      IN  /\ decoded.to = decoded.work
          /\ message.attachment_data \in Messages
          /\ content[message.attachment_data].number = decoded.work

\* Each request is worked on, answered and returned at most once, in this order.
Call == INSTANCE RemoteCall
CallSpec == Call!Spec
=============================================================================
