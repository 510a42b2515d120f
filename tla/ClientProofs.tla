---------------------------- MODULE ClientProofs ----------------------------
(***************************************************************************)
(* What holds of a client for any number of threads sending requests, of   *)
(* requests and of replies.                                                *)
(***************************************************************************)
EXTENDS Client, EntityQueueProofs, FiniteSetTheorems

Numbered == {t \in Senders : sender[t].pc = "numbered"}

Types ==
  /\ sequence_number \in 1 .. MaxRequests + 1
  /\ num_in_flight \in Nat
  /\ is_shutdown \in BOOLEAN
  /\ allocated \in BOOLEAN
  /\ WellFormed(reply_queue)
  /\ sender \in [Senders -> [pc : {"idle", "numbered", "counted"}, number : 0 .. MaxRequests]]
  /\ in_flight \subseteq Requests
  /\ arrived \in 0 .. MaxArrivals
  /\ reply_to \in [Messages -> 0 .. MaxRequests]
  /\ taken \subseteq Slots(Messages)

\* A number in use is below the next one, and used in one place: by a thread
\* that is sending it, or by a query and the replies to it.
Numbers ==
  /\ \A t \in Senders : IF sender[t].pc = "idle" THEN sender[t] = Idle
                                                 ELSE sender[t].number \in Requests
  /\ \A t \in Senders : sender[t].number < sequence_number
  /\ \A q \in in_flight : q < sequence_number
  /\ \A m \in 1 .. arrived : reply_to[m] \in Requests /\ reply_to[m] < sequence_number
  /\ SequenceNumbersUnique

\* The count covers every query and every thread about to send one, and it leaves
\* out at least the threads that have yet to be counted.
Counts ==
  /\ Cardinality(in_flight) + Cardinality(Counted) <= num_in_flight
  /\ num_in_flight + Cardinality(Numbered) < sequence_number

IInv == Types /\ Numbers /\ Counts

\* A set of threads, or of queries, is finite, and one element counts for one.
LEMMA SendersCardinality ==
  ASSUME NEW S \in SUBSET Senders
  PROVE  /\ Cardinality(S) \in Nat
         /\ \A t \in Senders \ S : Cardinality(S \cup {t}) = Cardinality(S) + 1
         /\ \A t \in S : Cardinality(S \ {t}) = Cardinality(S) - 1
<1>1. IsFiniteSet(S)
  BY SendersAssumption, FS_Subset
<1> QED BY <1>1, FS_CardinalityType, FS_AddElement, FS_RemoveElement

LEMMA RequestsCardinality ==
  ASSUME NEW S \in SUBSET Requests
  PROVE  /\ Cardinality(S) \in Nat
         /\ \A q \in Requests \ S : Cardinality(S \cup {q}) = Cardinality(S) + 1
         /\ \A q \in S : Cardinality(S \ {q}) = Cardinality(S) - 1
<1>1. IsFiniteSet(Requests)
  BY ClientAssumption, FS_Interval DEF Requests
<1>2. IsFiniteSet(S)
  BY <1>1, FS_Subset
<1> QED BY <1>2, FS_CardinalityType, FS_AddElement, FS_RemoveElement

LEMMA InitIInv == Init => IInv
<1> SUFFICES ASSUME Init PROVE IInv
  OBVIOUS
<1> USE DepthAssumption, ClientAssumption DEF Init
<1>1. WellFormed(reply_queue)
  BY BlankAssumption DEF WellFormed, MessageQueues, QueueInit, UninitSlot, Slots, Blanks, Front
<1>2. Types
  <2>1. Idle \in [pc : {"idle", "numbered", "counted"}, number : 0 .. MaxRequests]
    BY DEF Idle
  <2>2. sender \in [Senders -> [pc : {"idle", "numbered", "counted"}, number : 0 .. MaxRequests]]
    BY <2>1
  <2>3. reply_to \in [Messages -> 0 .. MaxRequests]
    OBVIOUS
  <2>4. /\ sequence_number \in 1 .. MaxRequests + 1 /\ num_in_flight \in Nat
        /\ arrived \in 0 .. MaxArrivals
    OBVIOUS
  <2>5. /\ is_shutdown \in BOOLEAN /\ allocated \in BOOLEAN
        /\ in_flight \subseteq Requests /\ taken \subseteq Slots(Messages)
    OBVIOUS
  <2> QED BY <1>1, <2>2, <2>3, <2>4, <2>5 DEF Types
<1>3. Numbers
  BY DEF Numbers, SequenceNumbersUnique, Idle
<1>4. Counted = {} /\ Numbered = {}
  BY DEF Counted, Numbered, Idle
<1>5. Counts
  BY <1>4, FS_EmptySet DEF Counts
<1> QED BY <1>2, <1>3, <1>5 DEF IInv

-----------------------------------------------------------------------------
(* rmw_send_request.  The sets of threads change by the one that moves.    *)

LEMMA GetNextSequenceNumberIInv ==
  ASSUME IInv, NEW t \in Senders, GetNextSequenceNumber(t)
  PROVE  IInv'
<1> USE ClientAssumption DEF IInv, GetNextSequenceNumber
<1> DEFINE new == [pc |-> "numbered", number |-> sequence_number]
<1>1. sequence_number \in Requests /\ sequence_number \in Nat
  BY DEF Types, Requests
<1>2. /\ \A u \in Senders : sender'[u] = IF u = t THEN new ELSE sender[u]
      /\ sequence_number' = sequence_number + 1
      /\ num_in_flight' = num_in_flight /\ in_flight' = in_flight
      /\ arrived' = arrived /\ reply_to' = reply_to
  BY DEF Types, queueVars
<1>3. Types'
  <2>1. new \in [pc : {"idle", "numbered", "counted"}, number : 0 .. MaxRequests]
    BY <1>1 DEF Requests
  <2>2. sender' \in [Senders -> [pc : {"idle", "numbered", "counted"}, number : 0 .. MaxRequests]]
    BY <2>1 DEF Types
  <2>3. sequence_number' \in 1 .. MaxRequests + 1
    BY <1>1 DEF Requests
  <2> QED BY <2>2, <2>3 DEF Types, queueVars
<1>4. Numbers'
  BY <1>1, <1>2 DEF Types, Numbers, SequenceNumbersUnique, Idle, Requests
<1>5. Counted' = Counted /\ Numbered' = Numbered \cup {t} /\ t \notin Numbered
  BY <1>2 DEF Counted, Numbered, Idle
<1>6. Cardinality(Numbered') = Cardinality(Numbered) + 1 /\ Cardinality(Numbered) \in Nat
  BY <1>5, SendersCardinality DEF Numbered
<1>7. Counts'
  BY <1>1, <1>2, <1>5, <1>6 DEF Counts, Types
<1> QED BY <1>3, <1>4, <1>7

LEMMA SendRequestFailsIInv ==
  ASSUME IInv, NEW t \in Senders, SendRequestFails(t)
  PROVE  IInv'
<1> USE ClientAssumption DEF IInv, SendRequestFails
<1>2. /\ \A u \in Senders : sender'[u] = IF u = t THEN Idle ELSE sender[u]
      /\ sequence_number' = sequence_number
      /\ num_in_flight' = num_in_flight /\ in_flight' = in_flight
      /\ arrived' = arrived /\ reply_to' = reply_to
  BY DEF Types, queueVars
<1>3. Types'
  <2>1. Idle \in [pc : {"idle", "numbered", "counted"}, number : 0 .. MaxRequests]
    BY DEF Idle
  <2> QED BY <2>1 DEF Types, queueVars
<1>4. Numbers'
  BY <1>2 DEF Types, Numbers, SequenceNumbersUnique, Idle, Requests
<1>5. Counted' = Counted /\ Numbered' = Numbered \ {t} /\ t \in Numbered
  BY <1>2 DEF Counted, Numbered, Idle
<1>6. Cardinality(Numbered') = Cardinality(Numbered) - 1 /\ Cardinality(Numbered) \in Nat
  BY <1>5, SendersCardinality DEF Numbered
<1>7. Counts'
  BY <1>2, <1>5, <1>6 DEF Counts, Types
<1> QED BY <1>3, <1>4, <1>7

LEMMA IncrementQueriesInFlightIInv ==
  ASSUME IInv, NEW t \in Senders, IncrementQueriesInFlight(t)
  PROVE  IInv'
<1> USE ClientAssumption DEF IInv, IncrementQueriesInFlight
<1>1. sender[t] \in [pc : {"idle", "numbered", "counted"}, number : 0 .. MaxRequests]
  BY DEF Types
<1>2. /\ \A u \in Senders : /\ sender'[u].pc = IF u = t THEN "counted" ELSE sender[u].pc
                            /\ sender'[u].number = sender[u].number
                            /\ u # t => sender'[u] = sender[u]
      /\ sequence_number' = sequence_number
      /\ num_in_flight' = num_in_flight + 1 /\ in_flight' = in_flight
      /\ arrived' = arrived /\ reply_to' = reply_to
  BY <1>1 DEF Types, queueVars
<1>3. Types'
  BY <1>1 DEF Types, queueVars
<1>4. Numbers'
  BY <1>2 DEF Types, Numbers, SequenceNumbersUnique, Idle, Requests
<1>5. /\ Counted' = Counted \cup {t} /\ t \notin Counted
      /\ Numbered' = Numbered \ {t} /\ t \in Numbered
  BY <1>2 DEF Counted, Numbered
<1>6. /\ Cardinality(Numbered') = Cardinality(Numbered) - 1 /\ Cardinality(Numbered) \in Nat
      /\ Cardinality(Counted') = Cardinality(Counted) + 1 /\ Cardinality(Counted) \in Nat
  <2>1. /\ Numbered \in SUBSET Senders /\ Counted \in SUBSET Senders
        /\ t \in Senders \ Counted /\ t \in Numbered
    BY <1>5 DEF Numbered, Counted
  <2>2. /\ Cardinality(Numbered) \in Nat
        /\ Cardinality(Numbered \ {t}) = Cardinality(Numbered) - 1
    BY ONLY <2>1, SendersCardinality
  <2>3. /\ Cardinality(Counted) \in Nat
        /\ Cardinality(Counted \cup {t}) = Cardinality(Counted) + 1
    BY ONLY <2>1, SendersCardinality
  <2> QED BY <1>5, <2>2, <2>3
<1>7. Cardinality(in_flight) \in Nat
  BY RequestsCardinality DEF Types
<1>8. Counts'
  BY <1>2, <1>6, <1>7 DEF Counts, Types
<1> QED BY <1>3, <1>4, <1>8

LEMMA ZGetIInv ==
  ASSUME IInv, NEW t \in Senders, ZGet(t) \/ ZGetFails(t)
  PROVE  IInv'
<1> USE ClientAssumption DEF IInv
<1> DEFINE n == sender[t].number
<1>1. n \in Requests /\ n \notin in_flight /\ n < sequence_number /\ sender[t] # Idle
  BY DEF ZGet, ZGetFails, Numbers, SequenceNumbersUnique, Idle
<1>2. /\ sender[t].pc = "counted"
      /\ sender' = [sender EXCEPT ![t] = Idle]
      /\ \A u \in Senders : sender'[u] = IF u = t THEN Idle ELSE sender[u]
      /\ sequence_number' = sequence_number /\ is_shutdown' = is_shutdown
      /\ allocated' = allocated
      /\ arrived' = arrived /\ reply_to' = reply_to
      /\ reply_queue' = reply_queue /\ taken' = taken
  BY DEF ZGet, ZGetFails, Types, queueVars
<1>3. /\ Counted' = Counted \ {t} /\ t \in Counted /\ Numbered' = Numbered
      /\ Cardinality(Counted') = Cardinality(Counted) - 1
      /\ Cardinality(Counted) \in Nat /\ Cardinality(Counted') \in Nat
  <2>1. Counted' = Counted \ {t} /\ t \in Counted /\ Numbered' = Numbered
    BY <1>2 DEF Counted, Numbered, Idle
  <2>2. Counted \in SUBSET Senders /\ Counted \ {t} \in SUBSET Senders
    BY DEF Counted
  <2> QED BY <2>1, <2>2, SendersCardinality
<1>4. Cardinality(in_flight) \in Nat /\ Cardinality(Numbered) \in Nat
  BY RequestsCardinality, SendersCardinality DEF Types, Numbered
<1>5. sender' \in [Senders -> [pc : {"idle", "numbered", "counted"}, number : 0 .. MaxRequests]]
  <2>1. Idle \in [pc : {"idle", "numbered", "counted"}, number : 0 .. MaxRequests]
    BY DEF Idle
  <2> QED BY <1>2, <2>1 DEF Types
<1>6. CASE ZGet(t)
  <2>1. in_flight' = in_flight \cup {n} /\ num_in_flight' = num_in_flight
    BY <1>6 DEF ZGet
  <2>2. Types'
    BY <1>1, <1>2, <1>5, <2>1 DEF Types
  <2>3. Numbers'
    BY <1>1, <1>2, <2>1 DEF Types, Numbers, SequenceNumbersUnique, Idle, Requests
  <2>4. Cardinality(in_flight') = Cardinality(in_flight) + 1
    BY <1>1, <2>1, RequestsCardinality DEF Types
  <2>5. Counts'
    BY <1>2, <1>3, <1>4, <2>1, <2>4 DEF Counts, Types
  <2> QED BY <2>2, <2>3, <2>5
<1>7. CASE ZGetFails(t)
  <2>1. in_flight' = in_flight /\ num_in_flight' \in {num_in_flight, Decremented(num_in_flight)}
    BY <1>7 DEF ZGetFails
  <2>2. num_in_flight > 0 /\ num_in_flight' \in {num_in_flight, num_in_flight - 1}
    BY <1>3, <1>4, <2>1 DEF Counts, Types, Decremented
  <2>3. Types'
    BY <1>2, <1>5, <2>1, <2>2 DEF Types
  <2>4. Numbers'
    BY <1>2, <2>1 DEF Types, Numbers, SequenceNumbersUnique, Idle, Requests
  <2>5. Counts'
    BY <1>2, <1>3, <1>4, <2>1, <2>2 DEF Counts, Types
  <2> QED BY <2>3, <2>4, <2>5
<1> QED BY <1>6, <1>7

-----------------------------------------------------------------------------
(* The read task and the application.                                      *)

LEMMA ReplyIInv ==
  ASSUME IInv, NEW q \in Requests, AddNewReply(q) \/ AddNewReplyFails(q) \/ IgnoreReply(q)
  PROVE  IInv'
<1> USE ClientAssumption DEF IInv
<1>1. /\ q \in in_flight /\ arrived' = arrived + 1 /\ arrived' \in Messages
      /\ reply_to' = [reply_to EXCEPT ![arrived'] = q]
      /\ UNCHANGED <<sequence_number, num_in_flight, is_shutdown, allocated, sender,
                     in_flight, taken>>
  BY DepthAssumption DEF AddNewReply, AddNewReplyFails, IgnoreReply, ReplyArrives, Messages, Types
<1>r. WellFormed(MakeRoom(reply_queue)) /\ MakeRoom(reply_queue).size < Depth
  BY MakeRoomWellFormed, DepthAssumption DEF Types
<1>2. WellFormed(reply_queue')
  <2>1. CASE AddNewReply(q)
    BY <1>1, <1>r, <2>1, PushBackWellFormed DEF AddNewReply
  <2>2. CASE AddNewReplyFails(q)
    BY <1>1, <1>r, <2>2, PushFailsWellFormed DEF AddNewReplyFails
  <2>3. CASE IgnoreReply(q)
    BY <2>3 DEF IgnoreReply, Types
  <2> QED BY <2>1, <2>2, <2>3
<1>3. Types'
  BY <1>1, <1>2, DepthAssumption DEF Types, Messages, Requests
<1>4. \A m \in 1 .. arrived' : reply_to'[m] \in {q} \cup {reply_to[k] : k \in 1 .. arrived}
  BY <1>1, DepthAssumption DEF Types, Messages
<1>5. Numbers'
  <2>1. \A m \in 1 .. arrived' : reply_to'[m] \in Requests /\ reply_to'[m] < sequence_number'
    BY <1>1, <1>4 DEF Numbers
  <2>2. SequenceNumbersUnique'
    BY <1>1, <1>4 DEF Numbers, SequenceNumbersUnique
  <2> QED BY <1>1, <2>1, <2>2 DEF Numbers
<1>6. Counts'
  BY <1>1 DEF Counts, Counted, Numbered
<1> QED BY <1>3, <1>5, <1>6

LEMMA DataDropperIInv ==
  ASSUME IInv, NEW q \in Requests, DataDropper(q)
  PROVE  IInv'
<1> USE ClientAssumption DEF IInv, DataDropper
<1>1. /\ in_flight' = in_flight \ {q} /\ q \in in_flight
      /\ UNCHANGED <<sequence_number, is_shutdown, sender, reply_queue, arrived, reply_to, taken>>
      /\ num_in_flight' = Decremented(num_in_flight)
  BY DEF queueVars
<1>2. /\ Cardinality(in_flight) \in Nat /\ Cardinality(Counted) \in Nat
      /\ Cardinality(Numbered) \in Nat
      /\ Cardinality(in_flight') = Cardinality(in_flight) - 1
      /\ Cardinality(in_flight') \in Nat
  BY <1>1, RequestsCardinality, SendersCardinality DEF Types, Counted, Numbered
<1>3. num_in_flight' = num_in_flight - 1 /\ num_in_flight' \in Nat
  BY <1>1, <1>2 DEF Counts, Types, Decremented
<1>4. Types'
  BY <1>1, <1>3 DEF Types
<1>5. Numbers'
  BY <1>1 DEF Numbers, SequenceNumbersUnique
<1>6. Counted' = Counted /\ Numbered' = Numbered
  BY <1>1 DEF Counted, Numbered
<1>7. Counts'
  BY <1>1, <1>2, <1>3, <1>6 DEF Counts, Types
<1> QED BY <1>4, <1>5, <1>7

LEMMA ApplicationIInv ==
  ASSUME IInv, TakeResponse \/ DestroyClient \/ UNCHANGED vars
  PROVE  IInv'
<1> USE DEF IInv
<1>1. /\ WellFormed(reply_queue')
      /\ taken' \subseteq Slots(Messages)
      /\ allocated' \in BOOLEAN
  <2>1. CASE TakeResponse
    <3>1. WellFormed(reply_queue')
      BY <2>1, PopFrontWellFormed DEF TakeResponse, Types
    <3>2. Popped(reply_queue) \in Slots(Messages)
      BY DEF Popped, Front, Slots, Types, WellFormed, MessageQueues
    <3> QED BY <2>1, <3>1, <3>2 DEF TakeResponse, Types
  <2>2. CASE DestroyClient
    BY <2>2 DEF DestroyClient, queueVars, Types
  <2>3. CASE UNCHANGED vars
    BY <2>3 DEF vars, Types
  <2> QED BY <2>1, <2>2, <2>3
<1>2. UNCHANGED <<sequence_number, num_in_flight, is_shutdown, sender, in_flight, arrived, reply_to>>
  BY DEF TakeResponse, DestroyClient, queueVars, vars
<1> QED
  BY <1>1, <1>2 DEF Types, Numbers, SequenceNumbersUnique, Counts, Counted, Numbered

LEMMA NextIInv == IInv /\ [Next]_vars => IInv'
  BY GetNextSequenceNumberIInv, SendRequestFailsIInv, IncrementQueriesInFlightIInv, ZGetIInv,
     ReplyIInv, DataDropperIInv, ApplicationIInv DEF Next

\* The invariant holds throughout.
THEOREM Invariance == Spec => []IInv
  BY InitIInv, NextIInv, PTL DEF Spec

LEMMA CountIsBounded == IInv => num_in_flight <= MaxRequests
  BY SendersCardinality, ClientAssumption DEF IInv, Types, Counts, Numbered

\* The types hold for any number of threads, requests and replies; the count stays
\* below what it would wrap around to.
THEOREM TypeCorrect == Spec => []TypeOK
<1>1. IInv => TypeOK
  BY CountIsBounded, ClientAssumption DEF IInv, Types, TypeOK, WellFormed
<1> QED BY <1>1, Invariance, PTL

\* num_in_flight covers the queries in flight and never wraps around.
THEOREM QueriesAreCounted == Spec => []CountCoversInFlight
<1>1. IInv => CountCoversInFlight
  BY CountIsBounded, SendersCardinality, RequestsCardinality, ClientAssumption
     DEF IInv, Types, Counts, CountCoversInFlight, Counted
<1> QED BY <1>1, Invariance, PTL

\* No two requests in use share a sequence number.
THEOREM NumbersAreUnique == Spec => []SequenceNumbersUnique
<1>1. IInv => SequenceNumbersUnique
  BY DEF IInv, Numbers
<1> QED BY <1>1, Invariance, PTL

-----------------------------------------------------------------------------
(* With a depth of one.                                                    *)

WholeInv == Intact(reply_queue) /\ ResponsesKeepTheirNumber

LEMMA NextWholeInv ==
  ASSUME Depth = 1
  PROVE  IInv /\ WholeInv /\ [Next]_vars => WholeInv'
<1> SUFFICES ASSUME IInv, WholeInv, [Next]_vars PROVE WholeInv'
  OBVIOUS
<1> USE DEF WholeInv
<1>0. WellFormed(reply_queue) /\ arrived \in 0 .. MaxArrivals
  BY DEF IInv, Types
<1>1. ASSUME NEW q \in Requests, AddNewReply(q) \/ AddNewReplyFails(q) PROVE WholeInv'
  <2>1. arrived' \in Messages /\ taken' = taken
    BY <1>0, <1>1, DepthAssumption DEF AddNewReply, AddNewReplyFails, ReplyArrives, Messages
  <2>2. Intact(reply_queue')
    BY <1>0, <1>1, <2>1, DepthOneIntact DEF AddNewReply, AddNewReplyFails
  <2> QED BY <2>1, <2>2 DEF Intact, Front, ResponsesKeepTheirNumber
<1>2. CASE TakeResponse
  <2>1. /\ Front(reply_queue).payload \in Messages
        /\ Front(reply_queue).attachment_data = Front(reply_queue).payload
    BY <1>2 DEF TakeResponse, Intact
  <2>2. Popped(reply_queue).payload \in Messages
        /\ Popped(reply_queue).attachment_data = Popped(reply_queue).payload
    BY <2>1 DEF Popped
  <2>3. taken' \in {taken, taken \cup {Popped(reply_queue)}}
    BY <1>2 DEF TakeResponse
  <2>4. ResponsesKeepTheirNumber'
    BY <2>2, <2>3 DEF ResponsesKeepTheirNumber
  <2>5. Intact(reply_queue')
    BY <1>0, <1>2, <2>1, DepthOneIntact DEF TakeResponse
  <2> QED BY <2>4, <2>5 DEF Intact, Front
<1>3. ASSUME UNCHANGED <<reply_queue, taken>> PROVE WholeInv'
  BY <1>3 DEF Intact, Front, ResponsesKeepTheirNumber
<1>4. ASSUME NEW t \in Senders,
             \/ GetNextSequenceNumber(t) \/ SendRequestFails(t)
             \/ IncrementQueriesInFlight(t) \/ ZGet(t) \/ ZGetFails(t)
      PROVE  UNCHANGED <<reply_queue, taken>>
  BY <1>4 DEF GetNextSequenceNumber, SendRequestFails, IncrementQueriesInFlight, ZGet, ZGetFails,
              queueVars
<1>5. ASSUME NEW q \in Requests, IgnoreReply(q) \/ DataDropper(q)
      PROVE  UNCHANGED <<reply_queue, taken>>
  BY <1>5 DEF IgnoreReply, ReplyArrives, DataDropper, queueVars
<1>6. ASSUME DestroyClient \/ UNCHANGED vars PROVE UNCHANGED <<reply_queue, taken>>
  BY <1>6 DEF DestroyClient, queueVars, vars
<1> QED BY <1>1, <1>2, <1>3, <1>4, <1>5, <1>6 DEF Next

\* With a depth of one a response is handed out with the sequence number of the
\* reply it was decoded from, for any number of threads, requests and replies.
THEOREM NumbersAreKept ==
  ASSUME Depth = 1
  PROVE  Spec => []ResponsesKeepTheirNumber
<1>1. Init => WholeInv
  BY DEF Init, WholeInv, Intact, QueueInit, ResponsesKeepTheirNumber
<1>2. IInv /\ WholeInv /\ [Next]_vars => WholeInv'
  BY NextWholeInv
<1>3. WholeInv => ResponsesKeepTheirNumber
  BY DEF WholeInv
<1> QED BY <1>1, <1>2, <1>3, Invariance, PTL DEF Spec
=============================================================================
