-------------------------- MODULE EntityQueueProofs --------------------------
(***************************************************************************)
(* What the operations on a message queue preserve, for every depth: the   *)
(* lemmas the proofs about subscriptions, services and clients cite.       *)
(***************************************************************************)
EXTENDS EntityQueue, TLAPS

\* What a queue in use looks like, besides its type: full only with a payload
\* at the front, and no payload anywhere else.
WellFormed(q) ==
  /\ q \in MessageQueues(Depth, Messages)
  /\ q.idx_back = IF q.idx_front + q.size < Depth THEN q.idx_front + q.size
                                                  ELSE q.idx_front + q.size - Depth
  /\ q.size = Depth => Front(q).payload \in Messages
  /\ \A i \in 0 .. Depth - 1 \ {q.idx_front} : q.messages[i].payload \in Blanks

\* The fields a slot has after an operation, one lemma for each operation.

LEMMA BlanksAreNotMessages == Blanks \cap Messages = {}
  BY BlankAssumption, DepthAssumption DEF Blanks, Messages

\* The next index of a ring is one of its slots.
LEMMA AdvanceInRing ==
  ASSUME NEW q \in MessageQueues(Depth, Messages), NEW i \in 0 .. Depth - 1
  PROVE  /\ Advance(q, i) \in 0 .. Depth - 1
         /\ Advance(q, i) = IF i + 1 = Depth THEN 0 ELSE i + 1
  BY DepthAssumption DEF Advance, MessageQueues

\* pop_front keeps the queue well formed and leaves it without any payload.
LEMMA PopFrontWellFormed ==
  ASSUME NEW q, WellFormed(q), q.size > 0
  PROVE  /\ WellFormed(PopFront(q))
         /\ PopFront(q).size = q.size - 1
         /\ Front(PopFront(q)).payload \in Blanks
<1> DEFINE p == PopFront(q)
           f == q.idx_front
<1>1. q \in MessageQueues(Depth, Messages) /\ f \in 0 .. Depth - 1 /\ Depth \in Nat
  BY DepthAssumption DEF WellFormed, MessageQueues
<1>2. Advance(q, f) \in 0 .. Depth - 1 /\ Advance(q, f) = IF f + 1 = Depth THEN 0 ELSE f + 1
  BY <1>1, AdvanceInRing
<1>3. /\ p.messages = [q.messages EXCEPT ![f] = [@ EXCEPT !.payload = Moved]]
      /\ p.size = q.size - 1
      /\ p.idx_front = Advance(q, f)
      /\ p.idx_back = q.idx_back
      /\ p.capacity = Depth
  BY <1>1 DEF PopFront, MessageQueues
<1>4. [q.messages[f] EXCEPT !.payload = Moved] \in Slots(Messages)
  BY <1>1 DEF MessageQueues, Slots
<1>5. p.messages \in [0 .. Depth - 1 -> Slots(Messages)]
  BY <1>1, <1>3, <1>4 DEF MessageQueues
<1>6. p \in MessageQueues(Depth, Messages)
  <2>1. p.size \in 0 .. Depth
    BY <1>1, <1>3 DEF WellFormed, MessageQueues
  <2>2. p = [messages |-> p.messages, capacity |-> p.capacity, size |-> p.size,
             idx_front |-> p.idx_front, idx_back |-> p.idx_back]
    <3>1. p = [q EXCEPT !.messages = p.messages, !.size = p.size, !.idx_front = p.idx_front]
      BY <1>1, <1>3 DEF PopFront, MessageQueues
    <3> QED BY <1>1, <3>1 DEF MessageQueues
  <2> QED BY <1>1, <1>2, <1>3, <1>5, <2>1, <2>2 DEF MessageQueues
<1>7. \A i \in 0 .. Depth - 1 : p.messages[i].payload \in Blanks
  <2> SUFFICES ASSUME NEW i \in 0 .. Depth - 1 PROVE p.messages[i].payload \in Blanks
    OBVIOUS
  <2>1. CASE i = f
    BY <2>1, <1>1, <1>3 DEF Blanks, MessageQueues, Slots
  <2>2. CASE i # f
    BY <2>2, <1>1, <1>3 DEF WellFormed, MessageQueues
  <2> QED BY <2>1, <2>2
<1>8. Front(p).payload \in Blanks
  BY <1>2, <1>3, <1>7 DEF Front
<1>9. p.size < Depth
  BY <1>1, <1>3 DEF MessageQueues
<1>10. p.idx_back = IF p.idx_front + p.size < Depth THEN p.idx_front + p.size
                                                    ELSE p.idx_front + p.size - Depth
  BY <1>1, <1>2, <1>3 DEF WellFormed, MessageQueues
<1> QED BY <1>1, <1>3, <1>6, <1>7, <1>8, <1>9, <1>10 DEF WellFormed

\* push_back on a queue with room keeps it well formed, with the message at the
\* front, where the next take or drop finds it.
LEMMA PushBackWellFormed ==
  ASSUME NEW q, WellFormed(q), q.size < Depth, NEW m \in Messages
  PROVE  /\ WellFormed(PushBack(q, m))
         /\ PushBack(q, m).size = q.size + 1
         /\ Front(PushBack(q, m)).payload = m
<1> DEFINE p == PushBack(q, m)
           f == q.idx_front
           slot == [received_timestamp |-> m, attachment_data |-> m, payload |-> m]
<1>1. q \in MessageQueues(Depth, Messages) /\ f \in 0 .. Depth - 1 /\ Depth \in Nat
  BY DepthAssumption DEF WellFormed, MessageQueues
<1>2. /\ q.idx_back \in 0 .. Depth - 1
      /\ Advance(q, q.idx_back) \in 0 .. Depth - 1
      /\ Advance(q, q.idx_back) = IF q.idx_back + 1 = Depth THEN 0 ELSE q.idx_back + 1
  BY <1>1, AdvanceInRing DEF MessageQueues
<1>3. /\ p.messages = [q.messages EXCEPT ![f] = slot]
      /\ p.size = q.size + 1
      /\ p.idx_front = f
      /\ p.idx_back = Advance(q, q.idx_back)
      /\ p.capacity = Depth
  BY <1>1 DEF PushBack, MessageQueues
<1>4. p.messages \in [0 .. Depth - 1 -> Slots(Messages)]
  BY <1>1, <1>3 DEF MessageQueues, Slots
<1>5. p \in MessageQueues(Depth, Messages)
  <2>1. p.size \in 0 .. Depth
    BY <1>1, <1>3 DEF MessageQueues
  <2>2. p = [messages |-> p.messages, capacity |-> p.capacity, size |-> p.size,
             idx_front |-> p.idx_front, idx_back |-> p.idx_back]
    <3>1. p = [q EXCEPT !.messages = p.messages, !.size = p.size, !.idx_back = p.idx_back]
      BY <1>1, <1>3 DEF PushBack, MessageQueues
    <3> QED BY <1>1, <3>1 DEF MessageQueues
  <2> QED BY <1>1, <1>2, <1>3, <1>4, <2>1, <2>2 DEF MessageQueues
<1>6. Front(p).payload = m
  BY <1>1, <1>3 DEF Front, MessageQueues
<1>7. \A i \in 0 .. Depth - 1 \ {p.idx_front} : p.messages[i].payload \in Blanks
  BY <1>1, <1>3 DEF WellFormed, MessageQueues
<1>8. p.idx_back = IF p.idx_front + p.size < Depth THEN p.idx_front + p.size
                                                   ELSE p.idx_front + p.size - Depth
  BY <1>1, <1>2, <1>3 DEF WellFormed, MessageQueues
<1> QED BY <1>3, <1>5, <1>6, <1>7, <1>8 DEF WellFormed

\* A push that gives up keeps a queue with room well formed; the payload at the
\* front stays or is blanked.
LEMMA PushFailsWellFormed ==
  ASSUME NEW q, WellFormed(q), q.size < Depth, NEW m \in Messages,
         NEW p \in PushFails(q, m)
  PROVE  /\ WellFormed(p)
         /\ p.size = q.size
         /\ Front(p).payload \in {Front(q).payload} \cup Blanks
<1> DEFINE f == q.idx_front
<1>1. q \in MessageQueues(Depth, Messages) /\ f \in 0 .. Depth - 1 /\ Depth \in Nat
  BY DepthAssumption DEF WellFormed, MessageQueues
<1>2. q.messages[f] \in Slots(Messages)
  BY <1>1 DEF MessageQueues
<1>3. PICK slot \in FailedSlots(q.messages[f], m) : p = [q EXCEPT !.messages[f] = slot]
  BY <1>1 DEF PushFails, IsFull, Front, MessageQueues
<1>4. /\ slot \in Slots(Messages)
      /\ slot.payload \in {q.messages[f].payload} \cup Blanks
  BY <1>2, <1>3 DEF FailedSlots, Slots, Blanks
<1>5. /\ p.messages = [q.messages EXCEPT ![f] = slot]
      /\ p.size = q.size
      /\ p.idx_front = f
      /\ p.idx_back = q.idx_back
      /\ p.capacity = Depth
      /\ p = [messages |-> p.messages, capacity |-> p.capacity, size |-> p.size,
              idx_front |-> p.idx_front, idx_back |-> p.idx_back]
  BY <1>1, <1>3 DEF MessageQueues
<1>6. p \in MessageQueues(Depth, Messages)
  BY <1>1, <1>4, <1>5 DEF MessageQueues
<1>7. Front(p).payload \in {Front(q).payload} \cup Blanks
  BY <1>1, <1>4, <1>5 DEF Front, MessageQueues
<1>8. \A i \in 0 .. Depth - 1 \ {p.idx_front} : p.messages[i].payload \in Blanks
  BY <1>1, <1>5 DEF WellFormed, MessageQueues
<1> QED BY <1>1, <1>5, <1>6, <1>7, <1>8 DEF WellFormed

\* After room was made the queue is well formed and not full.  Making it costs
\* the payload at the front only when the queue was full.
LEMMA MakeRoomWellFormed ==
  ASSUME NEW q, WellFormed(q)
  PROVE  /\ WellFormed(MakeRoom(q))
         /\ q.size = Depth => /\ MakeRoom(q).size = Depth - 1
                              /\ Front(MakeRoom(q)).payload \in Blanks
         /\ q.size # Depth => MakeRoom(q) = q /\ q.size < Depth
<1>1. q.size \in 0 .. Depth /\ Depth \in Nat \ {0}
  BY DepthAssumption DEF WellFormed, MessageQueues
<1>2. CASE q.size = Depth
  BY <1>1, <1>2, PopFrontWellFormed DEF MakeRoom
<1>3. CASE q.size # Depth
  BY <1>1, <1>3 DEF MakeRoom
<1> QED BY <1>2, <1>3

-----------------------------------------------------------------------------
(* With a depth of one the slot a push fills is the slot it counts.        *)

\* Every message a queue of depth one counts is whole: its payload was written,
\* and its attachment with it.
Intact(q) ==
  q.size > 0 => /\ Front(q).payload \in Messages
                /\ Front(q).attachment_data = Front(q).payload

\* A push fills the slot, one that gives up half way finds it free, and so leaves
\* it, and a pop frees it.
LEMMA DepthOneIntact ==
  ASSUME Depth = 1, NEW q, WellFormed(q), NEW m \in Messages
  PROVE  /\ Intact(PushBack(MakeRoom(q), m))
         /\ \A p \in PushFails(MakeRoom(q), m) : Intact(p)
         /\ q.size > 0 => Intact(PopFront(q))
<1> DEFINE r == MakeRoom(q)
<1>1. q.size \in 0 .. 1 /\ WellFormed(r) /\ r.size = 0
  BY MakeRoomWellFormed DEF WellFormed, MessageQueues
<1>2. Intact(PushBack(r, m))
  <2>1. r.messages \in [0 .. Depth - 1 -> Slots(Messages)] /\ r.idx_front \in 0 .. Depth - 1
    BY <1>1 DEF WellFormed, MessageQueues
  <2>2. r = [messages |-> r.messages, capacity |-> r.capacity, size |-> r.size,
             idx_front |-> r.idx_front, idx_back |-> r.idx_back]
    BY <1>1 DEF WellFormed, MessageQueues
  <2> HIDE DEF r
  <2>3. Front(PushBack(r, m)) = [received_timestamp |-> m, attachment_data |-> m, payload |-> m]
    BY <2>1, <2>2 DEF PushBack, Front
  <2> QED BY <2>3 DEF Intact
<1>3. ASSUME NEW p \in PushFails(r, m) PROVE Intact(p)
  BY <1>1, <1>3, PushFailsWellFormed DEF Intact
<1>4. ASSUME q.size > 0 PROVE Intact(PopFront(q))
  BY <1>1, <1>4, PopFrontWellFormed DEF Intact
<1> QED BY <1>2, <1>3, <1>4

\* After a push the front payload is the one pushed; a push that gives up, and a
\* pop, leave the queue empty.
LEMMA DepthOneFront ==
  ASSUME Depth = 1, NEW q, WellFormed(q), NEW m \in Messages
  PROVE  /\ Front(PushBack(MakeRoom(q), m)).payload = m
         /\ \A p \in PushFails(MakeRoom(q), m) : p.size = 0
         /\ q.size > 0 => PopFront(q).size = 0
<1>1. q.size \in 0 .. 1 /\ WellFormed(MakeRoom(q)) /\ MakeRoom(q).size = 0
  BY MakeRoomWellFormed DEF WellFormed, MessageQueues
<1> QED BY <1>1, PushBackWellFormed, PushFailsWellFormed, PopFrontWellFormed
=============================================================================
