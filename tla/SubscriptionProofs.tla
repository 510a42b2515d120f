-------------------------- MODULE SubscriptionProofs --------------------------
(***************************************************************************)
(* What holds of a subscription for every depth of its queue and any       *)
(* number of samples.                                                      *)
(***************************************************************************)
EXTENDS Subscription, EntityQueueProofs, SequenceTheorems

-----------------------------------------------------------------------------
(* The inductive invariant.  Data speaks of the queue and of what was       *)
(* handed over, Control of the locals of the take calls.                    *)

\* No message handed over is newer than the one at the front, or than the last
\* to arrive.
Fresh ==
  LET front == Front(message_queue).payload
  IN  /\ front \in Messages =>
           /\ front <= arrived
           /\ \A i \in DOMAIN delivered : delivered[i] \in Messages => delivered[i] < front
      /\ \A i \in DOMAIN delivered : delivered[i] \in Messages => delivered[i] <= arrived

Data == /\ WellFormed(message_queue)
        /\ arrived \in 0 .. MaxArrivals
        /\ taken \in Slots(Messages)
        /\ delivered \in Seq(Messages \cup Blanks)
        /\ DeliveredInOrder
        /\ Fresh

Control == /\ sequence \in [active : BOOLEAN, count : 0 .. MaxCount, taken : 0 .. MaxCount]
           /\ sequence.active => sequence.taken < sequence.count
           /\ ret \in ReturnCodes
           /\ is_shutdown \in BOOLEAN

IInv == Data /\ Control

LEMMA InitIInv == Init => IInv
<1> SUFFICES ASSUME Init PROVE IInv
  OBVIOUS
<1> USE DepthAssumption DEF Init
<1>1. WellFormed(message_queue)
  BY DEF WellFormed, MessageQueues, QueueInit, UninitSlot, Slots, Blanks, Front
<1>2. Front(message_queue).payload \notin Messages
  BY BlankAssumption DEF QueueInit, UninitSlot, Front, Messages
<1>3. taken \in Slots(Messages)
  BY DEF UninitSlot, Slots
<1>4. DOMAIN delivered = {} /\ delivered \in Seq(Messages \cup Blanks)
  OBVIOUS
<1>5. Data
  BY <1>1, <1>2, <1>3, <1>4 DEF Data, DeliveredInOrder, Fresh
<1>6. Control
  <2>1. sequence \in [active : BOOLEAN, count : 0 .. MaxCount, taken : 0 .. MaxCount]
    BY MaxCountAssumption
  <2>2. sequence.active = FALSE
    OBVIOUS
  <2> QED BY <2>1, <2>2 DEF Control, ReturnCodes
<1> QED BY <1>5, <1>6 DEF IInv

\* A step that hands nothing over keeps Data when the queue stays well formed and
\* its front holds the newest sample, what it held before, or nothing.
LEMMA ArrivalKeepsData ==
  ASSUME Data, SampleArrives, WellFormed(message_queue'),
         Front(message_queue').payload \in {arrived', Front(message_queue).payload} \cup Blanks
  PROVE  Data'
<1>1. arrived \in 0 .. MaxArrivals /\ arrived' = arrived + 1 /\ arrived' \in Messages
  BY DepthAssumption DEF Data, SampleArrives, Messages
<1>2. taken' = taken /\ delivered' = delivered
  BY DEF SampleArrives
<1>3. WellFormed(message_queue)'
  BY DEF WellFormed
<1>4. \A i \in DOMAIN delivered : delivered[i] \in Messages => delivered[i] <= arrived
  BY DEF Data, Fresh
<1>5. Fresh'
  <2>1. CASE Front(message_queue').payload = arrived'
    BY <1>1, <1>2, <1>4, <2>1 DEF Fresh, Front, Messages
  <2>2. CASE Front(message_queue').payload = Front(message_queue).payload
    BY <1>1, <1>2, <1>4, <2>2 DEF Data, Fresh, Front, Messages
  <2>3. CASE Front(message_queue').payload \in Blanks
    BY <1>1, <1>2, <1>4, <2>3, BlanksAreNotMessages DEF Fresh, Front, Messages
  <2> QED BY <2>1, <2>2, <2>3
<1>6. DeliveredInOrder'
  BY <1>2 DEF Data, DeliveredInOrder
<1>7. arrived' \in 0 .. MaxArrivals
  BY <1>1, DepthAssumption DEF Messages
<1> QED BY <1>1, <1>2, <1>3, <1>5, <1>6, <1>7 DEF Data

\* A take hands over what is at the front, newer than all before it, and leaves
\* nothing to hand over again.
LEMMA PopKeepsData ==
  ASSUME Data, NEW r, PopNextMessage(r), UNCHANGED arrived
  PROVE  Data'
<1> DEFINE front == Front(message_queue).payload
<1>1. /\ WellFormed(message_queue)'
      /\ Front(message_queue').payload \in Blanks
  BY PopFrontWellFormed DEF Data, PopNextMessage, WellFormed
<1>2. /\ message_queue.messages[message_queue.idx_front] \in Slots(Messages)
      /\ front \in Messages \cup Blanks
  BY DEF Data, WellFormed, MessageQueues, Slots, Blanks, Front
<1>3. taken' \in Slots(Messages)
  BY <1>2 DEF PopNextMessage, Popped, Slots, Front, Blanks
<1>4. /\ delivered \in Seq(Messages \cup Blanks)
      /\ delivered' \in {delivered, Append(delivered, front)}
  BY DEF PopNextMessage, Data
<1>5. delivered' \in Seq(Messages \cup Blanks)
  BY <1>2, <1>4
<1>6. \A i \in DOMAIN delivered' :
         \/ i \in DOMAIN delivered /\ delivered'[i] = delivered[i]
         \/ i = Len(delivered) + 1 /\ delivered'[i] = front
  BY <1>2, <1>4
<1>7. \A i \in DOMAIN delivered : i \in 1 .. Len(delivered)
  BY <1>4
<1>8. DeliveredInOrder'
  <2> SUFFICES ASSUME NEW i \in DOMAIN delivered', NEW j \in DOMAIN delivered', i < j,
                      delivered'[i] \in Messages, delivered'[j] \in Messages
               PROVE  delivered'[i] < delivered'[j]
    BY DEF DeliveredInOrder
  <2>1. i \in DOMAIN delivered /\ delivered'[i] = delivered[i]
    BY <1>4, <1>6, <1>7
  <2>2. CASE j \in DOMAIN delivered /\ delivered'[j] = delivered[j]
    BY <2>1, <2>2 DEF Data, DeliveredInOrder
  <2>3. CASE delivered'[j] = front
    BY <2>1, <2>3 DEF Data, Fresh
  <2> QED BY <1>6, <2>2, <2>3
<1>9. Fresh'
  <2>1. Front(message_queue)' .payload \notin Messages
    BY <1>1, BlanksAreNotMessages DEF Front
  <2>2. \A i \in DOMAIN delivered' : delivered'[i] \in Messages => delivered'[i] <= arrived
    BY <1>6 DEF Data, Fresh
  <2> QED BY <2>1, <2>2 DEF Fresh
<1> QED BY <1>1, <1>3, <1>5, <1>8, <1>9 DEF Data

LEMMA NextIInv == IInv /\ [Next]_vars => IInv'
<1> SUFFICES ASSUME IInv, [Next]_vars PROVE IInv'
  OBVIOUS
<1> USE DEF IInv
<1>0. /\ WellFormed(message_queue)
      /\ arrived \in 0 .. MaxArrivals
  BY DEF Data
<1>1. CASE AddNewMessage
  <2>1. arrived' \in Messages
    BY <1>0, <1>1, DepthAssumption DEF AddNewMessage, SampleArrives, Messages
  <2>2. WellFormed(MakeRoom(message_queue)) /\ MakeRoom(message_queue).size < Depth
    BY <1>0, MakeRoomWellFormed, DepthAssumption
  <2>3. WellFormed(message_queue') /\ Front(message_queue').payload = arrived'
    BY <1>1, <2>1, <2>2, PushBackWellFormed DEF AddNewMessage
  <2> QED BY <1>1, <2>3, ArrivalKeepsData DEF AddNewMessage, SampleArrives, Control
<1>2. CASE AddNewMessageFails
  <2>1. arrived' \in Messages
    BY <1>0, <1>2, DepthAssumption DEF AddNewMessageFails, SampleArrives, Messages
  <2>2. /\ WellFormed(MakeRoom(message_queue)) /\ MakeRoom(message_queue).size < Depth
        /\ Front(MakeRoom(message_queue)).payload \in {Front(message_queue).payload} \cup Blanks
    BY <1>0, MakeRoomWellFormed, DepthAssumption
  <2>3. /\ WellFormed(message_queue')
        /\ Front(message_queue').payload \in {Front(message_queue).payload} \cup Blanks
    BY <1>2, <2>1, <2>2, PushFailsWellFormed DEF AddNewMessageFails
  <2> QED BY <1>2, <2>3, ArrivalKeepsData DEF AddNewMessageFails, SampleArrives, Control
<1>3. CASE IgnoreSample
  BY <1>0, <1>3, ArrivalKeepsData DEF IgnoreSample, SampleArrives, Control
<1>4. ASSUME NEW r \in ReturnCodes, UNCHANGED arrived, TakeOne(r) \/ TakeOneSerialized(r)
      PROVE  Data'
  <2>1. CASE PopNextMessage(r)
    BY <1>4, <2>1, PopKeepsData
  <2>2. CASE NothingToPop
    BY <1>4, <2>2 DEF NothingToPop, Data, WellFormed, DeliveredInOrder, Fresh, Front
  <2> QED BY <1>4, <2>1, <2>2 DEF TakeOne, TakeOneSerialized
<1>5. CASE Take
  BY <1>4, <1>5 DEF Take, Control
<1>6. CASE TakeSerialized
  BY <1>4, <1>6 DEF TakeSerialized, Control
<1>7. CASE TakeSequence
  <2>1. Data'
    BY <1>7 DEF TakeSequence, Data, WellFormed, DeliveredInOrder, Fresh, Front
  <2>2. Control'
    BY <1>7, MaxCountAssumption DEF TakeSequence, Control, ReturnCodes
  <2> QED BY <2>1, <2>2
<1>8. CASE TakeSequenceStep
  <2>1. Data'
    BY <1>4, <1>8 DEF TakeSequenceStep
  <2>2. Control'
    <3>1. /\ sequence.active
          /\ sequence \in [active : BOOLEAN, count : 0 .. MaxCount, taken : 0 .. MaxCount]
          /\ sequence.taken < sequence.count
      BY <1>8 DEF TakeSequenceStep, Control
    <3>2. \E n \in 0 .. MaxCount, more \in BOOLEAN :
             /\ more => n < sequence.count
             /\ sequence' = [sequence EXCEPT !.taken = n, !.active = more]
      <4>1. PICK r \in ReturnCodes :
              sequence' = [sequence EXCEPT
                !.taken = sequence.taken + (IF r = "RMW_RET_OK" THEN 1 ELSE 0),
                !.active = /\ r = "RMW_RET_OK"
                           /\ sequence.taken + (IF r = "RMW_RET_OK" THEN 1 ELSE 0)
                                < sequence.count]
        BY <1>8 DEF TakeSequenceStep
      <4> DEFINE n == sequence.taken + (IF r = "RMW_RET_OK" THEN 1 ELSE 0)
                 more == r = "RMW_RET_OK" /\ n < sequence.count
      <4>2. n \in 0 .. MaxCount
        BY <3>1, MaxCountAssumption
      <4>3. more \in BOOLEAN /\ (more => n < sequence.count)
        OBVIOUS
      <4>4. sequence' = [sequence EXCEPT !.taken = n, !.active = more]
        BY <4>1
      <4> HIDE DEF n, more
      <4> QED BY <4>2, <4>3, <4>4
    <3>3. /\ sequence' \in [active : BOOLEAN, count : 0 .. MaxCount, taken : 0 .. MaxCount]
          /\ sequence'.active => sequence'.taken < sequence'.count
      BY <3>1, <3>2
    <3>4. ret' \in ReturnCodes /\ is_shutdown' \in BOOLEAN
      BY <1>8 DEF TakeSequenceStep, Control
    <3> QED BY <3>3, <3>4 DEF Control
  <2> QED BY <2>1, <2>2
<1>9. CASE Shutdown
  <2>1. Data'
    BY <1>9 DEF Shutdown, Data, WellFormed, DeliveredInOrder, Fresh, Front
  <2>2. Control'
    BY <1>9 DEF Shutdown, Control
  <2> QED BY <2>1, <2>2
<1>10. CASE UNCHANGED vars
  BY <1>10 DEF vars, Data, Control, WellFormed, DeliveredInOrder, Fresh, Front
<1> QED
  BY <1>1, <1>2, <1>3, <1>5, <1>6, <1>7, <1>8, <1>9, <1>10 DEF Next

\* The invariant holds throughout.
THEOREM Invariance == Spec => []IInv
  BY InitIInv, NextIInv, PTL DEF Spec

\* What the invariant says of each property.
LEMMA IInvIsSafe ==
  IInv => /\ TypeOK /\ RingIsConsistent /\ DropsWrittenPayload
          /\ OnlyFrontHoldsPayload /\ DeliveredInOrder
<1> SUFFICES ASSUME IInv
             PROVE  /\ TypeOK /\ RingIsConsistent /\ DropsWrittenPayload
                    /\ OnlyFrontHoldsPayload /\ DeliveredInOrder
  OBVIOUS
<1>1. WellFormed(message_queue)
  BY DEF IInv, Data
<1>2. TypeOK
  BY DEF IInv, Data, Control, WellFormed, TypeOK
<1>3. RingIsConsistent
  BY <1>1, DepthAssumption DEF WellFormed, RingIsConsistent, MessageQueues
<1>4. DropsWrittenPayload /\ OnlyFrontHoldsPayload
  BY <1>1 DEF WellFormed, DropsWrittenPayload, OnlyFrontHoldsPayload
<1>5. DeliveredInOrder
  BY DEF IInv, Data
<1> QED BY <1>2, <1>3, <1>4, <1>5

\* The types hold, for every depth: no index leaves the ring of message_queue.c.
THEOREM TypeCorrect == Spec => []TypeOK
  BY Invariance, IInvIsSafe, PTL

\* size and the two indices agree, for every depth and however the ring wraps around.
THEOREM IndicesAgree == Spec => []RingIsConsistent
  BY Invariance, IInvIsSafe, PTL

\* add_new_message never drops a payload that was not written, for every depth.
THEOREM DropsAreSafe == Spec => []DropsWrittenPayload
  BY Invariance, IInvIsSafe, PTL

\* A payload is at the front of the ring or nowhere, for every depth.
THEOREM PayloadAtFrontOnly == Spec => []OnlyFrontHoldsPayload
  BY Invariance, IInvIsSafe, PTL

\* Samples are delivered in order and at most once, for every depth.
THEOREM DeliveryInOrder == Spec => []DeliveredInOrder
  BY Invariance, IInvIsSafe, PTL

\* A turn of rmw_take_sequence counts what it hands over, whatever fails and
\* whatever arrives between two turns.
THEOREM SequencesAreReported == Spec => SequenceReportsTaken
<1> DEFINE Reported == sequence.active =>
             /\ Len(delivered') - Len(delivered) = sequence'.taken - sequence.taken
             /\ sequence'.taken <= sequence.count
             /\ ~ sequence'.active /\ sequence'.taken = sequence.count => ret' = "RMW_RET_OK"
<1>1. IInv /\ [Next]_vars => [Reported]_vars
  <2> SUFFICES ASSUME IInv, Next, sequence.active PROVE Reported
    OBVIOUS
  <2>0. /\ sequence \in [active : BOOLEAN, count : 0 .. MaxCount, taken : 0 .. MaxCount]
        /\ sequence.taken < sequence.count
        /\ delivered \in Seq(Messages \cup Blanks)
        /\ Front(message_queue).payload \in Messages \cup Blanks
    BY DEF IInv, Control, Data, WellFormed, MessageQueues, Slots, Blanks, Front
  <2>1. CASE TakeSequenceStep
    <3>1. PICK r \in ReturnCodes :
            /\ TakeOne(r)
            /\ sequence' = [sequence EXCEPT
                 !.taken = sequence.taken + (IF r = "RMW_RET_OK" THEN 1 ELSE 0),
                 !.active = /\ r = "RMW_RET_OK"
                            /\ sequence.taken + (IF r = "RMW_RET_OK" THEN 1 ELSE 0)
                                 < sequence.count]
            /\ ret' = IF sequence'.active THEN ret ELSE r
      BY <2>1 DEF TakeSequenceStep
    <3>2. CASE r = "RMW_RET_OK"
      <4>1. delivered' = Append(delivered, Front(message_queue).payload)
        BY <3>1, <3>2 DEF TakeOne, PopNextMessage, NothingToPop
      <4>2. Len(delivered') = Len(delivered) + 1
        BY <2>0, <4>1
      <4> QED BY <2>0, <3>1, <3>2, <4>2, MaxCountAssumption
    <3>3. CASE r # "RMW_RET_OK"
      <4>1. delivered' = delivered
        BY <3>1, <3>3 DEF TakeOne, PopNextMessage, NothingToPop
      <4> QED BY <2>0, <3>1, <3>3, <4>1, MaxCountAssumption
    <3> QED BY <3>2, <3>3
  <2>2. CASE AddNewMessage \/ AddNewMessageFails \/ IgnoreSample \/ Shutdown
    BY <2>0, <2>2 DEF AddNewMessage, AddNewMessageFails, IgnoreSample, SampleArrives, Shutdown
  <2> QED BY <2>1, <2>2 DEF Next, Take, TakeSerialized, TakeSequence
<1> QED BY <1>1, Invariance, PTL DEF Spec, SequenceReportsTaken

-----------------------------------------------------------------------------
(* With a depth of one.                                                    *)

WholeInv == Intact(message_queue) /\ AttachmentMatchesPayload

LEMMA NextWholeInv ==
  ASSUME Depth = 1
  PROVE  IInv /\ WholeInv /\ [Next]_vars => WholeInv'
<1> SUFFICES ASSUME IInv, WholeInv, [Next]_vars PROVE WholeInv'
  OBVIOUS
<1> USE DEF WholeInv
<1>0. WellFormed(message_queue) /\ arrived \in 0 .. MaxArrivals
  BY DEF IInv, Data
<1>1. CASE AddNewMessage \/ AddNewMessageFails
  <2>1. arrived' \in Messages /\ taken' = taken
    BY <1>0, <1>1, DepthAssumption
       DEF AddNewMessage, AddNewMessageFails, SampleArrives, Messages
  <2>2. Intact(message_queue')
    BY <1>0, <1>1, <2>1, DepthOneIntact DEF AddNewMessage, AddNewMessageFails
  <2> QED BY <2>1, <2>2 DEF Intact, Front, AttachmentMatchesPayload
<1>2. ASSUME NEW r \in ReturnCodes, TakeOne(r) \/ TakeOneSerialized(r) PROVE WholeInv'
  <2>1. CASE PopNextMessage(r)
    <3>0. message_queue.size = 1
      BY <1>0, <2>1 DEF PopNextMessage, WellFormed, MessageQueues
    <3>1. Front(message_queue).payload \in Messages
      BY <3>0 DEF Intact
    <3>2. Intact(message_queue')
      BY <1>0, <2>1, <3>1, DepthOneIntact DEF PopNextMessage
    <3>3. AttachmentMatchesPayload'
      BY <2>1, <3>0 DEF PopNextMessage, Popped, Intact, AttachmentMatchesPayload
    <3> QED BY <3>2, <3>3 DEF Intact, Front
  <2>2. CASE NothingToPop
    BY <2>2 DEF NothingToPop, Intact, Front, AttachmentMatchesPayload
  <2> QED BY <1>2, <2>1, <2>2 DEF TakeOne, TakeOneSerialized
<1>3. CASE Take \/ TakeSerialized \/ TakeSequenceStep
  BY <1>2, <1>3 DEF Take, TakeSerialized, TakeSequenceStep
<1>4. CASE IgnoreSample \/ TakeSequence \/ Shutdown \/ UNCHANGED vars
  BY <1>4 DEF IgnoreSample, SampleArrives, TakeSequence, Shutdown, vars, Intact, Front,
              AttachmentMatchesPayload
<1> QED BY <1>1, <1>3, <1>4 DEF Next

LEMMA DepthOneInvariance ==
  ASSUME Depth = 1
  PROVE  Spec => []WholeInv
<1>1. Init => WholeInv
  BY BlankAssumption, DepthAssumption
     DEF Init, WholeInv, Intact, QueueInit, AttachmentMatchesPayload, UninitSlot, Messages
<1>2. IInv /\ WholeInv /\ [Next]_vars => WholeInv'
  BY NextWholeInv
<1> QED BY <1>1, <1>2, Invariance, PTL DEF Spec

\* With a depth of one no take mixes the payload of a sample with the attachment
\* of another, for any number of samples and failed pushes.
THEOREM AttachmentsMatch ==
  ASSUME Depth = 1
  PROVE  Spec => []AttachmentMatchesPayload
<1>1. WholeInv => AttachmentMatchesPayload
  BY DEF WholeInv
<1> QED BY <1>1, DepthOneInvariance, PTL

\* With a depth of one, what push_back counts it stores.
THEOREM CountedIsStored ==
  ASSUME Depth = 1
  PROVE  Spec => []CountedMessagesAreStored
<1>1. IInv /\ WholeInv => CountedMessagesAreStored
  <2> SUFFICES ASSUME IInv, WholeInv, NEW n \in 0 .. message_queue.size - 1
               PROVE  message_queue.messages[(message_queue.idx_front + n) % Depth].payload
                        \in Messages
    BY DEF CountedMessagesAreStored
  <2>1. message_queue.size \in 0 .. 1 /\ message_queue.idx_front = 0
    BY DEF IInv, Data, WellFormed, MessageQueues
  <2>2. message_queue.size > 0 /\ n = 0
    BY <2>1
  <2>3. (message_queue.idx_front + n) % Depth = message_queue.idx_front
    BY <2>1, <2>2
  <2> QED BY <2>2, <2>3 DEF WholeInv, Intact, Front
<1> QED BY <1>1, DepthOneInvariance, Invariance, PTL

-----------------------------------------------------------------------------
(* The refinements.                                                        *)

\* Every way to take is a take of the mailbox, or changes nothing it sees.
LEMMA TakeOneIsMailboxStep ==
  ASSUME Data, NEW r, TakeOne(r) \/ TakeOneSerialized(r), UNCHANGED arrived
  PROVE  [Mailbox!Next]_(Mailbox!vars)
<1>1. CASE PopNextMessage(r)
  <2>1. /\ message_queue'.size = message_queue.size - 1
        /\ Front(message_queue').payload \in Blanks
    BY <1>1, PopFrontWellFormed DEF Data, PopNextMessage
  <2>2. Mailbox!Take
    BY <1>1, <2>1 DEF PopNextMessage, Mailbox!Take, Front
  <2> QED BY <2>2 DEF Mailbox!Next
<1>2. CASE NothingToPop
  BY <1>2 DEF NothingToPop, Mailbox!vars, Front
<1> QED BY <1>1, <1>2 DEF TakeOne, TakeOneSerialized

\* Every step of a subscription is a step of the mailbox or changes nothing it sees.
LEMMA NextIsMailboxStep == IInv /\ [Next]_vars => [Mailbox!Next]_(Mailbox!vars)
<1> SUFFICES ASSUME IInv, [Next]_vars PROVE [Mailbox!Next]_(Mailbox!vars)
  OBVIOUS
<1> USE DEF IInv
<1>0. /\ WellFormed(message_queue)
      /\ arrived \in 0 .. MaxArrivals
      /\ message_queue.size \in 0 .. Depth
      /\ Depth \in Nat \ {0}
  BY DepthAssumption DEF Data, WellFormed, MessageQueues
<1>1. CASE AddNewMessage
  <2>1. arrived' \in Messages
    BY <1>0, <1>1, DepthAssumption DEF AddNewMessage, SampleArrives, Messages
  <2>2. WellFormed(MakeRoom(message_queue)) /\ MakeRoom(message_queue).size < Depth
    BY <1>0, MakeRoomWellFormed
  <2>3. /\ message_queue'.size = MakeRoom(message_queue).size + 1
        /\ Front(message_queue').payload = arrived'
    BY <1>1, <2>1, <2>2, PushBackWellFormed DEF AddNewMessage
  <2>4. message_queue'.size = IF message_queue.size = Depth THEN Depth
                                                            ELSE message_queue.size + 1
    BY <1>0, <2>3, MakeRoomWellFormed
  <2>5. Mailbox!Arrive
    BY <1>1, <2>3, <2>4 DEF AddNewMessage, SampleArrives, Mailbox!Arrive, Front
  <2> QED BY <2>5 DEF Mailbox!Next
<1>2. CASE AddNewMessageFails
  <2>1. arrived' \in Messages
    BY <1>0, <1>2, DepthAssumption DEF AddNewMessageFails, SampleArrives, Messages
  <2>2. WellFormed(MakeRoom(message_queue)) /\ MakeRoom(message_queue).size < Depth
    BY <1>0, MakeRoomWellFormed
  <2>3. /\ message_queue'.size = MakeRoom(message_queue).size
        /\ Front(message_queue').payload \in {Front(MakeRoom(message_queue)).payload} \cup Blanks
    BY <1>2, <2>1, <2>2, PushFailsWellFormed DEF AddNewMessageFails
  <2>4. message_queue'.size = IF message_queue.size = Depth THEN Depth - 1
                                                            ELSE message_queue.size
    BY <1>0, <2>3, MakeRoomWellFormed
  <2>5. Front(message_queue').payload
          \in Blanks \cup (IF message_queue.size = Depth THEN {}
                           ELSE {Front(message_queue).payload})
    BY <1>0, <2>3, MakeRoomWellFormed
  <2>6. Mailbox!Reject
    BY <1>2, <2>4, <2>5 DEF AddNewMessageFails, SampleArrives, Mailbox!Reject, Front
  <2> QED BY <2>6 DEF Mailbox!Next
<1>3. CASE IgnoreSample
  BY <1>3 DEF IgnoreSample, SampleArrives, Mailbox!Ignore, Mailbox!Next, Front
<1>4. CASE Take
  BY <1>4, TakeOneIsMailboxStep DEF Take
<1>5. CASE TakeSerialized
  BY <1>5, TakeOneIsMailboxStep DEF TakeSerialized
<1>6. CASE TakeSequenceStep
  BY <1>6, TakeOneIsMailboxStep DEF TakeSequenceStep
<1>7. CASE TakeSequence \/ Shutdown \/ UNCHANGED vars
  BY <1>7 DEF TakeSequence, Shutdown, vars, Mailbox!vars, Front
<1> QED
  BY <1>1, <1>2, <1>3, <1>4, <1>5, <1>6, <1>7 DEF Next

\* Whatever the depth and the number of samples, an application can tell the
\* queue of a subscription from a one-place mailbox only by how many takes it
\* lets through.
THEOREM ImplementsMailbox == Spec => MailboxSpec
<1>1. Init => Mailbox!Init
  BY DepthAssumption DEF Init, Mailbox!Init, QueueInit, UninitSlot, Front, Blanks
<1> QED BY <1>1, NextIsMailboxStep, Invariance, PTL DEF Spec, MailboxSpec, Mailbox!Spec

-----------------------------------------------------------------------------
\* A mailbox of depth one is the KEEP_LAST history: every step of one is a step of
\* the other.
LEMMA TakeOneIsHistoryStep ==
  ASSUME Depth = 1, Data, NEW r, TakeOne(r) \/ TakeOneSerialized(r), UNCHANGED arrived
  PROVE  [History!Next]_(History!vars)
<1> DEFINE queue == IF message_queue.size = 0 THEN <<>> ELSE <<Front(message_queue).payload>>
<1>1. CASE PopNextMessage(r)
  <2>1. message_queue.size = 1 /\ message_queue'.size = 0
    BY <1>1, PopFrontWellFormed DEF Data, PopNextMessage, WellFormed, MessageQueues
  <2>2. queue = <<Front(message_queue).payload>> /\ queue' = <<>>
    BY <2>1
  <2>3. /\ queue # <<>>
        /\ queue' = Tail(queue)
        /\ delivered' \in {delivered, Append(delivered, Head(queue))}
    BY <1>1, <2>2 DEF PopNextMessage
  <2>4. History!Take
    BY <2>3 DEF History!Take
  <2> QED BY <2>4 DEF History!Next
<1>2. CASE NothingToPop
  BY <1>2 DEF NothingToPop, History!vars, Front
<1> QED BY <1>1, <1>2 DEF TakeOne, TakeOneSerialized

LEMMA NextIsHistoryStep ==
  ASSUME Depth = 1
  PROVE  IInv /\ [Next]_vars => [History!Next]_(History!vars)
<1> SUFFICES ASSUME IInv, [Next]_vars PROVE [History!Next]_(History!vars)
  OBVIOUS
<1> USE DEF IInv
<1> DEFINE queue == IF message_queue.size = 0 THEN <<>> ELSE <<Front(message_queue).payload>>
<1>0. /\ WellFormed(message_queue)
      /\ arrived \in 0 .. MaxArrivals
      /\ message_queue.size \in {0, 1}
  BY DepthAssumption DEF Data, WellFormed, MessageQueues
<1>1. WellFormed(MakeRoom(message_queue)) /\ MakeRoom(message_queue).size = 0
  BY <1>0, MakeRoomWellFormed
<1>2. CASE AddNewMessage
  <2>1. arrived' \in Messages
    BY <1>0, <1>2, DepthAssumption DEF AddNewMessage, SampleArrives, Messages
  <2>2. /\ message_queue'.size = 1
        /\ Front(message_queue').payload = arrived'
    BY <1>1, <1>2, <2>1, PushBackWellFormed DEF AddNewMessage
  <2>3. queue' = <<arrived'>>
    BY <2>2 DEF Front
  <2>4. History!KeepNewest(Append(queue, arrived')) = <<arrived'>>
    <3>1. CASE message_queue.size = 0
      <4>1. Append(queue, arrived') = <<arrived'>>
        BY <3>1
      <4> QED BY <4>1 DEF History!KeepNewest
    <3>2. CASE message_queue.size = 1
      <4> DEFINE S == {Front(message_queue).payload, arrived'}
      <4>1. queue \in Seq(S) /\ queue # <<>> /\ arrived' \in S /\ Tail(queue) = <<>>
        BY <3>2
      <4> HIDE DEF queue, S
      <4>2. Len(Append(queue, arrived')) = Len(queue) + 1
        BY <4>1, AppendProperties
      <4>3. Len(queue) \in Nat \ {0}
        BY <4>1
      <4>4. Tail(Append(queue, arrived')) = Append(<<>>, arrived')
        BY <4>1, HeadTailAppend
      <4>5. Append(<<>>, arrived') = <<arrived'>>
        OBVIOUS
      <4> QED BY <4>2, <4>3, <4>4, <4>5 DEF History!KeepNewest
    <3> QED BY <1>0, <3>1, <3>2
  <2>5. History!Arrive
    BY <1>2, <2>3, <2>4 DEF AddNewMessage, SampleArrives, History!Arrive
  <2> QED BY <2>5 DEF History!Next
<1>3. CASE AddNewMessageFails
  <2>1. arrived' \in Messages
    BY <1>0, <1>3, DepthAssumption DEF AddNewMessageFails, SampleArrives, Messages
  <2>2. message_queue'.size = 0
    BY <1>1, <1>3, <2>1, PushFailsWellFormed DEF AddNewMessageFails
  <2>3. queue' = <<>>
    BY <2>2
  <2>4. queue' \in {queue} \cup (IF Len(queue) = Depth THEN {Tail(queue)} ELSE {})
    BY <1>0, <2>3
  <2>5. History!Reject
    BY <1>3, <2>4 DEF AddNewMessageFails, SampleArrives, History!Reject
  <2> QED BY <2>5 DEF History!Next
<1>4. CASE IgnoreSample
  <2>1. queue' = queue
    BY <1>4 DEF IgnoreSample, Front
  <2>2. History!Reject
    BY <1>4, <2>1 DEF IgnoreSample, SampleArrives, History!Reject
  <2> QED BY <2>2 DEF History!Next
<1>5. CASE Take
  BY <1>5, TakeOneIsHistoryStep DEF Take
<1>6. CASE TakeSerialized
  BY <1>6, TakeOneIsHistoryStep DEF TakeSerialized
<1>7. CASE TakeSequenceStep
  BY <1>7, TakeOneIsHistoryStep DEF TakeSequenceStep
<1>8. CASE TakeSequence \/ Shutdown \/ UNCHANGED vars
  BY <1>8 DEF TakeSequence, Shutdown, vars, History!vars, Front
<1> QED
  BY <1>2, <1>3, <1>4, <1>5, <1>6, <1>7, <1>8 DEF Next

\* With a depth of one a subscription is the KEEP_LAST history it is meant to be,
\* for any number of samples.
THEOREM DepthOneImplementsHistory ==
  ASSUME Depth = 1
  PROVE  Spec => HistorySpec
<1>1. Init => History!Init
  BY DepthAssumption DEF Init, History!Init, QueueInit
<1>2. IInv /\ [Next]_vars => [History!Next]_(History!vars)
  BY NextIsHistoryStep
<1> QED BY <1>1, <1>2, Invariance, PTL DEF Spec, HistorySpec, History!Spec
=============================================================================
