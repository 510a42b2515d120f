------------------------ MODULE PublishSubscribeProofs ------------------------
(***************************************************************************)
(* What holds of a topic from end to end, for any number of threads that   *)
(* publish, peers and samples.  A step of the system is a step of the      *)
(* subscription or none, so what SubscriptionProofs shows carries over.    *)
(***************************************************************************)
EXTENDS PublishSubscribe, SubscriptionProofs, WellFoundedInduction

-----------------------------------------------------------------------------
(* The subscription within the system.                                     *)

LEMMA SystemNextIsNext == [SystemNext]_systemVars => [Next]_vars
<1> SUFFICES ASSUME [SystemNext]_systemVars PROVE [Next]_vars
  OBVIOUS
<1>1. CASE Publish \/ PeerPut \/ UNCHANGED systemVars
  BY <1>1 DEF Publish, PeerPut, systemVars
<1>2. ASSUME NEW p, Arrives(p) PROVE Next
  BY <1>2 DEF Arrives, Next
<1>3. CASE Executor
  BY <1>3 DEF Executor, Next
<1> QED BY <1>1, <1>2, <1>3 DEF SystemNext

\* Whatever happens around it, a subscription does what Subscription says.
THEOREM SubscriptionInSystem == SystemSpec => Spec
<1>1. SystemInit => Init
  BY DEF SystemInit
<1> QED BY <1>1, SystemNextIsNext, PTL DEF SystemSpec, Spec

\* With a depth of one the end of a topic is the KEEP_LAST history of what came in.
THEOREM SystemImplementsHistory ==
  ASSUME Depth = 1
  PROVE  SystemSpec => HistorySpec
  BY SubscriptionInSystem, DepthOneImplementsHistory, PTL

-----------------------------------------------------------------------------
(* The invariant of the topic.                                             *)

Attachments ==
  PeerAttachments \cup {P!Serialize(P!AttachmentData(n)) : n \in 0 .. MaxPublished}
Puts == [number : 0 .. MaxPublished, began : Nat, attachment : Attachments]

\* Types; a call begins at a point of the log that is there.
LogInv == /\ log \in Seq(Puts)
          /\ sequence_number \in 1 .. MaxPublished + 1
          /\ publishing \in [Publishers -> [pc     : {"idle", "numbered"},
                                            number : 0 .. MaxPublished,
                                            began  : Nat]]
          /\ \A t \in Publishers : publishing[t].began <= Len(log)
          /\ \A p \in 1 .. Len(log) : log[p].began < p

\* Every number put is below the next one and put once; what was put before its
\* call began has a smaller one.
LogNumbers ==
  /\ \A p \in 1 .. Len(log) : log[p].number < sequence_number
  /\ \A p, q \in 1 .. Len(log) :
       p # q /\ log[p].number = log[q].number => log[p].number = 0
  /\ \A p, q \in 1 .. Len(log) :
       p <= log[q].began /\ log[q].number # 0 => log[p].number < log[q].number

\* The same for the number n of a call that began when b samples had been put.
Fits(n, b) == /\ n \in 1 .. sequence_number - 1
              /\ \A p \in 1 .. Len(log) : /\ log[p].number # n
                                          /\ p <= b => log[p].number < n

Numbered(t) == publishing[t].pc = "numbered"

\* The number of a call in progress belongs to one thread.
ThreadNumbers ==
  \A t \in Publishers : Numbered(t) =>
    /\ Fits(publishing[t].number, publishing[t].began)
    /\ \A u \in Publishers : Numbered(u) /\ publishing[u].number = publishing[t].number => u = t

NumberInv == LogNumbers /\ ThreadNumbers

\* The samples that arrived are a part of the log, in its order.
SampleInv == /\ samples \in Seq(Nat)
             /\ Len(samples) = arrived
             /\ \A m \in 1 .. arrived : samples[m] \in 1 .. Len(log)
             /\ \A m, n \in 1 .. arrived : m < n => samples[m] < samples[n]

\* What is handed over came in.
DeliveredInv == delivered \in Seq(Messages)

TopicInv == LogInv /\ NumberInv /\ SampleInv /\ DeliveredInv

LEMMA InitTopicInv == SystemInit => TopicInv
<1> SUFFICES ASSUME SystemInit PROVE TopicInv
  OBVIOUS
<1> USE MaxPublishedAssumption DEF SystemInit, Init, P!Init, P!Idle
<1>1. LogInv
  BY DEF LogInv
<1>2. NumberInv
  BY DEF NumberInv, LogNumbers, ThreadNumbers, Numbered
<1>3. SampleInv
  BY DEF SampleInv
<1>4. DeliveredInv
  BY DEF DeliveredInv
<1> QED BY <1>1, <1>2, <1>3, <1>4 DEF TopicInv

\* What putting r on the topic leaves of the log.
LEMMA PutKeepsLog ==
  ASSUME LogInv, NEW r \in Puts, log' = Append(log, r)
  PROVE  /\ log' \in Seq(Puts)
         /\ Len(log') = Len(log) + 1
         /\ Len(log) \in Nat
         /\ log'[Len(log) + 1] = r
         /\ \A p \in 1 .. Len(log) : log'[p] = log[p]
         /\ \A p \in 1 .. Len(log) : log[p].number \in Nat /\ log[p].began \in Nat
<1>1. \A p \in 1 .. Len(log) : log[p] \in Puts
  BY DEF LogInv
<1>2. \A p \in 1 .. Len(log) : log[p].number \in Nat /\ log[p].began \in Nat
  BY <1>1, MaxPublishedAssumption DEF Puts
<1> QED BY <1>2 DEF LogInv

\* A sample with a number that fits, or none, keeps the order of the log.
LEMMA PutKeepsNumbers ==
  ASSUME LogInv, LogNumbers, NEW r \in Puts, log' = Append(log, r),
         r.began <= Len(log),
         r.number = 0 \/ Fits(r.number, r.began),
         UNCHANGED sequence_number
  PROVE  LogNumbers' /\ \A p \in 1 .. Len(log') : log'[p].began < p
<1> DEFINE n == Len(log)
<1>0. /\ Len(log') = n + 1 /\ n \in Nat
      /\ log'[n + 1] = r
      /\ \A p \in 1 .. n : log'[p] = log[p]
      /\ \A p \in 1 .. n : log[p].number \in Nat /\ log[p].began \in Nat
      /\ \A p \in 1 .. n : log[p].began < p
      /\ r.number \in Nat /\ r.began \in Nat
      /\ sequence_number \in Nat /\ sequence_number' = sequence_number
      /\ sequence_number > 0
  BY PutKeepsLog, MaxPublishedAssumption DEF LogInv, Puts
<1>1. r.number < sequence_number
  BY <1>0 DEF Fits
<1>2. \A p \in 1 .. n : r.number # 0 => log[p].number # r.number
  BY DEF Fits
<1>3. \A p \in 1 .. n : r.number # 0 /\ p <= r.began => log[p].number < r.number
  BY DEF Fits
<1>4. \A p \in 1 .. n + 1 : p \in 1 .. n \/ p = n + 1
  BY <1>0
<1> HIDE DEF n
<1>5. \A p \in 1 .. n + 1 : log'[p].number < sequence_number
  BY <1>0, <1>1, <1>4 DEF LogNumbers, n
<1>6. ASSUME NEW p \in 1 .. n + 1, NEW q \in 1 .. n + 1,
             p # q, log'[p].number = log'[q].number
      PROVE  log'[p].number = 0
  BY <1>0, <1>2, <1>4, <1>6 DEF LogNumbers, n
<1>7. ASSUME NEW p \in 1 .. n + 1, NEW q \in 1 .. n + 1,
             p <= log'[q].began, log'[q].number # 0
      PROVE  log'[p].number < log'[q].number
  <2>1. p \in 1 .. n
    <3>1. log'[q].began \in Nat /\ log'[q].began <= n
      BY <1>0, <1>4 DEF n
    <3> QED BY <1>0, <1>4, <1>7, <3>1
  <2>2. CASE q \in 1 .. n
    BY <1>0, <1>7, <2>1, <2>2 DEF LogNumbers, n
  <2>3. CASE q = n + 1
    BY <1>0, <1>3, <1>7, <2>1, <2>3
  <2> QED BY <1>4, <2>2, <2>3
<1>8. \A p \in 1 .. n + 1 : log'[p].began < p
  BY <1>0, <1>4 DEF n
<1> QED BY <1>0, <1>5, <1>6, <1>7, <1>8 DEF LogNumbers

\* A number that fits still does once another sample is put, unless that has it.
LEMMA FitsStill ==
  ASSUME LogInv, NEW r \in Puts, log' = Append(log, r), UNCHANGED sequence_number,
         NEW m, NEW b \in Nat, Fits(m, b), b <= Len(log), r.number # m
  PROVE  Fits(m, b)'
<1>0. /\ Len(log') = Len(log) + 1 /\ Len(log) \in Nat
      /\ log'[Len(log) + 1] = r
      /\ \A p \in 1 .. Len(log) : log'[p] = log[p]
  BY PutKeepsLog
<1>1. \A p \in 1 .. Len(log') : p \in 1 .. Len(log) \/ p = Len(log) + 1
  BY <1>0
<1>2. ~ (Len(log) + 1 <= b)
  BY <1>0
<1> QED BY <1>0, <1>1, <1>2 DEF Fits

LEMMA PeerPutTopicInv ==
  ASSUME TopicInv, PeerPut
  PROVE  TopicInv'
<1> USE DEF TopicInv, NumberInv
<1>1. PICK a \in PeerAttachments :
        log' = Append(log, [number |-> 0, began |-> Len(log), attachment |-> a])
  BY DEF PeerPut
<1> DEFINE r == [number |-> 0, began |-> Len(log), attachment |-> a]
<1>2. r \in Puts /\ r.number = 0 /\ r.began = Len(log) /\ log' = Append(log, r)
  BY <1>1, MaxPublishedAssumption DEF LogInv, Puts, Attachments
<1> HIDE DEF r
<1>3. /\ sequence_number' = sequence_number /\ publishing' = publishing
      /\ samples' = samples /\ arrived' = arrived /\ delivered' = delivered
  BY DEF PeerPut, vars
<1>4. Len(log) \in Nat /\ r.began <= Len(log)
  BY <1>2, PutKeepsLog
<1>5. LogNumbers' /\ \A p \in 1 .. Len(log') : log'[p].began < p
  BY <1>2, <1>3, <1>4, PutKeepsNumbers
<1>6. /\ log' \in Seq(Puts)
      /\ Len(log') = Len(log) + 1
  BY <1>2, PutKeepsLog
<1>7. LogInv'
  BY <1>3, <1>4, <1>5, <1>6 DEF LogInv
<1>8. ThreadNumbers'
  <2> SUFFICES ASSUME NEW t \in Publishers, Numbered(t)
               PROVE  Fits(publishing[t].number, publishing[t].began)'
    BY <1>3 DEF ThreadNumbers, Numbered
  <2>1. Fits(publishing[t].number, publishing[t].began)
    BY DEF ThreadNumbers
  <2>2. publishing[t].number # r.number /\ publishing[t].began \in 0 .. Len(log)
    BY <1>2, <2>1 DEF Fits, LogInv
  <2> QED BY <1>2, <1>3, <2>1, <2>2, FitsStill
<1>9. SampleInv' /\ DeliveredInv'
  BY <1>3, <1>4, <1>6 DEF SampleInv, DeliveredInv
<1> QED BY <1>5, <1>7, <1>8, <1>9

\* A call takes the next number: it is new, and larger than all that were put.
LEMMA GetNextSequenceNumberTopicInv ==
  ASSUME TopicInv, NEW t \in Publishers, P!GetNextSequenceNumber(t), UNCHANGED <<vars, samples>>
  PROVE  TopicInv'
<1> USE DEF TopicInv, NumberInv
<1>1. /\ log' = log /\ samples' = samples /\ arrived' = arrived /\ delivered' = delivered
      /\ sequence_number' = sequence_number + 1
      /\ sequence_number \in 1 .. MaxPublished
      /\ publishing' = [publishing EXCEPT ![t] = [pc     |-> "numbered",
                                                  number |-> sequence_number,
                                                  began  |-> Len(log)]]
  BY MaxPublishedAssumption DEF P!GetNextSequenceNumber, vars, LogInv
<1>2. Len(log) \in Nat /\ \A p \in 1 .. Len(log) : log[p] \in Puts
  BY DEF LogInv
<1>3. publishing'[t] = [pc |-> "numbered", number |-> sequence_number, began |-> Len(log)]
  BY <1>1 DEF LogInv
<1>4. \A u \in Publishers : u # t => publishing'[u] = publishing[u]
  BY <1>1 DEF LogInv
<1>5. LogInv'
  <2>1. publishing' \in [Publishers -> [pc     : {"idle", "numbered"},
                                        number : 0 .. MaxPublished,
                                        began  : Nat]]
    BY <1>1, <1>2 DEF LogInv
  <2>2. \A u \in Publishers : publishing'[u].began <= Len(log)
    BY <1>2, <1>3, <1>4 DEF LogInv
  <2> QED BY <1>1, <2>1, <2>2, MaxPublishedAssumption DEF LogInv
<1>6. LogNumbers'
  <2>1. \A p \in 1 .. Len(log) : log[p].number < sequence_number + 1
    BY <1>1, <1>2, MaxPublishedAssumption DEF LogNumbers, Puts
  <2> QED BY <1>1, <2>1 DEF LogNumbers
<1>7. \A n, b : n = sequence_number /\ b = Len(log) => Fits(n, b)'
  BY <1>1, <1>2, MaxPublishedAssumption DEF Fits, LogNumbers, Puts
<1>8. ASSUME NEW u \in Publishers, u # t, Numbered(u)
      PROVE  /\ Fits(publishing[u].number, publishing[u].began)'
             /\ publishing'[u].number < sequence_number
  <2>1. Fits(publishing[u].number, publishing[u].began)
    BY <1>8 DEF ThreadNumbers
  <2> QED BY <1>1, <1>4, <1>8, <2>1 DEF Fits
<1>9. ThreadNumbers'
  <2> SUFFICES ASSUME NEW u \in Publishers, Numbered(u)'
               PROVE  /\ Fits(publishing[u].number, publishing[u].began)'
                      /\ \A v \in Publishers :
                           /\ Numbered(v)'
                           /\ publishing'[v].number = publishing'[u].number
                           => v = u
    BY DEF ThreadNumbers
  <2>1. \A v \in Publishers : Numbered(v)' /\ v # t => Numbered(v)
    BY <1>4 DEF Numbered
  <2>2. CASE u = t
    BY <1>1, <1>3, <1>7, <1>8, <2>1, <2>2
  <2>3. CASE u # t
    BY <1>1, <1>3, <1>4, <1>8, <2>1, <2>3 DEF ThreadNumbers
  <2> QED BY <2>2, <2>3
<1>10. SampleInv' /\ DeliveredInv'
  BY <1>1 DEF SampleInv, DeliveredInv
<1> QED BY <1>5, <1>6, <1>9, <1>10

\* A call that fails gives its number up.
LEMMA PublishFailsTopicInv ==
  ASSUME TopicInv, NEW t \in Publishers, P!PublishFails(t), UNCHANGED <<vars, samples>>
  PROVE  TopicInv'
<1> USE DEF TopicInv, NumberInv
<1>1. /\ log' = log /\ samples' = samples /\ arrived' = arrived /\ delivered' = delivered
      /\ sequence_number' = sequence_number
      /\ publishing' = [publishing EXCEPT ![t] = [pc |-> "idle", number |-> 0, began |-> 0]]
  BY DEF P!PublishFails, P!Idle, vars
<1>2. publishing'[t] = [pc |-> "idle", number |-> 0, began |-> 0]
  BY <1>1 DEF LogInv
<1>3. \A u \in Publishers : u # t => publishing'[u] = publishing[u]
  BY <1>1 DEF LogInv
<1>4. LogInv'
  <2>1. publishing' \in [Publishers -> [pc     : {"idle", "numbered"},
                                        number : 0 .. MaxPublished,
                                        began  : Nat]]
    BY <1>1, MaxPublishedAssumption DEF LogInv
  <2>2. Len(log) \in Nat
    BY DEF LogInv
  <2> QED BY <1>1, <1>2, <1>3, <2>1, <2>2 DEF LogInv
<1>5. LogNumbers' /\ SampleInv' /\ DeliveredInv'
  BY <1>1 DEF LogNumbers, SampleInv, DeliveredInv
<1>6. \A u \in Publishers : Numbered(u)' => u # t /\ Numbered(u)
  BY <1>2, <1>3 DEF Numbered
<1>7. ThreadNumbers'
  BY <1>1, <1>3, <1>6 DEF ThreadNumbers, Fits
<1> QED BY <1>4, <1>5, <1>7

\* The number of a call moves from its thread to its sample.
LEMMA PublisherPutTopicInv ==
  ASSUME TopicInv, NEW t \in Publishers, P!PublisherPut(t), UNCHANGED <<vars, samples>>
  PROVE  TopicInv'
<1> USE DEF TopicInv, NumberInv
<1> DEFINE n == publishing[t].number
           r == [number     |-> n,
                 began      |-> publishing[t].began,
                 attachment |-> P!Serialize(P!AttachmentData(n))]
<1>1. /\ samples' = samples /\ arrived' = arrived /\ delivered' = delivered
      /\ sequence_number' = sequence_number
      /\ log' = Append(log, r)
      /\ publishing' = [publishing EXCEPT ![t] = [pc |-> "idle", number |-> 0, began |-> 0]]
      /\ Numbered(t)
  BY DEF P!PublisherPut, P!Idle, vars, Numbered
<1>2. r \in Puts /\ r.number = n /\ r.began = publishing[t].began
  BY DEF LogInv, Puts, Attachments
<1>3. Fits(r.number, r.began) /\ r.began <= Len(log)
  BY <1>1, <1>2 DEF ThreadNumbers, LogInv
<1>4. publishing'[t] = [pc |-> "idle", number |-> 0, began |-> 0]
  BY <1>1 DEF LogInv
<1>5. \A u \in Publishers : u # t => publishing'[u] = publishing[u]
  BY <1>1 DEF LogInv
<1> HIDE DEF r
<1>6. LogNumbers' /\ \A p \in 1 .. Len(log') : log'[p].began < p
  BY <1>1, <1>2, <1>3, PutKeepsNumbers
<1>7. log' \in Seq(Puts) /\ Len(log') = Len(log) + 1 /\ Len(log) \in Nat
  BY <1>1, <1>2, PutKeepsLog
<1>8. LogInv'
  <2>1. publishing' \in [Publishers -> [pc     : {"idle", "numbered"},
                                        number : 0 .. MaxPublished,
                                        began  : Nat]]
    BY <1>1, MaxPublishedAssumption DEF LogInv
  <2>2. \A u \in Publishers : publishing'[u].began <= Len(log')
    BY <1>4, <1>5, <1>7 DEF LogInv
  <2> QED BY <1>1, <1>6, <1>7, <2>1, <2>2 DEF LogInv
<1>9. \A u \in Publishers : Numbered(u)' => u # t /\ Numbered(u)
  BY <1>4, <1>5 DEF Numbered
<1>10. ThreadNumbers'
  <2>1. ASSUME NEW u \in Publishers, Numbered(u)'
        PROVE  Fits(publishing[u].number, publishing[u].began)'
    <3>1. u # t /\ Numbered(u) /\ publishing'[u] = publishing[u]
      BY <1>5, <1>9, <2>1
    <3>2. Fits(publishing[u].number, publishing[u].began)
      BY <3>1 DEF ThreadNumbers
    <3>3. publishing[u].number # r.number /\ publishing[u].began \in 0 .. Len(log)
      BY <1>1, <1>2, <3>1 DEF ThreadNumbers, LogInv
    <3> QED BY <1>1, <1>2, <3>1, <3>2, <3>3, FitsStill
  <2> QED BY <1>5, <1>9, <2>1 DEF ThreadNumbers
<1>11. SampleInv' /\ DeliveredInv'
  BY <1>1, <1>7 DEF SampleInv, DeliveredInv
<1> QED BY <1>6, <1>8, <1>10, <1>11

\* A sample comes in: the next position of the log is after all that came before.
LEMMA ArrivesTopicInv ==
  ASSUME TopicInv, IInv, NEW p \in LastArrived + 1 .. Len(log), Arrives(p)
  PROVE  TopicInv'
<1> USE DEF TopicInv
<1>1. /\ arrived \in 0 .. MaxArrivals
      /\ arrived' = arrived + 1
      /\ delivered' = delivered
      /\ samples' = Append(samples, p)
  BY DEF Arrives, AddNewMessage, AddNewMessageFails, IgnoreSample, SampleArrives, IInv, Data
<1>2. UNCHANGED <<sequence_number, publishing, log>>
  BY DEF Arrives, publisherVars
<1>3. /\ Len(log) \in Nat
      /\ \A m \in 1 .. arrived : samples[m] <= LastArrived /\ samples[m] \in Nat
  <2>1. Len(log) \in Nat /\ arrived \in Nat
    BY <1>1, DepthAssumption DEF LogInv
  <2>2. ASSUME NEW m \in 1 .. arrived
        PROVE  samples[m] <= LastArrived /\ samples[m] \in Nat
    <3>1. LastArrived = samples[arrived] /\ arrived \in 1 .. arrived
      BY <2>1, <2>2 DEF LastArrived
    <3>2. samples[m] \in Nat /\ samples[arrived] \in Nat
      BY <2>1, <2>2, <3>1 DEF SampleInv
    <3>3. m = arrived \/ samples[m] < samples[arrived]
      BY <2>1, <2>2, <3>1 DEF SampleInv
    <3> QED BY <3>1, <3>2, <3>3
  <2> QED BY <2>1, <2>2
<1>4. LastArrived \in Nat
  BY <1>1, <1>3, DepthAssumption DEF LastArrived
<1>5. p \in 1 .. Len(log) /\ p > LastArrived
  BY <1>3, <1>4
<1>6. /\ samples' \in Seq(Nat) /\ Len(samples') = arrived'
      /\ samples'[arrived'] = p
      /\ \A m \in 1 .. arrived : samples'[m] = samples[m]
  BY <1>1, <1>5 DEF SampleInv
<1>7. \A m \in 1 .. arrived' : m \in 1 .. arrived \/ m = arrived'
  BY <1>1, DepthAssumption
<1>8. SampleInv'
  <2>1. \A m \in 1 .. arrived' : samples'[m] \in 1 .. Len(log')
    BY <1>2, <1>5, <1>6, <1>7 DEF SampleInv
  <2>2. ASSUME NEW m \in 1 .. arrived', NEW n \in 1 .. arrived', m < n
        PROVE  samples'[m] < samples'[n]
    <3>1. m \in 1 .. arrived
      BY <1>1, <1>7, <2>2, DepthAssumption
    <3>2. CASE n \in 1 .. arrived
      BY <1>6, <2>2, <3>1, <3>2 DEF SampleInv
    <3>3. CASE n = arrived'
      BY <1>3, <1>4, <1>5, <1>6, <3>1, <3>3
    <3> QED BY <1>7, <3>2, <3>3
  <2> QED BY <1>6, <2>1, <2>2 DEF SampleInv
<1>9. LogInv' /\ NumberInv' /\ DeliveredInv'
  BY <1>1, <1>2 DEF LogInv, NumberInv, LogNumbers, ThreadNumbers, Numbered, Fits, DeliveredInv
<1> QED BY <1>8, <1>9

\* With a depth of one a take hands over a message, or nothing.
LEMMA ExecutorTopicInv ==
  ASSUME Depth = 1, TopicInv, IInv, WholeInv, Executor
  PROVE  TopicInv'
<1> USE DEF TopicInv
<1>1. UNCHANGED <<sequence_number, publishing, log, samples, arrived>>
  BY DEF Executor, publisherVars, Take, TakeSerialized, TakeSequence, TakeSequenceStep, Shutdown
<1>2. delivered' = delivered \/ (/\ message_queue.size > 0
                               /\ delivered' = Append(delivered, Front(message_queue).payload))
  BY DEF Executor, Take, TakeSerialized, TakeSequence, TakeSequenceStep, Shutdown, TakeOne,
         TakeOneSerialized, PopNextMessage, NothingToPop
<1>3. message_queue.size > 0 => Front(message_queue).payload \in Messages
  <2>1. message_queue.size \in 0 .. 1
    BY DEF IInv, Data, WellFormed, MessageQueues
  <2> QED BY <2>1 DEF WholeInv, Intact
<1>4. DeliveredInv'
  BY <1>2, <1>3 DEF DeliveredInv
<1>5. LogInv' /\ NumberInv' /\ SampleInv'
  BY <1>1 DEF LogInv, NumberInv, LogNumbers, ThreadNumbers, Numbered, Fits, SampleInv
<1> QED BY <1>4, <1>5

LEMMA NextTopicInv ==
  ASSUME Depth = 1
  PROVE  IInv /\ WholeInv /\ TopicInv /\ [SystemNext]_systemVars => TopicInv'
<1> SUFFICES ASSUME IInv, WholeInv, TopicInv, [SystemNext]_systemVars PROVE TopicInv'
  OBVIOUS
<1>1. CASE Publish
  <2>1. PICK t \in Publishers :
          P!GetNextSequenceNumber(t) \/ P!PublishFails(t) \/ P!PublisherPut(t)
    BY <1>1 DEF Publish, P!Next
  <2>2. UNCHANGED <<vars, samples>>
    BY <1>1 DEF Publish
  <2> QED BY <2>1, <2>2, GetNextSequenceNumberTopicInv, PublishFailsTopicInv,
             PublisherPutTopicInv
<1>2. CASE PeerPut
  BY <1>2, PeerPutTopicInv
<1>3. CASE \E p \in LastArrived + 1 .. Len(log) : Arrives(p)
  BY <1>3, ArrivesTopicInv
<1>4. CASE Executor
  BY <1>4, ExecutorTopicInv
<1>5. CASE UNCHANGED systemVars
  BY <1>5 DEF systemVars, publisherVars, vars, TopicInv, LogInv, NumberInv, LogNumbers,
              ThreadNumbers, Numbered, Fits, SampleInv, DeliveredInv
<1> QED BY <1>1, <1>2, <1>3, <1>4, <1>5 DEF SystemNext

LEMMA TopicInvariance ==
  ASSUME Depth = 1
  PROVE  SystemSpec => [](IInv /\ WholeInv /\ TopicInv)
<1>1. SystemSpec => []IInv
  BY SubscriptionInSystem, Invariance, PTL
<1>2. SystemSpec => []WholeInv
  BY SubscriptionInSystem, DepthOneInvariance, PTL
<1>3. IInv /\ WholeInv /\ TopicInv /\ [SystemNext]_systemVars => TopicInv'
  BY NextTopicInv
<1> QED BY <1>1, <1>2, <1>3, InitTopicInv, PTL DEF SystemSpec

-----------------------------------------------------------------------------
(* The properties of the run, with a depth of one.                         *)

\* Messages reach the application in the order in which the calls of rmw_publish
\* that sent them returned, with numbers that show it, for any number of threads.
THEOREM PublicationsInOrder ==
  ASSUME Depth = 1
  PROVE  SystemSpec => []OrderOfCalls
<1>1. IInv /\ TopicInv => OrderOfCalls
  <2> SUFFICES ASSUME IInv, TopicInv,
                      NEW i \in DOMAIN delivered, NEW j \in DOMAIN delivered, i < j,
                      0 \notin {Publication(i).number, Publication(j).number}
               PROVE  /\ Publication(i).number # Publication(j).number
                      /\ samples[delivered[i]] <= Publication(j).began =>
                           Publication(i).number < Publication(j).number
                      /\ ~ (samples[delivered[j]] <= Publication(i).began)
    BY DEF OrderOfCalls
  <2> DEFINE p == samples[delivered[i]]
             q == samples[delivered[j]]
  <2>1. delivered[i] \in Messages /\ delivered[j] \in Messages
    BY DEF TopicInv, DeliveredInv
  <2>2. delivered[i] < delivered[j]
    BY <2>1 DEF IInv, Data, DeliveredInOrder
  <2>3. delivered[i] \in 1 .. arrived /\ delivered[j] \in 1 .. arrived
    BY <2>1, DepthAssumption DEF IInv, Data, Fresh, Messages
  <2>4. p \in 1 .. Len(log) /\ q \in 1 .. Len(log) /\ p < q
    BY <2>2, <2>3 DEF TopicInv, SampleInv
  <2>5. log[p] \in Puts /\ log[p].began < p
    BY <2>4 DEF TopicInv, LogInv
  <2> HIDE DEF p, q
  <2>6. Len(log) \in Nat
    BY DEF TopicInv, LogInv
  <2>7. ~ (q <= log[p].began)
    BY <2>4, <2>5, <2>6 DEF Puts
  <2>8. log[p].number # log[q].number
    BY <2>4, <2>6 DEF TopicInv, NumberInv, LogNumbers, Publication, p, q
  <2>9. p <= log[q].began => log[p].number < log[q].number
    BY <2>4 DEF TopicInv, NumberInv, LogNumbers, Publication, p, q
  <2> QED BY <2>7, <2>8, <2>9 DEF Publication, p, q
<1> QED BY <1>1, TopicInvariance, PTL

-----------------------------------------------------------------------------
(* The refinement.                                                         *)

Position == IF delivered = <<>> THEN 0 ELSE samples[delivered[Len(delivered)]]
LogNumbered == [p \in DOMAIN log |-> log[p].number]
DeliveredNumbers == [i \in DOMAIN delivered |-> Publication(i).number]

\* Where the subscription has read to: a sample that came in, and none that was
\* handed over is after it.
LEMMA PositionInLog ==
  ASSUME IInv, TopicInv
  PROVE  /\ \A i \in 1 .. Len(delivered) : delivered[i] \in 1 .. arrived
         /\ Position \in 0 .. Len(log)
         /\ Len(delivered) \in Nat
         /\ Len(log) \in Nat
<1>1. delivered \in Seq(Messages) /\ Len(log) \in Nat
  BY DEF TopicInv, DeliveredInv, LogInv
<1>2. \A i \in 1 .. Len(delivered) : delivered[i] \in 1 .. arrived
  BY <1>1, DepthAssumption DEF IInv, Data, Fresh, Messages
<1>3. delivered # <<>> => Len(delivered) \in 1 .. Len(delivered)
  BY <1>1
<1>4. Position \in 0 .. Len(log)
  BY <1>1, <1>2, <1>3 DEF TopicInv, SampleInv, Position
<1> QED BY <1>1, <1>2, <1>4

LEMMA PutIsTopicStep ==
  ASSUME IInv, TopicInv, NEW r \in Puts, log' = Append(log, r), UNCHANGED <<samples, delivered>>
  PROVE  EndToEnd!Put
<1>1. /\ Len(log') = Len(log) + 1 /\ Len(log) \in Nat
      /\ log'[Len(log) + 1] = r
      /\ \A p \in 1 .. Len(log) : log'[p] = log[p]
      /\ DOMAIN log = 1 .. Len(log) /\ DOMAIN log' = 1 .. Len(log')
      /\ r.number \in 0 .. MaxPublished
  BY PutKeepsLog DEF TopicInv, LogInv, Puts
<1>2. LogNumbered' = Append(LogNumbered, r.number)
  <2>1. LogNumbered \in Seq(0 .. MaxPublished) /\ Len(LogNumbered) = Len(log)
    <3>1. \A p \in 1 .. Len(log) : log[p] \in Puts
      BY DEF TopicInv, LogInv
    <3>2. \A p \in 1 .. Len(log) : log[p].number \in 0 .. MaxPublished
      BY <3>1 DEF Puts
    <3> QED BY <1>1, <3>2 DEF LogNumbered
  <2>2. Append(LogNumbered, r.number)
          = [p \in 1 .. Len(log) + 1 |-> IF p = Len(log) + 1 THEN r.number ELSE LogNumbered[p]]
    BY <1>1, <2>1
  <2>3. LogNumbered' = [p \in 1 .. Len(log) + 1 |-> log'[p].number]
    BY <1>1 DEF LogNumbered
  <2>4. \A p \in 1 .. Len(log) + 1 :
          log'[p].number = IF p = Len(log) + 1 THEN r.number ELSE LogNumbered[p]
    BY <1>1 DEF LogNumbered
  <2> QED BY <2>2, <2>3, <2>4
<1>3. Position' = Position
  BY DEF Position
<1>4. DeliveredNumbers' = DeliveredNumbers
  <2>1. \A i \in DOMAIN delivered : Publication(i)' = Publication(i)
    <3> SUFFICES ASSUME NEW i \in DOMAIN delivered PROVE Publication(i)' = Publication(i)
      OBVIOUS
    <3>1. i \in 1 .. Len(delivered)
      BY DEF TopicInv, DeliveredInv
    <3>2. samples[delivered[i]] \in 1 .. Len(log)
      BY <3>1, PositionInLog DEF TopicInv, SampleInv
    <3> QED BY <1>1, <3>2 DEF Publication
  <2> QED BY <2>1 DEF DeliveredNumbers
<1> QED BY <1>1, <1>2, <1>3, <1>4 DEF EndToEnd!Put, Position, LogNumbered, DeliveredNumbers

\* A take hands over a sample further along the log than any before it.
LEMMA ExecutorIsTopicStep ==
  ASSUME Depth = 1, IInv, WholeInv, TopicInv, Executor
  PROVE  [EndToEnd!Next]_(EndToEnd!vars)
<1> DEFINE front == Front(message_queue).payload
<1>1. UNCHANGED <<log, samples>>
  BY DEF Executor, publisherVars
<1>2. delivered' = delivered \/ (/\ message_queue.size > 0
                               /\ delivered' = Append(delivered, front))
  BY DEF Executor, Take, TakeSerialized, TakeSequence, TakeSequenceStep, Shutdown, TakeOne,
         TakeOneSerialized, PopNextMessage, NothingToPop
<1>3. CASE delivered' = delivered
  BY <1>1, <1>3 DEF EndToEnd!vars, Publication
<1>4. CASE message_queue.size > 0 /\ delivered' = Append(delivered, front)
  <2>1. front \in 1 .. arrived
    <3>1. message_queue.size = 1
      BY <1>4 DEF IInv, Data, WellFormed, MessageQueues
    <3>2. front \in Messages
      BY <3>1 DEF WholeInv, Intact
    <3> QED BY <3>2, DepthAssumption DEF IInv, Data, Fresh, Messages
  <2>2. /\ \A i \in 1 .. Len(delivered) : delivered[i] \in 1 .. arrived
        /\ \A i \in 1 .. Len(delivered) : delivered[i] < front
        /\ Position \in 0 .. Len(log)
        /\ Len(delivered) \in Nat /\ Len(log) \in Nat
    <3>1. \A i \in 1 .. Len(delivered) : delivered[i] \in Messages /\ i \in DOMAIN delivered
      BY DEF TopicInv, DeliveredInv
    <3>2. front \in Messages
      BY <2>1, DepthAssumption DEF IInv, Data, Messages
    <3> QED BY <3>1, <3>2, PositionInLog DEF IInv, Data, Fresh
  <2> DEFINE n == Len(delivered) + 1
  <2>3. /\ Len(delivered') = n /\ delivered' # <<>> /\ delivered'[n] = front
        /\ \A i \in 1 .. Len(delivered) : delivered'[i] = delivered[i]
        /\ DOMAIN delivered' = 1 .. n /\ DOMAIN delivered = 1 .. Len(delivered)
    BY <1>4, <2>1, DepthAssumption DEF TopicInv, DeliveredInv, IInv, Data, Messages
  <2>4. Position' = samples[front]
    BY <1>1, <2>3 DEF Position
  <2>5. samples[front] \in Position + 1 .. Len(log)
    <3>1. samples[front] \in 1 .. Len(log)
      BY <2>1 DEF TopicInv, SampleInv
    <3>2. CASE delivered = <<>>
      BY <2>2, <3>1, <3>2 DEF Position
    <3>3. CASE delivered # <<>>
      <4>1. Len(delivered) \in 1 .. Len(delivered)
        BY <2>2, <3>3 DEF TopicInv, DeliveredInv
      <4>2. Position = samples[delivered[Len(delivered)]]
        BY <3>3 DEF Position
      <4>3. Position < samples[front]
        BY <2>1, <2>2, <4>1, <4>2 DEF TopicInv, SampleInv
      <4> QED BY <2>2, <3>1, <4>3
    <3> QED BY <3>2, <3>3
  <2>6. LogNumbered' = LogNumbered /\ LogNumbered[Position'] = log[samples[front]].number
    BY <1>1, <2>2, <2>4, <2>5 DEF LogNumbered, TopicInv, LogInv
  <2>7. DeliveredNumbers' = Append(DeliveredNumbers, LogNumbered[Position'])
    <3> DEFINE x == log[samples[front]].number
    <3>1. DeliveredNumbers' = [i \in 1 .. n |-> log[samples[delivered'[i]]].number]
      BY <1>1, <2>3 DEF DeliveredNumbers, Publication
    <3>2. DeliveredNumbers = [i \in 1 .. Len(delivered) |-> log[samples[delivered[i]]].number]
      BY <2>3 DEF DeliveredNumbers, Publication
    <3> DEFINE S == {log[p].number : p \in 1 .. Len(log)}
    <3>3. \A i \in 1 .. Len(delivered) : log[samples[delivered[i]]].number \in S
      BY <2>2 DEF TopicInv, SampleInv
    <3> HIDE DEF S
    <3>4. DeliveredNumbers \in Seq(S) /\ Len(DeliveredNumbers) = Len(delivered)
      BY <2>2, <3>2, <3>3
    <3>5. Append(DeliveredNumbers, x)
            = [i \in 1 .. n |-> IF i = n THEN x ELSE DeliveredNumbers[i]]
      BY <2>2, <3>4
    <3>6. \A i \in 1 .. n : log[samples[delivered'[i]]].number
                             = IF i = n THEN x ELSE DeliveredNumbers[i]
      <4>1. \A i \in 1 .. n : i = n \/ i \in 1 .. Len(delivered)
        BY <2>2
      <4> QED BY <2>3, <3>2, <4>1
    <3>7. DeliveredNumbers' = Append(DeliveredNumbers, x)
      BY <3>1, <3>5, <3>6
    <3> QED BY <2>6, <3>7
  <2>8. Position' \in Position + 1 .. Len(LogNumbered)
    <3>1. Len(LogNumbered) = Len(log)
      BY <2>2 DEF LogNumbered, TopicInv, LogInv
    <3> QED BY <2>4, <2>5, <3>1
  <2>9. EndToEnd!Deliver
    BY <2>6, <2>7, <2>8, Zenon DEF EndToEnd!Deliver, Position, LogNumbered, DeliveredNumbers
  <2> QED BY <2>9 DEF EndToEnd!Next
<1> QED BY <1>2, <1>3, <1>4

LEMMA NextIsTopicStep ==
  ASSUME Depth = 1
  PROVE  IInv /\ WholeInv /\ TopicInv /\ [SystemNext]_systemVars =>
           [EndToEnd!Next]_(EndToEnd!vars)
<1> SUFFICES ASSUME IInv, WholeInv, TopicInv, [SystemNext]_systemVars
             PROVE  [EndToEnd!Next]_(EndToEnd!vars)
  OBVIOUS
<1>1. CASE Publish
  <2>1. PICK t \in Publishers :
          P!GetNextSequenceNumber(t) \/ P!PublishFails(t) \/ P!PublisherPut(t)
    BY <1>1 DEF Publish, P!Next
  <2>2. UNCHANGED <<samples, delivered>>
    BY <1>1 DEF Publish, vars
  <2>3. CASE P!PublisherPut(t)
    <3> DEFINE r == [number     |-> publishing[t].number,
                     began      |-> publishing[t].began,
                     attachment |-> P!Serialize(P!AttachmentData(publishing[t].number))]
    <3>1. log' = Append(log, r)
      BY <2>3 DEF P!PublisherPut
    <3>2. r \in Puts
      BY DEF TopicInv, LogInv, Puts, Attachments
    <3> HIDE DEF r
    <3> QED BY <2>2, <3>1, <3>2, PutIsTopicStep DEF EndToEnd!Next
  <2>4. CASE P!GetNextSequenceNumber(t) \/ P!PublishFails(t)
    BY <2>2, <2>4 DEF P!GetNextSequenceNumber, P!PublishFails, EndToEnd!vars, Publication
  <2> QED BY <2>1, <2>3, <2>4
<1>2. CASE PeerPut
  <2>1. PICK a \in PeerAttachments :
          log' = Append(log, [number |-> 0, began |-> Len(log), attachment |-> a])
    BY <1>2 DEF PeerPut
  <2>2. [number |-> 0, began |-> Len(log), attachment |-> a] \in Puts
    BY MaxPublishedAssumption DEF TopicInv, LogInv, Puts, Attachments
  <2>3. UNCHANGED <<samples, delivered>>
    BY <1>2 DEF PeerPut, vars
  <2> QED BY <2>1, <2>2, <2>3, PutIsTopicStep DEF EndToEnd!Next
<1>3. CASE \E p \in LastArrived + 1 .. Len(log) : Arrives(p)
  <2>1. PICK p \in LastArrived + 1 .. Len(log) : Arrives(p)
    BY <1>3
  <2>2. log' = log /\ delivered' = delivered /\ samples' = Append(samples, p)
    BY <2>1 DEF Arrives, publisherVars, AddNewMessage, AddNewMessageFails, IgnoreSample,
                SampleArrives
  <2>3. /\ \A i \in 1 .. Len(delivered) : delivered[i] \in 1 .. arrived
        /\ Len(delivered) \in Nat
        /\ DOMAIN delivered = 1 .. Len(delivered)
    BY PositionInLog DEF TopicInv, DeliveredInv
  <2>4. p \in Nat
    <3>1. \A m \in 1 .. arrived : samples[m] \in Nat
      BY DEF TopicInv, SampleInv
    <3>2. LastArrived \in Nat /\ Len(log) \in Nat
      BY <3>1, DepthAssumption DEF LastArrived, IInv, Data, TopicInv, LogInv
    <3> QED BY <3>2
  <2>5. \A m \in 1 .. arrived : samples'[m] = samples[m]
    BY <2>2, <2>4 DEF TopicInv, SampleInv
  <2>6. \A i \in DOMAIN delivered : Publication(i)' = Publication(i)
    BY <2>2, <2>3, <2>5 DEF Publication
  <2>7. Position' = Position
    <3>1. delivered # <<>> => Len(delivered) \in 1 .. Len(delivered)
      BY <2>3 DEF TopicInv, DeliveredInv
    <3> QED BY <2>2, <2>3, <2>5, <3>1 DEF Position
  <2>8. DeliveredNumbers' = DeliveredNumbers
    BY <2>2, <2>6 DEF DeliveredNumbers
  <2> QED BY <2>2, <2>7, <2>8 DEF EndToEnd!vars, Position, DeliveredNumbers
<1>4. CASE Executor
  BY <1>4, ExecutorIsTopicStep
<1>5. CASE UNCHANGED systemVars
  BY <1>5 DEF systemVars, publisherVars, vars, EndToEnd!vars, Publication
<1> QED BY <1>1, <1>2, <1>3, <1>4, <1>5 DEF SystemNext

\* With a depth of one a topic is a log read along and at most once, for any number
\* of threads that publish, peers, losses and failures.
THEOREM ImplementsTopic ==
  ASSUME Depth = 1
  PROVE  SystemSpec => TopicSpec
<1>1. SystemInit => EndToEnd!Init
  BY DEF SystemInit, Init, P!Init, EndToEnd!Init
<1>2. IInv /\ WholeInv /\ TopicInv /\ [SystemNext]_systemVars =>
        [EndToEnd!Next]_(EndToEnd!vars)
  BY NextIsTopicStep
<1> QED BY <1>1, <1>2, TopicInvariance, PTL DEF SystemSpec, TopicSpec, EndToEnd!Spec

-----------------------------------------------------------------------------
(* The reader of attachments.  A recursive function that is total: each turn  *)
(* of its loop is a step of an induction, by the least turn it would fail at. *)

\* A list of pairs.
IsPairs(a) == Len(a) \in Nat /\ DOMAIN a = 1 .. Len(a)

\* Keys name the field they are, or none.
WholeNames(a) == IsPairs(a) /\ \A i \in 1 .. Len(a) : Named(a[i].key) \subseteq {a[i].key}

\* What the loop of the reader computes up to its n-th turn.
IsReading(g, n, pairs, data) ==
  g = [i \in 0 .. n |->
         IF i = 0 THEN [found |-> {}, failed |-> FALSE, data |-> data]
                  ELSE ReadPair(g[i - 1], pairs[i])]

LEMMA LeastMember ==
  ASSUME NEW I \in SUBSET Nat, I # {}
  PROVE  \E i \in I : \A j \in I : i <= j
<1> DEFINE R == OpToRel(<, Nat)
<1>1. PICK i \in I : \A j \in I : <<j, i>> \notin R
  BY NatLessThanWellFounded, WFMin
<1>2. \A j \in I : ~ (j < i)
  BY <1>1 DEF OpToRel
<1>3. \A j \in I : i <= j
  BY <1>2
<1> QED BY <1>3

\* What holds of 0, and of i + 1 when it holds of i, holds all the way up.
LEMMA Climb ==
  ASSUME NEW S, NEW n \in Nat, 0 \in S,
         \A i \in 0 .. n - 1 : i \in S => i + 1 \in S
  PROVE  \A i \in 0 .. n : i \in S
<1> DEFINE B == {i \in 0 .. n : i \notin S}
<1> SUFFICES ASSUME B # {} PROVE FALSE
  OBVIOUS
<1>1. PICK i \in B : \A j \in B : i <= j
  <2>1. B \in SUBSET Nat
    OBVIOUS
  <2> HIDE DEF B
  <2> QED BY <2>1, LeastMember
<1>2. i \in 1 .. n /\ i \notin S
  <2>1. i \in 0 .. n /\ i \notin S
    BY <1>1
  <2> QED BY <2>1
<1>3. i - 1 \in 0 .. n - 1 /\ i - 1 + 1 = i
  BY <1>2
<1>4. i - 1 \notin S
  BY <1>2, <1>3
<1>5. i - 1 \in B
  BY <1>3, <1>4
<1> QED BY <1>1, <1>2, <1>5

LEMMA ReadingExists ==
  ASSUME NEW pairs, NEW data, NEW n \in Nat
  PROVE  \E g : IsReading(g, n, pairs, data)
<1> DEFINE S == {m \in 0 .. n : \E g : IsReading(g, m, pairs, data)}
           start == [found |-> {}, failed |-> FALSE, data |-> data]
<1>1. 0 \in S
  <2>1. IsReading([i \in 0 .. 0 |-> start], 0, pairs, data)
    BY DEF IsReading
  <2> QED BY <2>1
<1>2. ASSUME NEW m \in 0 .. n - 1, m \in S PROVE m + 1 \in S
  <2>1. PICK g : IsReading(g, m, pairs, data)
    BY <1>2
  <2> DEFINE h == [i \in 0 .. m + 1 |-> IF i = m + 1 THEN ReadPair(g[m], pairs[m + 1])
                                                     ELSE g[i]]
  <2>2. \A i \in 0 .. m : g[i] = IF i = 0 THEN start ELSE ReadPair(g[i - 1], pairs[i])
    BY <2>1 DEF IsReading
  <2>3. \A i \in 0 .. m + 1 : h[i] = IF i = 0 THEN start ELSE ReadPair(h[i - 1], pairs[i])
    <3> SUFFICES ASSUME NEW i \in 0 .. m + 1
                 PROVE  h[i] = IF i = 0 THEN start ELSE ReadPair(h[i - 1], pairs[i])
      OBVIOUS
    <3>1. CASE i = m + 1
      <4>1. h[m + 1] = ReadPair(g[m], pairs[m + 1]) /\ h[m] = g[m] /\ m + 1 - 1 = m
        OBVIOUS
      <4> HIDE DEF h
      <4> QED BY <3>1, <4>1
    <3>2. CASE i \in 1 .. m
      <4>1. h[i] = g[i] /\ h[i - 1] = g[i - 1]
        BY <3>2
      <4> HIDE DEF h
      <4> QED BY <2>2, <3>2, <4>1
    <3>3. CASE i = 0
      <4>1. h[0] = g[0]
        OBVIOUS
      <4>2. 0 \in 0 .. m
        OBVIOUS
      <4>3. g[0] = start
        BY <2>2, <4>2
      <4> HIDE DEF h, start
      <4> QED BY <3>3, <4>1, <4>3
    <3> QED BY <3>1, <3>2, <3>3
  <2>4. h = [i \in 0 .. m + 1 |-> h[i]]
    OBVIOUS
  <2> HIDE DEF h
  <2>5. IsReading(h, m + 1, pairs, data)
    BY <2>3, <2>4 DEF IsReading
  <2> QED BY <2>5
<1> HIDE DEF S
<1>3. n \in S
  BY <1>1, <1>2, Climb
<1> QED BY <1>3 DEF S

LEMMA ReadingSteps ==
  ASSUME NEW pairs, NEW data, NEW n \in Nat, NEW g, IsReading(g, n, pairs, data)
  PROVE  /\ g[0] = [found |-> {}, failed |-> FALSE, data |-> data]
         /\ \A i \in 1 .. n : g[i] = ReadPair(g[i - 1], pairs[i])
<1>1. \A i \in 0 .. n : g[i] = IF i = 0 THEN [found |-> {}, failed |-> FALSE, data |-> data]
                                        ELSE ReadPair(g[i - 1], pairs[i])
  BY DEF IsReading
<1>2. 0 \in 0 .. n /\ \A i \in 1 .. n : i \in 0 .. n /\ i # 0
  OBVIOUS
<1> QED BY <1>1, <1>2

LEMMA DeserializeReads ==
  ASSUME NEW pairs, NEW data, IsPairs(pairs)
  PROVE  \E g : /\ g[0] = [found |-> {}, failed |-> FALSE, data |-> data]
                /\ \A i \in 1 .. Len(pairs) : g[i] = ReadPair(g[i - 1], pairs[i])
                /\ Deserialize(pairs, data) = g[Len(pairs)]
<1> DEFINE f == CHOOSE g : IsReading(g, Len(pairs), pairs, data)
<1>1. IsReading(f, Len(pairs), pairs, data)
  BY ReadingExists DEF IsPairs
<1>2. Deserialize(pairs, data) = f[Len(pairs)]
  BY DEF Deserialize, IsReading
<1> HIDE DEF f
<1>3. /\ f[0] = [found |-> {}, failed |-> FALSE, data |-> data]
      /\ \A i \in 1 .. Len(pairs) : f[i] = ReadPair(f[i - 1], pairs[i])
  BY <1>1, ReadingSteps DEF IsPairs
<1> QED BY <1>2, <1>3

\* Pair j is the first that names field f.
IsFirst(pairs, f, j) == /\ j \in DOMAIN pairs
                        /\ pairs[j].key = f
                        /\ \A k \in 1 .. j - 1 : pairs[k].key # f

LEMMA MeantIsFirst ==
  ASSUME NEW pairs, IsPairs(pairs), NEW f, NEW j, IsFirst(pairs, f, j)
  PROVE  Meant(pairs, f) = pairs[j].value
<1> DEFINE c == CHOOSE i \in DOMAIN pairs : /\ pairs[i].key = f
                                            /\ \A k \in 1 .. i - 1 : pairs[k].key # f
<1>1. IsFirst(pairs, f, c)
  BY DEF IsFirst
<1> HIDE DEF c
<1>2. c = j
  BY <1>1 DEF IsFirst, IsPairs
<1> QED BY <1>2 DEF c, Meant

LEMMA FieldHasPlace ==
  /\ \A f \in FieldNames : \E i \in 1 .. 3 : Fields[i] = f
  /\ \A i \in 1 .. 3 : Fields[i] \in FieldNames
  /\ \A i, j \in 1 .. 3 : Fields[i] = Fields[j] => i = j
BY DEF Fields, FieldNames

\* No name is the beginning of another, so a whole name means that field only.
LEMMA NamesAreWhole == \A key \in FieldNames : Named(key) = {key}
<1>1. Prefixes["sequence_number"] \cap FieldNames = {}
  BY DEF Prefixes, FieldNames
<1>2. Prefixes["source_timestamp"] \cap FieldNames = {}
  BY DEF Prefixes, FieldNames
<1>3. Prefixes["source_gid"] \cap FieldNames = {}
  BY DEF Prefixes, FieldNames
<1> QED BY <1>1, <1>2, <1>3 DEF Named, FieldNames

Readers(V) == [found : SUBSET FieldNames, failed : BOOLEAN, data : [FieldNames -> V]]

Filled(reader, pair) ==
  [reader EXCEPT !.found = @ \cup {pair.key}, !.data[pair.key] = pair.value]

\* A pair with a whole name fills that field, once, or ends the reading.
LEMMA ReadPairWhole ==
  ASSUME NEW V, NEW reader \in Readers(V), NEW pair, pair.value \in V,
         Named(pair.key) \subseteq {pair.key}
  PROVE  \/ /\ reader.failed \/ pair.key \notin FieldNames \ reader.found
            /\ ReadPair(reader, pair) = reader
         \/ ReadPair(reader, pair) = [reader EXCEPT !.failed = TRUE]
         \/ /\ pair.key \in FieldNames \ reader.found
            /\ ReadPair(reader, pair) = Filled(reader, pair)
<1> DEFINE wanted == Wanted(reader, pair.key)
           place == CHOOSE i \in wanted : \A j \in wanted : i <= j
<1>1. CASE pair.key \notin FieldNames \ reader.found
  <2>1. Named(pair.key) \subseteq FieldNames
    BY DEF Named
  <2>2. wanted = {}
    BY <1>1, <2>1 DEF Wanted
  <2> QED BY <1>1, <2>2 DEF ReadPair
<1>2. CASE pair.key \in FieldNames \ reader.found
  <2>1. Named(pair.key) = {pair.key}
    BY <1>2, NamesAreWhole
  <2>2. PICK i \in 1 .. 3 : Fields[i] = pair.key
    BY <1>2, FieldHasPlace
  <2>3. wanted = {i}
    BY <1>2, <2>1, <2>2, FieldHasPlace DEF Wanted
  <2>4. place = i
    <3> HIDE DEF wanted
    <3> QED BY <2>2, <2>3
  <2> HIDE DEF place
  <2>5. ReadPair(reader, pair) =
          IF reader.failed \/ wanted = {} THEN reader
          ELSE IF pair.value = Malformed THEN [reader EXCEPT !.failed = TRUE]
          ELSE [reader EXCEPT !.found = @ \cup {Fields[place]},
                              !.data[Fields[place]] = pair.value]
    BY DEF ReadPair, place
  <2> QED BY <1>2, <2>2, <2>3, <2>4, <2>5 DEF Filled
<1> QED BY <1>1, <1>2

\* What the reader has after n pairs: the fields they name, each from the first pair.
Kept(reader, pairs, n) ==
  ~ reader.failed =>
    \A f \in FieldNames :
      IF f \in reader.found
        THEN \E j \in 1 .. n : IsFirst(pairs, f, j) /\ reader.data[f] = pairs[j].value
        ELSE \A j \in 1 .. n : pairs[j].key # f

LEMMA ReadPairKeeps ==
  ASSUME NEW V, NEW reader \in Readers(V), NEW pairs, WholeNames(pairs),
         NEW n \in 1 .. Len(pairs), pairs[n].value \in V,
         Kept(reader, pairs, n - 1)
  PROVE  /\ ReadPair(reader, pairs[n]) \in Readers(V)
         /\ Kept(ReadPair(reader, pairs[n]), pairs, n)
<1> DEFINE pair == pairs[n]
           filled == Filled(reader, pair)
<1>1. Len(pairs) \in Nat /\ DOMAIN pairs = 1 .. Len(pairs)
  BY DEF WholeNames, IsPairs
<1>2. Named(pair.key) \subseteq {pair.key}
  BY DEF WholeNames
<1>3. /\ n \in Nat /\ n \in DOMAIN pairs
      /\ \A j \in 1 .. n : j \in 1 .. n - 1 \/ j = n
      /\ \A j \in 1 .. n - 1 : j \in 1 .. n
      /\ n \in 1 .. n
  BY <1>1
<1>4. CASE /\ reader.failed \/ pair.key \notin FieldNames \ reader.found
           /\ ReadPair(reader, pair) = reader
  BY <1>3, <1>4 DEF Kept
<1>5. CASE ReadPair(reader, pair) = [reader EXCEPT !.failed = TRUE]
  BY <1>5 DEF Kept, Readers
<1>6. CASE /\ pair.key \in FieldNames \ reader.found
           /\ ReadPair(reader, pair) = filled
  <2>1. /\ filled.failed = reader.failed
        /\ filled.found = reader.found \cup {pair.key}
        /\ filled.data[pair.key] = pair.value
        /\ \A f \in FieldNames : f # pair.key => filled.data[f] = reader.data[f]
        /\ filled \in Readers(V)
    BY <1>6 DEF Readers, Filled
  <2> HIDE DEF filled
  <2> SUFFICES ASSUME ~ reader.failed, NEW f \in FieldNames
               PROVE  IF f \in filled.found
                        THEN \E j \in 1 .. n :
                               IsFirst(pairs, f, j) /\ filled.data[f] = pairs[j].value
                        ELSE \A j \in 1 .. n : pairs[j].key # f
    BY <1>6, <2>1 DEF Kept
  <2>2. CASE f = pair.key
    <3>1. IsFirst(pairs, f, n)
      BY <1>3, <1>6, <2>2 DEF Kept, IsFirst
    <3> QED BY <1>3, <2>1, <2>2, <3>1
  <2>3. CASE f # pair.key
    BY <1>3, <2>1, <2>3 DEF Kept
  <2> QED BY <2>2, <2>3
<1> QED
  <2> HIDE DEF pair
  <2>0. pair.value \in V
    BY DEF pair
  <2>1. \/ /\ reader.failed \/ pair.key \notin FieldNames \ reader.found
           /\ ReadPair(reader, pair) = reader
        \/ ReadPair(reader, pair) = [reader EXCEPT !.failed = TRUE]
        \/ /\ pair.key \in FieldNames \ reader.found
           /\ ReadPair(reader, pair) = filled
    BY <1>2, <2>0, ReadPairWhole
  <2> QED BY <1>4, <1>5, <1>6, <2>1 DEF pair

\* An attachment of whole names that is accepted is read as it was meant.
LEMMA AcceptedAsMeant ==
  ASSUME NEW pairs, WholeNames(pairs), NEW data, NEW W, data \in [FieldNames -> W],
         Accepted(Deserialize(pairs, data))
  PROVE  /\ \A f \in FieldNames : Deserialize(pairs, data).data[f] = Meant(pairs, f)
         /\ \E V : Deserialize(pairs, data).data \in [FieldNames -> V]
<1> DEFINE n == Len(pairs)
           V == W \cup {pairs[j].value : j \in 1 .. n}
<1>1. PICK g : /\ g[0] = [found |-> {}, failed |-> FALSE, data |-> data]
               /\ \A i \in 1 .. n : g[i] = ReadPair(g[i - 1], pairs[i])
               /\ Deserialize(pairs, data) = g[n]
  BY DeserializeReads DEF WholeNames
<1> DEFINE S == {m \in 0 .. n : g[m] \in Readers(V) /\ Kept(g[m], pairs, m)}
<1>2. n \in Nat
  BY DEF WholeNames, IsPairs
<1>3. 0 \in S
  <2>1. g[0] = [found |-> {}, failed |-> FALSE, data |-> data]
    BY <1>1
  <2>2. data \in [FieldNames -> V]
    OBVIOUS
  <2> HIDE DEF V
  <2>3. g[0] \in Readers(V)
    BY <2>1, <2>2 DEF Readers
  <2>4. Kept(g[0], pairs, 0)
    BY <2>1 DEF Kept
  <2> QED BY <1>2, <2>3, <2>4
<1>4. ASSUME NEW m \in 0 .. n - 1, m \in S PROVE m + 1 \in S
  <2>1. m + 1 \in 1 .. n /\ m + 1 - 1 = m
    BY <1>2
  <2>2. g[m + 1] = ReadPair(g[m], pairs[m + 1])
    BY <1>1, <2>1
  <2>3. pairs[m + 1].value \in V
    BY <2>1
  <2>4. g[m] \in Readers(V) /\ Kept(g[m], pairs, m)
    BY <1>4
  <2> HIDE DEF V, n
  <2>5. g[m + 1] \in Readers(V) /\ Kept(g[m + 1], pairs, m + 1)
    BY <2>1, <2>2, <2>3, <2>4, ReadPairKeeps DEF n
  <2> QED BY <1>2, <2>1, <2>5
<1>5. n \in S
  <2> HIDE DEF S, n
  <2> QED BY <1>2, <1>3, <1>4, Climb
<1>6. Kept(g[n], pairs, n) /\ g[n].data \in [FieldNames -> V]
  <2>1. g[n] \in Readers(V) /\ Kept(g[n], pairs, n)
    BY <1>5
  <2> HIDE DEF V
  <2> QED BY <2>1 DEF Readers
<1>7. ASSUME NEW f \in FieldNames PROVE g[n].data[f] = Meant(pairs, f)
  <2>1. PICK j \in 1 .. n : IsFirst(pairs, f, j) /\ g[n].data[f] = pairs[j].value
    BY <1>1, <1>6 DEF Kept, Accepted
  <2> QED BY <2>1, MeantIsFirst DEF WholeNames
<1> QED BY <1>1, <1>6, <1>7

-----------------------------------------------------------------------------
(* What the info of a taken message tells.                                 *)

\* A sample of the log has whole names; one of this publisher has its attachment.
WellAttached(r) ==
  /\ WholeNames(r.attachment)
  /\ r.number # 0 => r.attachment = P!Serialize(P!AttachmentData(r.number))

\* The sample that is message m came in, and its attachment was accepted.
Readable(m) ==
  m \in Messages => /\ m \in 1 .. arrived
                    /\ Accepted(Deserialize(log[samples[m]].attachment, Unset))

InfoInv == /\ \A p \in 1 .. Len(log) : WellAttached(log[p])
           /\ message_queue.size > 0 => Readable(Front(message_queue).payload)
           /\ Readable(taken.payload)

LEMMA SerializedIsWhole ==
  ASSUME NEW n
  PROVE  /\ WholeNames(P!Serialize(P!AttachmentData(n)))
         /\ \A f \in FieldNames :
              Meant(P!Serialize(P!AttachmentData(n)), f) = P!AttachmentData(n)[f]
<1> DEFINE data == P!AttachmentData(n)
           s == P!Serialize(data)
<1>1. s = [i \in 1 .. 3 |-> [key |-> Fields[i], value |-> data[Fields[i]]]]
  BY DEF P!Serialize, P!Fields, Fields
<1> HIDE DEF s, data
<1>2. /\ Len(s) = 3 /\ DOMAIN s = 1 .. 3
      /\ \A i \in 1 .. 3 : s[i].key = Fields[i] /\ s[i].value = data[Fields[i]]
  BY <1>1
<1>3. IsPairs(s)
  BY <1>2 DEF IsPairs
<1>4. WholeNames(s)
  BY <1>2, <1>3, NamesAreWhole, FieldHasPlace DEF WholeNames
<1>5. ASSUME NEW f \in FieldNames PROVE Meant(s, f) = data[f]
  <2>1. PICK i \in 1 .. 3 : Fields[i] = f
    BY FieldHasPlace
  <2>2. \A k \in 1 .. i - 1 : k \in 1 .. 3 /\ k # i
    OBVIOUS
  <2>3. IsFirst(s, f, i)
    BY <1>2, <2>1, <2>2, FieldHasPlace DEF IsFirst
  <2> QED BY <1>2, <1>3, <2>1, <2>3, MeantIsFirst
<1> QED BY <1>4, <1>5 DEF s, data

LEMMA InfoInvIsSafe ==
  ASSUME IInv, WholeInv, TopicInv, InfoInv
  PROVE  InfoMatchesPublication
<1> SUFFICES ASSUME taken.payload \in Messages
             PROVE  LET info == Deserialize(log[samples[taken.payload]].attachment, Unset).data
                        sent == log[samples[taken.payload]]
                    IN  /\ \A f \in FieldNames : info[f] = Meant(sent.attachment, f)
                        /\ sent.number # 0 => info = P!AttachmentData(sent.number)
  BY DEF WholeInv, AttachmentMatchesPayload, InfoMatchesPublication
<1> DEFINE sent == log[samples[taken.payload]]
           info == Deserialize(sent.attachment, Unset).data
<1>1. WellAttached(sent) /\ Accepted(Deserialize(sent.attachment, Unset))
  <2>1. taken.payload \in 1 .. arrived /\ Accepted(Deserialize(sent.attachment, Unset))
    BY DEF InfoInv, Readable
  <2>2. samples[taken.payload] \in 1 .. Len(log)
    BY <2>1 DEF TopicInv, SampleInv
  <2> QED BY <2>1, <2>2 DEF InfoInv
<1>2. Unset \in [FieldNames -> {Uninit}]
  BY DEF Unset
<1>3. /\ \A f \in FieldNames : info[f] = Meant(sent.attachment, f)
      /\ \E V : info \in [FieldNames -> V]
  <2> HIDE DEF sent
  <2> QED BY <1>1, <1>2, AcceptedAsMeant DEF WellAttached
<1> HIDE DEF info
<1>4. ASSUME sent.number # 0 PROVE info = P!AttachmentData(sent.number)
  <2> DEFINE data == P!AttachmentData(sent.number)
  <2>1. sent.attachment = P!Serialize(data)
    BY <1>1, <1>4 DEF WellAttached
  <2>2. \A f \in FieldNames : Meant(P!Serialize(data), f) = data[f]
    BY SerializedIsWhole
  <2>3. data = [f \in FieldNames |-> data[f]]
    BY DEF P!AttachmentData, P!FieldNames, FieldNames
  <2> HIDE DEF data, sent
  <2>4. \A f \in FieldNames : info[f] = data[f]
    BY <1>3, <2>1, <2>2
  <2> QED BY <1>3, <2>3, <2>4 DEF data
<1> QED BY <1>3, <1>4 DEF info

LEMMA StillReadable ==
  ASSUME IInv, TopicInv, NEW m, Readable(m), arrived' \in {arrived, arrived + 1},
         \A p \in 1 .. Len(log) : log'[p] = log[p],
         \A k \in 1 .. arrived : samples'[k] = samples[k]
  PROVE  m \in Messages => /\ m \in 1 .. arrived'
                           /\ Accepted(Deserialize(log'[samples'[m]].attachment, Unset))
<1> SUFFICES ASSUME m \in Messages
             PROVE  /\ m \in 1 .. arrived'
                    /\ Accepted(Deserialize(log'[samples'[m]].attachment, Unset))
  OBVIOUS
<1>1. /\ m \in 1 .. arrived
      /\ Accepted(Deserialize(log[samples[m]].attachment, Unset))
  BY DEF Readable
<1>2. arrived \in Nat
  BY DepthAssumption DEF IInv, Data
<1>3. samples'[m] = samples[m] /\ samples[m] \in 1 .. Len(log)
  BY <1>1 DEF TopicInv, SampleInv
<1> QED BY <1>1, <1>2, <1>3

\* A put adds a sample that is well attached, and leaves the queue alone.
LEMMA PutInfoInv ==
  ASSUME IInv, TopicInv, InfoInv, NEW r \in Puts, WellAttached(r), log' = Append(log, r),
         UNCHANGED <<message_queue, taken, arrived, samples>>
  PROVE  InfoInv'
<1>1. /\ Len(log') = Len(log) + 1 /\ Len(log) \in Nat
      /\ log'[Len(log) + 1] = r
      /\ \A p \in 1 .. Len(log) : log'[p] = log[p]
  BY PutKeepsLog DEF TopicInv
<1>2. \A m : Readable(m) =>
        (m \in Messages => /\ m \in 1 .. arrived'
                           /\ Accepted(Deserialize(log'[samples'[m]].attachment, Unset)))
  BY <1>1, StillReadable
<1>3. \A p \in 1 .. Len(log') : p \in 1 .. Len(log) \/ p = Len(log) + 1
  BY <1>1
<1>4. \A p \in 1 .. Len(log') : WellAttached(log'[p])
  BY <1>1, <1>3 DEF InfoInv
<1> QED BY <1>2, <1>4 DEF InfoInv, Readable, Front

\* A push that succeeds puts a sample at the front whose attachment was accepted.
LEMMA ArrivesInfoInv ==
  ASSUME Depth = 1, IInv, TopicInv, TopicInv', InfoInv,
         NEW p \in LastArrived + 1 .. Len(log), Arrives(p)
  PROVE  InfoInv'
<1>1. /\ log' = log /\ taken' = taken
      /\ arrived' = arrived + 1 /\ arrived' \in Messages
      /\ samples' = Append(samples, p)
  BY DepthAssumption
     DEF Arrives, AddNewMessage, AddNewMessageFails, IgnoreSample, SampleArrives, IInv, Data,
         publisherVars, Messages
<1>2. /\ samples'[arrived'] = p
      /\ \A k \in 1 .. arrived : samples'[k] = samples[k]
  <2>1. arrived \in Nat /\ Len(samples) = arrived /\ samples \in Seq(Nat)
    BY DepthAssumption DEF IInv, Data, TopicInv, SampleInv
  <2> QED BY <1>1, <2>1
<1>3. \A m : Readable(m) =>
        (m \in Messages => /\ m \in 1 .. arrived'
                           /\ Accepted(Deserialize(log'[samples'[m]].attachment, Unset)))
  BY <1>1, <1>2, StillReadable
<1>4. WellFormed(message_queue)
  BY DEF IInv, Data
<1>5. message_queue'.size > 0 =>
        LET front == Front(message_queue').payload
        IN  front \in Messages =>
              /\ front \in 1 .. arrived'
              /\ Accepted(Deserialize(log'[samples'[front]].attachment, Unset))
  <2>1. CASE AddNewMessage /\ Accepted(Deserialize(log[p].attachment, Unset))
    <3>1. Front(message_queue').payload = arrived'
      BY <1>1, <1>4, <2>1, DepthOneFront DEF AddNewMessage
    <3>2. arrived' \in 1 .. arrived'
      BY <1>1, DepthAssumption DEF Messages
    <3> QED BY <1>1, <1>2, <2>1, <3>1, <3>2
  <2>2. CASE AddNewMessageFails
    <3>1. message_queue'.size = 0
      BY <1>1, <1>4, <2>2, DepthOneFront DEF AddNewMessageFails
    <3> QED BY <3>1
  <2>3. CASE IgnoreSample
    BY <1>3, <2>3 DEF IgnoreSample, InfoInv, Readable
  <2> QED BY <2>1, <2>2, <2>3 DEF Arrives
<1> QED BY <1>1, <1>3, <1>5 DEF InfoInv, Readable, Front

\* A take hands out the front, and leaves the queue empty.
LEMMA ExecutorInfoInv ==
  ASSUME Depth = 1, IInv, TopicInv, InfoInv, Executor
  PROVE  InfoInv'
<1>1. UNCHANGED <<log, samples, arrived>>
  BY DEF Executor, publisherVars, Take, TakeSerialized, TakeSequence, TakeSequenceStep, Shutdown
<1>2. \/ UNCHANGED <<message_queue, taken>>
      \/ /\ message_queue.size > 0
         /\ message_queue' = PopFront(message_queue)
         /\ taken' = Popped(message_queue)
  BY DEF Executor, Take, TakeSerialized, TakeSequence, TakeSequenceStep, Shutdown, TakeOne,
         TakeOneSerialized, PopNextMessage, NothingToPop
<1>3. CASE UNCHANGED <<message_queue, taken>>
  BY <1>1, <1>3 DEF InfoInv, Readable, Front
<1>4. CASE /\ message_queue.size > 0
           /\ message_queue' = PopFront(message_queue)
           /\ taken' = Popped(message_queue)
  <2>1. message_queue'.size = 0
    <3>1. WellFormed(message_queue)
      BY DEF IInv, Data
    <3> QED BY <1>4, <3>1, PopFrontWellFormed DEF WellFormed, MessageQueues
  <2>2. taken'.payload = Front(message_queue).payload
    BY <1>4 DEF Popped
  <2>3. Readable(Front(message_queue).payload)
    BY <1>4 DEF InfoInv
  <2> QED BY <1>1, <2>1, <2>2, <2>3 DEF InfoInv, Readable
<1> QED BY <1>2, <1>3, <1>4

\* rmw_take_with_info reports of every message what its sender attached, for any
\* attachments of other peers that name their fields in full, in any order and with
\* any other pairs among them, and for any losses, threads and pushes that fail.
THEOREM InfoIsTheSenders ==
  ASSUME Depth = 1, \A a \in PeerAttachments : WholeNames(a)
  PROVE  SystemSpec => []InfoMatchesPublication
<1>1. SystemInit => InfoInv
  <2> SUFFICES ASSUME SystemInit PROVE InfoInv
    OBVIOUS
  <2>1. log = <<>> /\ message_queue.size = 0 /\ taken.payload = Uninit
    BY DEF SystemInit, Init, P!Init, QueueInit, UninitSlot
  <2>2. Uninit \notin Messages
    BY BlankAssumption, DepthAssumption DEF Messages
  <2> QED BY <2>1, <2>2 DEF InfoInv, Readable
<1>2. IInv /\ TopicInv /\ TopicInv' /\ InfoInv /\ [SystemNext]_systemVars => InfoInv'
  <2> SUFFICES ASSUME IInv, TopicInv, TopicInv', InfoInv, [SystemNext]_systemVars
               PROVE  InfoInv'
    OBVIOUS
  <2>1. ASSUME NEW t \in Publishers, P!PublisherPut(t), UNCHANGED <<vars, samples>>
        PROVE  InfoInv'
    <3> DEFINE n == publishing[t].number
               r == [number     |-> n,
                     began      |-> publishing[t].began,
                     attachment |-> P!Serialize(P!AttachmentData(n))]
    <3>1. log' = Append(log, r)
      BY <2>1 DEF P!PublisherPut
    <3>2. r \in Puts
      BY DEF TopicInv, LogInv, Puts, Attachments
    <3>3. WellAttached(r)
      BY SerializedIsWhole DEF WellAttached
    <3> HIDE DEF r
    <3> QED BY <2>1, <3>1, <3>2, <3>3, PutInfoInv DEF vars
  <2>2. CASE PeerPut
    <3>1. PICK a \in PeerAttachments :
            log' = Append(log, [number |-> 0, began |-> Len(log), attachment |-> a])
      BY <2>2 DEF PeerPut
    <3> DEFINE r == [number |-> 0, began |-> Len(log), attachment |-> a]
    <3>2. r \in Puts
      BY MaxPublishedAssumption DEF TopicInv, LogInv, Puts, Attachments
    <3>3. WellAttached(r)
      BY DEF WellAttached
    <3> HIDE DEF r
    <3>4. UNCHANGED <<message_queue, taken, arrived, samples>>
      BY <2>2 DEF PeerPut, vars
    <3> QED BY <3>1, <3>2, <3>3, <3>4, PutInfoInv DEF r
  <2>3. CASE UNCHANGED <<log, message_queue, taken, arrived, samples>>
    BY <2>3 DEF InfoInv, Readable, Front
  <2>4. CASE Publish
    <3>1. PICK t \in Publishers :
            P!GetNextSequenceNumber(t) \/ P!PublishFails(t) \/ P!PublisherPut(t)
      BY <2>4 DEF Publish, P!Next
    <3>2. UNCHANGED <<vars, samples>>
      BY <2>4 DEF Publish
    <3> QED BY <2>1, <2>3, <3>1, <3>2 DEF P!GetNextSequenceNumber, P!PublishFails, vars
  <2>5. CASE UNCHANGED systemVars
    BY <2>3, <2>5 DEF systemVars, publisherVars, vars
  <2> QED BY <2>2, <2>4, <2>5, ArrivesInfoInv, ExecutorInfoInv DEF SystemNext
<1>3. IInv /\ WholeInv /\ TopicInv /\ InfoInv => InfoMatchesPublication
  BY InfoInvIsSafe
<1> QED BY <1>1, <1>2, <1>3, TopicInvariance, PTL DEF SystemSpec
=============================================================================
