-------------------------- MODULE PublishSubscribe --------------------------
(***************************************************************************)
(* A publisher, other peers that publish on the same topic, and a          *)
(* subscription.  The session between them keeps the order of the puts and *)
(* may lose any of them: the next sample to arrive is any one that was put *)
(* after the last that arrived.                                            *)
(***************************************************************************)
EXTENDS Subscription, Attachment

CONSTANTS
  Publishers, MaxPublished,
  PeerAttachments   \* attachments other peers send

ASSUME MaxPublishedAssumption == MaxPublished \in Nat

VARIABLES
  sequence_number, publishing, log,   \* of the publisher
  samples                             \* history: where in the log each sample that arrived was

publisherVars == <<sequence_number, publishing, log>>
systemVars == <<vars, publisherVars, samples>>

P == INSTANCE Publisher

SystemInit == Init /\ P!Init /\ samples = <<>>

-----------------------------------------------------------------------------
Publish == /\ P!Next
           /\ Len(log') <= MaxArrivals
           /\ UNCHANGED <<vars, samples>>

\* Another peer puts a sample, which has no number of this publisher.
PeerPut == /\ Len(log) < MaxArrivals
           /\ \E a \in PeerAttachments :
                log' = Append(log, [number |-> 0, began |-> Len(log), attachment |-> a])
           /\ UNCHANGED <<vars, sequence_number, publishing, samples>>

\* The struct an attachment is read into.
Unset == [f \in FieldNames |-> Uninit]

LastArrived == IF arrived = 0 THEN 0 ELSE samples[arrived]

\* The sample at position p of the log comes in, and what its attachment makes of it.
Arrives(p) ==
  LET attachment == log[p].attachment
  IN  /\ \/ AddNewMessage /\ Accepted(Deserialize(attachment, Unset))
         \/ AddNewMessageFails /\ attachment # <<>>
         \/ IgnoreSample /\ attachment = <<>>
      /\ samples' = Append(samples, p)
      /\ UNCHANGED publisherVars

Executor == /\ Take \/ TakeSerialized \/ TakeSequence \/ TakeSequenceStep \/ Shutdown
            /\ UNCHANGED <<publisherVars, samples>>

SystemNext == \/ Publish \/ PeerPut
              \/ \E p \in LastArrived + 1 .. Len(log) : Arrives(p)
              \/ Executor

SystemSpec == SystemInit /\ [][SystemNext]_systemVars

-----------------------------------------------------------------------------
(* Properties.                                                             *)

\* The publication the i-th message handed to the application was put as.
Publication(i) == log[samples[delivered[i]]]

\* Of two messages of this publisher handed to the application, in this order: if
\* the call that published one returned before the other call took its number,
\* then it is the first, and has the smaller number; no two have the same number.
\* (Calls that overlap are numbered in one order and may be put in the other.)
OrderOfCalls ==
  \A i, j \in DOMAIN delivered :
    LET first  == Publication(i)
        second == Publication(j)
        returned == samples[delivered[i]] <= second.began
    IN  i < j /\ 0 \notin {first.number, second.number} =>
          /\ first.number # second.number
          /\ returned => first.number < second.number
          /\ ~ (samples[delivered[j]] <= first.began)

\* What the sender of an attachment means by field f: the first pair of that name.
Meant(attachment, f) ==
  attachment[CHOOSE i \in DOMAIN attachment :
               /\ attachment[i].key = f
               /\ \A j \in 1 .. i - 1 : attachment[j].key # f].value

\* rmw_take_with_info reports what the sender of this very sample put in its
\* attachment, whatever the order of the pairs and the other pairs among them, and
\* whatever a push that failed wrote over the slot: for a sample of this publisher,
\* what rmw_publish made of its number.  (Peers send whole names.)
InfoMatchesPublication ==
  taken.payload \in Messages =>
    LET info == Deserialize(log[samples[taken.attachment_data]].attachment, Unset).data
        sent == log[samples[taken.payload]]
    IN  /\ \A f \in FieldNames : info[f] = Meant(sent.attachment, f)
        /\ sent.number # 0 => info = P!AttachmentData(sent.number)

\* End to end the topic is an ordered log, read at most once: through the session,
\* pushes and takes that fail, messages given up, and threads that publish at once.
EndToEnd == INSTANCE Topic
              WITH Numbers   <- 0 .. MaxPublished,
                   log       <- [p \in DOMAIN log |-> log[p].number],
                   position  <- IF delivered = <<>> THEN 0
                                ELSE samples[delivered[Len(delivered)]],
                   delivered <- [i \in DOMAIN delivered |-> Publication(i).number]
TopicSpec == EndToEnd!Spec
=============================================================================
