---------------------------- MODULE LatestMailbox ----------------------------
(***************************************************************************)
(* What the queue of a subscription really keeps, whatever its depth: one  *)
(* mailbox with the newest sample, and a count of how many takes will      *)
(* still be let through.  A take that finds the mailbox empty hands out a  *)
(* blank.                                                                  *)
(***************************************************************************)
EXTENDS Integers, Sequences

CONSTANTS Depth, MaxArrivals, Blanks

VARIABLES
  arrived,    \* how many samples have reached the handler
  latest,     \* the sample in the mailbox, or a blank
  credit,     \* how many takes are let through
  delivered   \* what was handed to the application with RMW_RET_OK

vars == <<arrived, latest, credit, delivered>>

Init == arrived = 0 /\ latest \in Blanks /\ credit = 0 /\ delivered = <<>>

Arrive == /\ arrived < MaxArrivals
          /\ arrived' = arrived + 1
          /\ latest' = arrived'
          /\ credit' = IF credit = Depth THEN Depth ELSE credit + 1
          /\ UNCHANGED delivered

\* A sample that does not decode never fills the mailbox and may empty it.  On
\* a full queue it costs a credit, and the mailbox is emptied.
Reject == /\ arrived < MaxArrivals
          /\ arrived' = arrived + 1
          /\ credit' = IF credit = Depth THEN Depth - 1 ELSE credit
          /\ latest' \in Blanks \cup (IF credit = Depth THEN {} ELSE {latest})
          /\ UNCHANGED delivered

\* A sample without an attachment is ignored.
Ignore == /\ arrived < MaxArrivals
          /\ arrived' = arrived + 1
          /\ UNCHANGED <<latest, credit, delivered>>

Take == /\ credit > 0
        /\ credit' = credit - 1
        /\ latest' \in Blanks
        /\ delivered' \in {delivered, Append(delivered, latest)}
        /\ UNCHANGED arrived

Next == Arrive \/ Reject \/ Ignore \/ Take

Spec == Init /\ [][Next]_vars
=============================================================================
