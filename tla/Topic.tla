------------------------------- MODULE Topic -------------------------------
(***************************************************************************)
(* What a topic promises from end to end: a subscription reads along the   *)
(* log of what is put on the topic, skips what is lost or given up, and    *)
(* never goes back.                                                        *)
(***************************************************************************)
EXTENDS Integers, Sequences

CONSTANT Numbers   \* what tells publications apart

VARIABLES
  log,         \* the publications put on the topic
  position,    \* how far the subscription has read
  delivered    \* what it handed to the application

vars == <<log, position, delivered>>

Init == log = <<>> /\ position = 0 /\ delivered = <<>>

Put == /\ \E n \in Numbers : log' = Append(log, n)
       /\ UNCHANGED <<position, delivered>>

Deliver == /\ position' \in position + 1 .. Len(log)
           /\ delivered' = Append(delivered, log[position'])
           /\ UNCHANGED log

Next == Put \/ Deliver

Spec == Init /\ [][Next]_vars
=============================================================================
