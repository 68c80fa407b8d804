------------------------------ MODULE EventStream ------------------------------
(***************************************************************************)
(* What a subscriber of the hub is promised (src/ipc/hub.rs, lines 3 to 7): *)
(* every event of its topic, in order, or the number of those it lost; and *)
(* only events that newer ones have overwritten are lost.                  *)
(***************************************************************************)
EXTENDS Integers

CONSTANT Capacity
VARIABLES
  published,   \* events published since the subscription
  accounted    \* ... that the subscriber received or was told it lost

Init == published = 0 /\ accounted = 0

Publish == published' > published /\ UNCHANGED accounted

Deliver ==
  /\ accounted < published
  /\ accounted' = accounted + 1 /\ UNCHANGED published

\* The last Capacity events are still buffered, so they are never the lost ones.
Skip ==
  /\ accounted' > accounted /\ accounted' + Capacity <= published
  /\ UNCHANGED published

Next == Publish \/ Deliver \/ Skip

Spec == Init /\ [][Next]_<<published, accounted>>
================================================================================
