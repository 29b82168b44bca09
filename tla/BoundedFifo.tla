---------------------------- MODULE BoundedFifo ----------------------------
(***************************************************************************)
(* What a single-producer single-consumer ring of the firmware promises,   *)
(* whatever its indices do: requests leave in the order they entered, none *)
(* is lost or duplicated, and at most Capacity of them wait.               *)
(***************************************************************************)
EXTENDS Naturals, Sequences

CONSTANTS Item,       \* what may be queued
          Capacity    \* how many items may wait

VARIABLES queue,      \* the items that wait, oldest first
          delivered   \* every item taken out so far, in order

vars == <<queue, delivered>>

Init == queue = << >> /\ delivered = << >>

Put == /\ Len(queue) < Capacity
       /\ \E item \in Item : queue' = Append(queue, item)
       /\ UNCHANGED delivered

Get == /\ queue # << >>
       /\ delivered' = Append(delivered, Head(queue))
       /\ queue' = Tail(queue)

Next == Put \/ Get

Spec == Init /\ [][Next]_vars
=============================================================================
