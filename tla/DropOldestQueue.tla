--------------------------- MODULE DropOldestQueue ---------------------------
(***************************************************************************)
(* What the telemetry buffer promises: "When full, the oldest events are   *)
(* dropped to make room for new ones" (RingBuffer), and Drain "removes and *)
(* returns all events".  A FIFO queue that keeps the Capacity newest.      *)
(***************************************************************************)
EXTENDS Integers, Sequences

CONSTANTS Events, Capacity

VARIABLE queue

Init == queue = << >>

Push(e) ==
    queue' = IF Len(queue) = Capacity
               THEN Append(Tail(queue), e) ELSE Append(queue, e)

Drain == queue' = << >>

Next == Drain \/ \E e \in Events : Push(e)

Spec == Init /\ [][Next]_queue
=============================================================================
