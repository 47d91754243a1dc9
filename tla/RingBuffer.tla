----------------------------- MODULE RingBuffer -----------------------------
(***************************************************************************)
(* internal/telemetry/buffer.go: the circular buffer of telemetry events.  *)
(* Every method holds rb.mu, so each is one action.  Slots keep their old  *)
(* contents after Drain; only head and count say which ones are live.      *)
(* ControlPlaneClient is its user.                                         *)
(***************************************************************************)
EXTENDS Integers, Sequences

CONSTANTS
    Events,     \* telemetry events
    Capacity,   \* rb.cap, at least 1: configuration loading replaces lower values
    Zero        \* the zero Event of a fresh slot, none of Events

VARIABLES buf, head, count

Slots == 0..(Capacity - 1)

TypeOK ==
    /\ buf \in [Slots -> Events \cup {Zero}]
    /\ head \in Slots
    /\ count \in 0..Capacity

\* Snapshot, and the loop Drain shares with it.
Snapshot == [i \in 1..count |-> buf[(head + i - 1) % Capacity]]

Full == count = Capacity

\* Mutant: the head stays when an event is overwritten.
PushKeepsHead(e) ==
    /\ buf' = [buf EXCEPT ![(head + count) % Capacity] = e]
    /\ count' = IF Full THEN count ELSE count + 1
    /\ UNCHANGED head

Push(e) ==
    /\ buf' = [buf EXCEPT ![(head + count) % Capacity] = e]
    /\ IF Full
         THEN head' = (head + 1) % Capacity /\ UNCHANGED count
         ELSE count' = count + 1 /\ UNCHANGED head

\* What Drain leaves; it returns the Snapshot.
Drain ==
    /\ IF count = 0 THEN UNCHANGED head ELSE head' = 0
    /\ count' = 0
    /\ UNCHANGED buf

Init ==
    /\ buf = [i \in Slots |-> Zero]
    /\ head = 0 /\ count = 0

-----------------------------------------------------------------------------
Queue == INSTANCE DropOldestQueue WITH queue <- Snapshot

\* The index arithmetic of Push and Drain implements the drop-oldest queue:
\* same order, the newest Capacity events kept, and no slot that was not pushed
\* into ever live.
ImplementsQueue == Queue!Spec
=============================================================================
