------------------------------- MODULE Queue -------------------------------
(***************************************************************************)
(* The ring of frame slots of the mesh (class QUEUE, src/MxBmesh/Queue.cpp):*)
(* two indices over RFQUENEMAX slots, of which at most RFQUENEMAX - 1 are   *)
(* in use.  The class hands out slot numbers; RFQUENEMAX itself means "no   *)
(* slot".  The operators here are pure: a user keeps a ring in a variable   *)
(* and decides which of its steps are interruptible.                        *)
(***************************************************************************)
EXTENDS Integers, Sequences

CONSTANT RFQUENEMAX  \* number of slots (10, 20 or 35 in the builds)

\* The slot number RFQUENEMAX must fit the uint8_t the methods return, and a
\* ring of one slot could never hold anything.
ASSUME QueueAssumption == RFQUENEMAX \in 2..255

Slot == 0..(RFQUENEMAX - 1)
NoSlot == RFQUENEMAX
Ring == [front : Slot, rear : Slot]

init_queue == [front |-> 0, rear |-> 0]

\* The successor of a slot, (i + 1) % RFQUENEMAX in the source.
After(i) == (i + 1) % RFQUENEMAX

Empty(r) == r.front = r.rear
FullNever(r) == FALSE                      \* mutant: no room check
Full(r)  == After(r.rear) = r.front

\* peerqueue: the slot at the front, left in the ring.
peerqueue(r) == IF Empty(r) THEN NoSlot ELSE r.front

InSlotFront(r) ==                          \* mutant: the wrong index
  IF Full(r) THEN NoSlot ELSE r.front

\* inqueue: the slot it hands out, and the ring it leaves.  The slot is in the
\* ring before the caller has written anything to it.
InSlot(r) == IF Full(r) THEN NoSlot ELSE r.rear
inqueue(r) == IF Full(r) THEN r ELSE [r EXCEPT !.rear = After(r.rear)]

DequeueStays(r) == r                       \* mutant: front is not advanced
\* dequeue: the slot it hands out is peerqueue(r), and the ring it leaves.  The
\* caller reads the slot after it has left the ring.
dequeue(r) == IF Empty(r) THEN r ELSE [r EXCEPT !.front = After(r.front)]

\* The slots in use, front first.
Used(r) == (r.rear - r.front + RFQUENEMAX) % RFQUENEMAX
Contents(r, slots) ==
  [k \in 1..Used(r) |-> slots[(r.front + k - 1) % RFQUENEMAX]]

\* Whether a slot is among them.
InUse(r, i) ==
  IF r.front <= r.rear THEN r.front <= i /\ i < r.rear
  ELSE r.front <= i \/ i < r.rear
=============================================================================
