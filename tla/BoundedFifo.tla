---------------------------- MODULE BoundedFifo ----------------------------
(***************************************************************************)
(* What a ring promises its two ends: a first-in first-out buffer of        *)
(* bounded capacity, and an item that, once taken, stays in the taker's     *)
(* hand unchanged until it lets go of it.                                   *)
(***************************************************************************)
EXTENDS Naturals, Sequences

CONSTANTS Item,      \* what can be stored
          Capacity,  \* how many items fit, at least 1
          Nothing    \* not an item: the hand is empty

VARIABLES buffer, \* the items stored, oldest first
          hand,   \* the item last taken, or Nothing
          reset   \* whether the owner is about to restart

Init == buffer = << >> /\ hand = Nothing

Put(x) ==
  /\ Len(buffer) < Capacity
  /\ buffer' = Append(buffer, x)
  /\ UNCHANGED hand

\* The oldest item leaves the buffer for the hand, or for good.
Take == buffer # << >> /\ hand' = Head(buffer) /\ buffer' = Tail(buffer)
Remove == buffer # << >> /\ buffer' = Tail(buffer) /\ UNCHANGED hand

Release == hand # Nothing /\ hand' = Nothing /\ UNCHANGED buffer

\* A restart of the owner, and nothing else, empties the buffer at once.
Clear == reset /\ buffer' = << >> /\ hand' = Nothing

\* A buffer whose items are served: each is taken, held and released.
Served == (\E x \in Item : Put(x)) \/ Take \/ Release \/ Clear
ServedSpec == Init /\ [][Served]_<<buffer, hand>>

\* A buffer whose items are looked at where they are and then removed.
Drained == (\E x \in Item : Put(x)) \/ Remove \/ Clear
DrainedSpec == Init /\ [][Drained]_<<buffer, hand>>
=============================================================================
