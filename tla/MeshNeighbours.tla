--------------------------- MODULE MeshNeighbours ---------------------------
(***************************************************************************)
(* The table of a node's neighbours (src/MxBmesh/MxBmesh.cpp): handlerfrx   *)
(* enters whoever it hears broadcasting, in the main loop, and              *)
(* broadcast_neigbour makes the entries older, in the timer interrupt, which *)
(* may come in the middle of an entry.                                      *)
(***************************************************************************)
EXTENDS Integers, FiniteSets

CONSTANTS
  Neighbour,       \* nodes in range
  rssi,            \* of each, always the same; the larger, the farther
  MAX_NB,          \* entries
  BROADCASTINTERVALPAST_MAX,
  BROADCASTADDR    \* nodeid of a free entry

ASSUME NeighbourAssumption ==
  /\ IsFiniteSet(Neighbour) /\ BROADCASTADDR \notin Neighbour
  /\ rssi \in [Neighbour -> Nat \ {0}]
  /\ \A m, n \in Neighbour : rssi[m] = rssi[n] => m = n
  /\ MAX_NB \in Nat \ {0} /\ BROADCASTINTERVALPAST_MAX \in Nat

VARIABLES
  neigbour,        \* the table: [nodeid, rssi, intervalcountpast] per entry
  entering,        \* the entry handlerfrx has found, the node, and if it is in it
  quiet,           \* history: rounds since a node was heard
  struck           \* history: nodes whose entering a round fell into

nbvars == <<neigbour, entering, quiet, struck>>

\* Where quiet stops counting.
LongQuiet == 2 * BROADCASTINTERVALPAST_MAX + 1

Slot == 1..MAX_NB
NoEntry == [slot |-> 0, node |-> BROADCASTADDR, placed |-> FALSE]
Free == [nodeid |-> BROADCASTADDR, rssi |-> 0, intervalcountpast |-> 0]
Listed == {neigbour[i].nodeid : i \in Slot} \ {BROADCASTADDR}

NbInit ==
  /\ neigbour = [i \in Slot |-> Free] /\ entering = NoEntry
  /\ quiet = [n \in Neighbour |-> LongQuiet] /\ struck = {}

Fits(i, n) == neigbour[i].nodeid \in {BROADCASTADDR, n}
FirstFit(n) == {i \in Slot : Fits(i, n) /\ \A j \in 1..i - 1 : ~Fits(j, n)}
Worst == {i \in Slot : \A j \in Slot :
            \/ neigbour[j].rssi < neigbour[i].rssi
            \/ neigbour[j].rssi = neigbour[i].rssi /\ i <= j}

\* Mutant: any worse entry is given up, not the worst.
EntryForAny(n) ==
  IF \E i \in Slot : Fits(i, n) THEN FirstFit(n)
  ELSE {i \in Slot : neigbour[i].rssi > rssi[n]}

\* The entry for node n: the first that is free or its own; when there is none,
\* the worst if it is worse than n (RSSI_STEP is 0).
EntryFor(n) ==
  IF \E i \in Slot : Fits(i, n) THEN FirstFit(n)
  ELSE {i \in Worst : neigbour[i].rssi > rssi[n]}
NoEntryFor(n) == \A i \in Slot : ~Fits(i, n) /\ neigbour[i].rssi <= rssi[n]

\* MSGTYPE_NB: handlerfrx looks for an entry for node n,
Hear(n) ==
  /\ entering = NoEntry
  /\ \/ \E i \in EntryFor(n) :
          /\ entering' = [slot |-> i, node |-> n, placed |-> FALSE]
          /\ UNCHANGED <<quiet, struck>>
     \/ /\ NoEntryFor(n)
        /\ quiet' = [quiet EXCEPT ![n] = 0] /\ struck' = struck \ {n}
        /\ UNCHANGED entering
  /\ UNCHANGED neigbour

\* puts the node into it,
Place ==
  /\ entering # NoEntry /\ ~entering.placed
  /\ neigbour' = [neigbour EXCEPT ![entering.slot].nodeid = entering.node]
  /\ entering' = [entering EXCEPT !.placed = TRUE]
  /\ quiet' = [quiet EXCEPT ![entering.node] = 0]
  /\ struck' = struck \ {entering.node}

\* and writes the rest of the entry.
FinishHearing ==
  /\ entering.placed /\ entering' = NoEntry
  /\ neigbour' = [neigbour EXCEPT ![entering.slot] =
                    [nodeid |-> @.nodeid, rssi |-> rssi[entering.node],
                     intervalcountpast |-> 0]]
  /\ UNCHANGED <<quiet, struck>>

\* broadcast_neigbour: two steps older, and lost if the first was one too many.
Older(e) ==
  IF e.nodeid = BROADCASTADDR THEN e
  ELSE IF e.intervalcountpast + 1 > BROADCASTINTERVALPAST_MAX THEN Free
  ELSE [e EXCEPT !.intervalcountpast = @ + 2]

broadcast_neigbour ==
  /\ neigbour' = [i \in Slot |-> Older(neigbour[i])]
  /\ quiet' = [n \in Neighbour |->
                 IF quiet[n] = LongQuiet THEN LongQuiet ELSE quiet[n] + 1]
  /\ struck' = struck \cup (IF entering.placed THEN {entering.node} ELSE {})
  /\ UNCHANGED entering

\* A reset and begin.
ForgetNeighbours ==
  /\ neigbour' = [i \in Slot |-> Free] /\ entering' = NoEntry
  /\ quiet' = [n \in Neighbour |-> LongQuiet] /\ struck' = {}
-----------------------------------------------------------------------------
NbTypeOK ==
  /\ \A i \in Slot :
       /\ neigbour[i].nodeid \in Neighbour \cup {BROADCASTADDR}
       /\ neigbour[i].rssi \in {0} \cup {rssi[n] : n \in Neighbour}
       /\ neigbour[i].intervalcountpast \in 0..BROADCASTINTERVALPAST_MAX + 1
  /\ entering.slot \in 0..MAX_NB
  /\ quiet \in [Neighbour -> 0..LongQuiet] /\ struck \subseteq Neighbour

\* Node m was lost, by the count, when the one heard rounds ago was heard.
Gone(m, rounds) == m \notin struck /\ quiet[m] > BROADCASTINTERVALPAST_MAX + rounds
Displaced(n) == \E m \in Neighbour : rssi[m] < rssi[n] /\ ~Gone(m, quiet[n])

(* A neighbour is not listed when it has been silent for more rounds than        *)
(* BROADCASTINTERVALPAST_MAX (broadcast_neigbour, MxBmesh.cpp:50-66).  As long as *)
(* one is listed, so is every node heard as lately, unless a nearer one could be  *)
(* in its place when it was heard; and so is every nearer one without exception,  *)
(* whatever the table was filled with before and whoever was replaced for whom    *)
(* (594-627).  None of it is certain of a node into whose entering a round fell:  *)
(* the interrupt has seen the new node with the old count.                        *)
NeighboursHeard ==
  \A m \in Listed \ struck :
    /\ quiet[m] <= BROADCASTINTERVALPAST_MAX
    /\ \A n \in Neighbour \ struck :
         quiet[n] <= quiet[m] /\ (Displaced(n) => rssi[n] < rssi[m]) => n \in Listed

(* "BROADCASTINTERVALPAST_MAX 4 //neigbour lost count" (MxBmeshConfig.h:51): a    *)
(* neighbour that has been silent for fewer rounds is not lost yet.  Violated:    *)
(* broadcast_neigbour counts twice a round (MxBmesh.cpp:56-57).                   *)
LostAtTheCount ==
  \A n \in Neighbour \ struck :
    quiet[n] < BROADCASTINTERVALPAST_MAX /\ ~Displaced(n) => n \in Listed
=============================================================================
