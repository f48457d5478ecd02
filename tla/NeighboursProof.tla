-------------------------- MODULE NeighboursProof --------------------------
(***************************************************************************)
(* The neighbour table holds the neighbours it should (NeighboursHeard), for *)
(* any number of entries and of nodes, any signal strengths, and the timer's  *)
(* interrupt at any place of an entry.                                       *)
(***************************************************************************)
EXTENDS SinkNode, TLAPS

\* Rounds that an entry lives through.
BeingHeld == (BROADCASTINTERVALPAST_MAX + 1) \div 2

Entry == [nodeid : Neighbour \cup {BROADCASTADDR}, rssi : Nat,
          intervalcountpast : 0..BROADCASTINTERVALPAST_MAX + 1]

NbShape ==
  /\ neigbour \in [Slot -> Entry]
  /\ entering \in [slot : 0..MAX_NB, node : Neighbour \cup {BROADCASTADDR},
                   placed : BOOLEAN]
  /\ entering # NoEntry => entering.slot \in Slot /\ entering.node \in Neighbour
  /\ quiet \in [Neighbour -> 0..LongQuiet] /\ struck \subseteq Neighbour

InEntering(i) == entering.placed /\ entering.slot = i

\* A node's entry has its signal strength, except while it is being entered.
RightRssi ==
  \A i \in Slot :
    neigbour[i].nodeid # BROADCASTADDR /\ ~InEntering(i)
      => neigbour[i].rssi = rssi[neigbour[i].nodeid]

\* The entry found is still free, the node's own, or a worse node's, and then the
\* worst there is; if that one was heard in this round, no entry has become free.
IsWorst(w) ==
  /\ \A i \in Slot : neigbour[i].nodeid # BROADCASTADDR => rssi[neigbour[i].nodeid] <= rssi[w]
  /\ w \notin struck /\ quiet[w] = 0 => \A i \in Slot : neigbour[i].nodeid # BROADCASTADDR
FoundFits ==
  entering # NoEntry /\ ~entering.placed
    => \/ Fits(entering.slot, entering.node)
       \/ /\ rssi[neigbour[entering.slot].nodeid] > rssi[entering.node]
          /\ IsWorst(neigbour[entering.slot].nodeid)

\* A node just entered is in its entry and was heard in this round, unless a
\* round has begun since.
EnteredIsListed ==
  entering.placed
    => \/ /\ neigbour[entering.slot].nodeid = entering.node
          /\ entering.node \notin struck => quiet[entering.node] = 0
       \/ /\ neigbour[entering.slot].nodeid = BROADCASTADDR
          /\ entering.node \in struck

\* Every entry of a node is as old as its silence, or older: it goes in time.
NoneYounger ==
  \A i \in Slot :
    LET n == neigbour[i].nodeid
    IN  n # BROADCASTADDR /\ n \notin struck
          => neigbour[i].intervalcountpast >= 2 * quiet[n]

\* A node heard lately has an entry no older than that, which stays, or a nearer
\* node may have taken its place.
Young(i, n) ==
  /\ neigbour[i].nodeid = n
  /\ neigbour[i].intervalcountpast <= 2 * quiet[n] \/ InEntering(i)
Left(m, rounds) == m \notin struck /\ quiet[m] > BeingHeld + rounds
Outdone(n) ==
  \E m \in Neighbour : rssi[m] < rssi[n] /\ ~Left(m, quiet[n])
SomeYoung ==
  \A n \in Neighbour \ struck :
    quiet[n] <= BeingHeld => (\E i \in Slot : Young(i, n)) \/ Outdone(n)

\* A node heard in this round for which there is no entry was refused one, or lost
\* it, to nearer ones, and they are still there.
RefusedByNearer ==
  \A n \in Neighbour \ struck :
    quiet[n] = 0 /\ (\A i \in Slot : ~Young(i, n))
      => \A i \in Slot : /\ neigbour[i].nodeid # BROADCASTADDR
                        /\ rssi[neigbour[i].nodeid] <= rssi[n]

\* No node has an entry while a nearer one heard as lately has none.
NearerKept ==
  \A i \in Slot, n \in Neighbour \ struck :
    LET m == neigbour[i].nodeid
    IN  m # BROADCASTADDR /\ m \notin struck /\ rssi[n] < rssi[m] /\ quiet[n] <= quiet[m]
          => \E j \in Slot : Young(j, n)

NbInv ==
  /\ NbShape /\ RightRssi /\ FoundFits /\ EnteredIsListed
  /\ NoneYounger /\ SomeYoung /\ RefusedByNearer /\ NearerKept
-----------------------------------------------------------------------------

\* BeingHeld is half of BROADCASTINTERVALPAST_MAX, rounded up.
LEMMA HeldFacts ==
  /\ BeingHeld \in Nat /\ BeingHeld <= BROADCASTINTERVALPAST_MAX
  /\ LongQuiet \in Nat /\ LongQuiet > BeingHeld
  /\ LongQuiet = 2 * BROADCASTINTERVALPAST_MAX + 1
  /\ BROADCASTINTERVALPAST_MAX \in Nat
  /\ 2 * BeingHeld >= BROADCASTINTERVALPAST_MAX
  /\ 2 * BeingHeld <= BROADCASTINTERVALPAST_MAX + 1
PROOF BY NeighbourAssumption DEF BeingHeld, LongQuiet

\* Signal strengths are numbers above 0 and tell nodes apart; there is an entry.
LEMMA NearFacts ==
  /\ \A n \in Neighbour : rssi[n] \in Nat /\ rssi[n] > 0 /\ n # BROADCASTADDR
  /\ \A m, n \in Neighbour : m # n => rssi[m] # rssi[n]
  /\ MAX_NB \in Nat /\ 1 \in Slot /\ 0 \notin Slot
PROOF BY NeighbourAssumption DEF Slot

\* What handlerfrx and broadcast_neigbour keep true makes the table right.
LEMMA NbInvImplies == NbInv => NeighboursHeard
<1> SUFFICES ASSUME NbInv, NEW i \in Slot, NEW m, m = neigbour[i].nodeid,
                    m # BROADCASTADDR, m \notin struck
             PROVE  /\ quiet[m] <= BROADCASTINTERVALPAST_MAX
                    /\ \A n \in Neighbour \ struck :
                         quiet[n] <= quiet[m] /\ (Displaced(n) => rssi[n] < rssi[m])
                           => n \in Listed
  BY DEF NeighboursHeard, Listed
<1>1. /\ m \in Neighbour /\ quiet[m] \in Nat
      /\ neigbour[i].intervalcountpast \in 0..BROADCASTINTERVALPAST_MAX + 1
  BY HeldFacts DEF NbInv, NbShape, Entry
<1>2. 2 * quiet[m] <= BROADCASTINTERVALPAST_MAX + 1
  BY <1>1, HeldFacts DEF NbInv, NoneYounger
<1>3. quiet[m] <= BROADCASTINTERVALPAST_MAX /\ quiet[m] <= BeingHeld
  BY <1>1, <1>2, NeighbourAssumption DEF BeingHeld
<1>4. ASSUME NEW n \in Neighbour \ struck, quiet[n] <= quiet[m],
             Displaced(n) => rssi[n] < rssi[m]
      PROVE  n \in Listed
  <2>1. quiet[n] \in Nat /\ quiet[n] <= BeingHeld /\ n # BROADCASTADDR
    BY <1>1, <1>3, <1>4, HeldFacts, NearFacts DEF NbInv, NbShape
  <2>2. (\E j \in Slot : Young(j, n)) \/ Outdone(n)
    BY <2>1 DEF NbInv, SomeYoung
  <2>3. ASSUME Outdone(n)
        PROVE  \E j \in Slot : Young(j, n)
    <3>1. PICK k \in Neighbour : rssi[k] < rssi[n] /\ ~Left(k, quiet[n])
      BY <2>3 DEF Outdone
    <3>2. ~Gone(k, quiet[n])
      <4>1. quiet[k] \in Nat
        BY HeldFacts DEF NbInv, NbShape
      <4> QED
        BY <3>1, <4>1, <2>1, HeldFacts DEF Left, Gone
    <3>3. rssi[n] < rssi[m]
      BY <1>4, <3>1, <3>2 DEF Displaced
    <3> QED
      BY <1>4, <3>3 DEF NbInv, NearerKept
  <2> QED
    BY <2>1, <2>2, <2>3 DEF Young, Listed
<1> QED
  BY <1>3, <1>4

\* An empty table and nodes not heard yet.
LEMMA NbStarts == NbInit => NbInv
<1> SUFFICES ASSUME NbInit PROVE NbInv
  OBVIOUS
<1>1. /\ neigbour = [i \in Slot |-> Free] /\ entering = NoEntry
      /\ quiet = [n \in Neighbour |-> LongQuiet] /\ struck = {}
  BY DEF NbInit
<1>2. NbShape
  BY <1>1, HeldFacts, NearFacts DEF NbShape, Entry, Free, NoEntry
<1>3. ~entering.placed
  BY <1>1 DEF NoEntry
<1>4. \A n \in Neighbour : ~(quiet[n] <= BeingHeld) /\ quiet[n] # 0
  BY <1>1, HeldFacts
<1>5. \A i \in Slot : neigbour[i].nodeid = BROADCASTADDR
  BY <1>1 DEF Free
<1>6. RefusedByNearer /\ NearerKept
  BY <1>4, <1>5 DEF RefusedByNearer, NearerKept
<1> QED
  BY <1>1, <1>2, <1>3, <1>4, <1>5, <1>6
  DEF NbInv, RightRssi, FoundFits, EnteredIsListed, NoneYounger, SomeYoung

\* A reset: begin makes the table empty again.
LEMMA NbForgets == ForgetNeighbours => NbInv'
<1>1. ForgetNeighbours => NbInit'
  BY DEF ForgetNeighbours, NbInit
<1> QED
  BY <1>1, NbStarts, PTL

\* handlerfrx has found an entry: no property is about it yet.
LEMMA FoundKeeps ==
  ASSUME NbInv, NEW n \in Neighbour, NEW i \in EntryFor(n), entering = NoEntry,
         entering' = [slot |-> i, node |-> n, placed |-> FALSE],
         UNCHANGED <<neigbour, quiet, struck>>
  PROVE  NbInv'
<1>1. ~entering.placed /\ ~entering'.placed
  BY DEF NoEntry
<1>2. i \in Slot
  BY DEF EntryFor, FirstFit, Worst
<1>3. NbShape'
  BY <1>2, NearFacts DEF NbInv, NbShape, Slot
<1>4. FoundFits'
  <2>1. \/ Fits(i, n)
        \/ /\ \A j \in Slot : neigbour[j].nodeid # BROADCASTADDR
           /\ i \in Worst /\ neigbour[i].rssi > rssi[n]
    BY DEF EntryFor, FirstFit, Fits
  <2>2. \A j \in Slot : neigbour[j].nodeid # BROADCASTADDR
                         => neigbour[j].rssi = rssi[neigbour[j].nodeid]
    BY <1>1 DEF NbInv, RightRssi, InEntering
  <2>3. CASE Fits(i, n)
    BY <2>3 DEF FoundFits, Fits
  <2>4. CASE /\ \A j \in Slot : neigbour[j].nodeid # BROADCASTADDR
             /\ i \in Worst /\ neigbour[i].rssi > rssi[n]
    <3>1. \A j \in Slot : neigbour[j].rssi <= neigbour[i].rssi
      BY <1>2, <2>4 DEF Worst, NbInv, NbShape, Entry
    <3>2. IsWorst(neigbour[i].nodeid) /\ rssi[neigbour[i].nodeid] > rssi[n]
      BY <1>2, <2>2, <2>4, <3>1 DEF IsWorst
    <3> QED
      BY <3>2 DEF FoundFits, IsWorst
  <2> QED
    BY <2>1, <2>3, <2>4
<1>5. RightRssi' /\ EnteredIsListed' /\ NoneYounger'
  BY <1>1 DEF NbInv, RightRssi, EnteredIsListed, NoneYounger, InEntering
<1>6. SomeYoung'
  BY <1>1 DEF NbInv, SomeYoung, Young, Outdone, Left, InEntering
<1>7. RefusedByNearer' /\ NearerKept'
  BY <1>1 DEF NbInv, RefusedByNearer, NearerKept, Young, InEntering
<1> QED
  BY <1>3, <1>4, <1>5, <1>6, <1>7 DEF NbInv

\* There is no entry for node n: every entry is a nearer node's, heard lately.
LEMMA RefusedIsOutdone ==
  ASSUME NbInv, NEW n \in Neighbour, entering = NoEntry, NoEntryFor(n)
  PROVE  \E m \in Neighbour : m # n /\ rssi[m] < rssi[n] /\ ~Left(m, 0)
<1>1. PICK i \in Slot : TRUE
  BY NearFacts
<1> DEFINE m == neigbour[i].nodeid
<1>2. m # BROADCASTADDR /\ m # n /\ neigbour[i].rssi <= rssi[n]
  BY DEF NoEntryFor, Fits
<1>3. m \in Neighbour /\ neigbour[i].rssi = rssi[m]
  BY <1>2 DEF NbInv, NbShape, Entry, RightRssi, InEntering, NoEntry
<1>4. rssi[m] < rssi[n]
  BY <1>2, <1>3, NearFacts
<1>5. ~Left(m, 0)
  <2>1. m \notin struck => neigbour[i].intervalcountpast >= 2 * quiet[m]
    BY <1>2 DEF NbInv, NoneYounger
  <2>2. neigbour[i].intervalcountpast \in 0..BROADCASTINTERVALPAST_MAX + 1
        /\ quiet[m] \in Nat
    BY <1>3, HeldFacts DEF NbInv, NbShape, Entry
  <2> QED
    BY <2>1, <2>2, HeldFacts DEF Left
<1> QED
  BY <1>2, <1>3, <1>4, <1>5

\* handlerfrx finds no entry for a node: a nearer one is in its place.
LEMMA RefusedKeeps ==
  ASSUME NbInv, NEW n \in Neighbour, entering = NoEntry, NoEntryFor(n),
         quiet' = [quiet EXCEPT ![n] = 0], struck' = struck \ {n},
         UNCHANGED <<neigbour, entering>>
  PROVE  NbInv'
<1>1. ~entering.placed /\ entering' = entering /\ neigbour' = neigbour
  BY DEF NoEntry
<1>2. \A m \in Neighbour : quiet'[m] = IF m = n THEN 0 ELSE quiet[m]
  BY DEF NbInv, NbShape
<1>3. \A m \in Neighbour : quiet[m] \in Nat
  BY HeldFacts DEF NbInv, NbShape
<1>4. NbShape'
  BY <1>1, HeldFacts DEF NbInv, NbShape
<1>5. \A i \in Slot : neigbour[i].nodeid # n
  BY DEF NoEntryFor, Fits
<1>6. RightRssi' /\ FoundFits' /\ EnteredIsListed'
  BY <1>1 DEF NbInv, RightRssi, FoundFits, EnteredIsListed, InEntering, Fits
<1>7. NoneYounger'
  BY <1>1, <1>2, <1>5 DEF NbInv, NbShape, Entry, NoneYounger
<1>8. SomeYoung'
  <2> SUFFICES ASSUME NEW k \in Neighbour, k \notin struck', quiet'[k] <= BeingHeld
               PROVE  (\E i \in Slot : Young(i, k)') \/ Outdone(k)'
    BY DEF SomeYoung
  <2>1. CASE k = n
    <3>1. PICK m \in Neighbour : m # n /\ rssi[m] < rssi[n] /\ ~Left(m, 0)
      BY RefusedIsOutdone
    <3>2. ~(m \notin struck' /\ quiet'[m] > BeingHeld + quiet'[k])
      BY <2>1, <3>1, <1>2 DEF Left
    <3> QED
      BY <2>1, <3>1, <3>2 DEF Outdone, Left
  <2>2. CASE k # n
    <3>1. (\E i \in Slot : Young(i, k)) \/ Outdone(k)
      BY <2>2, <1>2 DEF NbInv, SomeYoung
    <3>2. CASE \E i \in Slot : Young(i, k)
      BY <2>2, <3>2, <1>1, <1>2 DEF Young, InEntering
    <3>3. CASE Outdone(k)
      <4>1. PICK m \in Neighbour : rssi[m] < rssi[k] /\ ~Left(m, quiet[k])
        BY <3>3 DEF Outdone
      <4>2. ~(m \notin struck' /\ quiet'[m] > BeingHeld + quiet'[k])
        BY <2>2, <4>1, <1>2, <1>3, HeldFacts DEF Left
      <4> QED
        BY <4>1, <4>2 DEF Outdone, Left
    <3> QED
      BY <3>1, <3>2, <3>3
  <2> QED
    BY <2>1, <2>2
<1>9. \A i \in Slot : /\ neigbour[i].nodeid # BROADCASTADDR
                      /\ rssi[neigbour[i].nodeid] <= rssi[n]
  BY <1>1 DEF NoEntryFor, Fits, NbInv, RightRssi, InEntering
<1>10. \A k \in Neighbour, i \in Slot : k # n => (Young(i, k)' <=> Young(i, k))
  BY <1>1, <1>2 DEF Young, InEntering
<1>11. RefusedByNearer'
  <2> SUFFICES ASSUME NEW k \in Neighbour, k \notin struck', quiet'[k] = 0,
                      \A i \in Slot : ~Young(i, k)'
               PROVE  \A i \in Slot : /\ neigbour[i].nodeid # BROADCASTADDR
                                      /\ rssi[neigbour[i].nodeid] <= rssi[k]
    BY <1>1 DEF RefusedByNearer
  <2>1. CASE k = n
    BY <2>1, <1>9
  <2>2. CASE k # n
    BY <2>2, <1>2, <1>10 DEF NbInv, RefusedByNearer
  <2> QED
    BY <2>1, <2>2
<1>12. NearerKept'
  <2> SUFFICES ASSUME NEW i \in Slot, NEW k \in Neighbour, k \notin struck',
                      NEW m, m = neigbour[i].nodeid, m # BROADCASTADDR,
                      m \notin struck', rssi[k] < rssi[m], quiet'[k] <= quiet'[m]
               PROVE  \E j \in Slot : Young(j, k)'
    BY <1>1 DEF NearerKept
  <2>1. m \in Neighbour /\ m # n
    BY <1>5 DEF NbInv, NbShape, Entry
  <2>2. CASE k = n
    BY <2>1, <2>2, <1>9, NearFacts
  <2>3. CASE k # n
    <3>1. \E j \in Slot : Young(j, k)
      BY <2>1, <2>3, <1>2 DEF NbInv, NearerKept
    <3> QED
      BY <2>3, <3>1, <1>10
  <2> QED
    BY <2>2, <2>3
<1> QED
  BY <1>4, <1>6, <1>7, <1>8, <1>11, <1>12 DEF NbInv

\* The node is put into its entry, and a farther one may lose its place.
LEMMA PlaceKeeps ==
  ASSUME NbInv, Place
  PROVE  NbInv'
<1> DEFINE i == entering.slot
           n == entering.node
<1>1. /\ i \in Slot /\ n \in Neighbour /\ ~entering.placed /\ entering # NoEntry
      /\ n \notin struck' /\ quiet'[n] = 0
  BY DEF Place, NbInv, NbShape
<1>2. /\ entering' = [slot |-> i, node |-> n, placed |-> TRUE]
  BY DEF Place, NbInv, NbShape
<1>3. \A j \in Slot :
        neigbour'[j] = IF j = i THEN [neigbour[i] EXCEPT !.nodeid = n] ELSE neigbour[j]
  BY DEF Place, NbInv, NbShape
<1>4. \A m \in Neighbour : quiet'[m] = IF m = n THEN 0 ELSE quiet[m]
  BY DEF Place, NbInv, NbShape
<1>5. struck' = struck \ {n}
  BY DEF Place
<1>6. /\ neigbour[i] \in Entry /\ neigbour'[i].nodeid = n
      /\ neigbour'[i].intervalcountpast = neigbour[i].intervalcountpast
  BY <1>1, <1>3 DEF NbInv, NbShape, Entry
<1>7. NbShape'
  <2>1. neigbour' \in [Slot -> Entry]
    BY <1>1 DEF Place, NbInv, NbShape, Entry
  <2>2. quiet' \in [Neighbour -> 0..LongQuiet]
    BY HeldFacts DEF Place, NbInv, NbShape
  <2> QED
    BY <1>1, <1>2, <1>5, <2>1, <2>2 DEF NbInv, NbShape, Slot
<1>8. RightRssi'
  BY <1>1, <1>2, <1>3 DEF NbInv, RightRssi, InEntering
<1>9. FoundFits' /\ EnteredIsListed'
  BY <1>1, <1>2, <1>6 DEF FoundFits, EnteredIsListed
<1>10. NoneYounger'
  <2> SUFFICES ASSUME NEW j \in Slot, neigbour'[j].nodeid # BROADCASTADDR,
                      neigbour'[j].nodeid \notin struck'
               PROVE  neigbour'[j].intervalcountpast >= 2 * quiet'[neigbour'[j].nodeid]
    BY DEF NoneYounger
  <2>1. neigbour[j] \in Entry /\ neigbour[j].intervalcountpast \in Nat
    BY HeldFacts DEF NbInv, NbShape, Entry
  <2>2. CASE j = i
    BY <1>1, <1>6, <2>1, <2>2
  <2>3. CASE j # i
    <3>1. neigbour'[j] = neigbour[j] /\ neigbour[j].nodeid \in Neighbour
      BY <1>3, <2>1, <2>3 DEF Entry
    <3> QED
      BY <1>4, <1>5, <2>1, <3>1 DEF NbInv, NoneYounger
  <2> QED
    BY <2>2, <2>3
<1>11. SomeYoung'
  <2> SUFFICES ASSUME NEW k \in Neighbour, k \notin struck', quiet'[k] <= BeingHeld
               PROVE  (\E j \in Slot : Young(j, k)') \/ Outdone(k)'
    BY DEF SomeYoung
  <2>1. CASE k = n
    BY <1>1, <1>2, <1>6, <2>1 DEF Young, InEntering
  <2>2. CASE k # n
    <3>1. /\ quiet'[k] = quiet[k] /\ k \notin struck
          /\ (\E j \in Slot : Young(j, k)) \/ Outdone(k)
      BY <2>2, <1>4, <1>5 DEF NbInv, SomeYoung
    <3>2. CASE Outdone(k)
      <4>1. PICK m \in Neighbour : rssi[m] < rssi[k] /\ ~Left(m, quiet[k])
        BY <3>2 DEF Outdone
      <4>2. quiet[k] \in Nat /\ quiet[m] \in Nat
        BY HeldFacts DEF NbInv, NbShape
      <4>3. ~(m \notin struck' /\ quiet'[m] > BeingHeld + quiet'[k])
        BY <3>1, <4>1, <4>2, <1>4, <1>5, HeldFacts DEF Left
      <4> QED
        BY <4>1, <4>3 DEF Outdone, Left
    <3>3. ASSUME NEW j \in Slot, Young(j, k), j # i
          PROVE  Young(j, k)'
      BY <1>1, <1>2, <1>3, <3>1, <3>3 DEF Young, InEntering
    <3>4. CASE neigbour[i].nodeid = k
      <4>1. rssi[n] < rssi[k]
        BY <1>1, <2>2, <3>4, NearFacts DEF NbInv, FoundFits, Fits
      <4>2. ~(quiet'[n] > BeingHeld + quiet'[k])
        BY <1>1, <3>1, HeldFacts DEF NbInv, NbShape
      <4> QED
        BY <1>1, <4>1, <4>2 DEF Outdone, Left
    <3> QED
      BY <3>1, <3>2, <3>3, <3>4 DEF Young
  <2> QED
    BY <2>1, <2>2
<1>12. \A k \in Neighbour, j \in Slot :
         k # n /\ j # i /\ Young(j, k) => Young(j, k)'
  BY <1>1, <1>2, <1>3, <1>4 DEF Young, InEntering
<1>13. ASSUME NEW j \in Slot, j = i
       PROVE  \A k \in Neighbour : k = n => Young(j, k)'
  BY <1>2, <1>6, <1>13 DEF Young, InEntering
<1>14. \A j \in Slot : j # i => neigbour'[j] = neigbour[j]
  BY <1>3
<1>15. ASSUME NEW k \in Neighbour, k # n, neigbour[i].nodeid = k
       PROVE  rssi[n] < rssi[k] /\ IsWorst(k)
  BY <1>1, <1>15, NearFacts DEF NbInv, FoundFits, Fits
\* A node heard in this round and refused is no nearer than the one placed.
<1>16. ASSUME NEW k \in Neighbour \ struck, k # n, quiet[k] = 0, rssi[k] < rssi[n],
              \A j \in Slot : ~Young(j, k)
       PROVE  FALSE
  <2>1. neigbour[i].nodeid # BROADCASTADDR /\ rssi[neigbour[i].nodeid] <= rssi[k]
    BY <1>1, <1>16 DEF NbInv, RefusedByNearer
  <2>2. neigbour[i].nodeid \in Neighbour
    BY <1>6, <2>1 DEF Entry
  <2>3. CASE neigbour[i].nodeid = n
    BY <1>1, <1>16, <2>1, <2>3, NearFacts
  <2>4. CASE neigbour[i].nodeid # n
    BY <1>1, <1>15, <1>16, <2>1, <2>2, <2>4, NearFacts
  <2> QED
    BY <2>3, <2>4
<1>17. RefusedByNearer'
  <2> SUFFICES ASSUME NEW k \in Neighbour, k \notin struck', quiet'[k] = 0,
                      \A j \in Slot : ~Young(j, k)', NEW j \in Slot
               PROVE  /\ neigbour'[j].nodeid # BROADCASTADDR
                      /\ rssi[neigbour'[j].nodeid] <= rssi[k]
    BY DEF RefusedByNearer
  <2>1. k # n /\ k \notin struck /\ quiet[k] = 0
    BY <1>1, <1>4, <1>5, <1>13
  <2>2. \A h \in Slot : h # i => ~Young(h, k)
    BY <1>12, <2>1
  <2>3. CASE neigbour[i].nodeid = k
    <3>1. rssi[n] < rssi[k] /\ IsWorst(k)
      BY <1>15, <2>1, <2>3
    <3> QED
      BY <1>1, <1>6, <1>14, <2>1, <3>1, NearFacts DEF IsWorst
  <2>4. CASE neigbour[i].nodeid # k
    <3>1. \A h \in Slot : ~Young(h, k)
      BY <2>2, <2>4 DEF Young
    <3>2. \A h \in Slot : /\ neigbour[h].nodeid # BROADCASTADDR
                          /\ rssi[neigbour[h].nodeid] <= rssi[k]
      BY <2>1, <3>1 DEF NbInv, RefusedByNearer
    <3>3. rssi[n] <= rssi[k]
      BY <1>1, <1>16, <2>1, <3>1, NearFacts
    <3> QED
      BY <1>1, <1>6, <1>14, <3>2, <3>3, NearFacts
  <2> QED
    BY <2>3, <2>4
<1>18. NearerKept'
  <2> SUFFICES ASSUME NEW h \in Slot, NEW k \in Neighbour, k \notin struck',
                      NEW m, m = neigbour'[h].nodeid, m # BROADCASTADDR,
                      m \notin struck', rssi[k] < rssi[m], quiet'[k] <= quiet'[m]
               PROVE  \E j \in Slot : Young(j, k)'
    BY DEF NearerKept
  <2>1. CASE k = n
    BY <1>1, <1>13, <2>1
  <2>2. CASE k # n
    <3>1. k \notin struck /\ quiet'[k] = quiet[k] /\ quiet[k] \in Nat
      BY <1>4, <1>5, <2>2, HeldFacts DEF NbInv, NbShape
    <3>2. m \in Neighbour
      BY <1>7 DEF NbShape, Entry
    <3>3. PICK j \in Slot : Young(j, k)
      <4>1. CASE m = n
        <5>1. quiet[k] = 0
          BY <1>1, <3>1, <4>1
        <5> QED
          BY <1>16, <2>2, <3>1, <4>1, <5>1
      <4>2. CASE m # n
        <5>1. h # i /\ neigbour[h].nodeid = m /\ m \notin struck
          BY <1>5, <1>6, <1>14, <4>2
        <5>2. quiet'[m] = quiet[m]
          BY <1>4, <3>2, <4>2
        <5> QED
          BY <3>1, <5>1, <5>2 DEF NbInv, NearerKept
      <4> QED
        BY <4>1, <4>2
    <3>4. j # i
      <4> SUFFICES ASSUME neigbour[i].nodeid = k PROVE FALSE
        BY <3>3 DEF Young
      <4>1. rssi[n] < rssi[k] /\ IsWorst(k)
        BY <1>15, <2>2
      <4>2. m # n
        BY <1>1, <4>1, NearFacts
      <4>3. neigbour[h].nodeid = m
        BY <1>6, <1>14, <4>2
      <4> QED
        BY <3>2, <4>1, <4>3, NearFacts DEF IsWorst
    <3> QED
      BY <1>12, <2>2, <3>3, <3>4
  <2> QED
    BY <2>1, <2>2
<1> QED
  BY <1>7, <1>8, <1>9, <1>10, <1>11, <1>17, <1>18 DEF NbInv

\* The rest of the entry is written: it is as new as its node's hearing.
LEMMA FinishKeeps ==
  ASSUME NbInv, FinishHearing
  PROVE  NbInv'
<1> DEFINE i == entering.slot
           n == entering.node
<1>1. /\ i \in Slot /\ n \in Neighbour /\ entering.placed
      /\ entering' = NoEntry /\ ~entering'.placed
      /\ quiet' = quiet /\ struck' = struck
  BY DEF FinishHearing, NbInv, NbShape, NoEntry
<1>2. \A j \in Slot :
        neigbour'[j] = IF j = i THEN [nodeid |-> neigbour[i].nodeid,
                                    rssi |-> rssi[n], intervalcountpast |-> 0]
                       ELSE neigbour[j]
  BY <1>1 DEF FinishHearing, NbInv, NbShape, Entry
<1>3. /\ neigbour[i] \in Entry /\ neigbour'[i].nodeid = neigbour[i].nodeid
      /\ neigbour'[i].rssi = rssi[n] /\ neigbour'[i].intervalcountpast = 0
  BY <1>1, <1>2 DEF NbInv, NbShape, Entry
<1>4. \/ neigbour[i].nodeid = n /\ (n \notin struck => quiet[n] = 0)
      \/ neigbour[i].nodeid = BROADCASTADDR
  BY <1>1 DEF NbInv, EnteredIsListed
<1>5. NbShape'
  <2>1. neigbour' \in [Slot -> Entry]
    BY <1>1, NearFacts, HeldFacts DEF FinishHearing, NbInv, NbShape, Entry
  <2> QED
    BY <1>1, <2>1, NearFacts DEF NbInv, NbShape, NoEntry
<1>6. RightRssi'
  BY <1>1, <1>2, <1>3, <1>4 DEF NbInv, RightRssi, InEntering
<1>7. FoundFits' /\ EnteredIsListed'
  BY <1>1 DEF FoundFits, EnteredIsListed
<1>8. NoneYounger'
  <2> SUFFICES ASSUME NEW j \in Slot, neigbour'[j].nodeid # BROADCASTADDR,
                      neigbour'[j].nodeid \notin struck
               PROVE  neigbour'[j].intervalcountpast >= 2 * quiet[neigbour'[j].nodeid]
    BY <1>1 DEF NoneYounger
  <2>1. CASE j = i
    BY <1>3, <1>4, <2>1
  <2>2. CASE j # i
    BY <1>2, <2>2 DEF NbInv, NoneYounger
  <2> QED
    BY <2>1, <2>2
<1>9. ASSUME NEW k \in Neighbour, NEW j \in Slot, Young(j, k)
      PROVE  Young(j, k)'
  <2>1. quiet[k] \in Nat
    BY HeldFacts DEF NbInv, NbShape
  <2>2. CASE j = i
    BY <1>1, <1>3, <1>9, <2>1, <2>2 DEF Young
  <2>3. CASE j # i
    BY <1>1, <1>2, <1>9, <2>3 DEF Young, InEntering
  <2> QED
    BY <2>2, <2>3
<1>10. SomeYoung'
  <2> SUFFICES ASSUME NEW k \in Neighbour \ struck, quiet[k] <= BeingHeld
               PROVE  (\E j \in Slot : Young(j, k)') \/ Outdone(k)'
    BY <1>1 DEF SomeYoung
  <2>1. (\E j \in Slot : Young(j, k)) \/ Outdone(k)
    BY DEF NbInv, SomeYoung
  <2>2. Outdone(k) => Outdone(k)'
    BY <1>1 DEF Outdone, Left
  <2> QED
    BY <1>9, <2>1, <2>2
<1>11. \A j \in Slot : neigbour'[j].nodeid = neigbour[j].nodeid
  BY <1>2, <1>3
<1>12. RefusedByNearer'
  BY <1>1, <1>9, <1>11 DEF NbInv, RefusedByNearer
<1>13. NearerKept'
  BY <1>1, <1>9, <1>11 DEF NbInv, NearerKept
<1> QED
  BY <1>5, <1>6, <1>7, <1>8, <1>10, <1>12, <1>13 DEF NbInv

\* What a round makes of an entry: it is freed, or two steps older.
LEMMA OlderFacts ==
  ASSUME NbShape, NEW j \in Slot, neigbour'[j] = Older(neigbour[j])
  PROVE  /\ neigbour'[j] \in Entry
         /\ \/ neigbour'[j].nodeid = BROADCASTADDR
            \/ /\ neigbour'[j].nodeid = neigbour[j].nodeid
               /\ neigbour'[j].rssi = neigbour[j].rssi
               /\ neigbour'[j].intervalcountpast = neigbour[j].intervalcountpast + 2
               /\ neigbour[j].nodeid # BROADCASTADDR
                    => neigbour[j].intervalcountpast + 1 <= BROADCASTINTERVALPAST_MAX
         /\ (neigbour[j].nodeid # BROADCASTADDR
               /\ neigbour[j].intervalcountpast + 1 <= BROADCASTINTERVALPAST_MAX)
               => neigbour'[j].nodeid = neigbour[j].nodeid
<1> DEFINE e == neigbour[j]
<1>1. e \in Entry /\ e.intervalcountpast \in 0..BROADCASTINTERVALPAST_MAX + 1
  BY DEF NbShape, Entry
<1>2. CASE e.nodeid = BROADCASTADDR
  BY <1>1, <1>2 DEF Older
<1>3. CASE e.nodeid # BROADCASTADDR /\ e.intervalcountpast + 1 > BROADCASTINTERVALPAST_MAX
  <2>1. neigbour'[j] = Free /\ ~(e.intervalcountpast + 1 <= BROADCASTINTERVALPAST_MAX)
    BY <1>1, <1>3, HeldFacts DEF Older
  <2> QED
    BY <2>1, HeldFacts DEF Free, Entry
<1>4. CASE e.nodeid # BROADCASTADDR /\ e.intervalcountpast + 1 <= BROADCASTINTERVALPAST_MAX
  <2>1. neigbour'[j] = [e EXCEPT !.intervalcountpast = e.intervalcountpast + 2]
    BY <1>1, <1>4, HeldFacts DEF Older
  <2>2. e.intervalcountpast + 2 \in 0..BROADCASTINTERVALPAST_MAX + 1
    BY <1>1, <1>4, HeldFacts
  <2> QED
    BY <1>1, <1>4, <2>1, <2>2 DEF Entry
<1> QED
  BY <1>1, <1>2, <1>3, <1>4, HeldFacts

\* A round: the entries grow older as fast as the nodes are silent longer.
LEMMA RoundKeeps ==
  ASSUME NbInv, broadcast_neigbour
  PROVE  NbInv'
<1>1. /\ entering' = entering /\ struck \subseteq struck'
      /\ entering.placed => entering.node \in struck'
      /\ \A j \in Slot : neigbour'[j] = Older(neigbour[j])
      /\ neigbour' = [j \in Slot |-> neigbour'[j]]
  BY DEF broadcast_neigbour
<1>2. \A j \in Slot :
        \/ neigbour'[j].nodeid = BROADCASTADDR
        \/ /\ neigbour'[j].nodeid = neigbour[j].nodeid
           /\ neigbour'[j].rssi = neigbour[j].rssi
           /\ neigbour'[j].intervalcountpast = neigbour[j].intervalcountpast + 2
  BY <1>1, OlderFacts DEF NbInv
<1>3. \A m \in Neighbour :
        /\ quiet[m] \in Nat /\ quiet[m] <= LongQuiet /\ quiet'[m] \in Nat
        /\ quiet'[m] = IF quiet[m] = LongQuiet THEN LongQuiet ELSE quiet[m] + 1
  BY HeldFacts DEF broadcast_neigbour, NbInv, NbShape
<1>4. NbShape'
  <2>1. neigbour' \in [Slot -> Entry]
    BY <1>1, OlderFacts DEF NbInv
  <2>2. quiet' \in [Neighbour -> 0..LongQuiet]
    BY HeldFacts DEF broadcast_neigbour, NbInv, NbShape
  <2>3. struck' \subseteq Neighbour
    BY NearFacts DEF broadcast_neigbour, NbInv, NbShape, NoEntry
  <2> QED
    BY <1>1, <2>1, <2>2, <2>3 DEF NbInv, NbShape
<1>5. RightRssi'
  BY <1>1, <1>2 DEF NbInv, RightRssi, InEntering
<1>6. FoundFits'
  <2> SUFFICES ASSUME entering # NoEntry, ~entering.placed PROVE FoundFits'
    BY <1>1 DEF FoundFits
  <2>1. entering.slot \in Slot
    BY DEF NbInv, NbShape
  <2>2. CASE neigbour'[entering.slot].nodeid = BROADCASTADDR
    BY <1>1, <2>2 DEF FoundFits, Fits
  <2>3. CASE neigbour'[entering.slot].nodeid # BROADCASTADDR
    <3> DEFINE w == neigbour[entering.slot].nodeid
    <3>1. neigbour'[entering.slot].nodeid = w /\ w \in Neighbour
      BY <1>2, <2>1, <2>3 DEF NbInv, NbShape, Entry
    <3>2. CASE Fits(entering.slot, entering.node)
      BY <1>1, <3>1, <3>2 DEF FoundFits, Fits
    <3>3. CASE rssi[w] > rssi[entering.node] /\ IsWorst(w)
      <4>1. quiet'[w] # 0
        BY <1>3, <3>1, HeldFacts
      <4>2. IsWorst(w)'
        BY <1>1, <1>2, <3>1, <3>3, <4>1 DEF IsWorst
      <4> QED
        BY <1>1, <3>1, <3>3, <4>2 DEF FoundFits, IsWorst
    <3> QED
      BY <3>2, <3>3 DEF NbInv, FoundFits
  <2> QED
    BY <2>2, <2>3
<1>7. EnteredIsListed'
  <2> SUFFICES ASSUME entering.placed PROVE EnteredIsListed'
    BY <1>1 DEF EnteredIsListed
  <2>1. entering.slot \in Slot
    BY DEF NbInv, NbShape, NoEntry
  <2>2. neigbour[entering.slot].nodeid \in {entering.node, BROADCASTADDR}
    BY DEF NbInv, EnteredIsListed
  <2> QED
    BY <1>1, <1>2, <2>1, <2>2 DEF EnteredIsListed
<1>8. NoneYounger'
  <2> SUFFICES ASSUME NEW j \in Slot, NEW k, k = neigbour'[j].nodeid,
                      k # BROADCASTADDR, k \notin struck'
               PROVE  neigbour'[j].intervalcountpast >= 2 * quiet'[k]
    BY DEF NoneYounger
  <2>1. /\ neigbour[j].nodeid = k /\ k \notin struck
        /\ neigbour'[j].intervalcountpast = neigbour[j].intervalcountpast + 2
    BY <1>1, <1>2
  <2>2. /\ k \in Neighbour /\ neigbour[j].intervalcountpast \in Nat
        /\ neigbour[j].intervalcountpast >= 2 * quiet[k]
    BY <2>1, HeldFacts DEF NbInv, NbShape, Entry, NoneYounger
  <2> QED
    BY <1>3, <2>1, <2>2, HeldFacts
<1>9. ASSUME NEW j \in Slot, NEW k \in Neighbour, k \notin struck', Young(j, k),
             quiet'[k] = quiet[k] + 1, 2 * quiet[k] + 1 <= BROADCASTINTERVALPAST_MAX
      PROVE  Young(j, k)'
  <2>1. neigbour[j].nodeid = k /\ k # BROADCASTADDR
    BY <1>9, NearFacts DEF Young
  <2>2. ~InEntering(j)
    BY <1>1, <1>9, <2>1 DEF InEntering, NbInv, EnteredIsListed
  <2>3. /\ neigbour[j].intervalcountpast <= 2 * quiet[k]
        /\ neigbour[j].intervalcountpast \in Nat
    BY <1>9, <2>2, HeldFacts DEF Young, NbInv, NbShape, Entry
  <2>4. neigbour[j].intervalcountpast + 1 <= BROADCASTINTERVALPAST_MAX
    BY <1>3, <1>9, <2>3, HeldFacts
  <2>5. neigbour'[j].nodeid = k
    BY <1>1, <2>1, <2>4, OlderFacts DEF NbInv
  <2>6. neigbour'[j].intervalcountpast = neigbour[j].intervalcountpast + 2
    BY <1>2, <2>1, <2>5
  <2> QED
    BY <1>3, <1>9, <2>3, <2>5, <2>6 DEF Young
<1>10. SomeYoung'
  <2> SUFFICES ASSUME NEW k \in Neighbour, k \notin struck', quiet'[k] <= BeingHeld
               PROVE  (\E j \in Slot : Young(j, k)') \/ Outdone(k)'
    BY DEF SomeYoung
  <2>1. quiet'[k] = quiet[k] + 1 /\ quiet[k] + 1 <= BeingHeld
    BY <1>3, HeldFacts
  <2>2. k \notin struck /\ ((\E j \in Slot : Young(j, k)) \/ Outdone(k))
    BY <1>1, <1>3, <2>1, HeldFacts DEF NbInv, SomeYoung
  <2>3. 2 * quiet[k] + 1 <= BROADCASTINTERVALPAST_MAX
    BY <1>3, <2>1, HeldFacts
  <2>4. ASSUME Outdone(k)
        PROVE  Outdone(k)'
    <3>1. PICK m \in Neighbour : rssi[m] < rssi[k] /\ ~Left(m, quiet[k])
      BY <2>4 DEF Outdone
    <3>2. ~(m \notin struck' /\ quiet'[m] > BeingHeld + quiet'[k])
      BY <1>1, <1>3, <2>1, <3>1, HeldFacts DEF Left
    <3> QED
      BY <3>1, <3>2 DEF Outdone, Left
  <2> QED
    BY <1>9, <2>1, <2>2, <2>3, <2>4
<1>11. RefusedByNearer'
  BY <1>3, HeldFacts DEF RefusedByNearer
<1>12. NearerKept'
  <2> SUFFICES ASSUME NEW i \in Slot, NEW n \in Neighbour, n \notin struck',
                      NEW m, m = neigbour'[i].nodeid, m # BROADCASTADDR,
                      m \notin struck', rssi[n] < rssi[m], quiet'[n] <= quiet'[m]
               PROVE  \E j \in Slot : Young(j, n)'
    BY DEF NearerKept
  <2>1. /\ neigbour[i].nodeid = m /\ m \notin struck /\ n \notin struck
        /\ neigbour[i].intervalcountpast + 1 <= BROADCASTINTERVALPAST_MAX
    BY <1>1, OlderFacts DEF NbInv
  <2>2. /\ m \in Neighbour /\ neigbour[i].intervalcountpast \in Nat
        /\ neigbour[i].intervalcountpast >= 2 * quiet[m]
    BY <2>1, HeldFacts DEF NbInv, NbShape, Entry, NoneYounger
  <2>3. 2 * quiet[m] + 1 <= BROADCASTINTERVALPAST_MAX
    BY <1>3, <2>1, <2>2, HeldFacts
  <2>4. quiet[m] # LongQuiet /\ quiet'[m] = quiet[m] + 1
    BY <1>3, <2>2, <2>3, HeldFacts
  <2>5. quiet[n] # LongQuiet
    BY <1>3, <2>2, <2>3, <2>4, HeldFacts
  <2>6. quiet'[n] = quiet[n] + 1 /\ quiet[n] <= quiet[m]
    BY <1>3, <2>2, <2>4, <2>5
  <2>7. 2 * quiet[n] + 1 <= BROADCASTINTERVALPAST_MAX
    BY <1>3, <2>2, <2>3, <2>6, HeldFacts
  <2>8. PICK j \in Slot : Young(j, n)
    BY <2>1, <2>6 DEF NbInv, NearerKept
  <2> QED
    BY <1>9, <2>6, <2>7, <2>8
<1> QED
  BY <1>4, <1>5, <1>6, <1>7, <1>8, <1>10, <1>11, <1>12 DEF NbInv
-----------------------------------------------------------------------------

\* The nodes in range are neighbours; which they are never changes.
Ranged == setting \in Setting

\* A step of the table's own, or none: every other step leaves the table alone.
LEMMA NbSteps ==
  ASSUME Ranged, [Next]_vars
  PROVE  /\ Ranged'
         /\ \/ \E n \in Neighbour : Hear(n)
            \/ Place \/ FinishHearing \/ broadcast_neigbour \/ ForgetNeighbours
            \/ UNCHANGED nbvars
<1>1. CASE Start \/ Computer \/ Poll \/ Return \/ Read \/ Save
  BY <1>1 DEF Start, Computer, Poll, Return, Read, Save, sinkvars, Ranged
<1>2. CASE \E m \in Message : package_recieve(m)
  BY <1>2 DEF package_recieve, Ranged
<1>3. CASE Enter
  BY <1>3, SinkAssumption DEF Enter, sinkvars, Ranged
<1>4. CASE Interrupt
  BY <1>4 DEF Interrupt, sinkvars, Ranged
<1>5. CASE Reset
  BY <1>5 DEF Reset, Ranged
<1>6. CASE UNCHANGED vars
  BY <1>6 DEF vars, sinkvars, Ranged
<1> QED
  BY <1>1, <1>2, <1>3, <1>4, <1>5, <1>6 DEF Next

\* Every step of the sink keeps the table right.
LEMMA NbKept == Ranged /\ NbInv /\ [Next]_vars => Ranged' /\ NbInv'
<1> SUFFICES ASSUME Ranged, NbInv, [Next]_vars PROVE Ranged' /\ NbInv'
  OBVIOUS
<1>1. ASSUME NEW n \in Neighbour, Hear(n)
      PROVE  NbInv'
  BY <1>1, FoundKeeps, RefusedKeeps DEF Hear
<1>2. ASSUME UNCHANGED nbvars
      PROVE  NbInv'
  BY <1>2 DEF nbvars, NbInv, NbShape, RightRssi, FoundFits, EnteredIsListed,
              NoneYounger, SomeYoung, RefusedByNearer, NearerKept, IsWorst, Young,
              Outdone, Left, InEntering, Fits
<1> QED
  BY <1>1, <1>2, NbSteps, PlaceKeeps, FinishKeeps, RoundKeeps, NbForgets

(* The entries are as old as their nodes are silent, in every state: what       *)
(* handlerfrx and broadcast_neigbour keep true between them.                    *)
THEOREM NbInvariant == Spec => []NbInv
<1>1. Init => Ranged /\ NbInv
  BY NbStarts DEF Init, Ranged
<1> QED
  BY <1>1, NbKept, PTL DEF Spec

(* The table holds no node that was silent for more than the count, and with    *)
(* one it holds every node heard as lately, unless a nearer one could be in its  *)
(* place, and every nearer one in any case.                                     *)
THEOREM NeighboursAreHeard == Spec => []NeighboursHeard
PROOF BY NbInvariant, NbInvImplies, PTL
=============================================================================
