------------------------ MODULE ContikiProcessProof ------------------------
(***************************************************************************)
(* Proofs about the kernel of ContikiProcess, for any number of processes,  *)
(* any order of starting, any size of the event queue and any number of     *)
(* calls inside calls.                                                      *)
(***************************************************************************)
EXTENDS ContikiProcess, SequenceTheorems, FiniteSetTheorems, WellFoundedInduction, TLAPS

(* What the proofs use of the constants.                                     *)
LEMMA Constants ==
  /\ IsFiniteSet(Process) /\ NULL \notin Process /\ HEAD \notin Process /\ NULL # HEAD
  /\ NUMEVENTS \in Nat /\ NUMEVENTS >= 1 /\ NUMEVENTS <= 128 /\ MaxCalls \in Nat /\ Polled \subseteq Process
  /\ \A e \in Posted : /\ e.ev \in {"MSG", "EXIT"} /\ e.p \in Process \cup {NULL}
                       /\ e = [ev |-> e.ev, p |-> e.p]
BY ProcessAssumption
-----------------------------------------------------------------------------
(* The list of processes.                                                    *)

\* What Listed is of other links.
ListOf(links) ==
  LET Nth[n \in 0..Cardinality(Process)] ==
        IF n = 0 THEN links[HEAD]
        ELSE LET p == Nth[n - 1] IN IF p = NULL THEN NULL ELSE links[p]
  IN  {Nth[n] : n \in DOMAIN Nth} \ {NULL}

\* The links are those of a list without repetitions that ends.
IsChain(list, links) ==
  /\ list \in Seq(Process)
  /\ \A i, j \in 1..Len(list) : list[i] = list[j] => i = j
  /\ links[HEAD] = IF Len(list) = 0 THEN NULL ELSE list[1]
  /\ \A i \in 1..Len(list) : links[list[i]] = IF i = Len(list) THEN NULL ELSE list[i + 1]

Members(list) == {list[i] : i \in 1..Len(list)}
Links == [Process \cup {HEAD} -> Process \cup {NULL}]

(* Sets of numbers have a least element.                                     *)
LEMMA LeastNumber ==
  ASSUME NEW I \in SUBSET Nat, I # {}
  PROVE  \E x \in I : \A y \in I : x <= y
<1> DEFINE R == {ss \in Nat \X Nat : ss[1] < ss[2]}
<1>1. IsWellFoundedOn(R, Nat)
  BY NatLessThanWellFounded DEF OpToRel
<1>2. \A x, y \in Nat : y < x => <<y, x>> \in R
  OBVIOUS
<1> HIDE DEF R
<1>3. PICK x \in I : \A y \in I : ~(<<y, x>> \in R)
  BY <1>1, WFMin, Zenon
<1>4. ASSUME NEW y \in I PROVE x <= y
  <2>1. x \in Nat /\ y \in Nat
    OBVIOUS
  <2>2. ~(y < x)
    BY <1>2, <1>3, <2>1, Zenon
  <2> QED
    BY <2>1, <2>2
<1> QED
  BY <1>4

(* A list of processes is no longer than there are processes.                *)
LEMMA ChainLength ==
  ASSUME NEW links, NEW list, IsChain(list, links)
  PROVE  /\ Len(list) \in Nat /\ Cardinality(Process) \in Nat
         /\ Len(list) <= Cardinality(Process)
<1>1. list \in [1..Len(list) -> Process] /\ Len(list) \in Nat
  BY LenProperties DEF IsChain
<1>2. list \in Injection(1..Len(list), Process)
  BY <1>1, Zenon DEF IsChain, Injection, IsInjective
<1>3. Cardinality(1..Len(list)) <= Cardinality(Process)
  BY <1>2, Constants, FS_Injection
<1>4. Cardinality(1..Len(list)) = Len(list)
  <2>1. 1 \in Int /\ Len(list) \in Int
    BY <1>1
  <2>2. Cardinality(1..Len(list)) = IF 1 > Len(list) THEN 0 ELSE Len(list) - 1 + 1
    BY <2>1, FS_Interval
  <2> QED
    BY <1>1, <2>2
<1>5. Cardinality(Process) \in Nat
  BY Constants, FS_CardinalityType
<1> QED
  BY <1>1, <1>3, <1>4, <1>5

(* process_list and the links from it name the members of the list.          *)
LEMMA ListOfChain ==
  ASSUME NEW links, NEW list, IsChain(list, links)
  PROVE  ListOf(links) = Members(list)
<1> DEFINE C == Cardinality(Process)
           Good(f) == f = [n \in 0..C |-> IF n = 0 THEN links[HEAD]
                                          ELSE IF f[n - 1] = NULL THEN NULL
                                               ELSE links[f[n - 1]]]
           w == [n \in 0..C |-> IF n < Len(list) THEN list[n + 1] ELSE NULL]
           nth[n \in 0..C] == IF n = 0 THEN links[HEAD]
                              ELSE LET p == nth[n - 1]
                                   IN  IF p = NULL THEN NULL ELSE links[p]
<1>1. Len(list) \in Nat /\ C \in Nat /\ Len(list) <= C
  BY ChainLength
<1>2. \A i \in 1..Len(list) : list[i] \in Process /\ list[i] # NULL
  BY Constants, ElementOfSeq DEF IsChain
<1>3. ASSUME NEW n \in 0..C
      PROVE  w[n] = IF n = 0 THEN links[HEAD]
                    ELSE IF w[n - 1] = NULL THEN NULL ELSE links[w[n - 1]]
  <2>1. CASE n = 0
    BY <1>1, <2>1 DEF IsChain
  <2>2. CASE n > 0
    <3>1. n - 1 \in 0..C /\ w[n - 1] = IF n - 1 < Len(list) THEN list[n] ELSE NULL
      BY <1>1, <2>2
    <3>2. CASE n - 1 < Len(list)
      <4>1. n \in 1..Len(list)
        BY <1>1, <2>2, <3>2
      <4>2. links[list[n]] = IF n = Len(list) THEN NULL ELSE list[n + 1]
        BY <4>1 DEF IsChain
      <4>3. w[n - 1] = list[n] /\ list[n] # NULL
        BY <1>2, <3>1, <3>2, <4>1
      <4>4. w[n] = IF n < Len(list) THEN list[n + 1] ELSE NULL
        OBVIOUS
      <4> QED
        BY <1>1, <2>2, <4>1, <4>2, <4>3, <4>4
    <3>3. CASE ~(n - 1 < Len(list))
      BY <1>1, <2>2, <3>1, <3>3
    <3> QED
      BY <3>2, <3>3
  <2> QED
    BY <1>1, <2>1, <2>2
<1>4. Good(w)
  BY <1>3
<1>5. Good(nth)
  <2>1. \E f : Good(f)
    BY <1>4
  <2> QED
    BY <2>1
<1>6. ListOf(links) = {nth[n] : n \in 0..C} \ {NULL}
  <2>1. DOMAIN nth = 0..C
    BY <1>5
  <2> QED
    BY <2>1 DEF ListOf
<1> HIDE DEF nth, w
<1>7. \A n \in 0..C : nth[n] = w[n]
  <2> DEFINE I == {n \in 0..C : nth[n] # w[n]}
  <2> SUFFICES ASSUME I # {} PROVE FALSE
    OBVIOUS
  <2>0. I \in SUBSET Nat
    BY <1>1
  <2>1. PICK n \in I : \A m \in I : n <= m
    <3> HIDE DEF I
    <3> QED
      BY <2>0, LeastNumber
  <2>2. nth[n] = IF n = 0 THEN links[HEAD]
                 ELSE IF nth[n - 1] = NULL THEN NULL ELSE links[nth[n - 1]]
    BY <1>5
  <2>3. w[n] = IF n = 0 THEN links[HEAD]
               ELSE IF w[n - 1] = NULL THEN NULL ELSE links[w[n - 1]]
    BY <1>3
  <2>4. n # 0 => nth[n - 1] = w[n - 1]
    <3>1. n # 0 => n - 1 \in 0..C /\ ~(n <= n - 1)
      BY <1>1
    <3> QED
      BY <2>1, <3>1
  <2> QED
    BY <2>2, <2>3, <2>4
<1>8. ListOf(links) = {w[n] : n \in 0..C} \ {NULL}
  BY <1>6, <1>7
<1>9. ASSUME NEW q \in Members(list) PROVE \E n \in 0..C : w[n] = q /\ q # NULL
  <2>1. PICK i \in 1..Len(list) : q = list[i]
    BY DEF Members
  <2>2. i - 1 \in 0..C /\ i - 1 < Len(list) /\ (i - 1) + 1 = i
    BY <1>1
  <2>3. w[i - 1] = list[i]
    BY <2>2 DEF w
  <2> QED
    BY <1>2, <2>1, <2>2, <2>3
<1>10. ASSUME NEW n \in 0..C, w[n] # NULL PROVE w[n] \in Members(list)
  <2>1. n < Len(list) /\ w[n] = list[n + 1]
    BY <1>10 DEF w
  <2>2. n + 1 \in 1..Len(list)
    BY <1>1, <2>1
  <2> QED
    BY <2>1, <2>2 DEF Members
<1> QED
  BY <1>8, <1>9, <1>10

HasChain(links) == \E list : IsChain(list, links)

(* A link of the list, or the first one, leads to the list or ends it.       *)
LEMMA ListClosed ==
  ASSUME NEW links, HasChain(links)
  PROVE  /\ ListOf(links) \subseteq Process
         /\ \A q \in ListOf(links) \cup {HEAD} : links[q] \in ListOf(links) \cup {NULL}
<1>1. PICK list : IsChain(list, links)
  BY DEF HasChain
<1>2. ListOf(links) = Members(list)
  BY <1>1, ListOfChain
<1>3. Len(list) \in Nat /\ \A i \in 1..Len(list) : list[i] \in Process
  BY <1>1, LenProperties, ElementOfSeq DEF IsChain
<1>4. links[HEAD] \in Members(list) \cup {NULL}
  <2>1. links[HEAD] = IF Len(list) = 0 THEN NULL ELSE list[1]
    BY <1>1 DEF IsChain
  <2>2. Len(list) # 0 => 1 \in 1..Len(list)
    BY <1>3
  <2> QED
    BY <2>1, <2>2 DEF Members
<1>5. ASSUME NEW i \in 1..Len(list) PROVE links[list[i]] \in Members(list) \cup {NULL}
  <2>1. links[list[i]] = IF i = Len(list) THEN NULL ELSE list[i + 1]
    BY <1>1 DEF IsChain
  <2>2. i # Len(list) => i + 1 \in 1..Len(list)
    BY <1>3
  <2> QED
    BY <2>1, <2>2 DEF Members
<1> QED
  BY <1>2, <1>3, <1>4, <1>5 DEF Members

Closed(S, links) == \A y \in S : links[y] = NULL \/ links[y] \in S

\* Following links from x one comes to q: every set that has x and the link of
\* each of its members has q.
Reaches(links, x, q) ==
  \A S \in SUBSET (Process \cup {HEAD}) : x \in S /\ Closed(S, links) => q \in S

(* From process_list one comes to everything on the list.                    *)
LEMMA ListReached ==
  ASSUME NEW links, HasChain(links), NEW q \in ListOf(links)
  PROVE  Reaches(links, HEAD, q)
<1>1. PICK list : IsChain(list, links)
  BY DEF HasChain
<1>2. Len(list) \in Nat /\ \A i \in 1..Len(list) : list[i] \in Process
  BY <1>1, LenProperties, ElementOfSeq DEF IsChain
<1>3. PICK k \in 1..Len(list) : q = list[k]
  BY <1>1, ListOfChain DEF Members
<1> SUFFICES ASSUME NEW S \in SUBSET (Process \cup {HEAD}), HEAD \in S, Closed(S, links),
                    q \notin S
             PROVE  FALSE
  BY DEF Reaches
<1> DEFINE I == {i \in 1..Len(list) : list[i] \notin S}
<1>4. I \in SUBSET Nat /\ I # {}
  BY <1>2, <1>3
<1>5. PICK i \in I : \A j \in I : i <= j
  <2> HIDE DEF I
  <2> QED
    BY <1>4, LeastNumber
<1>6. CASE i = 1
  <2>1. links[HEAD] = list[1]
    BY <1>1, <1>2, <1>3 DEF IsChain
  <2> QED
    BY <1>2, <1>5, <1>6, <2>1, Constants DEF Closed
<1>7. CASE i # 1
  <2>1. i - 1 \in 1..Len(list) /\ ~(i <= i - 1) /\ (i - 1) + 1 = i /\ i - 1 # Len(list)
    BY <1>2, <1>5, <1>7
  <2>2. list[i - 1] \in S
    BY <1>5, <2>1
  <2>3. links[list[i - 1]] = list[i]
    BY <1>1, <2>1 DEF IsChain
  <2>4. list[i] \in Process
    BY <1>2
  <2> QED
    BY <1>5, <2>2, <2>3, <2>4, Constants DEF Closed
<1> QED
  BY <1>6, <1>7

(* process_start puts a process that is not listed in front.                 *)
LEMMA StartChain ==
  ASSUME NEW links \in Links, HasChain(links), NEW p \in Process, p \notin ListOf(links),
         NEW new, new = [links EXCEPT ![p] = links[HEAD], ![HEAD] = p]
  PROVE  new \in Links /\ HasChain(new) /\ ListOf(new) = ListOf(links) \cup {p}
<1>1. PICK list : IsChain(list, links)
  BY DEF HasChain
<1>2. ListOf(links) = Members(list)
  BY <1>1, ListOfChain
<1>3. /\ list \in Seq(Process) /\ Len(list) \in Nat
      /\ \A i \in 1..Len(list) : list[i] \in Process /\ list[i] # p /\ list[i] # HEAD
  BY <1>1, <1>2, LenProperties, ElementOfSeq, Constants DEF IsChain, Members
<1>4. /\ new \in Links /\ new[HEAD] = p /\ new[p] = links[HEAD]
      /\ \A q \in Process : q # p => new[q] = links[q]
  BY Constants DEF Links
<1> DEFINE r == <<p>> \o list
<1>5. /\ r \in Seq(Process) /\ Len(r) = Len(list) + 1 /\ r[1] = p
      /\ \A i \in 1..Len(list) : r[i + 1] = list[i]
      /\ \A i \in 2..Len(r) : i - 1 \in 1..Len(list) /\ r[i] = list[i - 1]
  <2>1. <<p>> \in Seq(Process) /\ Len(<<p>>) = 1 /\ <<p>>[1] = p
    OBVIOUS
  <2>2. /\ r \in Seq(Process) /\ Len(r) = 1 + Len(list)
        /\ \A i \in 1..(1 + Len(list)) : r[i] = IF i <= 1 THEN <<p>>[i] ELSE list[i - 1]
    BY <1>3, <2>1, ConcatProperties
  <2> HIDE DEF r
  <2> QED
    BY <1>3, <2>1, <2>2
<1> HIDE DEF r
<1>6. IsChain(r, new)
  <2>1. ASSUME NEW i \in 1..Len(r), NEW j \in 1..Len(r), r[i] = r[j] PROVE i = j
    <3>1. \A k \in 1..Len(r) : k = 1 \/ k \in 2..Len(r)
      BY <1>3, <1>5
    <3>2. \A k \in 2..Len(r) : r[k] # p
      <4> TAKE k \in 2..Len(r)
      <4>1. k - 1 \in 1..Len(list) /\ r[k] = list[k - 1]
        BY <1>5
      <4> QED
        BY <1>3, <4>1
    <3>3. CASE i \in 2..Len(r) /\ j \in 2..Len(r)
      <4>1. i - 1 = j - 1
        BY <1>1, <1>5, <2>1, <3>3 DEF IsChain
      <4> QED
        BY <3>3, <4>1
    <3> QED
      BY <1>5, <2>1, <3>1, <3>2, <3>3
  <2>2. ASSUME NEW i \in 1..Len(r)
        PROVE  new[r[i]] = IF i = Len(r) THEN NULL ELSE r[i + 1]
    <3>1. CASE i = 1
      <4>1. new[r[i]] = IF Len(list) = 0 THEN NULL ELSE list[1]
        BY <1>1, <1>4, <1>5, <3>1 DEF IsChain
      <4>2. Len(list) # 0 => 1 \in 1..Len(list)
        BY <1>3
      <4> QED
        BY <1>3, <1>5, <3>1, <4>1, <4>2
    <3>2. CASE i \in 2..Len(r)
      <4>1. /\ i - 1 \in 1..Len(list) /\ r[i] = list[i - 1]
            /\ new[list[i - 1]] = links[list[i - 1]]
        BY <1>3, <1>4, <1>5, <3>2
      <4>2. links[list[i - 1]] = IF i - 1 = Len(list) THEN NULL ELSE list[(i - 1) + 1]
        BY <1>1, <4>1 DEF IsChain
      <4>3. (i - 1 = Len(list) <=> i = Len(r)) /\ (i - 1) + 1 = i
        BY <1>3, <1>5
      <4>4. i # Len(r) => i \in 1..Len(list) /\ r[i + 1] = list[i]
        BY <1>3, <1>5, <3>2
      <4> QED
        BY <4>1, <4>2, <4>3, <4>4
    <3> QED
      BY <1>3, <1>5, <3>1, <3>2
  <2>3. new[HEAD] = IF Len(r) = 0 THEN NULL ELSE r[1]
    BY <1>3, <1>4, <1>5
  <2> QED
    BY <1>5, <2>1, <2>2, <2>3 DEF IsChain
<1>7. ListOf(new) = Members(r)
  BY <1>6, ListOfChain
<1>8. Members(r) = Members(list) \cup {p}
  <2>1. \A i \in 1..Len(r) : i = 1 \/ i \in 2..Len(r)
    BY <1>3, <1>5
  <2>2. ASSUME NEW x \in Members(r) PROVE x \in Members(list) \cup {p}
    BY <1>5, <2>1 DEF Members
  <2>3. ASSUME NEW x \in Members(list) PROVE x \in Members(r)
    <3>1. PICK i \in 1..Len(list) : x = list[i]
      BY DEF Members
    <3>2. i + 1 \in 1..Len(r) /\ r[i + 1] = x
      BY <1>3, <1>5, <3>1
    <3> QED
      BY <3>2 DEF Members
  <2>4. p \in Members(r)
    <3>1. 1 \in 1..Len(r)
      BY <1>3, <1>5
    <3> QED
      BY <1>5, <3>1 DEF Members
  <2> QED
    BY <2>2, <2>3, <2>4
<1> QED
  BY <1>2, <1>4, <1>6, <1>7, <1>8 DEF HasChain

\* The links after p has been taken off the list.
Without(links, p) ==
  [q \in DOMAIN links |-> IF q \in ListOf(links) \cup {HEAD} /\ links[q] = p
                          THEN links[p] ELSE links[q]]

(* exit_process takes a process off the list, if it is there, and leaves the  *)
(* others in their order.                                                     *)
LEMMA UnlinkChain ==
  ASSUME NEW links \in Links, HasChain(links), NEW p \in Process
  PROVE  /\ Without(links, p) \in Links /\ HasChain(Without(links, p))
         /\ ListOf(Without(links, p)) = ListOf(links) \ {p}
<1> DEFINE new == Without(links, p)
<1>1. PICK list : IsChain(list, links)
  BY DEF HasChain
<1>2. ListOf(links) = Members(list)
  BY <1>1, ListOfChain
<1>3. /\ list \in Seq(Process) /\ Len(list) \in Nat
      /\ \A i \in 1..Len(list) : list[i] \in Process /\ list[i] # HEAD
  BY <1>1, LenProperties, ElementOfSeq, Constants DEF IsChain
<1>4. new \in Links
  BY DEF Without, Links
<1>5. \A q \in ListOf(links) \cup {HEAD} : new[q] = IF links[q] = p THEN links[p] ELSE links[q]
  <2>1. ListOf(links) \cup {HEAD} \subseteq Process \cup {HEAD}
    BY ListClosed
  <2> QED
    BY <2>1 DEF Without, Links
<1>6. CASE p \notin ListOf(links)
  <2>1. \A q \in ListOf(links) \cup {HEAD} : links[q] # p
    BY <1>6, ListClosed, Constants
  <2>2. new = links
    BY <2>1 DEF Without, Links
  <2> QED
    BY <1>6, <2>2
<1>7. CASE p \in ListOf(links)
  <2>1. PICK k \in 1..Len(list) : list[k] = p
    BY <1>2, <1>7 DEF Members
  <2> DEFINE r == [i \in 1..(Len(list) - 1) |-> IF i < k THEN list[i] ELSE list[i + 1]]
  <2>2. \A i \in 1..(Len(list) - 1) : i \in 1..Len(list) /\ i + 1 \in 1..Len(list)
    BY <1>3
  <2>3. r \in Seq(Process) /\ Len(r) = Len(list) - 1
    <3>1. Len(list) - 1 \in Nat
      BY <1>3, <2>1
    <3>2. r \in [1..(Len(list) - 1) -> Process]
      BY <1>3, <2>2
    <3> HIDE DEF r
    <3> QED
      BY <3>1, <3>2, SeqDef, LenProperties
  <2>4. \A i \in 1..(Len(list) - 1) : r[i] = IF i < k THEN list[i] ELSE list[i + 1]
    OBVIOUS
  <2> HIDE DEF r
  <2>5. \A i \in 1..Len(list) : links[list[i]] = IF i = Len(list) THEN NULL ELSE list[i + 1]
    BY <1>1 DEF IsChain
  <2>6. \A i, j \in 1..Len(list) : list[i] = list[j] => i = j
    BY <1>1 DEF IsChain
  <2>7. links[p] = IF k = Len(list) THEN NULL ELSE list[k + 1]
    BY <2>1, <2>5
  <2>8. ASSUME NEW i \in 1..Len(list)
        PROVE  new[list[i]] = IF i + 1 = k THEN links[p] ELSE links[list[i]]
    <3>1. list[i] \in ListOf(links)
      BY <1>2 DEF Members
    <3>2. i + 1 = k => links[list[i]] = p
      BY <1>3, <2>1, <2>5
    <3>3. i + 1 # k => links[list[i]] # p
      <4>1. i # Len(list) => i + 1 \in 1..Len(list)
        BY <1>3
      <4> QED
        BY <2>1, <2>5, <2>6, <4>1, Constants
    <3> QED
      BY <1>5, <3>1, <3>2, <3>3
  <2>9. \A i, j \in 1..Len(r) : r[i] = r[j] => i = j
    <3> TAKE i \in 1..Len(r), j \in 1..Len(r)
    <3> HAVE r[i] = r[j]
    <3>1. i \in 1..(Len(list) - 1) /\ j \in 1..(Len(list) - 1)
      BY <2>3
    <3>2. (IF i < k THEN i ELSE i + 1) = IF j < k THEN j ELSE j + 1
      <4>1. r[i] = list[IF i < k THEN i ELSE i + 1]
        BY <2>4, <3>1
      <4>2. r[j] = list[IF j < k THEN j ELSE j + 1]
        BY <2>4, <3>1
      <4>3. (IF i < k THEN i ELSE i + 1) \in 1..Len(list)
        BY <2>2, <3>1
      <4>4. (IF j < k THEN j ELSE j + 1) \in 1..Len(list)
        BY <2>2, <3>1
      <4> QED
        BY <2>6, <4>1, <4>2, <4>3, <4>4
    <3> QED
      BY <2>1, <3>1, <3>2
  <2>10. new[HEAD] = IF Len(r) = 0 THEN NULL ELSE r[1]
    <3>1. links[HEAD] = list[1] /\ 1 \in 1..Len(list)
      BY <1>1, <1>3, <2>1 DEF IsChain
    <3>2. new[HEAD] = IF list[1] = p THEN links[p] ELSE list[1]
      BY <1>5, <3>1
    <3>3. CASE k = 1
      <4>1. new[HEAD] = IF Len(list) = 1 THEN NULL ELSE list[2]
        BY <2>1, <2>7, <3>2, <3>3
      <4>2. Len(list) # 1 => r[1] = list[2]
        <5>1. Len(list) >= 1 /\ Len(list) \in Nat
          BY <1>3, <3>1
        <5>2. Len(list) # 1 => 1 \in 1..(Len(list) - 1)
          <6>1. \A m \in Nat : m >= 1 /\ m # 1 => 1 \in 1..(m - 1)
            OBVIOUS
          <6> QED
            BY <5>1, <6>1
        <5>3. ~(1 < k)
          BY <3>3
        <5> QED
          BY <2>4, <5>2, <5>3
      <4> QED
        BY <1>3, <2>3, <4>1, <4>2
    <3>4. CASE k # 1
      <4>1. list[1] # p
        BY <2>1, <2>6, <3>1, <3>4
      <4>2. 1 \in 1..(Len(list) - 1) /\ 1 < k
        BY <1>3, <2>1, <3>4
      <4> QED
        BY <2>3, <2>4, <3>2, <4>1, <4>2
    <3> QED
      BY <3>3, <3>4
  <2>11. ASSUME NEW i \in 1..Len(r)
         PROVE  new[r[i]] = IF i = Len(r) THEN NULL ELSE r[i + 1]
    <3>1. /\ i \in 1..(Len(list) - 1) /\ i \in 1..Len(list) /\ i + 1 \in 1..Len(list)
          /\ (i = Len(r) <=> i + 1 = Len(list))
      BY <1>3, <2>3
    <3>2. i # Len(r) => /\ i + 1 \in 1..(Len(list) - 1)
                        /\ r[i + 1] = IF i + 1 < k THEN list[i + 1] ELSE list[(i + 1) + 1]
      <4>1. i # Len(r) => i + 1 \in 1..(Len(list) - 1)
        BY <1>3, <2>3
      <4> QED
        BY <2>4, <4>1
    <3>3. CASE i < k
      <4>1. r[i] = list[i] /\ new[list[i]] = IF i + 1 = k THEN links[p] ELSE links[list[i]]
        BY <2>4, <2>8, <3>1, <3>3
      <4>2. CASE i + 1 = k
        BY <2>7, <3>1, <3>2, <4>1, <4>2
      <4>3. CASE i + 1 # k
        <5>1. i + 1 < k /\ i # Len(list) /\ i # Len(r)
          BY <1>3, <2>1, <3>1, <3>3, <4>3
        <5> QED
          BY <2>5, <3>1, <3>2, <4>1, <4>3, <5>1
      <4> QED
        BY <4>2, <4>3
    <3>4. CASE ~(i < k)
      <4>1. /\ r[i] = list[i + 1] /\ (i + 1) + 1 # k /\ ~(i + 1 < k)
            /\ new[list[i + 1]] = links[list[i + 1]]
        BY <2>1, <2>4, <2>8, <3>1, <3>4
      <4>2. links[list[i + 1]] = IF i + 1 = Len(list) THEN NULL ELSE list[(i + 1) + 1]
        BY <2>5, <3>1
      <4> QED
        BY <3>1, <3>2, <4>1, <4>2
    <3> QED
      BY <3>3, <3>4
  <2>12. IsChain(r, new)
    BY <2>3, <2>9, <2>10, <2>11 DEF IsChain
  <2>13. ListOf(new) = Members(r)
    BY <2>12, ListOfChain
  <2>14. ASSUME NEW x \in Members(r) PROVE x \in Members(list) \ {p}
    <3>1. PICK i \in 1..(Len(list) - 1) : x = r[i]
      BY <2>3 DEF Members
    <3>2. CASE i < k
      BY <2>1, <2>2, <2>4, <2>6, <3>1, <3>2 DEF Members
    <3>3. CASE ~(i < k)
      <4>1. i + 1 \in 1..Len(list) /\ i + 1 # k /\ x = list[i + 1]
        BY <2>1, <2>2, <2>4, <3>1, <3>3
      <4> QED
        BY <2>1, <2>6, <4>1 DEF Members
    <3> QED
      BY <3>2, <3>3
  <2>15. ASSUME NEW x \in Members(list) \ {p} PROVE x \in Members(r)
    <3>1. PICK j \in 1..Len(list) : x = list[j]
      BY DEF Members
    <3>2. j # k
      BY <2>1, <3>1
    <3>3. CASE j < k
      <4>1. j \in 1..(Len(list) - 1) /\ r[j] = list[j]
        BY <1>3, <2>1, <2>4, <3>3
      <4> QED
        BY <2>3, <3>1, <4>1 DEF Members
    <3>4. CASE j > k
      <4>1. j - 1 \in 1..(Len(list) - 1) /\ ~(j - 1 < k) /\ (j - 1) + 1 = j
        BY <1>3, <2>1, <3>4
      <4>2. r[j - 1] = list[j]
        BY <2>4, <4>1
      <4> QED
        BY <2>3, <3>1, <4>1, <4>2 DEF Members
    <3> QED
      BY <2>1, <3>2, <3>3, <3>4
  <2> QED
    BY <1>2, <1>4, <2>12, <2>13, <2>14, <2>15 DEF HasChain
<1> QED
  BY <1>6, <1>7

(* The processes started before the loop are a list.                         *)
LEMMA InitChain ==
  ASSUME Init
  PROVE  /\ next \in Links /\ HasChain(next)
         /\ ListOf(next) = {p \in Process : state[p] # "NONE"}
<1>1. /\ Started \in Seq(Process) /\ Len(Started) \in Nat
      /\ DOMAIN Started = 1..Len(Started)
      /\ \A i \in 1..Len(Started) : Started[i] \in Process /\ Started[i] # HEAD
  BY ProcessAssumption, LenProperties, ElementOfSeq
<1>2. \A i, j \in 1..Len(Started) : Started[i] = Started[j] => i = j
  BY <1>1, ProcessAssumption
<1>3. \A i \in 2..Len(Started) : i \in 1..Len(Started) /\ i - 1 \in 1..Len(Started)
  BY <1>1
<1>4. next[HEAD] = IF Len(Started) = 0 THEN NULL ELSE Started[1]
  BY <1>1, EmptySeq DEF Init
<1>5. ASSUME NEW p \in Process
      PROVE  next[p] = IF \E i \in 2..Len(Started) : Started[i - 1] = p
                       THEN Started[CHOOSE i \in 2..Len(Started) : Started[i - 1] = p]
                       ELSE NULL
  BY Constants DEF Init
<1>6. next \in Links
  <2>1. \A q \in Process \cup {HEAD} : next[q] \in Process \cup {NULL}
    <3>1. next[HEAD] \in Process \cup {NULL}
      <4>1. Len(Started) # 0 => 1 \in 1..Len(Started)
        BY <1>1
      <4> QED
        BY <1>1, <1>4, <4>1
    <3>2. ASSUME NEW p \in Process PROVE next[p] \in Process \cup {NULL}
      <4>1. CASE \E i \in 2..Len(Started) : Started[i - 1] = p
        <5>1. PICK i \in 2..Len(Started) :
                i = CHOOSE j \in 2..Len(Started) : Started[j - 1] = p
          BY <4>1
        <5> QED
          BY <1>1, <1>3, <1>5, <4>1, <5>1
      <4>2. CASE ~\E i \in 2..Len(Started) : Started[i - 1] = p
        BY <1>5, <4>2
      <4> QED
        BY <4>1, <4>2
    <3> QED
      BY <3>1, <3>2
  <2>2. next = [q \in Process \cup {HEAD} |-> next[q]]
    BY DEF Init
  <2> QED
    BY <2>1, <2>2 DEF Links
<1>7. ASSUME NEW i \in 1..Len(Started)
      PROVE  next[Started[i]] = IF i = Len(Started) THEN NULL ELSE Started[i + 1]
  <2>1. CASE i = Len(Started)
    <3>1. ~\E j \in 2..Len(Started) : Started[j - 1] = Started[i]
      <4>1. ASSUME NEW j \in 2..Len(Started), Started[j - 1] = Started[i] PROVE FALSE
        <5>1. j - 1 = i
          BY <1>2, <1>3, <4>1
        <5> QED
          BY <1>1, <2>1, <5>1
      <4> QED
        BY <4>1
    <3> QED
      BY <1>1, <1>5, <2>1, <3>1
  <2>2. CASE i # Len(Started)
    <3>0. i \in Nat /\ i >= 1 /\ i <= Len(Started) /\ Len(Started) \in Nat
      BY <1>1
    <3>1. i + 1 \in 2..Len(Started) /\ (i + 1) - 1 = i
      BY <2>2, <3>0
    <3>2. \E j \in 2..Len(Started) : Started[j - 1] = Started[i]
      BY <3>1
    <3>3. PICK j \in 2..Len(Started) :
            /\ j = CHOOSE m \in 2..Len(Started) : Started[m - 1] = Started[i]
            /\ Started[j - 1] = Started[i]
      BY <3>2
    <3>4. j - 1 = i
      BY <1>2, <1>3, <3>3
    <3>5. j = i + 1
      BY <1>1, <3>4
    <3>6. Started[i] \in Process
      BY <1>1
    <3>7. next[Started[i]] = Started[j]
      BY <1>5, <3>2, <3>3, <3>6
    <3> QED
      BY <2>2, <3>5, <3>7
  <2> QED
    BY <2>1, <2>2
<1>8. IsChain(Started, next)
  BY <1>1, <1>2, <1>4, <1>7 DEF IsChain
<1>9. ListOf(next) = Members(Started)
  BY <1>8, ListOfChain
<1>10. Members(Started) = {p \in Process : state[p] # "NONE"}
  <2>1. \A p \in Process : state[p] # "NONE" <=> \E i \in 1..Len(Started) : Started[i] = p
    BY <1>1 DEF Init
  <2> QED
    BY <1>1, <2>1 DEF Members
<1> QED
  BY <1>6, <1>8, <1>9, <1>10 DEF HasChain
-----------------------------------------------------------------------------
(* Following links.                                                          *)

(* A walk that has yet to come to q can go on, and then still comes to it.   *)
LEMMA ReachStep ==
  ASSUME NEW links \in Links, NEW x \in Process \cup {HEAD}, NEW q,
         Reaches(links, x, q), q # x
  PROVE  /\ links[x] # NULL /\ links[x] \in Process
         /\ Reaches(links, links[x], q)
<1>1. links[x] \in Process \cup {NULL}
  BY DEF Links
<1>2. links[x] # NULL
  <2> SUFFICES ASSUME links[x] = NULL PROVE FALSE
    OBVIOUS
  <2>1. {x} \in SUBSET (Process \cup {HEAD}) /\ Closed({x}, links)
    BY DEF Closed
  <2> QED
    BY <2>1 DEF Reaches
<1>3. ASSUME NEW S \in SUBSET (Process \cup {HEAD}), links[x] \in S, Closed(S, links)
      PROVE  q \in S
  <2>1. S \cup {x} \in SUBSET (Process \cup {HEAD}) /\ Closed(S \cup {x}, links)
    BY <1>3 DEF Closed
  <2> QED
    BY <2>1 DEF Reaches
<1> QED
  BY <1>1, <1>2, <1>3 DEF Reaches

(* A process put in front hides nothing of the list from a walk, even one    *)
(* that is at a process that has left the list.                              *)
LEMMA StartReach ==
  ASSUME NEW links \in Links, HasChain(links), NEW p \in Process, p \notin ListOf(links),
         NEW new, new = [links EXCEPT ![p] = links[HEAD], ![HEAD] = p],
         NEW x \in Process \cup {HEAD}, NEW q \in ListOf(links), Reaches(links, x, q)
  PROVE  Reaches(new, x, q)
<1>1. /\ new[HEAD] = p /\ new[p] = links[HEAD]
      /\ \A y \in Process : y # p => new[y] = links[y]
  BY Constants DEF Links
<1>2. q \in Process /\ ListOf(links) \subseteq Process
  BY ListClosed
<1> SUFFICES ASSUME NEW S \in SUBSET (Process \cup {HEAD}), x \in S, Closed(S, new)
             PROVE  q \in S
  BY DEF Reaches
<1>3. CASE HEAD \in S \/ p \in S
  <2>1. p \in S
    <3>1. HEAD \in S => new[HEAD] = NULL \/ new[HEAD] \in S
      BY DEF Closed
    <3>2. new[HEAD] = p /\ p # NULL
      BY <1>1, Constants
    <3> QED
      BY <1>3, <3>1, <3>2
  <2> DEFINE T == (S \cap ListOf(links)) \cup {HEAD}
  <2>2. Closed(T, links)
    <3>1. links[HEAD] = NULL \/ links[HEAD] \in T
      <4>1. links[HEAD] \in ListOf(links) \cup {NULL}
        BY ListClosed
      <4> QED
        BY <1>1, <2>1, <4>1 DEF Closed
    <3>2. ASSUME NEW y \in S \cap ListOf(links) PROVE links[y] = NULL \/ links[y] \in T
      <4>1. links[y] \in ListOf(links) \cup {NULL}
        BY ListClosed
      <4>2. new[y] = links[y]
        BY <1>1, <1>2
      <4> QED
        BY <4>1, <4>2 DEF Closed
    <3> QED
      BY <3>1, <3>2 DEF Closed
  <2>3. T \in SUBSET (Process \cup {HEAD}) /\ HEAD \in T
    OBVIOUS
  <2>4. q \in T
    BY <2>2, <2>3, ListReached DEF Reaches
  <2> QED
    BY <1>2, <2>4, Constants
<1>4. CASE HEAD \notin S /\ p \notin S
  <2>1. Closed(S, links)
    BY <1>1, <1>4 DEF Closed
  <2> QED
    BY <2>1 DEF Reaches
<1> QED
  BY <1>3, <1>4

(* Nor does a process that is taken off the list: its own link is kept.      *)
LEMMA UnlinkReach ==
  ASSUME NEW links \in Links, HasChain(links), NEW p \in Process,
         NEW x \in Process \cup {HEAD}, NEW q, q # p, Reaches(links, x, q)
  PROVE  Reaches(Without(links, p), x, q)
<1> DEFINE new == Without(links, p)
<1>1. \A y \in Process \cup {HEAD} :
        new[y] = links[y] \/ (links[y] = p /\ new[y] = links[p])
  BY DEF Without, Links
<1> SUFFICES ASSUME NEW S \in SUBSET (Process \cup {HEAD}), x \in S, Closed(S, new)
             PROVE  q \in S
  BY DEF Reaches
<1> HIDE DEF new
<1>2. CASE \E y \in S : new[y] # links[y]
  <2>1. links[p] = NULL \/ links[p] \in S
    BY <1>1, <1>2 DEF Closed
  <2>2. Closed(S \cup {p}, links)
    BY <1>1, <2>1 DEF Closed
  <2> QED
    BY <2>2 DEF Reaches
<1>3. CASE \A y \in S : new[y] = links[y]
  <2>1. Closed(S, links)
    BY <1>3 DEF Closed
  <2> QED
    BY <2>1 DEF Reaches
<1> QED
  BY <1>2, <1>3
-----------------------------------------------------------------------------
(* The calls under way.                                                      *)

Place == Process \cup {NULL}
Arg == Place \cup {"MSG", "EXIT", "POLL", "EXITED", "INIT"}

\* What a walk keeps depends on its kind.
WalkOK(f) ==
  /\ f.due => f.at \in Process
  /\ f.fn = "exit_process" => f.p \in Process /\ ~f.due
  /\ f.fn = "do_poll" => f.at # NULL /\ ~f.due
  /\ f.fn = "do_event" => IF f.p = NULL THEN f.at # NULL ELSE f.missed = {} /\ ~f.due

ThreadFrame == [fn : {"thread"}, p : Process, ev : Arg, called : BOOLEAN]
SynchFrame == [fn : {"synch"}, old : Place]
RunFrame == [fn : {"process_run"}]
WalkRecord == [fn : Walks, p : Place, arg : Arg, old : Place, missed : SUBSET Process,
               at : Place \cup {HEAD}, due : BOOLEAN]
WalkFrame == {f \in WalkRecord : WalkOK(f)}
Frame == ThreadFrame \cup SynchFrame \cup RunFrame \cup WalkFrame

\* f may be the outermost call.
Bottom(f) ==
  /\ f.fn # "do_poll"
  /\ f.fn = "thread" => f.called

\* g may have called f.  process_run and do_event are called by nobody but main,
\* do_poll by these; who calls out of a thread keeps it as old.
Adjacent(f, g) ==
  /\ f.fn \notin {"process_run", "do_event"}
  /\ f.fn = "do_poll" => g.fn \in {"process_run", "do_event"}
  /\ g.fn = "thread" => f.fn \in {"synch", "exit_process"} /\ f.old = g.p
  /\ f.fn = "thread" /\ ~f.called =>
       g.fn = "exit_process" /\ g.p = f.p /\ g.at = NULL

Shape(s) ==
  /\ s \in Seq(Frame)
  /\ \A i \in 1..Len(s) : IF i = Len(s) THEN Bottom(s[i]) ELSE Adjacent(s[i], s[i + 1])

\* What a call in f means for the processes: un, st, np and links stand for
\* undone, state, needspoll and next.
Fits(f, un, st, np, links) ==
  /\ f.fn = "thread" /\ f.called /\ f.p \notin un => st[f.p] = "CALLED"
  /\ f.fn = "exit_process" /\ f.p \notin un =>
       st[f.p] = "NONE" /\ f.p \in ListOf(links)
  /\ f.fn \in Walks => \A q \in f.missed \ un :
       /\ st[q] # "NONE" /\ f.at # NULL /\ Reaches(links, f.at, q)
       /\ q = f.at => f.due
       /\ f.fn = "do_poll" => np[q]

\* Two calls of one thread, or two exits of one process.
Same(f, g) == f.fn \in {"thread", "exit_process"} /\ g.fn = f.fn /\ g.p = f.p

Single(s, un) == \A i, j \in 1..Len(s) : Same(s[i], s[j]) => i = j \/ s[i].p \in un

StackFits(s, un, st, np, links) ==
  /\ Shape(s)
  /\ \A i \in 1..Len(s) : Fits(s[i], un, st, np, links)
  /\ Single(s, un)

(* A frame of each kind has the fields of that kind.                         *)
LEMMA FrameKinds ==
  ASSUME NEW f \in Frame
  PROVE  /\ f.fn = "thread" => f \in ThreadFrame
         /\ f.fn = "synch" => f \in SynchFrame
         /\ f.fn = "process_run" => f \in RunFrame
         /\ f.fn \in Walks => f \in WalkFrame
         /\ f.fn \in {"thread", "synch", "process_run"} \cup Walks
BY DEF Frame, ThreadFrame, SynchFrame, RunFrame, WalkFrame, WalkRecord, Walks

(* Putting a call on the calls under way.                                    *)
LEMMA PushSeq ==
  ASSUME NEW S, NEW s \in Seq(S), NEW f \in S
  PROVE  /\ <<f>> \o s \in Seq(S) /\ Len(s) \in Nat /\ Len(<<f>> \o s) = Len(s) + 1
         /\ (<<f>> \o s)[1] = f /\ <<f>> \o s # << >>
         /\ Head(<<f>> \o s) = f /\ Tail(<<f>> \o s) = s
         /\ \A i \in 1..Len(s) : i + 1 \in 1..Len(<<f>> \o s) /\ (<<f>> \o s)[i + 1] = s[i]
         /\ \A i \in 1..Len(<<f>> \o s) :
              i = 1 \/ (i - 1 \in 1..Len(s) /\ (<<f>> \o s)[i] = s[i - 1])
<1> DEFINE r == <<f>> \o s
<1>1. <<f>> \in Seq(S) /\ Len(<<f>>) = 1 /\ <<f>>[1] = f
  OBVIOUS
<1>2. Len(s) \in Nat
  BY LenProperties
<1>3. /\ r \in Seq(S) /\ Len(r) = 1 + Len(s)
      /\ \A i \in 1..(1 + Len(s)) : r[i] = IF i <= 1 THEN <<f>>[i] ELSE s[i - 1]
  BY <1>1, <1>2, ConcatProperties
<1> HIDE DEF r
<1>4. r[1] = f /\ r # << >> /\ Head(r) = f
  <2>1. 1 \in 1..(1 + Len(s))
    BY <1>2
  <2>2. r[1] = f
    BY <1>1, <1>3, <2>1
  <2>3. r # << >>
    BY <1>2, <1>3, EmptySeq
  <2> QED
    BY <1>3, <2>2, <2>3, HeadTailProperties
<1>5. \A i \in 1..Len(s) : i + 1 \in 1..Len(r) /\ r[i + 1] = s[i]
  <2> TAKE i \in 1..Len(s)
  <2>1. i + 1 \in 1..(1 + Len(s)) /\ ~(i + 1 <= 1) /\ (i + 1) - 1 = i
    BY <1>2
  <2> QED
    BY <1>3, <2>1
<1>6. \A i \in 1..Len(r) : i = 1 \/ (i - 1 \in 1..Len(s) /\ r[i] = s[i - 1])
  <2> TAKE i \in 1..Len(r)
  <2>1. i \in 1..(1 + Len(s)) /\ (i = 1 \/ (~(i <= 1) /\ i - 1 \in 1..Len(s)))
    BY <1>2, <1>3
  <2> QED
    BY <1>3, <2>1
<1>7. Tail(r) = s
  BY <1>1 DEF r
<1> QED
  BY <1>2, <1>3, <1>4, <1>5, <1>6, <1>7 DEF r

(* The innermost call returns.                                               *)
LEMMA PopSeq ==
  ASSUME NEW S, NEW s \in Seq(S), s # << >>
  PROVE  /\ Tail(s) \in Seq(S) /\ Len(s) \in Nat /\ Len(s) >= 1
         /\ Len(Tail(s)) = Len(s) - 1 /\ Head(s) = s[1] /\ 1 \in 1..Len(s)
         /\ Head(s) \in S
         /\ \A i \in 1..Len(Tail(s)) : i + 1 \in 1..Len(s) /\ Tail(s)[i] = s[i + 1]
         /\ \A i \in 1..Len(s) :
              i = 1 \/ (i - 1 \in 1..Len(Tail(s)) /\ Tail(s)[i - 1] = s[i])
<1>1. Len(s) \in Nat /\ Len(s) # 0
  BY LenProperties, EmptySeq
<1>2. /\ Head(s) \in S /\ Tail(s) \in Seq(S) /\ Len(Tail(s)) = Len(s) - 1
      /\ \A i \in 1..Len(Tail(s)) : Tail(s)[i] = s[i + 1]
  BY HeadTailProperties
<1>3. Len(s) >= 1 /\ 1 \in 1..Len(s)
  BY <1>1
<1>4. Head(s) = s[1]
  OBVIOUS
<1>5. \A i \in 1..Len(Tail(s)) : i + 1 \in 1..Len(s)
  BY <1>1, <1>2
<1>6. \A i \in 1..Len(s) : i = 1 \/ i - 1 \in 1..Len(Tail(s))
  BY <1>1, <1>2
<1>7. \A i \in 1..Len(s) : (i - 1) + 1 = i
  BY <1>1
<1>8. \A i \in 1..Len(s) : i = 1 \/ (i - 1 \in 1..Len(Tail(s)) /\ Tail(s)[i - 1] = s[i])
  BY <1>2, <1>6, <1>7
<1> QED
  BY <1>1, <1>2, <1>3, <1>4, <1>5, <1>8

(* Without its innermost call the rest is as it must be.                       *)
LEMMA PopShape ==
  ASSUME NEW s, Shape(s), s # << >>
  PROVE  /\ Shape(Tail(s))
         /\ IF Tail(s) = << >> THEN Bottom(Head(s)) ELSE Adjacent(Head(s), Head(Tail(s)))
<1>1. s \in Seq(Frame)
  BY DEF Shape
<1>2. /\ Tail(s) \in Seq(Frame) /\ Len(s) \in Nat /\ Len(s) >= 1
      /\ Len(Tail(s)) = Len(s) - 1 /\ Head(s) = s[1] /\ 1 \in 1..Len(s)
      /\ \A i \in 1..Len(Tail(s)) : i + 1 \in 1..Len(s) /\ Tail(s)[i] = s[i + 1]
  BY <1>1, PopSeq
<1>3. ASSUME NEW i \in 1..Len(Tail(s))
      PROVE  IF i = Len(Tail(s)) THEN Bottom(Tail(s)[i])
             ELSE Adjacent(Tail(s)[i], Tail(s)[i + 1])
  <2>1. i + 1 \in 1..Len(s) /\ (i = Len(Tail(s)) <=> i + 1 = Len(s))
    BY <1>2
  <2>2. IF i + 1 = Len(s) THEN Bottom(s[i + 1]) ELSE Adjacent(s[i + 1], s[(i + 1) + 1])
    BY <2>1 DEF Shape
  <2>3. i # Len(Tail(s)) => i + 1 \in 1..Len(Tail(s))
    <3>1. \A m \in Nat : \A k \in 1..m : k # m => k + 1 \in 1..m
      OBVIOUS
    <3>2. Len(Tail(s)) \in Nat
      BY <1>2, LenProperties
    <3> QED
      BY <3>1, <3>2
  <2> QED
    BY <1>2, <2>1, <2>2, <2>3
<1>4. IF 1 = Len(s) THEN Bottom(s[1]) ELSE Adjacent(s[1], s[1 + 1])
  BY <1>2 DEF Shape
<1>5. Tail(s) = << >> <=> Len(s) = 1
  <2>1. Tail(s) = << >> <=> Len(Tail(s)) = 0
    BY <1>2, EmptySeq
  <2> QED
    BY <1>2, <2>1
<1>6. Tail(s) # << >> => Head(Tail(s)) = s[1 + 1]
  <2>1. Tail(s) # << >> => Head(Tail(s)) = Tail(s)[1] /\ 1 \in 1..Len(Tail(s))
    BY <1>2, PopSeq
  <2> QED
    BY <1>2, <2>1
<1> QED
  BY <1>2, <1>3, <1>4, <1>5, <1>6 DEF Shape

(* A call by who may make it.                                                 *)
LEMMA PushShape ==
  ASSUME NEW s, Shape(s), NEW f \in Frame,
         IF s = << >> THEN Bottom(f) ELSE Adjacent(f, Head(s))
  PROVE  Shape(<<f>> \o s)
<1> DEFINE r == <<f>> \o s
<1>1. s \in Seq(Frame)
  BY DEF Shape
<1>2. /\ r \in Seq(Frame) /\ Len(s) \in Nat /\ Len(r) = Len(s) + 1 /\ r[1] = f
      /\ \A i \in 1..Len(s) : i + 1 \in 1..Len(r) /\ r[i + 1] = s[i]
      /\ \A i \in 1..Len(r) : i = 1 \/ (i - 1 \in 1..Len(s) /\ r[i] = s[i - 1])
  BY <1>1, PushSeq
<1> HIDE DEF r
<1>3. ASSUME NEW i \in 1..Len(r)
      PROVE  IF i = Len(r) THEN Bottom(r[i]) ELSE Adjacent(r[i], r[i + 1])
  <2>1. CASE i = 1
    <3>1. s = << >> <=> Len(s) = 0
      BY <1>1, EmptySeq
    <3>2. s # << >> => Head(s) = s[1] /\ 1 \in 1..Len(s)
      BY <1>1, PopSeq
    <3> QED
      BY <1>2, <2>1, <3>1, <3>2
  <2>2. CASE i # 1
    <3>1. i - 1 \in 1..Len(s) /\ r[i] = s[i - 1] /\ (i - 1) + 1 = i
      BY <1>2, <2>2
    <3>2. IF i - 1 = Len(s) THEN Bottom(s[i - 1]) ELSE Adjacent(s[i - 1], s[(i - 1) + 1])
      BY <3>1 DEF Shape
    <3>3. i = Len(r) <=> i - 1 = Len(s)
      BY <1>2
    <3>4. i # Len(r) => i \in 1..Len(s)
      BY <1>2
    <3> QED
      BY <1>2, <3>1, <3>2, <3>3, <3>4
  <2> QED
    BY <2>1, <2>2
<1> QED
  BY <1>2, <1>3 DEF Shape, r

(* process_run and do_event are called by main only: nothing is below them,   *)
(* and nothing but these below do_poll.                                      *)
LEMMA LoopCalls ==
  ASSUME NEW s, Shape(s), s # << >>
  PROVE  /\ Head(s).fn \in {"process_run", "do_event"} => Tail(s) = << >>
         /\ Head(s).fn = "do_poll" =>
              /\ Tail(s) # << >> /\ Tail(Tail(s)) = << >>
              /\ Head(Tail(s)).fn \in {"process_run", "do_event"}
<1>1. IF Tail(s) = << >> THEN Bottom(Head(s)) ELSE Adjacent(Head(s), Head(Tail(s)))
  BY PopShape
<1>2. Head(s).fn \in {"process_run", "do_event"} => Tail(s) = << >>
  BY <1>1 DEF Adjacent
<1>3. Head(s).fn = "do_poll" =>
        Tail(s) # << >> /\ Head(Tail(s)).fn \in {"process_run", "do_event"}
  BY <1>1 DEF Adjacent, Bottom
<1>4. Tail(s) # << >> => Shape(Tail(s)) /\
        IF Tail(Tail(s)) = << >> THEN Bottom(Head(Tail(s)))
        ELSE Adjacent(Head(Tail(s)), Head(Tail(Tail(s))))
  BY PopShape
<1>5. Head(s).fn = "do_poll" => Tail(Tail(s)) = << >>
  BY <1>3, <1>4 DEF Adjacent
<1> QED
  BY <1>2, <1>3, <1>5

(* When a call returns, the calls left fit what they did.                     *)
LEMMA PopFits ==
  ASSUME NEW s, NEW un, NEW st, NEW np, NEW links,
         StackFits(s, un, st, np, links), s # << >>
  PROVE  /\ StackFits(Tail(s), un, st, np, links)
         /\ Head(s) \in Frame /\ Fits(Head(s), un, st, np, links)
         /\ \A i \in 1..Len(Tail(s)) : Same(Head(s), Tail(s)[i]) => Head(s).p \in un
<1>1. s \in Seq(Frame) /\ Shape(s)
  BY DEF StackFits, Shape
<1>2. /\ Tail(s) \in Seq(Frame) /\ Len(s) \in Nat /\ Head(s) = s[1] /\ 1 \in 1..Len(s)
      /\ Head(s) \in Frame
      /\ \A i \in 1..Len(Tail(s)) : i + 1 \in 1..Len(s) /\ Tail(s)[i] = s[i + 1]
  BY <1>1, PopSeq
<1>3. Shape(Tail(s))
  BY <1>1, PopShape
<1>4. \A i \in 1..Len(Tail(s)) : Fits(Tail(s)[i], un, st, np, links)
  BY <1>2 DEF StackFits
<1>5. Single(Tail(s), un)
  <2> SUFFICES ASSUME NEW i \in 1..Len(Tail(s)), NEW j \in 1..Len(Tail(s)),
                      Same(Tail(s)[i], Tail(s)[j])
               PROVE  i = j \/ Tail(s)[i].p \in un
    BY DEF Single
  <2>1. i + 1 = j + 1 \/ s[i + 1].p \in un
    BY <1>2 DEF StackFits, Single
  <2>2. i \in Nat /\ j \in Nat
    BY <1>2, LenProperties
  <2> QED
    BY <1>2, <2>1, <2>2
<1>6. ASSUME NEW i \in 1..Len(Tail(s)), Same(Head(s), Tail(s)[i]) PROVE Head(s).p \in un
  <2>1. Same(s[1], s[i + 1]) /\ i + 1 \in 1..Len(s)
    BY <1>2, <1>6
  <2>2. 1 = i + 1 \/ s[1].p \in un
    BY <1>2, <2>1 DEF StackFits, Single
  <2>3. i \in Nat /\ i # 0
    BY <1>2, LenProperties
  <2>4. 1 # i + 1
    BY <2>3
  <2> QED
    BY <1>2, <2>2, <2>4
<1>7. Fits(Head(s), un, st, np, links)
  BY <1>2 DEF StackFits
<1> QED
  BY <1>2, <1>3, <1>4, <1>5, <1>6, <1>7 DEF StackFits

(* A new call that fits.                                                      *)
LEMMA PushFits ==
  ASSUME NEW s, NEW un, NEW st, NEW np, NEW links,
         StackFits(s, un, st, np, links), NEW f \in Frame,
         IF s = << >> THEN Bottom(f) ELSE Adjacent(f, Head(s)),
         Fits(f, un, st, np, links),
         \A i \in 1..Len(s) : Same(f, s[i]) => f.p \in un
  PROVE  StackFits(<<f>> \o s, un, st, np, links)
<1> DEFINE r == <<f>> \o s
<1>1. s \in Seq(Frame) /\ Shape(s)
  BY DEF StackFits, Shape
<1>2. /\ r \in Seq(Frame) /\ Len(s) \in Nat /\ Len(r) = Len(s) + 1 /\ r[1] = f
      /\ \A i \in 1..Len(r) : i = 1 \/ (i - 1 \in 1..Len(s) /\ r[i] = s[i - 1])
  BY <1>1, PushSeq
<1>3. Shape(r)
  BY <1>1, PushShape
<1> HIDE DEF r
<1>4. \A i \in 1..Len(r) : Fits(r[i], un, st, np, links)
  BY <1>2 DEF StackFits
<1>5. ASSUME NEW i \in 1..Len(r), NEW j \in 1..Len(r), Same(r[i], r[j])
      PROVE  i = j \/ r[i].p \in un
  <2>1. CASE i = 1 /\ j = 1
    BY <2>1
  <2>2. CASE i = 1 /\ j # 1
    <3>1. j - 1 \in 1..Len(s) /\ r[j] = s[j - 1] /\ r[i] = f
      BY <1>2, <2>2
    <3>2. Same(f, s[j - 1])
      BY <1>5, <3>1
    <3> QED
      BY <3>1, <3>2
  <2>3. CASE i # 1 /\ j = 1
    <3>1. i - 1 \in 1..Len(s) /\ r[i] = s[i - 1] /\ r[j] = f
      BY <1>2, <2>3
    <3>2. Same(f, s[i - 1]) /\ f.p = r[i].p
      BY <1>5, <3>1 DEF Same
    <3> QED
      BY <3>1, <3>2
  <2>4. CASE i # 1 /\ j # 1
    <3>1. /\ i - 1 \in 1..Len(s) /\ r[i] = s[i - 1]
          /\ j - 1 \in 1..Len(s) /\ r[j] = s[j - 1]
      BY <1>2, <2>4
    <3>2. i - 1 = j - 1 \/ s[i - 1].p \in un
      BY <1>5, <3>1 DEF StackFits, Single
    <3>3. i \in Int /\ j \in Int
      BY <1>2
    <3> QED
      BY <3>1, <3>2, <3>3
  <2> QED
    BY <2>1, <2>2, <2>3, <2>4
<1>6. StackFits(r, un, st, np, links)
  BY <1>3, <1>4, <1>5 DEF StackFits, Single
<1> QED
  BY <1>6 DEF r

(* The innermost walk moves on.                                              *)
LEMMA WalkFits ==
  ASSUME NEW s, NEW un, NEW st, NEW np, NEW links,
         StackFits(s, un, st, np, links), s # << >>, NEW f \in Frame,
         Head(s).fn \in Walks,
         f.fn = Head(s).fn, f.p = Head(s).p, f.old = Head(s).old,
         Fits(f, un, st, np, links)
  PROVE  StackFits(<<f>> \o Tail(s), un, st, np, links)
<1>1. /\ StackFits(Tail(s), un, st, np, links)
      /\ \A i \in 1..Len(Tail(s)) : Same(Head(s), Tail(s)[i]) => Head(s).p \in un
  BY PopFits
<1>2. \A i \in 1..Len(Tail(s)) : Same(f, Tail(s)[i]) => f.p \in un
  BY <1>1 DEF Same
<1>3. IF Tail(s) = << >> THEN Bottom(Head(s)) ELSE Adjacent(Head(s), Head(Tail(s)))
  BY PopShape DEF StackFits
<1>4. IF Tail(s) = << >> THEN Bottom(f) ELSE Adjacent(f, Head(Tail(s)))
  BY <1>3 DEF Bottom, Adjacent, Walks
<1> QED
  BY <1>1, <1>2, <1>4, PushFits

States == [Process -> State]

(* What a call under way says of its process: one that is called is called,  *)
(* one that exits, or is called to exit, is not running but still listed.    *)
LEMMA CallsSay ==
  ASSUME NEW s, NEW un, NEW st, NEW np, NEW links,
         StackFits(s, un, st, np, links), NEW i \in 1..Len(s), s[i].p \notin un
  PROVE  /\ s[i].fn = "thread" /\ s[i].called => st[s[i].p] = "CALLED"
         /\ s[i].fn = "exit_process" =>
              st[s[i].p] = "NONE" /\ s[i].p \in ListOf(links)
         /\ s[i].fn = "thread" /\ ~s[i].called =>
              st[s[i].p] = "NONE" /\ s[i].p \in ListOf(links)
<1>1. Fits(s[i], un, st, np, links)
  BY DEF StackFits
<1>2. ASSUME s[i].fn = "thread", ~s[i].called
      PROVE  st[s[i].p] = "NONE" /\ s[i].p \in ListOf(links)
  <2>1. IF i = Len(s) THEN Bottom(s[i]) ELSE Adjacent(s[i], s[i + 1])
    BY DEF StackFits, Shape
  <2>2. i # Len(s) /\ s[i + 1].fn = "exit_process" /\ s[i + 1].p = s[i].p
    BY <1>2, <2>1 DEF Bottom, Adjacent
  <2>3. i + 1 \in 1..Len(s)
    <3>1. Len(s) \in Nat
      BY LenProperties DEF StackFits, Shape
    <3>2. \A m \in Nat : \A k \in 1..m : k # m => k + 1 \in 1..m
      OBVIOUS
    <3> QED
      BY <2>2, <3>1, <3>2
  <2>4. Fits(s[i + 1], un, st, np, links)
    BY <2>3 DEF StackFits
  <2> QED
    BY <2>2, <2>4 DEF Fits
<1> QED
  BY <1>1, <1>2 DEF Fits

(* The calls under way fit what has changed, if each of them does.           *)
LEMMA ChangeFits ==
  ASSUME NEW s, NEW un, NEW st, NEW np, NEW links,
         StackFits(s, un, st, np, links),
         NEW un2, un \subseteq un2, NEW st2, NEW np2, NEW links2,
         \A i \in 1..Len(s) : Fits(s[i], un2, st2, np2, links2)
  PROVE  StackFits(s, un2, st2, np2, links2)
BY DEF StackFits, Single

(* More processes are excused.                                               *)
LEMMA ExcuseFits ==
  ASSUME NEW s, NEW un, NEW st, NEW np, NEW links,
         StackFits(s, un, st, np, links), NEW un2, un \subseteq un2
  PROVE  StackFits(s, un2, st, np, links)
<1>1. \A i \in 1..Len(s) : Fits(s[i], un2, st, np, links)
  BY DEF StackFits, Fits
<1> QED
  BY <1>1, ChangeFits

(* A process that no call under way is about changes to running or called.   *)
LEMMA StateFits ==
  ASSUME NEW s, NEW un, NEW st \in States, NEW np, NEW links,
         StackFits(s, un, st, np, links), NEW p \in Process, NEW v \in State, v # "NONE",
         \A i \in 1..Len(s) : s[i].fn = "exit_process" /\ s[i].p = p => p \in un,
         v = "CALLED" \/
           \A i \in 1..Len(s) : s[i].fn = "thread" /\ s[i].p = p => p \in un
  PROVE  StackFits(s, un, [st EXCEPT ![p] = v], np, links)
<1> DEFINE new == [st EXCEPT ![p] = v]
<1>1. new[p] = v /\ \A q : q # p => new[q] = st[q]
  BY DEF States
<1> HIDE DEF new
<1>2. ASSUME NEW i \in 1..Len(s) PROVE Fits(s[i], un, new, np, links)
  <2>1. Fits(s[i], un, st, np, links)
    BY DEF StackFits
  <2>2. s[i].fn = "thread" /\ s[i].called /\ s[i].p \notin un => new[s[i].p] = "CALLED"
    BY <1>1, <2>1 DEF Fits
  <2>3. s[i].fn = "exit_process" /\ s[i].p \notin un =>
          new[s[i].p] = "NONE" /\ s[i].p \in ListOf(links)
    BY <1>1, <2>1 DEF Fits
  <2>4. \A q : st[q] # "NONE" => new[q] # "NONE"
    BY <1>1
  <2> QED
    BY <2>1, <2>2, <2>3, <2>4 DEF Fits
<1>3. StackFits(s, un, new, np, links)
  BY <1>2, ChangeFits
<1> QED
  BY <1>3 DEF new

(* The kernel calls a running process from a walk or from a synchronous post. *)
LEMMA CallFits ==
  ASSUME NEW s, NEW un, NEW st \in States, NEW np, NEW links,
         StackFits(s, un, st, np, links), NEW p \in Process, NEW ev \in Arg,
         s # << >>, Head(s).fn # "thread", st[p] = "RUNNING"
  PROVE  StackFits(<<Thread(p, ev, TRUE)>> \o s, un, [st EXCEPT ![p] = "CALLED"], np, links)
<1> DEFINE f == Thread(p, ev, TRUE)
           new == [st EXCEPT ![p] = "CALLED"]
<1>1. \A i \in 1..Len(s) : s[i].fn \in {"thread", "exit_process"} /\ s[i].p = p => p \in un
  BY CallsSay
<1>2. StackFits(s, un, new, np, links)
  BY <1>1, StateFits DEF State
<1>3. f \in Frame /\ f.fn = "thread" /\ f.p = p /\ f.called
  BY DEF Thread, Frame, ThreadFrame
<1>4. new[p] = "CALLED"
  BY DEF States
<1> HIDE DEF f, new
<1>5. Fits(f, un, new, np, links)
  BY <1>3, <1>4 DEF Fits, Walks
<1>6. Adjacent(f, Head(s))
  BY <1>3 DEF Adjacent
<1>7. \A i \in 1..Len(s) : Same(f, s[i]) => f.p \in un
  BY <1>1, <1>3 DEF Same
<1>8. StackFits(<<f>> \o s, un, new, np, links)
  BY <1>2, <1>3, <1>5, <1>6, <1>7, PushFits
<1> QED
  BY <1>8 DEF f, new

(* Striking a process off the walks changes nothing else of the calls.       *)
LEMMA StrikeSeq ==
  ASSUME NEW s \in Seq(Frame), NEW p
  PROVE  /\ Strike(p, s) \in Seq(Frame) /\ Len(Strike(p, s)) = Len(s) /\ Len(s) \in Nat
         /\ \A i \in 1..Len(s) :
              /\ Strike(p, s)[i].fn = s[i].fn
              /\ s[i].fn \notin Walks => Strike(p, s)[i] = s[i]
              /\ s[i].fn \in Walks =>
                   /\ Strike(p, s)[i].p = s[i].p /\ Strike(p, s)[i].old = s[i].old
                   /\ Strike(p, s)[i].at = s[i].at /\ Strike(p, s)[i].due = s[i].due
                   /\ Strike(p, s)[i].missed = s[i].missed \ {p}
<1> DEFINE r == Strike(p, s)
<1>2. s \in Seq(Frame) /\ Len(s) \in Nat /\ DOMAIN s = 1..Len(s)
  BY LenProperties
<1>3. ASSUME NEW i \in 1..Len(s)
      PROVE  r[i] = IF s[i].fn \in Walks THEN [s[i] EXCEPT !.missed = @ \ {p}] ELSE s[i]
  BY <1>2 DEF Strike
<1>4. ASSUME NEW i \in 1..Len(s), s[i].fn \in Walks
      PROVE  /\ r[i] \in Frame /\ r[i].fn = s[i].fn /\ r[i].p = s[i].p
             /\ r[i].old = s[i].old /\ r[i].at = s[i].at /\ r[i].due = s[i].due
             /\ r[i].missed = s[i].missed \ {p}
  <2>1. s[i] \in WalkFrame
    BY <1>2, <1>4, ElementOfSeq, FrameKinds
  <2>2. r[i] = [s[i] EXCEPT !.missed = @ \ {p}]
    BY <1>3, <1>4
  <2>3. /\ r[i] \in WalkRecord /\ r[i].fn = s[i].fn /\ r[i].p = s[i].p
        /\ r[i].old = s[i].old /\ r[i].at = s[i].at /\ r[i].due = s[i].due
        /\ r[i].missed = s[i].missed \ {p}
    BY <2>1, <2>2 DEF WalkFrame, WalkRecord
  <2>4. WalkOK(r[i])
    BY <2>1, <2>3 DEF WalkFrame, WalkOK
  <2> QED
    BY <2>3, <2>4 DEF Frame, WalkFrame
<1>5. \A i \in 1..Len(s) : s[i].fn \notin Walks => r[i] = s[i]
  BY <1>3
<1>6. \A i \in 1..Len(s) : s[i] \in Frame /\ r[i] \in Frame /\ r[i].fn = s[i].fn
  BY <1>2, <1>4, <1>5, ElementOfSeq
<1>7. r \in Seq(Frame) /\ Len(r) = Len(s)
  <2>1. r = [i \in 1..Len(s) |-> r[i]]
    BY <1>2 DEF Strike
  <2>2. r \in [1..Len(s) -> Frame]
    BY <1>6, <2>1
  <2> HIDE DEF r
  <2> QED
    BY <1>2, <2>2, SeqDef, LenProperties
<1> HIDE DEF r
<1>8. \A i \in 1..Len(s) : s[i].fn \notin Walks => r[i] = s[i]
  BY <1>5
<1> QED
  BY <1>2, <1>4, <1>6, <1>7, <1>8 DEF r

(* The walks forget a process that exits, which none of them is calling.     *)
LEMMA StrikeFits ==
  ASSUME NEW s, NEW un, NEW st \in States, NEW np, NEW links,
         StackFits(s, un, st, np, links), NEW p \in Process, p \in un \/ p \in ListOf(links),
         \A i \in 1..Len(s) :
           s[i].fn = "thread" /\ s[i].called /\ s[i].p = p => p \in un
  PROVE  StackFits(Strike(p, s), un, [st EXCEPT ![p] = "NONE"], np, links)
<1> DEFINE r == Strike(p, s)
           new == [st EXCEPT ![p] = "NONE"]
<1>1. new[p] = "NONE" /\ \A q : q # p => new[q] = st[q]
  BY DEF States
<1>2. s \in Seq(Frame) /\ Len(s) \in Nat
  BY LenProperties DEF StackFits, Shape
<1>4. ASSUME NEW i \in 1..Len(s), s[i].fn \in Walks
      PROVE  /\ r[i].fn = s[i].fn /\ r[i].p = s[i].p
             /\ r[i].old = s[i].old /\ r[i].at = s[i].at /\ r[i].due = s[i].due
             /\ r[i].missed = s[i].missed \ {p}
  BY <1>2, <1>4, StrikeSeq
<1>5. \A i \in 1..Len(s) : s[i].fn \notin Walks => r[i] = s[i]
  BY <1>2, StrikeSeq
<1>7. r \in Seq(Frame) /\ Len(r) = Len(s)
  BY <1>2, StrikeSeq
<1> HIDE DEF r, new
<1>8. Shape(r)
  <2>1. ASSUME NEW i \in 1..Len(r)
        PROVE  IF i = Len(r) THEN Bottom(r[i]) ELSE Adjacent(r[i], r[i + 1])
    <3>1. IF i = Len(s) THEN Bottom(s[i]) ELSE Adjacent(s[i], s[i + 1])
      BY <1>7 DEF StackFits, Shape
    <3>2. CASE i = Len(s)
      BY <1>4, <1>5, <1>7, <3>1, <3>2 DEF Bottom, Walks
    <3>3. CASE i # Len(s)
      <4>1. i \in 1..Len(s) /\ i + 1 \in 1..Len(s)
        <5>1. \A m \in Nat : \A k \in 1..m : k # m => k + 1 \in 1..m
          OBVIOUS
        <5> QED
          BY <1>2, <1>7, <3>3, <5>1
      <4> DEFINE f == s[i]  g == s[i + 1]
      <4>2. /\ r[i].fn = f.fn /\ (f.fn \in Walks => r[i].p = f.p /\ r[i].old = f.old)
            /\ (f.fn \notin Walks => r[i] = f)
        BY <1>4, <1>5, <4>1
      <4>3. /\ r[i + 1].fn = g.fn
            /\ (g.fn \in Walks => r[i + 1].p = g.p /\ r[i + 1].at = g.at)
            /\ (g.fn \notin Walks => r[i + 1] = g)
        BY <1>4, <1>5, <4>1
      <4>4. Adjacent(f, g)
        BY <3>1, <3>3
      <4> HIDE DEF f, g
      <4>5. Adjacent(r[i], r[i + 1])
        BY <4>2, <4>3, <4>4 DEF Adjacent, Walks
      <4> QED
        BY <1>7, <3>3, <4>5
    <3> QED
      BY <3>2, <3>3
  <2> QED
    BY <1>7, <2>1 DEF Shape
<1>9. ASSUME NEW i \in 1..Len(s) PROVE Fits(r[i], un, new, np, links)
  <2>1. Fits(s[i], un, st, np, links)
    BY DEF StackFits
  <2>2. CASE s[i].fn \in Walks
    <3>1. r[i].fn = "exit_process" /\ r[i].p \notin un =>
            new[r[i].p] = "NONE" /\ r[i].p \in ListOf(links)
      BY <1>1, <1>4, <2>1, <2>2 DEF Fits
    <3>2. \A q \in r[i].missed \ un :
            /\ new[q] # "NONE" /\ r[i].at # NULL /\ Reaches(links, r[i].at, q)
            /\ q = r[i].at => r[i].due
            /\ r[i].fn = "do_poll" => np[q]
      BY <1>1, <1>4, <2>1, <2>2 DEF Fits
    <3> QED
      BY <1>4, <2>2, <3>1, <3>2 DEF Fits, Walks
  <2>3. CASE s[i].fn \notin Walks
    BY <1>1, <1>5, <2>1, <2>3 DEF Fits, Walks
  <2> QED
    BY <2>2, <2>3
<1>10. \A i, j \in 1..Len(s) : Same(r[i], r[j]) => Same(s[i], s[j]) /\ r[i].p = s[i].p
  BY <1>4, <1>5 DEF Same, Walks
<1>11. Single(r, un)
  BY <1>7, <1>10 DEF StackFits, Single
<1>12. StackFits(r, un, new, np, links)
  BY <1>7, <1>8, <1>9, <1>11 DEF StackFits
<1> QED
  BY <1>12 DEF r, new

(* A process put in front of the list leaves every walk its way.             *)
LEMMA StartFits ==
  ASSUME NEW s, NEW un, NEW st, NEW np, NEW links \in Links,
         StackFits(s, un, st, np, links), HasChain(links),
         NEW p \in Process, p \notin ListOf(links),
         NEW new, new = [links EXCEPT ![p] = links[HEAD], ![HEAD] = p],
         \A q \in Process \ un : st[q] # "NONE" => q \in ListOf(links)
  PROVE  StackFits(s, un, st, np, new)
<1>1. ListOf(new) = ListOf(links) \cup {p}
  BY StartChain
<1>2. s \in Seq(Frame) /\ Len(s) \in Nat
  BY LenProperties DEF StackFits, Shape
<1>3. ASSUME NEW i \in 1..Len(s) PROVE Fits(s[i], un, st, np, new)
  <2>1. Fits(s[i], un, st, np, links)
    BY DEF StackFits
  <2>2. ASSUME s[i].fn \in Walks, NEW q \in s[i].missed \ un
        PROVE  Reaches(new, s[i].at, q)
    <3>1. s[i].missed \subseteq Process /\ s[i].at \in Place \cup {HEAD}
      BY <1>2, <2>2, ElementOfSeq, FrameKinds DEF WalkFrame, WalkRecord
    <3>2. st[q] # "NONE" /\ s[i].at # NULL /\ Reaches(links, s[i].at, q)
      BY <2>1, <2>2 DEF Fits
    <3>3. q \in ListOf(links) /\ s[i].at \in Process \cup {HEAD}
      BY <3>1, <3>2 DEF Place
    <3> QED
      BY <3>2, <3>3, StartReach
  <2> QED
    BY <1>1, <2>1, <2>2 DEF Fits
<1> QED
  BY <1>3, ChangeFits

(* So does one that is taken off the list at the end of its exit.            *)
LEMMA UnlinkFits ==
  ASSUME NEW s, NEW un, NEW st, NEW np, NEW links \in Links,
         StackFits(s, un, st, np, links), HasChain(links), NEW p \in Process,
         p \in un \/ st[p] = "NONE",
         \A i \in 1..Len(s) : s[i].fn = "exit_process" /\ s[i].p = p => p \in un
  PROVE  StackFits(s, un, st, np, Without(links, p))
<1>1. ListOf(Without(links, p)) = ListOf(links) \ {p}
  BY UnlinkChain
<1>2. s \in Seq(Frame) /\ Len(s) \in Nat
  BY LenProperties DEF StackFits, Shape
<1>3. ASSUME NEW i \in 1..Len(s) PROVE Fits(s[i], un, st, np, Without(links, p))
  <2>1. Fits(s[i], un, st, np, links)
    BY DEF StackFits
  <2>2. ASSUME s[i].fn \in Walks, NEW q \in s[i].missed \ un
        PROVE  Reaches(Without(links, p), s[i].at, q)
    <3>1. s[i].at \in Place \cup {HEAD}
      BY <1>2, <2>2, ElementOfSeq, FrameKinds DEF WalkFrame, WalkRecord
    <3>2. st[q] # "NONE" /\ s[i].at # NULL /\ Reaches(links, s[i].at, q)
      BY <2>1, <2>2 DEF Fits
    <3>3. s[i].at \in Process \cup {HEAD} /\ q # p
      BY <2>2, <3>1, <3>2 DEF Place
    <3> QED
      BY <3>2, <3>3, UnlinkReach
  <2>3. s[i].fn = "exit_process" /\ s[i].p \notin un => s[i].p # p
    OBVIOUS
  <2> QED
    BY <1>1, <2>1, <2>2, <2>3 DEF Fits
<1> QED
  BY <1>3, ChangeFits

\* The processes in the middle of their exit.
Exits(s) == {p \in Process : \E i \in 1..Len(s) : s[i].fn = "exit_process" /\ s[i].p = p}

(* A call that returns ends no exit but its own.                             *)
LEMMA PopExits ==
  ASSUME NEW s \in Seq(Frame), s # << >>
  PROVE  \A p \in Exits(s) :
           p \in Exits(Tail(s)) \/ (Head(s).fn = "exit_process" /\ Head(s).p = p)
<1>1. /\ Head(s) = s[1]
      /\ \A i \in 1..Len(s) :
           i = 1 \/ (i - 1 \in 1..Len(Tail(s)) /\ Tail(s)[i - 1] = s[i])
  BY PopSeq
<1> QED
  BY <1>1 DEF Exits

(* A new call ends no exit.                                                  *)
LEMMA PushExits ==
  ASSUME NEW s \in Seq(Frame), NEW f \in Frame
  PROVE  /\ Exits(s) \subseteq Exits(<<f>> \o s)
         /\ f.fn = "exit_process" /\ f.p \in Process => f.p \in Exits(<<f>> \o s)
<1> DEFINE r == <<f>> \o s
<1>1. /\ r[1] = f /\ Len(r) = Len(s) + 1 /\ Len(s) \in Nat
      /\ \A i \in 1..Len(s) : i + 1 \in 1..Len(r) /\ r[i + 1] = s[i]
  BY PushSeq
<1> HIDE DEF r
<1>2. 1 \in 1..Len(r)
  BY <1>1
<1>3. Exits(s) \subseteq Exits(r) /\ (f.fn = "exit_process" /\ f.p \in Process => f.p \in Exits(r))
  BY <1>1, <1>2 DEF Exits
<1> QED
  BY <1>3 DEF r
-----------------------------------------------------------------------------
(* The inductive invariant of the list and the calls.                        *)

\* A process that runs is on the list, and one on the list that does not is in
\* the middle of its exit.
ListFits(un, st, links, exits) ==
  \A p \in Process \ un :
    IF st[p] # "NONE" THEN p \in ListOf(links) ELSE p \in ListOf(links) => p \in exits

\* The polls that are owed are requested, from processes that run.
PollsFit(un, st, np, polls) == \A p \in polls : np[p] /\ (p \in un \/ st[p] # "NONE")

\* The thread that runs is the current process.
CurrentFits(s, current) == s # << >> /\ Head(s).fn = "thread" => current = Head(s).p

KernelTypes ==
  /\ state \in States /\ needspoll \in [Process -> BOOLEAN]
  /\ poll_requested \in BOOLEAN /\ owed \subseteq Polled
  /\ process_current \in Place /\ calls \in 0..MaxCalls /\ undone \subseteq Process

KernelInv ==
  /\ KernelTypes
  /\ next \in Links /\ HasChain(next)
  /\ StackFits(stack, undone, state, needspoll, next)
  /\ ListFits(undone, state, next, Exits(stack))
  /\ PollsFit(undone, state, needspoll, owed)
  /\ CurrentFits(stack, process_current)

(* Listed follows process_list and the links.                                *)
LEMMA ListedIs == Listed = ListOf(next) /\ Listed' = ListOf(next')
BY DEF Listed, ListOf

(* The kernel is as it must be before the loop.                              *)
LEMMA InitKernel == Init => KernelInv
<1> SUFFICES ASSUME Init PROVE KernelInv
  OBVIOUS
<1>1. next \in Links /\ HasChain(next) /\ ListOf(next) = {p \in Process : state[p] # "NONE"}
  BY InitChain
<1>2. KernelTypes
  <2>1. state \in States
    <3>1. \A p \in Process : (IF \E i \in DOMAIN Started : Started[i] = p
                             THEN "RUNNING" ELSE "NONE") \in State
      BY DEF State
    <3> QED
      BY <3>1 DEF Init, States
  <2>2. calls \in 0..MaxCalls
    BY Constants DEF Init
  <2> QED
    BY <2>1, <2>2 DEF Init, KernelTypes, Place
<1>3. stack = << >> /\ Len(stack) = 0 /\ stack \in Seq(Frame)
  BY EmptySeq DEF Init
<1>4. StackFits(stack, undone, state, needspoll, next)
  BY <1>3 DEF StackFits, Shape, Single
<1>5. ListFits(undone, state, next, Exits(stack))
  BY <1>1 DEF ListFits
<1>6. PollsFit(undone, state, needspoll, owed) /\ CurrentFits(stack, process_current)
  BY DEF Init, PollsFit, CurrentFits
<1> QED
  BY <1>1, <1>2, <1>4, <1>5, <1>6 DEF KernelInv

\* What the invariant says of the next state, in its variables.
KernelInvNext ==
  /\ KernelTypes'
  /\ next' \in Links /\ HasChain(next')
  /\ StackFits(stack', undone', state', needspoll', next')
  /\ ListFits(undone', state', next', Exits(stack'))
  /\ PollsFit(undone', state', needspoll', owed')
  /\ CurrentFits(stack', process_current')

LEMMA NextKernel == KernelInvNext => KernelInv'
BY DEF KernelInvNext, KernelInv
-----------------------------------------------------------------------------
(* The steps.                                                                *)

(* What the invariant says of the call that is under way.                    *)
LEMMA TopFacts ==
  ASSUME KernelInv, stack # << >>
  PROVE  /\ stack \in Seq(Frame) /\ Shape(stack) /\ Top \in Frame
         /\ Fits(Top, undone, state, needspoll, next)
         /\ StackFits(Tail(stack), undone, state, needspoll, next)
         /\ Tail(stack) \in Seq(Frame)
         /\ \A i \in 1..Len(Tail(stack)) : Same(Top, Tail(stack)[i]) => Top.p \in undone
         /\ IF Tail(stack) = << >> THEN Bottom(Top) ELSE Adjacent(Top, Head(Tail(stack)))
<1>1. StackFits(stack, undone, state, needspoll, next)
  BY DEF KernelInv
<1>2. stack \in Seq(Frame) /\ Shape(stack)
  BY <1>1 DEF StackFits, Shape
<1>3. IF Tail(stack) = << >> THEN Bottom(Top) ELSE Adjacent(Top, Head(Tail(stack)))
  BY <1>2, PopShape DEF Top
<1>4. /\ StackFits(Tail(stack), undone, state, needspoll, next)
      /\ Head(stack) \in Frame /\ Fits(Head(stack), undone, state, needspoll, next)
      /\ \A i \in 1..Len(Tail(stack)) :
           Same(Head(stack), Tail(stack)[i]) => Head(stack).p \in undone
  BY <1>1, PopFits
<1>5. Tail(stack) \in Seq(Frame)
  BY <1>4 DEF StackFits, Shape
<1> QED
  BY <1>2, <1>3, <1>4, <1>5 DEF Top

(* A step that moves calls and nothing they are about.                       *)
LEMMA QuietStep ==
  ASSUME KernelInv, UNCHANGED <<next, state, needspoll, owed, undone>>,
         calls' \in 0..MaxCalls, poll_requested' \in BOOLEAN, process_current' \in Place,
         StackFits(stack', undone, state, needspoll, next),
         Exits(stack) \subseteq Exits(stack'), CurrentFits(stack', process_current')
  PROVE  KernelInvNext
<1>1. KernelTypes'
  BY DEF KernelInv, KernelTypes
<1>2. ListFits(undone', state', next', Exits(stack'))
  BY DEF KernelInv, ListFits
<1> QED
  BY <1>1, <1>2 DEF KernelInv, KernelInvNext

(* call_process, from a walk or a synchronous post.                          *)
LEMMA CallStep ==
  ASSUME KernelInv, NEW p \in Process, NEW ev \in Arg, NEW base,
         call_process(p, ev, base),
         UNCHANGED <<next, needspoll, poll_requested, owed, undone>>, calls' \in 0..MaxCalls,
         StackFits(base, undone, state, needspoll, next),
         base # << >>, Head(base).fn # "thread", Exits(stack) \subseteq Exits(base)
  PROVE  KernelInvNext
<1>0. base \in Seq(Frame)
  BY DEF StackFits, Shape
<1>1. CASE Callable(p)
  <2>1. /\ process_current' = p /\ state' = [state EXCEPT ![p] = "CALLED"]
        /\ stack' = <<Thread(p, ev, TRUE)>> \o base /\ state[p] = "RUNNING"
    BY <1>1 DEF call_process, Callable
  <2>2. state \in States
    BY DEF KernelInv, KernelTypes
  <2>3. StackFits(stack', undone', state', needspoll', next')
    <3>1. StackFits(<<Thread(p, ev, TRUE)>> \o base, undone,
                    [state EXCEPT ![p] = "CALLED"], needspoll, next)
      BY <2>1, <2>2, CallFits
    <3> QED
      BY <2>1, <3>1
  <2>4. Thread(p, ev, TRUE) \in Frame
    BY DEF Thread, Frame, ThreadFrame
  <2>5. Exits(base) \subseteq Exits(stack') /\ Head(stack') = Thread(p, ev, TRUE)
    <3>1. PICK f \in Frame : f = Thread(p, ev, TRUE)
      BY <2>4
    <3>2. Exits(base) \subseteq Exits(<<f>> \o base)
      BY <1>0, PushExits
    <3>3. Head(<<f>> \o base) = f
      BY <1>0, PushSeq
    <3> QED
      BY <2>1, <3>1, <3>2, <3>3
  <2>6. CurrentFits(stack', process_current')
    BY <2>1, <2>5 DEF CurrentFits, Thread
  <2>7. state'[p] = "CALLED" /\ \A q : q # p => state'[q] = state[q]
    BY <2>1, <2>2 DEF States
  <2>8. KernelTypes'
    BY <2>1, <2>2 DEF KernelInv, KernelTypes, States, State, Place
  <2>9. ListFits(undone', state', next', Exits(stack'))
    BY <2>1, <2>5, <2>7 DEF KernelInv, ListFits
  <2>10. PollsFit(undone', state', needspoll', owed')
    BY <2>7 DEF KernelInv, PollsFit
  <2> QED
    BY <2>3, <2>6, <2>8, <2>9, <2>10 DEF KernelInv, KernelInvNext
<1>2. CASE ~Callable(p)
  <2>1. stack' = base /\ UNCHANGED <<process_current, state>>
    BY <1>2 DEF call_process
  <2>2. CurrentFits(stack', process_current')
    BY <2>1 DEF CurrentFits
  <2>3. process_current' \in Place /\ poll_requested' \in BOOLEAN
    BY <2>1 DEF KernelInv, KernelTypes
  <2> QED
    BY <2>1, <2>2, <2>3, QuietStep
<1> QED
  BY <1>1, <1>2

(* A walk that starts at HEAD, and one that has nothing left but its end.    *)
LEMMA WalkFields ==
  ASSUME NEW fn \in Walks, NEW p \in Place, NEW arg \in Arg, NEW old \in Place,
         NEW missed \in SUBSET Process, fn = "exit_process" => p \in Process,
         fn = "do_event" /\ p # NULL => missed = {}, NEW f
  PROVE  /\ f = Walk(fn, p, arg, old, missed) =>
              /\ f \in Frame /\ f.fn = fn /\ f.p = p /\ f.arg = arg /\ f.old = old
              /\ f.missed = missed /\ f.at = HEAD /\ ~f.due
         /\ f = [Walk(fn, p, arg, old, missed) EXCEPT !.at = NULL] /\ fn = "exit_process" =>
              /\ f \in Frame /\ f.fn = fn /\ f.p = p /\ f.arg = arg /\ f.old = old
              /\ f.missed = missed /\ f.at = NULL /\ ~f.due
<1> DEFINE w == Walk(fn, p, arg, old, missed)
           g == [w EXCEPT !.at = NULL]
<1>1. /\ w \in WalkRecord /\ w.fn = fn /\ w.p = p /\ w.arg = arg /\ w.old = old
      /\ w.missed = missed /\ w.at = HEAD /\ ~w.due
  BY DEF Walk, WalkRecord
<1>2. WalkOK(w)
  BY <1>1, Constants DEF WalkOK
<1>3. /\ g \in WalkRecord /\ g.fn = fn /\ g.p = p /\ g.arg = arg /\ g.old = old
      /\ g.missed = missed /\ g.at = NULL /\ ~g.due
  BY <1>1 DEF WalkRecord, Place
<1>4. fn = "exit_process" => WalkOK(g)
  BY <1>3 DEF WalkOK
<1> HIDE DEF w, g
<1>5. w \in Frame /\ (fn = "exit_process" => g \in Frame)
  BY <1>1, <1>2, <1>3, <1>4 DEF Frame, WalkFrame
<1> QED
  BY <1>1, <1>3, <1>5 DEF w, g

(* exit_process, out of a thread or of loop().                               *)
LEMMA ExitStep ==
  ASSUME KernelInv, NEW p \in Process, NEW from \in Place, NEW base,
         exit_process(p, from, base),
         UNCHANGED <<next, needspoll, poll_requested, process_current>>,
         calls' \in 0..MaxCalls, undone \subseteq undone', undone' \subseteq Process,
         StackFits(base, undone', state, needspoll, next),
         CurrentFits(base, process_current), Exits(stack) \subseteq Exits(base),
         state[p] = "NONE" => p \in undone',
         \A i \in 1..Len(base) :
           base[i].fn = "thread" /\ base[i].called /\ base[i].p = p => p \in undone'
  PROVE  KernelInvNext
<1>0. /\ base \in Seq(Frame) /\ state \in States /\ process_current \in Place
      /\ next \in Links /\ HasChain(next) /\ Listed = ListOf(next)
  BY ListedIs DEF StackFits, Shape, KernelInv, KernelTypes
<1>1. PollsFit(undone', state, needspoll, owed)
  BY DEF KernelInv, PollsFit
<1>2. CASE stack' = base /\ UNCHANGED <<state, owed>>
  <2>1. KernelTypes'
    BY <1>2 DEF KernelInv, KernelTypes
  <2>2. ListFits(undone', state', next', Exits(stack'))
    BY <1>2 DEF KernelInv, ListFits
  <2> QED
    BY <1>1, <1>2, <2>1, <2>2 DEF KernelInv, KernelInvNext
<1>3. ASSUME NEW f, f \in Frame, f.fn = "exit_process", f.p = p, f.old = process_current,
             NEW rest, StackFits(rest, undone', state', needspoll, next),
             Fits(f, undone', state', needspoll, next),
             rest \in Seq(Frame), stack' = <<f>> \o rest, Exits(base) \subseteq Exits(rest),
             (rest = << >>) <=> (base = << >>),
             rest # << >> => /\ Head(rest).fn = Head(base).fn
                             /\ Head(base).fn = "thread" => Head(rest).p = Head(base).p,
             \A i \in 1..Len(rest) : Same(f, rest[i]) => p \in undone'
      PROVE  /\ StackFits(stack', undone', state', needspoll', next')
             /\ Exits(stack) \cup {p} \subseteq Exits(stack')
             /\ CurrentFits(stack', process_current')
  <2>1. rest # << >> => Adjacent(f, Head(rest))
    BY <1>3 DEF Adjacent, CurrentFits
  <2>2. Bottom(f)
    BY <1>3 DEF Bottom
  <2>3. StackFits(stack', undone', state', needspoll, next)
    BY <1>3, <2>1, <2>2, PushFits
  <2>4. Exits(rest) \subseteq Exits(stack') /\ p \in Exits(stack')
    BY <1>3, PushExits
  <2>5. Head(stack') = f
    BY <1>3, PushSeq
  <2> QED
    BY <1>3, <2>3, <2>4, <2>5 DEF CurrentFits
<1>4. ASSUME p \in Listed, state[p] = "NONE",
             stack' = <<[Walk("exit_process", p, from, process_current, {})
                           EXCEPT !.at = NULL]>> \o base,
             UNCHANGED <<state, owed>>
      PROVE  KernelInvNext
  <2> DEFINE f == [Walk("exit_process", p, from, process_current, {}) EXCEPT !.at = NULL]
  <2>1. /\ f \in Frame /\ f.fn = "exit_process" /\ f.p = p /\ f.old = process_current
        /\ f.missed = {}
    <3>0. f = [Walk("exit_process", p, from, process_current, {}) EXCEPT !.at = NULL]
      OBVIOUS
    <3>1. from \in Arg /\ "exit_process" \in Walks /\ {} \in SUBSET Process /\ p \in Place
      BY DEF Arg, Walks, Place
    <3> HIDE DEF f
    <3> QED
      BY <1>0, <3>0, <3>1, WalkFields
  <2>2. stack' = <<f>> \o base
    BY <1>4
  <2> HIDE DEF f
  <2>3. p \in undone'
    BY <1>4
  <2>4. Fits(f, undone', state', needspoll, next)
    BY <2>1, <2>3 DEF Fits
  <2>5. /\ StackFits(stack', undone', state', needspoll', next')
        /\ Exits(stack) \cup {p} \subseteq Exits(stack')
        /\ CurrentFits(stack', process_current')
    BY <1>0, <1>3, <1>4, <2>1, <2>2, <2>3, <2>4
  <2>6. KernelTypes'
    BY <1>4 DEF KernelInv, KernelTypes
  <2>7. ListFits(undone', state', next', Exits(stack'))
    BY <1>4, <2>5 DEF KernelInv, ListFits
  <2> QED
    BY <1>1, <1>4, <2>5, <2>6, <2>7 DEF KernelInv, KernelInvNext
<1>5. ASSUME p \in Listed, state[p] # "NONE",
             state' = [state EXCEPT ![p] = "NONE"], owed' = owed \ {p},
             stack' = <<Walk("exit_process", p, from, process_current,
                             {q \in Listed \ {p} : state[q] = "RUNNING"})>> \o Strike(p, base)
      PROVE  KernelInvNext
  <2> DEFINE M == {q \in Listed \ {p} : state[q] = "RUNNING"}
             f == Walk("exit_process", p, from, process_current, M)
             rest == Strike(p, base)
  <2>1. ListOf(next) \subseteq Process
    BY <1>0, ListClosed
  <2>2. /\ f \in Frame /\ f.fn = "exit_process" /\ f.p = p /\ f.old = process_current
        /\ f.missed = M /\ f.at = HEAD
    <3>0. f = Walk("exit_process", p, from, process_current, M)
      OBVIOUS
    <3>1. from \in Arg /\ "exit_process" \in Walks /\ M \in SUBSET Process /\ p \in Place
      BY <1>0, <2>1 DEF Arg, Walks, Place
    <3> HIDE DEF M, f
    <3> QED
      BY <1>0, <3>0, <3>1, WalkFields
  <2>3. stack' = <<f>> \o rest
    BY <1>5
  <2>4. /\ StackFits(rest, undone', state', needspoll, next)
        /\ rest \in Seq(Frame) /\ Len(rest) = Len(base)
        /\ \A i \in 1..Len(base) : /\ rest[i].fn = base[i].fn
                                   /\ base[i].fn # "synch" /\ base[i].fn # "process_run" =>
                                        rest[i].p = base[i].p
    <3>1. p \in ListOf(next)
      BY <1>0, <1>5
    <3> DEFINE gone == [state EXCEPT ![p] = "NONE"]
    <3>2. StackFits(Strike(p, base), undone', gone, needspoll, next)
      BY <1>0, <3>1, StrikeFits
    <3>3. state' = gone /\ needspoll' = needspoll /\ rest = Strike(p, base)
      BY <1>5
    <3>4. /\ Strike(p, base) \in Seq(Frame) /\ Len(Strike(p, base)) = Len(base)
          /\ \A i \in 1..Len(base) :
               /\ Strike(p, base)[i].fn = base[i].fn
               /\ base[i].fn # "synch" /\ base[i].fn # "process_run" =>
                    Strike(p, base)[i].p = base[i].p
      <4>1. /\ Strike(p, base) \in Seq(Frame) /\ Len(Strike(p, base)) = Len(base)
            /\ \A i \in 1..Len(base) :
                 /\ Strike(p, base)[i].fn = base[i].fn
                 /\ base[i].fn \notin Walks => Strike(p, base)[i] = base[i]
                 /\ base[i].fn \in Walks => Strike(p, base)[i].p = base[i].p
        BY <1>0, StrikeSeq
      <4> QED
        BY <4>1
    <3> HIDE DEF gone, rest
    <3> QED
      BY <3>2, <3>3, <3>4
  <2> HIDE DEF f, rest
  <2>5. state'[p] = "NONE" /\ \A q : q # p => state'[q] = state[q]
    BY <1>0, <1>5 DEF States
  <2>6. Fits(f, undone', state', needspoll, next)
    <3>1. ASSUME NEW q \in M
          PROVE  state'[q] # "NONE" /\ Reaches(next, HEAD, q) /\ q # HEAD
      <4>1. q \in ListOf(next) /\ state[q] = "RUNNING" /\ q # p
        BY <1>0
      <4>2. q \in Process /\ Reaches(next, HEAD, q)
        BY <1>0, <2>1, <4>1, ListReached
      <4> QED
        BY <2>5, <4>1, <4>2, Constants
    <3> HIDE DEF M
    <3> QED
      BY <1>0, <1>5, <2>2, <2>5, <3>1, Constants DEF Fits
  <2>7. Exits(base) \subseteq Exits(rest)
    BY <2>4 DEF Exits
  <2>8. (rest = << >>) <=> (base = << >>)
    BY <1>0, <2>4, EmptySeq
  <2>9. rest # << >> => /\ Head(rest).fn = Head(base).fn
                        /\ Head(base).fn = "thread" => Head(rest).p = Head(base).p
    <3>1. rest # << >> => Head(rest) = rest[1]
      BY <2>4, PopSeq
    <3>2. rest # << >> => Head(base) = base[1] /\ 1 \in 1..Len(base)
      BY <1>0, <2>8, PopSeq
    <3> QED
      BY <2>4, <3>1, <3>2
  <2>10. \A i \in 1..Len(rest) : Same(f, rest[i]) => p \in undone'
    <3> SUFFICES ASSUME NEW i \in 1..Len(rest), Same(f, rest[i]), p \notin undone'
                 PROVE  FALSE
      OBVIOUS
    <3>1. i \in 1..Len(base) /\ base[i].fn = "exit_process" /\ base[i].p = p
      BY <2>2, <2>4 DEF Same
    <3>2. state[p] = "NONE"
      BY <3>1, CallsSay
    <3> QED
      BY <1>5, <3>2
  <2>11. /\ StackFits(stack', undone', state', needspoll', next')
         /\ Exits(stack) \cup {p} \subseteq Exits(stack')
         /\ CurrentFits(stack', process_current')
    BY <1>3, <2>2, <2>3, <2>4, <2>6, <2>7, <2>8, <2>9, <2>10
  <2>12. KernelTypes'
    <3>1. state' \in States
      BY <1>0, <1>5 DEF States, State
    <3> QED
      BY <1>5, <3>1 DEF KernelInv, KernelTypes
  <2>13. ListFits(undone', state', next', Exits(stack'))
    BY <2>5, <2>11 DEF KernelInv, ListFits
  <2>14. PollsFit(undone', state', needspoll', owed')
    BY <1>1, <1>5, <2>5 DEF PollsFit
  <2> QED
    BY <2>11, <2>12, <2>13, <2>14 DEF KernelInv, KernelInvNext
<1> QED
  BY <1>2, <1>4, <1>5 DEF exit_process

(* The walk under way.                                                       *)
LEMMA WalkFacts ==
  ASSUME KernelInv, stack # << >>, Top.fn \in Walks
  PROVE  /\ Top \in WalkFrame /\ Top \in WalkRecord /\ WalkOK(Top)
         /\ \A q \in Top.missed \ undone :
              /\ q \in Process /\ state[q] # "NONE" /\ Top.at # NULL
              /\ Reaches(next, Top.at, q) /\ (q = Top.at => Top.due)
              /\ Top.fn = "do_poll" => needspoll[q]
<1>1. Top \in Frame /\ Fits(Top, undone, state, needspoll, next)
  BY TopFacts
<1>2. Top \in WalkFrame
  BY <1>1, FrameKinds
<1>3. Top \in WalkRecord /\ WalkOK(Top)
  BY <1>2 DEF WalkFrame
<1>4. Top.missed \subseteq Process
  BY <1>3 DEF WalkRecord
<1> QED
  BY <1>1, <1>2, <1>3, <1>4 DEF Fits

(* A walk has moved on to q.                                                  *)
LEMMA MoveOn ==
  ASSUME NEW f \in WalkRecord, NEW q \in Place \cup {HEAD}, NEW g, g = [f EXCEPT !.at = q]
  PROVE  /\ g \in WalkRecord /\ g.fn = f.fn /\ g.p = f.p /\ g.arg = f.arg
         /\ g.old = f.old /\ g.missed = f.missed /\ g.at = q /\ g.due = f.due
BY DEF WalkRecord

(* A broadcast is about to call q.                                            *)
LEMMA MoveDue ==
  ASSUME NEW f \in WalkRecord, NEW q \in Place \cup {HEAD}, NEW g, g = [f EXCEPT !.at = q, !.due = TRUE]
  PROVE  /\ g \in WalkRecord /\ g.fn = f.fn /\ g.p = f.p /\ g.arg = f.arg
         /\ g.old = f.old /\ g.missed = f.missed /\ g.at = q /\ g.due
BY DEF WalkRecord

(* A broadcast calls the process it is at.                                    *)
LEMMA MoveCall ==
  ASSUME NEW f \in WalkRecord, NEW g, g = [f EXCEPT !.due = FALSE, !.missed = @ \ {f.at}]
  PROVE  /\ g \in WalkRecord /\ g.fn = f.fn /\ g.p = f.p /\ g.arg = f.arg
         /\ g.old = f.old /\ g.missed = f.missed \ {f.at} /\ g.at = f.at /\ ~g.due
BY DEF WalkRecord

(* A walk that moves on leaves the rest of the calls as they are.            *)
LEMMA MoveStep ==
  ASSUME KernelInv, stack # << >>, Top.fn \in Walks, NEW g, g \in WalkRecord, WalkOK(g),
         g.fn = Top.fn, g.p = Top.p, g.old = Top.old,
         Fits(g, undone, state, needspoll, next)
  PROVE  /\ g \in Frame /\ With(g) \in Seq(Frame) /\ With(g) # << >> /\ Head(With(g)) = g
         /\ StackFits(With(g), undone, state, needspoll, next)
         /\ Exits(stack) \subseteq Exits(With(g))
<1>1. StackFits(stack, undone, state, needspoll, next) /\ g \in Frame
  BY DEF KernelInv, Frame, WalkFrame
<1>2. Tail(stack) \in Seq(Frame) /\ stack \in Seq(Frame)
  BY TopFacts
<1>3. StackFits(With(g), undone, state, needspoll, next)
  BY <1>1, WalkFits DEF Top, With
<1>4. With(g) \in Seq(Frame) /\ With(g) # << >> /\ Head(With(g)) = g
  BY <1>1, <1>2, PushSeq DEF With
<1>5. Exits(stack) \subseteq Exits(With(g))
  <2>1. \A p \in Exits(stack) :
          p \in Exits(Tail(stack)) \/ (Head(stack).fn = "exit_process" /\ Head(stack).p = p)
    BY <1>2, PopExits
  <2>2. /\ Exits(Tail(stack)) \subseteq Exits(<<g>> \o Tail(stack))
        /\ g.fn = "exit_process" /\ g.p \in Process => g.p \in Exits(<<g>> \o Tail(stack))
    BY <1>1, <1>2, PushExits
  <2>3. Exits(stack) \subseteq Process
    BY DEF Exits
  <2> QED
    BY <2>1, <2>2, <2>3 DEF With, Top
<1> QED
  BY <1>1, <1>3, <1>4, <1>5

(* do_poll before what is left of process_run or of do_event.                *)
LEMMA PollFirstStep ==
  ASSUME KernelInv, NEW base, PollFirst(base),
         UNCHANGED <<next, state, needspoll, owed, undone, process_current, calls>>,
         StackFits(base, undone, state, needspoll, next), base # << >>,
         Head(base).fn \in {"process_run", "do_event"}, Exits(stack) \subseteq Exits(base)
  PROVE  KernelInvNext
<1>0. /\ base \in Seq(Frame) /\ poll_requested \in BOOLEAN /\ owed \subseteq Process
      /\ process_current' \in Place /\ calls' \in 0..MaxCalls
  BY Constants DEF StackFits, Shape, KernelInv, KernelTypes
<1>1. CASE ~poll_requested
  <2>1. stack' = base /\ poll_requested' \in BOOLEAN
    BY <1>0, <1>1 DEF PollFirst
  <2>2. CurrentFits(stack', process_current')
    BY <2>1 DEF CurrentFits
  <2> QED
    BY <1>0, <2>1, <2>2, QuietStep
<1>2. CASE poll_requested
  <2>1. PICK f : f = Walk("do_poll", NULL, "POLL", NULL, owed)
    OBVIOUS
  <2>2. stack' = <<f>> \o base /\ poll_requested' = FALSE
    BY <1>2, <2>1 DEF PollFirst
  <2>3. /\ f \in Frame /\ f.fn = "do_poll" /\ f.missed = owed /\ f.at = HEAD /\ ~f.due
    <3>1. "do_poll" \in Walks /\ NULL \in Place /\ "POLL" \in Arg /\ owed \in SUBSET Process
      BY <1>0 DEF Walks, Place, Arg
    <3> QED
      BY <2>1, <3>1, WalkFields
  <2>4. ASSUME NEW q \in owed \ undone
        PROVE  state[q] # "NONE" /\ needspoll[q] /\ Reaches(next, HEAD, q) /\ q # HEAD
    <3>1. q \in Process /\ needspoll[q] /\ state[q] # "NONE"
      BY <1>0 DEF KernelInv, PollsFit
    <3>2. q \in ListOf(next)
      BY <3>1 DEF KernelInv, ListFits
    <3>3. Reaches(next, HEAD, q)
      BY <3>2, ListReached DEF KernelInv
    <3> QED
      BY <3>1, <3>3, Constants
  <2>5. Fits(f, undone, state, needspoll, next)
    BY <2>3, <2>4, Constants DEF Fits
  <2>6. Adjacent(f, Head(base))
    BY <2>3 DEF Adjacent
  <2>7. \A i \in 1..Len(base) : Same(f, base[i]) => f.p \in undone
    BY <2>3 DEF Same
  <2>8. StackFits(<<f>> \o base, undone, state, needspoll, next)
    BY <2>3, <2>5, <2>6, <2>7, PushFits
  <2>9. Exits(base) \subseteq Exits(<<f>> \o base) /\ Head(<<f>> \o base) = f
    BY <1>0, <2>3, PushExits, PushSeq
  <2>10. CurrentFits(stack', process_current')
    BY <2>2, <2>3, <2>9 DEF CurrentFits
  <2>11. StackFits(stack', undone, state, needspoll, next) /\ Exits(stack) \subseteq Exits(stack')
    BY <2>2, <2>8, <2>9
  <2> QED
    BY <1>0, <2>2, <2>10, <2>11, QuietStep
<1> QED
  BY <1>0, <1>1, <1>2

(* The only call.                                                            *)
LEMMA OneCall ==
  ASSUME NEW s \in Seq(Frame), s # << >>, Tail(s) = << >>
  PROVE  Len(s) = 1 /\ Head(s) = s[1] /\ \A i \in 1..Len(s) : i = 1
<1>1. Len(Tail(s)) = Len(s) - 1 /\ Len(s) \in Nat /\ Head(s) = s[1]
  BY PopSeq
<1>2. PICK t : t = Tail(s)
  OBVIOUS
<1>3. Len(t) = 0
  BY <1>2
<1>4. Len(s) = 1
  BY <1>1, <1>2, <1>3
<1> QED
  BY <1>1, <1>4

(* process_run starts from main.                                             *)
LEMMA RunStep == KernelInv /\ process_run => KernelInvNext
<1> SUFFICES ASSUME KernelInv, process_run PROVE KernelInvNext
  OBVIOUS
<1>1. PICK f : f = [fn |-> "process_run"]
  OBVIOUS
<1>2. f \in Frame /\ f.fn = "process_run"
  BY <1>1 DEF Frame, RunFrame
<1>3. stack = << >> /\ stack \in Seq(Frame) /\ StackFits(stack, undone, state, needspoll, next)
  BY DEF process_run, KernelInv, StackFits, Shape
<1>4. Len(stack) = 0
  BY <1>3, EmptySeq
<1>5. Bottom(f) /\ Fits(f, undone, state, needspoll, next)
  BY <1>2 DEF Bottom, Fits, Walks
<1>6. StackFits(<<f>> \o stack, undone, state, needspoll, next)
  <2>1. PICK s : s = stack
    OBVIOUS
  <2>2. \A i \in 1..Len(s) : FALSE
    BY <1>4, <2>1
  <2>3. s = << >> /\ StackFits(s, undone, state, needspoll, next)
    BY <1>3, <2>1
  <2>4. StackFits(<<f>> \o s, undone, state, needspoll, next)
    BY <1>2, <1>5, <2>2, <2>3, PushFits
  <2> QED
    BY <2>1, <2>4
<1>7. <<f>> \o stack = <<f>>
  BY <1>3
<1>8. Exits(stack) \subseteq Exits(<<f>>)
  BY <1>4 DEF Exits
<1>9. <<f>> # << >> /\ Head(<<f>>) = f
  OBVIOUS
<1>10. /\ PollFirst(<<f>>)
       /\ UNCHANGED <<next, state, needspoll, owed, undone, process_current, calls>>
  BY <1>1 DEF process_run, listvars, callvars
<1> QED
  BY <1>2, <1>6, <1>7, <1>8, <1>9, <1>10, PollFirstStep

(* do_poll calls the next process that needs it, running or not.             *)
LEMMA PollStep == KernelInv /\ PollNext => KernelInvNext
<1> SUFFICES ASSUME KernelInv, PollNext PROVE KernelInvNext
  OBVIOUS
<1> DEFINE q == next[Top.at]
<1>0. /\ stack # << >> /\ Top.fn = "do_poll" /\ Top.fn \in Walks /\ q # NULL
      /\ UNCHANGED <<next, poll_requested, calls>>
  BY DEF PollNext, Running, Walks
<1>1. /\ Top \in WalkRecord /\ WalkOK(Top)
      /\ \A r \in Top.missed \ undone :
           /\ r \in Process /\ state[r] # "NONE" /\ Top.at # NULL
           /\ Reaches(next, Top.at, r) /\ (r = Top.at => Top.due)
           /\ needspoll[r]
  BY <1>0, WalkFacts
<1>2. Top.at \in Process \cup {HEAD} /\ ~Top.due
  BY <1>0, <1>1 DEF WalkRecord, WalkOK, Place
<1>3. q \in Process /\ next \in Links
  BY <1>0, <1>2 DEF KernelInv, Links
<1>4. \A r \in Top.missed \ undone : Reaches(next, q, r)
  BY <1>1, <1>2, <1>3, ReachStep
<1>5. /\ Tail(stack) # << >> /\ Tail(Tail(stack)) = << >>
      /\ Head(Tail(stack)).fn \in {"process_run", "do_event"}
      /\ stack \in Seq(Frame) /\ Tail(stack) \in Seq(Frame)
      /\ StackFits(Tail(stack), undone, state, needspoll, next)
  BY <1>0, TopFacts, LoopCalls DEF Top
<1> HIDE DEF q
<1>6. CASE ~needspoll[q]
  <2>1. PICK g : g = [Top EXCEPT !.at = q]
    OBVIOUS
  <2>2. stack' = With(g) /\ UNCHANGED <<state, needspoll, owed, undone, process_current>>
    BY <1>6, <2>1 DEF PollNext, q
  <2>3. /\ g \in WalkRecord /\ g.fn = Top.fn /\ g.p = Top.p
        /\ g.old = Top.old /\ g.missed = Top.missed /\ g.at = q /\ g.due = Top.due
    <3>1. q \in Place \cup {HEAD}
      BY <1>3 DEF Place
    <3> QED
      BY <1>1, <2>1, <3>1, MoveOn
  <2>4. WalkOK(g)
    BY <1>0, <1>2, <1>3, <2>3, Constants DEF WalkOK
  <2>5. Fits(g, undone, state, needspoll, next)
    BY <1>0, <1>1, <1>3, <1>4, <1>6, <2>3, Constants DEF Fits
  <2>6. /\ StackFits(With(g), undone, state, needspoll, next)
        /\ Head(With(g)) = g /\ Exits(stack) \subseteq Exits(With(g))
    BY <1>0, <2>3, <2>4, <2>5, MoveStep
  <2>7. CurrentFits(stack', process_current')
    BY <1>0, <2>2, <2>3, <2>6 DEF CurrentFits
  <2>8. /\ calls' \in 0..MaxCalls /\ poll_requested' \in BOOLEAN
        /\ process_current' \in Place
    BY <1>0, <2>2 DEF KernelInv, KernelTypes
  <2>9. StackFits(stack', undone, state, needspoll, next) /\ Exits(stack) \subseteq Exits(stack')
    BY <2>2, <2>6
  <2> QED
    BY <1>0, <2>2, <2>7, <2>8, <2>9, QuietStep
<1>7. CASE needspoll[q]
  <2>1. PICK g : g = [Top EXCEPT !.at = q, !.missed = @ \ {q}]
    OBVIOUS
  <2>2. PICK f : f = Thread(q, "POLL", TRUE)
    OBVIOUS
  <2>3. /\ state' = [state EXCEPT ![q] = "CALLED"]
        /\ needspoll' = [needspoll EXCEPT ![q] = FALSE]
        /\ owed' = owed \ {q} /\ process_current' = q
        /\ undone' = IF state[q] = "NONE" THEN undone \cup {q} ELSE undone
        /\ stack' = <<f>> \o (<<g>> \o Tail(stack))
    BY <1>7, <2>1, <2>2 DEF PollNext, q, With
  <2>4. /\ state \in States /\ needspoll \in [Process -> BOOLEAN] /\ undone \subseteq Process
    BY DEF KernelInv, KernelTypes
  <2>5. /\ state'[q] = "CALLED" /\ \A r : r # q => state'[r] = state[r]
        /\ ~needspoll'[q] /\ \A r : r # q => needspoll'[r] = needspoll[r]
        /\ state' \in States /\ needspoll' \in [Process -> BOOLEAN]
    BY <1>3, <2>3, <2>4 DEF States, State
  <2>6. undone \subseteq undone' /\ undone' \subseteq Process
    BY <1>3, <2>3, <2>4
  <2>7. /\ g \in WalkRecord /\ g.fn = "do_poll" /\ g.p = Top.p
        /\ g.old = Top.old /\ g.missed = Top.missed \ {q} /\ g.at = q /\ g.due = Top.due
    <3>1. q \in Place \cup {HEAD}
      BY <1>3 DEF Place
    <3> QED
      <4>1. /\ g \in WalkRecord /\ g.fn = Top.fn /\ g.p = Top.p
            /\ g.old = Top.old /\ g.missed = Top.missed \ {q} /\ g.at = q /\ g.due = Top.due
        <5>1. PICK t \in WalkRecord : t = Top
          BY <1>1
        <5>2. g = [t EXCEPT !.at = q, !.missed = @ \ {q}]
          BY <2>1, <5>1
        <5>3. /\ g \in WalkRecord /\ g.fn = t.fn /\ g.p = t.p
              /\ g.old = t.old /\ g.missed = t.missed \ {q} /\ g.at = q /\ g.due = t.due
          BY <3>1, <5>2 DEF WalkRecord
        <5> QED
          BY <5>1, <5>3
      <4> QED
        BY <1>0, <4>1
  <2>8. f \in Frame /\ f.fn = "thread" /\ f.p = q /\ f.called
    BY <1>3, <2>2 DEF Thread, Frame, ThreadFrame, Arg
  <2>9. g \in Frame
    <3>1. WalkOK(g)
      BY <1>2, <1>3, <2>7, Constants DEF WalkOK
    <3> QED
      BY <2>7, <3>1 DEF Frame, WalkFrame
  <2>10. StackFits(Tail(stack), undone', state', needspoll', next)
    <3>1. /\ Len(Tail(stack)) = 1 /\ Head(Tail(stack)) = Tail(stack)[1]
          /\ \A i \in 1..Len(Tail(stack)) : i = 1
      BY <1>5, OneCall
    <3>2. Fits(Head(Tail(stack)), undone, state, needspoll, next)
      BY <1>5, PopFits
    <3>3. PICK b : b = Tail(stack)[1]
      OBVIOUS
    <3>4. b.fn \in {"process_run", "do_event"} /\ Fits(b, undone, state, needspoll, next)
      BY <1>5, <3>1, <3>2, <3>3
    <3>5. \A r \in b.missed \ undone' : r \in b.missed \ undone
      BY <2>6
    <3>6. \A r : state[r] # "NONE" => state'[r] # "NONE"
      BY <2>5
    <3>7. Fits(b, undone', state', needspoll', next)
      BY <3>4, <3>5, <3>6 DEF Fits, Walks
    <3>8. \A i \in 1..Len(Tail(stack)) : Fits(Tail(stack)[i], undone', state', needspoll', next)
      BY <3>1, <3>3, <3>7
    <3> QED
      BY <1>5, <2>6, <3>8, ChangeFits
  <2>11. Fits(g, undone', state', needspoll', next)
    BY <1>1, <1>3, <1>4, <2>5, <2>6, <2>7, Constants DEF Fits
  <2>12. Adjacent(g, Head(Tail(stack)))
    BY <1>5, <2>7 DEF Adjacent
  <2>13. \A i \in 1..Len(Tail(stack)) : Same(g, Tail(stack)[i]) => g.p \in undone'
    BY <2>7 DEF Same
  <2>14. StackFits(<<g>> \o Tail(stack), undone', state', needspoll', next)
    BY <1>5, <2>9, <2>10, <2>11, <2>12, <2>13, PushFits
  <2> DEFINE walk == <<g>> \o Tail(stack)
  <2>15. /\ walk \in Seq(Frame) /\ Head(walk) = g /\ walk # << >>
         /\ \A i \in 1..Len(walk) : i = 1 \/
              (i - 1 \in 1..Len(Tail(stack)) /\ walk[i] = Tail(stack)[i - 1])
         /\ walk[1] = g
    BY <1>5, <2>9, PushSeq
  <2>16. Fits(f, undone', state', needspoll', next) /\ Adjacent(f, Head(walk))
    BY <2>5, <2>7, <2>8, <2>15 DEF Fits, Adjacent, Walks
  <2>17. \A i \in 1..Len(walk) : ~Same(f, walk[i])
    <3>1. \A i \in 1..Len(Tail(stack)) : Tail(stack)[i].fn # "thread"
      BY <1>5, OneCall
    <3> QED
      BY <2>7, <2>8, <2>15, <3>1 DEF Same
  <2>18. StackFits(walk, undone', state', needspoll', next)
    BY <2>14
  <2>19. stack' = <<f>> \o walk
    BY <2>3
  <2> HIDE DEF walk
  <2>20. StackFits(<<f>> \o walk, undone', state', needspoll', next)
    BY <2>8, <2>15, <2>16, <2>17, <2>18, PushFits
  <2>21. Head(stack') = f
    BY <2>8, <2>15, <2>19, PushSeq
  <2>22. Exits(stack) = {}
    <3>1. \A p \in Exits(stack) : p \in Exits(Tail(stack))
      BY <1>0, <1>5, PopExits DEF Top
    <3>2. \A p \in Exits(Tail(stack)) : p \in Exits(Tail(Tail(stack)))
      BY <1>5, PopExits
    <3>3. Exits(Tail(Tail(stack))) = {}
      <4>1. Len(Tail(Tail(stack))) = 0
        BY <1>5, EmptySeq
      <4> QED
        BY <4>1 DEF Exits
    <3> QED
      BY <3>1, <3>2, <3>3
  <2>23. ListFits(undone', state', next', Exits(stack'))
    <3> SUFFICES ASSUME NEW p \in Process \ undone'
                 PROVE  IF state'[p] # "NONE" THEN p \in ListOf(next)
                        ELSE p \in ListOf(next) => p \in Exits(stack')
      BY <1>0 DEF ListFits
    <3>1. p \notin undone /\ (p = q => state[p] # "NONE")
      BY <2>3, <2>6
    <3>2. IF state[p] # "NONE" THEN p \in ListOf(next)
          ELSE p \in ListOf(next) => p \in Exits(stack)
      BY <3>1 DEF KernelInv, ListFits
    <3> QED
      BY <2>5, <2>22, <3>1, <3>2
  <2>24. PollsFit(undone', state', needspoll', owed')
    BY <2>3, <2>5, <2>6 DEF KernelInv, PollsFit
  <2>25. CurrentFits(stack', process_current')
    BY <2>3, <2>8, <2>21 DEF CurrentFits
  <2>26. KernelTypes'
    BY <1>0, <1>3, <2>3, <2>5, <2>6 DEF KernelInv, KernelTypes, Place
  <2>27. StackFits(stack', undone', state', needspoll', next')
    BY <1>0, <2>19, <2>20
  <2> QED
    BY <1>0, <2>23, <2>24, <2>25, <2>26, <2>27 DEF KernelInv, KernelInvNext
<1> QED
  BY <1>6, <1>7

(* do_event takes an event.                                                  *)
LEMMA EventStep ==
  ASSUME KernelInv, do_event, events[fevent].p \in Place, events[fevent].ev \in Arg
  PROVE  KernelInvNext
<1>0. /\ stack # << >> /\ Top.fn = "process_run"
      /\ UNCHANGED <<next, state, needspoll, poll_requested, owed, process_current, calls,
                     undone>>
  BY DEF do_event, Running, listvars, pollvars, callvars
<1>1. /\ Tail(stack) = << >> /\ stack \in Seq(Frame) /\ Tail(stack) \in Seq(Frame)
      /\ StackFits(Tail(stack), undone, state, needspoll, next)
  BY <1>0, TopFacts, LoopCalls DEF Top
<1>2. Exits(stack) = {}
  <2>1. \A p \in Exits(stack) : p \in Exits(Tail(stack))
    BY <1>0, <1>1, PopExits DEF Top
  <2>2. Len(Tail(stack)) = 0
    BY <1>1, EmptySeq
  <2> QED
    BY <2>1, <2>2 DEF Exits
<1> DEFINE e == events[fevent]
           M == IF e.p = NULL THEN Listed ELSE {}
<1>3. PICK f : f = Walk("do_event", e.p, e.ev, NULL, M)
  OBVIOUS
<1>4. stack' = <<f>> \o Tail(stack)
  BY <1>3 DEF do_event, With
<1>5. Listed = ListOf(next) /\ ListOf(next) \subseteq Process /\ HasChain(next)
  BY ListedIs, ListClosed DEF KernelInv
<1>6. /\ f \in Frame /\ f.fn = "do_event" /\ f.p = e.p /\ f.missed = M /\ f.at = HEAD /\ ~f.due
  <2>1. /\ "do_event" \in Walks /\ e.p \in Place /\ e.ev \in Arg /\ NULL \in Place
        /\ M \in SUBSET Process /\ (e.p # NULL => M = {})
    BY <1>5 DEF Walks, Place
  <2> HIDE DEF e, M
  <2> QED
    BY <1>3, <2>1, WalkFields
<1>7. \A q \in M \ undone : state[q] # "NONE" /\ Reaches(next, HEAD, q) /\ q # HEAD
  <2> SUFFICES ASSUME NEW q \in M \ undone
               PROVE  state[q] # "NONE" /\ Reaches(next, HEAD, q) /\ q # HEAD
    OBVIOUS
  <2>1. q \in ListOf(next) /\ q \in Process
    BY <1>5
  <2>2. state[q] # "NONE"
    BY <1>2, <2>1 DEF KernelInv, ListFits
  <2> QED
    BY <1>5, <2>1, <2>2, ListReached, Constants
<1> HIDE DEF e, M
<1>8. Fits(f, undone, state, needspoll, next) /\ Bottom(f)
  BY <1>6, <1>7, Constants DEF Fits, Bottom
<1>9. StackFits(<<f>> \o Tail(stack), undone, state, needspoll, next)
  <2>1. PICK s : s = Tail(stack)
    OBVIOUS
  <2>2. s = << >> /\ StackFits(s, undone, state, needspoll, next) /\ \A i \in 1..Len(s) : FALSE
    <3>1. s = << >>
      BY <1>1, <2>1
    <3>2. Len(s) = 0
      BY <3>1
    <3> QED
      BY <1>1, <2>1, <3>1, <3>2
  <2> QED
    BY <1>6, <1>8, <2>1, <2>2, PushFits
<1>10. Head(<<f>> \o Tail(stack)) = f
  BY <1>1, <1>6, PushSeq
<1>11. CurrentFits(stack', process_current')
  BY <1>4, <1>6, <1>10 DEF CurrentFits
<1>12. /\ calls' \in 0..MaxCalls /\ poll_requested' \in BOOLEAN /\ process_current' \in Place
  BY <1>0 DEF KernelInv, KernelTypes
<1>13. StackFits(stack', undone, state, needspoll, next) /\ Exits(stack) \subseteq Exits(stack')
  BY <1>2, <1>4, <1>9
<1> QED
  BY <1>0, <1>11, <1>12, <1>13, QuietStep

(* do_event calls the one process an event is for.                           *)
LEMMA ReceiverStep == KernelInv /\ CallReceiver => KernelInvNext
<1> SUFFICES ASSUME KernelInv, CallReceiver PROVE KernelInvNext
  OBVIOUS
<1>0. /\ stack # << >> /\ Top.fn = "do_event" /\ Top.fn \in Walks /\ Top.p # NULL
      /\ UNCHANGED <<next, needspoll, poll_requested, owed, calls, undone>>
  BY DEF CallReceiver, Running, Walks, pollvars, callvars
<1>1. PICK t \in WalkRecord : t = Top /\ WalkOK(t)
  BY <1>0, WalkFacts
<1>2. PICK g : g = [t EXCEPT !.at = NULL]
  OBVIOUS
<1>3. /\ g \in WalkRecord /\ g.fn = t.fn /\ g.p = t.p /\ g.arg = t.arg
      /\ g.old = t.old /\ g.missed = t.missed /\ g.at = NULL /\ g.due = t.due
  BY <1>1, <1>2, MoveOn DEF Place
<1>4. WalkOK(g) /\ g.missed = {}
  BY <1>0, <1>1, <1>3 DEF WalkOK
<1>5. Fits(g, undone, state, needspoll, next)
  BY <1>0, <1>1, <1>3, <1>4 DEF Fits
<1>6. /\ With(g) \in Seq(Frame) /\ With(g) # << >> /\ Head(With(g)) = g
      /\ StackFits(With(g), undone, state, needspoll, next)
      /\ Exits(stack) \subseteq Exits(With(g))
  BY <1>0, <1>1, <1>3, <1>4, <1>5, MoveStep
<1>7. call_process(Top.p, Top.arg, With(g))
  BY <1>1, <1>2 DEF CallReceiver
<1>8. Top.p \in Process /\ Top.arg \in Arg
  BY <1>0, <1>1 DEF WalkRecord, Place
<1>9. calls' \in 0..MaxCalls /\ Head(With(g)).fn # "thread"
  BY <1>0, <1>1, <1>3, <1>6 DEF KernelInv, KernelTypes
<1> QED
  BY <1>0, <1>6, <1>7, <1>8, <1>9, CallStep

(* A broadcast goes on, after the polls.                                     *)
LEMMA BroadcastStep == KernelInv /\ BroadcastNext => KernelInvNext
<1> SUFFICES ASSUME KernelInv, BroadcastNext PROVE KernelInvNext
  OBVIOUS
<1>0. /\ stack # << >> /\ Top.fn = "do_event" /\ Top.fn \in Walks
      /\ Top.p = NULL /\ ~Top.due /\ next[Top.at] # NULL
      /\ UNCHANGED <<next, state, needspoll, owed, process_current, calls, undone>>
  BY DEF BroadcastNext, Running, Walks, listvars, callvars
<1>1. PICK t \in WalkRecord : t = Top /\ WalkOK(t)
  BY <1>0, WalkFacts
<1>2. PICK q : q = next[Top.at]
  OBVIOUS
<1>3. t.at \in Process \cup {HEAD} /\ q \in Process
  BY <1>0, <1>1, <1>2 DEF WalkRecord, WalkOK, Place, KernelInv, Links
<1>4. PICK g : g = [t EXCEPT !.at = q, !.due = TRUE]
  OBVIOUS
<1>5. /\ g \in WalkRecord /\ g.fn = t.fn /\ g.p = t.p /\ g.arg = t.arg
      /\ g.old = t.old /\ g.missed = t.missed /\ g.at = q /\ g.due
  BY <1>3, <1>4 DEF WalkRecord, Place
<1>6. WalkOK(g)
  BY <1>0, <1>1, <1>3, <1>5, Constants DEF WalkOK
<1>7. \A r \in t.missed \ undone : state[r] # "NONE" /\ Reaches(next, q, r)
  <2> SUFFICES ASSUME NEW r \in t.missed \ undone
               PROVE  state[r] # "NONE" /\ Reaches(next, q, r)
    OBVIOUS
  <2>1. state[r] # "NONE" /\ Reaches(next, t.at, r) /\ r # t.at
    BY <1>0, <1>1, WalkFacts
  <2> QED
    BY <1>1, <1>2, <1>3, <2>1, ReachStep DEF KernelInv
<1>8. Fits(g, undone, state, needspoll, next)
  BY <1>0, <1>1, <1>3, <1>5, <1>7, Constants DEF Fits
<1>9. /\ With(g) # << >> /\ Head(With(g)) = g
      /\ StackFits(With(g), undone, state, needspoll, next)
      /\ Exits(stack) \subseteq Exits(With(g))
  BY <1>0, <1>1, <1>5, <1>6, <1>8, MoveStep
<1>10. PollFirst(With(g)) /\ Head(With(g)).fn = "do_event"
  BY <1>0, <1>1, <1>2, <1>4, <1>5, <1>9 DEF BroadcastNext
<1> QED
  BY <1>0, <1>9, <1>10, PollFirstStep

(* A broadcast calls the process it is at.                                   *)
LEMMA ListedStep == KernelInv /\ CallListed => KernelInvNext
<1> SUFFICES ASSUME KernelInv, CallListed PROVE KernelInvNext
  OBVIOUS
<1>0. /\ stack # << >> /\ Top.fn = "do_event" /\ Top.fn \in Walks /\ Top.due
      /\ UNCHANGED <<next, needspoll, poll_requested, owed, calls, undone>>
  BY DEF CallListed, Running, Walks, pollvars, callvars
<1>1. PICK t \in WalkRecord : t = Top /\ WalkOK(t)
  BY <1>0, WalkFacts
<1>2. t.at \in Process
  BY <1>0, <1>1 DEF WalkOK
<1>3. PICK g : g = [t EXCEPT !.due = FALSE, !.missed = @ \ {t.at}]
  OBVIOUS
<1>4. /\ g \in WalkRecord /\ g.fn = t.fn /\ g.p = t.p /\ g.arg = t.arg
      /\ g.old = t.old /\ g.missed = t.missed \ {t.at} /\ g.at = t.at /\ ~g.due
  BY <1>3 DEF WalkRecord
<1>5. WalkOK(g)
  BY <1>0, <1>1, <1>2, <1>4, Constants DEF WalkOK
<1>6. \A r \in t.missed \ undone : state[r] # "NONE" /\ t.at # NULL /\ Reaches(next, t.at, r)
  BY <1>0, <1>1, WalkFacts
<1>7. Fits(g, undone, state, needspoll, next)
  BY <1>0, <1>1, <1>4, <1>6 DEF Fits
<1>8. /\ With(g) \in Seq(Frame) /\ With(g) # << >> /\ Head(With(g)) = g
      /\ StackFits(With(g), undone, state, needspoll, next)
      /\ Exits(stack) \subseteq Exits(With(g))
  BY <1>0, <1>1, <1>4, <1>5, <1>7, MoveStep
<1>9. call_process(Top.at, Top.arg, With(g))
  BY <1>1, <1>3 DEF CallListed
<1>10. Top.at \in Process /\ Top.arg \in Arg
  BY <1>1, <1>2 DEF WalkRecord
<1>11. calls' \in 0..MaxCalls /\ Head(With(g)).fn # "thread"
  BY <1>0, <1>1, <1>4, <1>8 DEF KernelInv, KernelTypes
<1> QED
  BY <1>0, <1>8, <1>9, <1>10, <1>11, CallStep

(* A call returns that neither called a process nor ends an exit.            *)
LEMMA ReturnStep == KernelInv /\ Return => KernelInvNext
<1> SUFFICES ASSUME KernelInv, Return PROVE KernelInvNext
  OBVIOUS
<1>1. /\ stack # << >> /\ Top.fn \in {"process_run", "do_poll", "do_event"}
      /\ stack' = Tail(stack)
      /\ UNCHANGED <<next, state, needspoll, poll_requested, owed, process_current, calls,
                     undone>>
  BY DEF Return, Finished, Running, listvars, pollvars, callvars
<1>2. /\ stack \in Seq(Frame) /\ StackFits(Tail(stack), undone, state, needspoll, next)
      /\ IF Tail(stack) = << >> THEN Bottom(Top) ELSE Adjacent(Top, Head(Tail(stack)))
  BY <1>1, TopFacts
<1>3. CurrentFits(stack', process_current')
  BY <1>1, <1>2 DEF CurrentFits, Adjacent
<1>4. Exits(stack) \subseteq Exits(Tail(stack))
  BY <1>1, <1>2, PopExits DEF Top
<1>5. calls' \in 0..MaxCalls /\ poll_requested' \in BOOLEAN /\ process_current' \in Place
  BY <1>1 DEF KernelInv, KernelTypes
<1> QED
  BY <1>1, <1>2, <1>3, <1>4, <1>5, QuietStep

(* exit_process tells the next process.                                      *)
LEMMA TellStep == KernelInv /\ TellNext => KernelInvNext
<1> SUFFICES ASSUME KernelInv, TellNext PROVE KernelInvNext
  OBVIOUS
<1>0. /\ stack # << >> /\ Top.fn = "exit_process" /\ Top.fn \in Walks
      /\ Top.at # NULL /\ next[Top.at] # NULL
      /\ UNCHANGED <<next, needspoll, poll_requested, owed, calls, undone>>
  BY DEF TellNext, Running, Walks, pollvars, callvars
<1>1. PICK t \in WalkRecord : t = Top /\ WalkOK(t)
  BY <1>0, WalkFacts
<1>2. PICK q : q = next[Top.at]
  OBVIOUS
<1>3. t.at \in Process \cup {HEAD} /\ q \in Process /\ ~t.due
  BY <1>0, <1>1, <1>2 DEF WalkRecord, WalkOK, Place, KernelInv, Links
<1>4. PICK g : g = [t EXCEPT !.at = q, !.missed = @ \ {q}]
  OBVIOUS
<1>5. /\ g \in WalkRecord /\ g.fn = t.fn /\ g.p = t.p /\ g.arg = t.arg
      /\ g.old = t.old /\ g.missed = t.missed \ {q} /\ g.at = q /\ g.due = t.due
  BY <1>3, <1>4 DEF WalkRecord, Place
<1>6. WalkOK(g)
  BY <1>0, <1>1, <1>3, <1>5, Constants DEF WalkOK
<1>7. \A r \in t.missed \ undone : state[r] # "NONE" /\ Reaches(next, q, r)
  <2> SUFFICES ASSUME NEW r \in t.missed \ undone
               PROVE  state[r] # "NONE" /\ Reaches(next, q, r)
    OBVIOUS
  <2>1. state[r] # "NONE" /\ Reaches(next, t.at, r) /\ r # t.at
    BY <1>0, <1>1, <1>3, WalkFacts
  <2> QED
    BY <1>1, <1>2, <1>3, <2>1, ReachStep DEF KernelInv
<1>8. Fits(t, undone, state, needspoll, next)
  BY <1>0, <1>1, TopFacts
<1>9. Fits(g, undone, state, needspoll, next)
  BY <1>0, <1>1, <1>3, <1>5, <1>7, <1>8, Constants DEF Fits
<1>10. /\ With(g) \in Seq(Frame) /\ With(g) # << >> /\ Head(With(g)) = g
       /\ StackFits(With(g), undone, state, needspoll, next)
       /\ Exits(stack) \subseteq Exits(With(g))
  BY <1>0, <1>1, <1>5, <1>6, <1>9, MoveStep
<1>11. /\ calls' \in 0..MaxCalls /\ Head(With(g)).fn = "exit_process"
       /\ poll_requested' \in BOOLEAN /\ process_current \in Place
  BY <1>0, <1>1, <1>5, <1>10 DEF KernelInv, KernelTypes
<1>12. IF q = Top.p THEN stack' = With(g) /\ UNCHANGED <<process_current, state>>
       ELSE call_process(q, "EXITED", With(g))
  BY <1>1, <1>2, <1>4 DEF TellNext
<1>13. CASE q = Top.p
  <2>1. stack' = With(g) /\ UNCHANGED <<process_current, state>>
    BY <1>12, <1>13
  <2>2. CurrentFits(stack', process_current')
    BY <1>10, <1>11, <2>1 DEF CurrentFits
  <2>3. StackFits(stack', undone, state, needspoll, next) /\ Exits(stack) \subseteq Exits(stack')
    BY <1>10, <2>1
  <2> QED
    BY <1>0, <1>11, <2>1, <2>2, <2>3, QuietStep
<1>14. CASE q # Top.p
  <2>1. call_process(q, "EXITED", With(g)) /\ "EXITED" \in Arg
    BY <1>12, <1>14 DEF Arg
  <2> QED
    BY <1>0, <1>3, <1>10, <1>11, <2>1, CallStep
<1> QED
  BY <1>13, <1>14

(* exit_process calls the exiting process.                                   *)
LEMMA ExitingStep == KernelInv /\ CallExiting => KernelInvNext
<1> SUFFICES ASSUME KernelInv, CallExiting PROVE KernelInvNext
  OBVIOUS
<1>0. /\ stack # << >> /\ Top.fn = "exit_process" /\ Top.fn \in Walks
      /\ Top.at # NULL /\ next[Top.at] = NULL
      /\ UNCHANGED <<next, state, needspoll, poll_requested, owed, calls, undone>>
  BY DEF CallExiting, Running, Walks, listvars, pollvars, callvars
<1>1. PICK t \in WalkRecord : t = Top /\ WalkOK(t)
  BY <1>0, WalkFacts
<1>2. t.at \in Process \cup {HEAD} /\ ~t.due /\ t.p \in Process
  BY <1>0, <1>1 DEF WalkRecord, WalkOK, Place
<1>3. PICK g : g = [t EXCEPT !.at = NULL]
  OBVIOUS
<1>4. /\ g \in WalkRecord /\ g.fn = t.fn /\ g.p = t.p /\ g.arg = t.arg
      /\ g.old = t.old /\ g.missed = t.missed /\ g.at = NULL /\ g.due = t.due
  BY <1>3, MoveOn DEF Place
<1>5. WalkOK(g)
  BY <1>0, <1>1, <1>2, <1>4 DEF WalkOK
<1>6. t.missed \subseteq undone
  <2> SUFFICES ASSUME NEW r \in t.missed \ undone PROVE FALSE
    OBVIOUS
  <2>1. Reaches(next, t.at, r) /\ r # t.at
    BY <1>0, <1>1, <1>2, WalkFacts
  <2> QED
    BY <1>0, <1>1, <1>2, <2>1, ReachStep DEF KernelInv
<1>7. Fits(t, undone, state, needspoll, next)
  BY <1>0, <1>1, TopFacts
<1>8. Fits(g, undone, state, needspoll, next)
  BY <1>0, <1>1, <1>4, <1>6, <1>7 DEF Fits
<1>9. /\ g \in Frame /\ With(g) \in Seq(Frame) /\ With(g) # << >> /\ Head(With(g)) = g
      /\ StackFits(With(g), undone, state, needspoll, next)
      /\ Exits(stack) \subseteq Exits(With(g))
  BY <1>0, <1>1, <1>4, <1>5, <1>8, MoveStep
<1>10. /\ calls' \in 0..MaxCalls /\ Head(With(g)).fn = "exit_process"
       /\ poll_requested' \in BOOLEAN /\ process_current \in Place
  BY <1>0, <1>1, <1>4, <1>9 DEF KernelInv, KernelTypes
<1>11. CASE Top.p = Top.arg
  <2>1. stack' = With(g) /\ UNCHANGED process_current
    BY <1>1, <1>3, <1>11 DEF CallExiting
  <2>2. CurrentFits(stack', process_current')
    BY <1>9, <1>10, <2>1 DEF CurrentFits
  <2>3. StackFits(stack', undone, state, needspoll, next) /\ Exits(stack) \subseteq Exits(stack')
    BY <1>9, <2>1
  <2> QED
    BY <1>0, <1>10, <2>1, <2>2, <2>3, QuietStep
<1>12. CASE Top.p # Top.arg
  <2>1. PICK f : f = Thread(t.p, "EXIT", FALSE)
    OBVIOUS
  <2>2. process_current' = t.p /\ stack' = <<f>> \o With(g)
    BY <1>1, <1>3, <1>12, <2>1 DEF CallExiting
  <2>3. f \in Frame /\ f.fn = "thread" /\ f.p = t.p /\ ~f.called
    BY <1>2, <2>1 DEF Thread, Frame, ThreadFrame, Arg
  <2>4. Fits(f, undone, state, needspoll, next) /\ Adjacent(f, g)
    BY <1>0, <1>1, <1>4, <2>3 DEF Fits, Adjacent, Walks
  <2>5. ASSUME NEW i \in 1..Len(With(g)), Same(f, With(g)[i]), t.p \notin undone PROVE FALSE
    <3>1. With(g)[i].fn = "thread" /\ With(g)[i].p = t.p
      BY <2>3, <2>5 DEF Same
    <3>2. state[t.p] = "NONE"
      BY <1>0, <1>1, <1>7, <2>5 DEF Fits
    <3>3. ~With(g)[i].called
      <4>1. With(g)[i].called => state[t.p] = "CALLED"
        BY <1>9, <2>5, <3>1, CallsSay
      <4> QED
        BY <3>2, <4>1
    <3>4. Shape(With(g)) /\ Single(With(g), undone)
      BY <1>9 DEF StackFits
    <3>5. IF i = Len(With(g)) THEN Bottom(With(g)[i]) ELSE Adjacent(With(g)[i], With(g)[i + 1])
      BY <3>4 DEF Shape
    <3>6. /\ i # Len(With(g)) /\ With(g)[i + 1].fn = "exit_process"
          /\ With(g)[i + 1].p = t.p
      BY <3>1, <3>3, <3>5 DEF Bottom, Adjacent
    <3>7. Len(With(g)) \in Nat /\ With(g)[1] = g /\ 1 \in 1..Len(With(g))
      BY <1>9, PopSeq
    <3>8. i + 1 \in 1..Len(With(g)) /\ 1 # i + 1
      <4>1. \A m \in Nat : \A k \in 1..m : k # m => k + 1 \in 1..m /\ 1 # k + 1
        OBVIOUS
      <4> QED
        BY <3>6, <3>7, <4>1
    <3>9. Same(With(g)[1], With(g)[i + 1])
      BY <1>0, <1>1, <1>4, <3>6, <3>7 DEF Same
    <3>10. 1 = i + 1 \/ With(g)[1].p \in undone
      BY <3>4, <3>7, <3>8, <3>9 DEF Single
    <3> QED
      BY <1>4, <2>5, <3>7, <3>8, <3>10
  <2>6. \A i \in 1..Len(With(g)) : Same(f, With(g)[i]) => f.p \in undone
    BY <2>3, <2>5
  <2>7. PICK base : base = With(g)
    OBVIOUS
  <2>8. StackFits(<<f>> \o base, undone, state, needspoll, next)
    BY <1>9, <2>3, <2>4, <2>6, <2>7, PushFits
  <2>9. Exits(base) \subseteq Exits(<<f>> \o base) /\ Head(<<f>> \o base) = f
    BY <1>9, <2>3, <2>7, PushExits, PushSeq
  <2>10. CurrentFits(stack', process_current')
    BY <2>2, <2>3, <2>7, <2>9 DEF CurrentFits
  <2>11. StackFits(stack', undone, state, needspoll, next) /\ Exits(stack) \subseteq Exits(stack')
    BY <1>9, <2>2, <2>7, <2>8, <2>9
  <2>12. process_current' \in Place
    BY <1>2, <2>2 DEF Place
  <2> QED
    BY <1>0, <1>10, <2>10, <2>11, <2>12, QuietStep
<1> QED
  BY <1>11, <1>12

(* Links are taken as Unlinked says.                                         *)
LEMMA UnlinkedIs == \A p : Unlinked(p) = Without(next, p)
BY ListedIs DEF Unlinked, Without

(* exit_process takes the process off the list and ends.                     *)
LEMMA UnlinkStep == KernelInv /\ Unlink => KernelInvNext
<1> SUFFICES ASSUME KernelInv, Unlink PROVE KernelInvNext
  OBVIOUS
<1>0. /\ stack # << >> /\ Top.fn = "exit_process" /\ Top.fn \in Walks
      /\ process_current' = Top.old /\ stack' = Tail(stack)
      /\ UNCHANGED <<state, needspoll, poll_requested, owed, calls, undone>>
  BY DEF Unlink, Running, Walks, pollvars, callvars
<1>1. PICK t \in WalkRecord : t = Top /\ WalkOK(t)
  BY <1>0, WalkFacts
<1>2. t.p \in Process /\ t.old \in Place
  BY <1>0, <1>1 DEF WalkRecord, WalkOK
<1>3. next' = Without(next, t.p)
  BY <1>1, UnlinkedIs DEF Unlink
<1>4. /\ stack \in Seq(Frame) /\ StackFits(Tail(stack), undone, state, needspoll, next)
      /\ Fits(t, undone, state, needspoll, next)
      /\ \A i \in 1..Len(Tail(stack)) : Same(t, Tail(stack)[i]) => t.p \in undone
      /\ IF Tail(stack) = << >> THEN Bottom(t) ELSE Adjacent(t, Head(Tail(stack)))
  BY <1>0, <1>1, TopFacts
<1>5. t.p \in undone \/ state[t.p] = "NONE"
  BY <1>0, <1>1, <1>4 DEF Fits
<1>6. next \in Links /\ HasChain(next)
  BY DEF KernelInv
<1>7. \A i \in 1..Len(Tail(stack)) :
        Tail(stack)[i].fn = "exit_process" /\ Tail(stack)[i].p = t.p => t.p \in undone
  BY <1>0, <1>1, <1>4 DEF Same
<1>8. StackFits(Tail(stack), undone, state, needspoll, Without(next, t.p))
  <2>1. PICK s : s = Tail(stack)
    OBVIOUS
  <2>2. /\ StackFits(s, undone, state, needspoll, next)
        /\ \A i \in 1..Len(s) : s[i].fn = "exit_process" /\ s[i].p = t.p => t.p \in undone
    BY <1>4, <1>7, <2>1
  <2> QED
    BY <1>2, <1>5, <1>6, <2>1, <2>2, UnlinkFits
<1>9. /\ next' \in Links /\ HasChain(next') /\ ListOf(next') = ListOf(next) \ {t.p}
  BY <1>2, <1>3, <1>6, UnlinkChain
<1>10. StackFits(stack', undone', state', needspoll', next')
  BY <1>0, <1>3, <1>8
<1>11. ListFits(undone', state', next', Exits(stack'))
  <2>1. \A p \in Exits(stack) : p \in Exits(Tail(stack)) \/ t.p = p
    BY <1>0, <1>1, <1>4, PopExits DEF Top
  <2> SUFFICES ASSUME NEW p \in Process \ undone
               PROVE  IF state[p] # "NONE" THEN p \in ListOf(next')
                      ELSE p \in ListOf(next') => p \in Exits(Tail(stack))
    BY <1>0 DEF ListFits
  <2>2. IF state[p] # "NONE" THEN p \in ListOf(next)
        ELSE p \in ListOf(next) => p \in Exits(stack)
    BY DEF KernelInv, ListFits
  <2> QED
    BY <1>5, <1>9, <2>1, <2>2
<1>12. CurrentFits(stack', process_current')
  BY <1>0, <1>1, <1>4 DEF CurrentFits, Adjacent
<1>13. KernelTypes' /\ PollsFit(undone', state', needspoll', owed')
  BY <1>0, <1>1, <1>2 DEF KernelInv, KernelTypes, PollsFit
<1> QED
  BY <1>9, <1>10, <1>11, <1>12, <1>13 DEF KernelInvNext

(* A synchronous post returns to its caller.                                 *)
LEMMA ResumeStep == KernelInv /\ Resume => KernelInvNext
<1> SUFFICES ASSUME KernelInv, Resume PROVE KernelInvNext
  OBVIOUS
<1>1. /\ stack # << >> /\ Top.fn = "synch"
      /\ process_current' = Top.old /\ stack' = Tail(stack)
      /\ UNCHANGED <<next, state, needspoll, poll_requested, owed, calls, undone>>
  BY DEF Resume, Running, listvars, pollvars, callvars
<1>2. /\ stack \in Seq(Frame) /\ StackFits(Tail(stack), undone, state, needspoll, next)
      /\ Top \in Frame
      /\ IF Tail(stack) = << >> THEN Bottom(Top) ELSE Adjacent(Top, Head(Tail(stack)))
  BY <1>1, TopFacts
<1>3. CurrentFits(stack', process_current')
  BY <1>1, <1>2 DEF CurrentFits, Adjacent
<1>4. Exits(stack) \subseteq Exits(Tail(stack))
  BY <1>1, <1>2, PopExits DEF Top
<1>5. Top.old \in Place
  BY <1>1, <1>2, FrameKinds DEF SynchFrame
<1>6. calls' \in 0..MaxCalls /\ poll_requested' \in BOOLEAN /\ process_current' \in Place
  BY <1>1, <1>5 DEF KernelInv, KernelTypes
<1> QED
  BY <1>1, <1>2, <1>3, <1>4, <1>6, QuietStep

(* A thread returns.                                                         *)
LEMMA ThreadStep ==
  ASSUME KernelInv, NEW exited \in BOOLEAN, ThreadReturns(exited)
  PROVE  KernelInvNext
<1>0. /\ stack # << >> /\ Top.fn = "thread"
      /\ UNCHANGED <<next, needspoll, poll_requested, process_current, calls, undone>>
  BY DEF ThreadReturns, Running, callvars
<1>1. /\ stack \in Seq(Frame) /\ StackFits(Tail(stack), undone, state, needspoll, next)
      /\ Tail(stack) \in Seq(Frame)
      /\ Top \in Frame /\ Fits(Top, undone, state, needspoll, next)
      /\ \A i \in 1..Len(Tail(stack)) : Same(Top, Tail(stack)[i]) => Top.p \in undone
      /\ IF Tail(stack) = << >> THEN Bottom(Top) ELSE Adjacent(Top, Head(Tail(stack)))
  BY <1>0, TopFacts
<1>2. Top.p \in Process /\ Top.called \in BOOLEAN
  BY <1>0, <1>1, FrameKinds DEF ThreadFrame
<1>3. Exits(stack) \subseteq Exits(Tail(stack))
  BY <1>0, <1>1, PopExits DEF Top
<1>4. /\ calls' \in 0..MaxCalls /\ poll_requested' \in BOOLEAN
      /\ process_current' \in Place /\ undone \subseteq Process
  BY <1>0 DEF KernelInv, KernelTypes
<1>5. CurrentFits(Tail(stack), process_current)
  BY <1>0, <1>1 DEF CurrentFits, Adjacent
<1>6. \A i \in 1..Len(Tail(stack)) :
        Tail(stack)[i].fn = "thread" /\ Tail(stack)[i].p = Top.p => Top.p \in undone
  BY <1>0, <1>1 DEF Same
<1>7. CASE ~Top.called
  <2>1. stack' = Tail(stack) /\ UNCHANGED <<state, owed>>
    BY <1>7 DEF ThreadReturns
  <2>2. CurrentFits(stack', process_current')
    BY <1>0, <1>5, <2>1
  <2> QED
    BY <1>0, <1>1, <1>3, <1>4, <2>1, <2>2, QuietStep
<1>8. CASE Top.called /\ (exited \/ Top.ev = "EXIT")
  <2>1. exit_process(Top.p, Top.p, Tail(stack))
    BY <1>8 DEF ThreadReturns
  <2>2. state[Top.p] = "NONE" => Top.p \in undone
    BY <1>0, <1>1, <1>8 DEF Fits
  <2>3. PICK base : base = Tail(stack)
    OBVIOUS
  <2>4. PICK p \in Process : p = Top.p
    BY <1>2
  <2>5. /\ exit_process(p, p, base) /\ p \in Place
        /\ StackFits(base, undone', state, needspoll, next)
        /\ CurrentFits(base, process_current) /\ Exits(stack) \subseteq Exits(base)
        /\ state[p] = "NONE" => p \in undone'
        /\ \A i \in 1..Len(base) :
             base[i].fn = "thread" /\ base[i].called /\ base[i].p = p => p \in undone'
    BY <1>0, <1>1, <1>3, <1>5, <1>6, <2>1, <2>2, <2>3, <2>4 DEF Place
  <2> QED
    BY <1>0, <1>4, <2>4, <2>5, ExitStep
<1>9. CASE Top.called /\ ~(exited \/ Top.ev = "EXIT")
  <2>1. state' = [state EXCEPT ![Top.p] = "RUNNING"] /\ stack' = Tail(stack) /\ owed' = owed
    BY <1>9 DEF ThreadReturns
  <2>2. state \in States
    BY DEF KernelInv, KernelTypes
  <2>3. /\ state'[Top.p] = "RUNNING" /\ \A q : q # Top.p => state'[q] = state[q]
        /\ state' \in States
    BY <1>2, <2>1, <2>2 DEF States, State
  <2>4. Top.p \in undone \/ state[Top.p] = "CALLED"
    BY <1>0, <1>1, <1>9 DEF Fits
  <2>5. StackFits(Tail(stack), undone, [state EXCEPT ![Top.p] = "RUNNING"], needspoll, next)
    <3>1. PICK s : s = Tail(stack)
      OBVIOUS
    <3>2. PICK p \in Process : p = Top.p
      BY <1>2
    <3>3. StackFits(s, undone, state, needspoll, next)
      BY <1>1, <3>1
    <3>4. \A i \in 1..Len(s) : s[i].fn = "exit_process" /\ s[i].p = p => p \in undone
      BY <2>4, <3>2, <3>3, CallsSay
    <3>5. \A i \in 1..Len(s) : s[i].fn = "thread" /\ s[i].p = p => p \in undone
      BY <1>6, <3>1, <3>2
    <3>6. StackFits(s, undone, [state EXCEPT ![p] = "RUNNING"], needspoll, next)
      BY <2>2, <3>3, <3>4, <3>5, StateFits DEF State
    <3> QED
      BY <3>1, <3>2, <3>6
  <2>6. StackFits(stack', undone', state', needspoll', next')
    BY <1>0, <2>1, <2>5
  <2>7. ListFits(undone', state', next', Exits(stack'))
    <3> SUFFICES ASSUME NEW q \in Process \ undone
                 PROVE  IF state'[q] # "NONE" THEN q \in ListOf(next)
                        ELSE q \in ListOf(next) => q \in Exits(Tail(stack))
      BY <1>0, <2>1 DEF ListFits
    <3>1. IF state[q] # "NONE" THEN q \in ListOf(next)
          ELSE q \in ListOf(next) => q \in Exits(stack)
      BY DEF KernelInv, ListFits
    <3> QED
      BY <1>3, <2>3, <2>4, <3>1
  <2>8. PollsFit(undone', state', needspoll', owed')
    <3>1. \A q \in owed : needspoll[q] /\ (q \in undone \/ state[q] # "NONE")
      BY DEF KernelInv, PollsFit
    <3>2. \A q : state[q] # "NONE" => state'[q] # "NONE"
      BY <2>3
    <3> QED
      BY <1>0, <2>1, <3>1, <3>2 DEF PollsFit
  <2>9. CurrentFits(stack', process_current')
    BY <1>0, <1>5, <2>1
  <2>10. KernelTypes'
    BY <1>0, <2>1, <2>3 DEF KernelInv, KernelTypes
  <2> QED
    BY <1>0, <2>6, <2>7, <2>8, <2>9, <2>10 DEF KernelInv, KernelInvNext
<1> QED
  BY <1>2, <1>7, <1>8, <1>9

(* A call out of a thread or of loop() that keeps its caller.                *)
LEMMA SynchFits ==
  ASSUME KernelInv, UserCode
  PROVE  /\ Synch(stack) \in Seq(Frame) /\ Synch(stack) # << >>
         /\ Head(Synch(stack)).fn = "synch"
         /\ StackFits(Synch(stack), undone, state, needspoll, next)
         /\ Exits(stack) \subseteq Exits(Synch(stack))
<1>1. PICK f : f = [fn |-> "synch", old |-> process_current]
  OBVIOUS
<1>2. process_current \in Place /\ StackFits(stack, undone, state, needspoll, next)
  BY DEF KernelInv, KernelTypes
<1>3. stack \in Seq(Frame)
  BY <1>2 DEF StackFits, Shape
<1>4. f \in Frame /\ f.fn = "synch" /\ f.old = process_current
  BY <1>1, <1>2 DEF Frame, SynchFrame
<1>5. Bottom(f) /\ Fits(f, undone, state, needspoll, next)
  BY <1>4 DEF Bottom, Fits, Walks
<1>6. stack # << >> => Adjacent(f, Head(stack))
  BY <1>4 DEF Adjacent, UserCode, Top, KernelInv, CurrentFits
<1>7. \A i \in 1..Len(stack) : Same(f, stack[i]) => f.p \in undone
  BY <1>4 DEF Same
<1>8. StackFits(<<f>> \o stack, undone, state, needspoll, next)
  BY <1>2, <1>4, <1>5, <1>6, <1>7, PushFits
<1>9. /\ <<f>> \o stack \in Seq(Frame) /\ <<f>> \o stack # << >>
      /\ Head(<<f>> \o stack) = f /\ Exits(stack) \subseteq Exits(<<f>> \o stack)
  BY <1>3, <1>4, PushSeq, PushExits
<1>10. Synch(stack) = <<f>> \o stack
  BY <1>1 DEF Synch
<1> QED
  BY <1>4, <1>8, <1>9, <1>10

(* MaxCalls counts these.                                                    *)
LEMMA CallCounted ==
  ASSUME KernelInv, calls < MaxCalls, calls' = calls + 1
  PROVE  calls' \in 0..MaxCalls
<1>1. calls \in 0..MaxCalls /\ MaxCalls \in Nat
  BY Constants DEF KernelInv, KernelTypes
<1> QED
  BY <1>1

(* process_post_synch.                                                       *)
LEMMA PostSynchStep ==
  ASSUME KernelInv, NEW p \in Process, process_post_synch(p)
  PROVE  KernelInvNext
<1>1. /\ UserCode /\ calls < MaxCalls /\ calls' = calls + 1
      /\ call_process(p, "MSG", Synch(stack))
      /\ UNCHANGED <<next, needspoll, poll_requested, owed, undone>>
  BY DEF process_post_synch, pollvars
<1>2. calls' \in 0..MaxCalls /\ "MSG" \in Arg
  BY <1>1, CallCounted DEF Arg
<1>3. PICK base : base = Synch(stack)
  OBVIOUS
<1>4. /\ base # << >> /\ Head(base).fn # "thread"
      /\ StackFits(base, undone, state, needspoll, next) /\ Exits(stack) \subseteq Exits(base)
      /\ call_process(p, "MSG", base)
  BY <1>1, <1>3, SynchFits
<1> QED
  BY <1>1, <1>2, <1>4, CallStep

(* process_start.                                                            *)
LEMMA StartStep ==
  ASSUME KernelInv, NEW p \in Process, process_start(p)
  PROVE  KernelInvNext
<1>0. /\ UserCode /\ calls < MaxCalls /\ calls' = calls + 1
      /\ p \notin ListOf(next)
      /\ next' = [next EXCEPT ![p] = next[HEAD], ![HEAD] = p]
      /\ state' = [state EXCEPT ![p] = "CALLED"]
      /\ process_current' = p
      /\ stack' = <<Thread(p, "INIT", TRUE)>> \o Synch(stack)
      /\ UNCHANGED <<needspoll, poll_requested, owed, undone>>
  BY ListedIs DEF process_start, pollvars, Startable
<1>1. PICK base : base = Synch(stack)
  OBVIOUS
<1>2. /\ base \in Seq(Frame) /\ base # << >> /\ Head(base).fn = "synch"
      /\ StackFits(base, undone, state, needspoll, next) /\ Exits(stack) \subseteq Exits(base)
  BY <1>0, <1>1, SynchFits
<1>3. /\ next \in Links /\ HasChain(next) /\ state \in States
      /\ ListFits(undone, state, next, Exits(stack))
  BY DEF KernelInv, KernelTypes
<1>4. PICK new : new = [next EXCEPT ![p] = next[HEAD], ![HEAD] = p]
  OBVIOUS
<1>5. new \in Links /\ HasChain(new) /\ ListOf(new) = ListOf(next) \cup {p} /\ next' = new
  BY <1>0, <1>3, <1>4, StartChain
<1>6. StackFits(base, undone, state, needspoll, new)
  <2>1. \A q \in Process \ undone : state[q] # "NONE" => q \in ListOf(next)
    BY <1>3 DEF ListFits
  <2> QED
    BY <1>0, <1>2, <1>3, <1>4, <2>1, StartFits
<1>7. /\ state'[p] = "CALLED" /\ \A q : q # p => state'[q] = state[q]
      /\ state' \in States
  BY <1>0, <1>3 DEF States, State
<1>8. \A i \in 1..Len(base) :
        base[i].fn \in {"thread", "exit_process"} /\ base[i].p = p => p \in undone
  <2> SUFFICES ASSUME NEW i \in 1..Len(base), base[i].fn \in {"thread", "exit_process"},
                      base[i].p = p, p \notin undone
               PROVE  FALSE
    OBVIOUS
  <2>1. state[p] = "NONE"
    BY <1>0, <1>3 DEF ListFits
  <2>2. state[p] = "CALLED" \/ p \in ListOf(next)
    BY <1>2, CallsSay
  <2> QED
    BY <1>0, <2>1, <2>2
<1>9. StackFits(base, undone, [state EXCEPT ![p] = "CALLED"], needspoll, new)
  BY <1>3, <1>6, <1>8, StateFits DEF State
<1>10. PICK f : f = Thread(p, "INIT", TRUE)
  OBVIOUS
<1>11. f \in Frame /\ f.fn = "thread" /\ f.p = p /\ f.called
  BY <1>10 DEF Thread, Frame, ThreadFrame, Arg
<1>12. StackFits(base, undone, state', needspoll, new)
  BY <1>0, <1>9
<1>13. Fits(f, undone, state', needspoll, new) /\ Adjacent(f, Head(base))
  BY <1>2, <1>7, <1>11 DEF Fits, Adjacent, Walks
<1>14. \A i \in 1..Len(base) : Same(f, base[i]) => f.p \in undone
  BY <1>8, <1>11 DEF Same
<1>15. StackFits(<<f>> \o base, undone, state', needspoll, new)
  BY <1>2, <1>11, <1>12, <1>13, <1>14, PushFits
<1>16. Exits(base) \subseteq Exits(<<f>> \o base) /\ Head(<<f>> \o base) = f
  BY <1>2, <1>11, PushExits, PushSeq
<1>17. stack' = <<f>> \o base
  BY <1>0, <1>1, <1>10
<1>18. StackFits(stack', undone', state', needspoll', next')
  BY <1>0, <1>5, <1>15, <1>17
<1>19. ListFits(undone', state', next', Exits(stack'))
  BY <1>0, <1>2, <1>3, <1>5, <1>7, <1>16, <1>17 DEF ListFits
<1>20. PollsFit(undone', state', needspoll', owed')
  <2>1. \A q : state[q] # "NONE" => state'[q] # "NONE"
    BY <1>7
  <2> QED
    BY <1>0, <2>1 DEF PollsFit, KernelInv
<1>21. CurrentFits(stack', process_current')
  BY <1>0, <1>11, <1>16, <1>17 DEF CurrentFits
<1>22. KernelTypes'
  <2>1. calls' \in 0..MaxCalls
    BY <1>0, CallCounted
  <2> QED
    BY <1>0, <1>7, <2>1 DEF KernelInv, KernelTypes, Place
<1> QED
  BY <1>5, <1>18, <1>19, <1>20, <1>21, <1>22 DEF KernelInvNext

(* process_exit.                                                             *)
LEMMA ProcessExitStep ==
  ASSUME KernelInv, NEW p \in Process, process_exit(p)
  PROVE  KernelInvNext
<1>0. /\ UserCode /\ calls < MaxCalls /\ calls' = calls + 1
      /\ state[p] # "NONE"
      /\ undone' = IF state[p] = "CALLED" THEN undone \cup {p} ELSE undone
      /\ exit_process(p, process_current, stack)
      /\ UNCHANGED <<next, needspoll, poll_requested, process_current>>
  BY DEF process_exit
<1>1. /\ StackFits(stack, undone, state, needspoll, next) /\ process_current \in Place
      /\ undone \subseteq Process /\ state \in States /\ CurrentFits(stack, process_current)
  BY DEF KernelInv, KernelTypes
<1>2. undone \subseteq undone' /\ undone' \subseteq Process
  BY <1>0, <1>1
<1>3. StackFits(stack, undone', state, needspoll, next)
  BY <1>1, <1>2, ExcuseFits
<1>4. \A i \in 1..Len(stack) :
        stack[i].fn = "thread" /\ stack[i].called /\ stack[i].p = p => p \in undone'
  <2>1. \A i \in 1..Len(stack) :
          stack[i].fn = "thread" /\ stack[i].called /\ stack[i].p = p =>
            p \in undone \/ state[p] = "CALLED"
    BY <1>1, CallsSay
  <2> QED
    BY <1>0, <2>1
<1>5. calls' \in 0..MaxCalls
  BY <1>0, CallCounted
<1> QED
  BY <1>0, <1>1, <1>2, <1>3, <1>4, <1>5, ExitStep

(* process_poll.                                                             *)
LEMMA ProcessPollStep ==
  ASSUME KernelInv, NEW p \in Polled, process_poll(p)
  PROVE  KernelInvNext
<1>1. /\ state[p] # "NONE" /\ needspoll' = [needspoll EXCEPT ![p] = TRUE]
      /\ poll_requested' = TRUE /\ owed' = owed \cup {p}
      /\ UNCHANGED <<next, state, process_current, stack, calls, undone>>
  BY DEF process_poll, listvars, callvars
<1>2. needspoll \in [Process -> BOOLEAN] /\ p \in Process
  BY Constants DEF KernelInv, KernelTypes
<1>3. /\ needspoll'[p] /\ \A q : q # p => needspoll'[q] = needspoll[q]
      /\ needspoll' \in [Process -> BOOLEAN]
  BY <1>1, <1>2
<1>4. StackFits(stack, undone, state, needspoll', next)
  <2>1. \A q : needspoll[q] => needspoll'[q]
    BY <1>3
  <2>2. StackFits(stack, undone, state, needspoll, next)
    BY DEF KernelInv
  <2>3. \A i \in 1..Len(stack) : Fits(stack[i], undone, state, needspoll', next)
    BY <2>1, <2>2 DEF StackFits, Fits
  <2> QED
    BY <2>2, <2>3, ChangeFits
<1>5. PollsFit(undone', state', needspoll', owed')
  BY <1>1, <1>3 DEF KernelInv, PollsFit
<1>6. KernelTypes'
  BY <1>1, <1>3 DEF KernelInv, KernelTypes
<1> QED
  BY <1>1, <1>4, <1>5, <1>6 DEF KernelInv, KernelInvNext, ListFits, CurrentFits

(* Every step keeps the invariant.                                           *)
LEMMA KernelStep ==
  ASSUME KernelInv, [Next]_vars,
         do_event => events[fevent].p \in Place /\ events[fevent].ev \in Arg
  PROVE  KernelInv'
<1>1. CASE UNCHANGED vars \/ \E e \in Posted : process_post(e)
  <2>1. UNCHANGED <<next, state, needspoll, poll_requested, owed, process_current, stack,
                    calls, undone>>
    BY <1>1 DEF vars, listvars, pollvars, callvars, process_post
  <2>2. /\ StackFits(stack, undone, state, needspoll, next) /\ calls' \in 0..MaxCalls
        /\ poll_requested' \in BOOLEAN /\ process_current' \in Place
        /\ CurrentFits(stack, process_current)
    BY <2>1 DEF KernelInv, KernelTypes
  <2>3. /\ StackFits(stack', undone, state, needspoll, next)
        /\ CurrentFits(stack', process_current') /\ Exits(stack) \subseteq Exits(stack')
    BY <2>1, <2>2
  <2>4. KernelInvNext
    BY <2>1, <2>2, <2>3, QuietStep
  <2> QED
    BY <2>4, NextKernel
<1>2. CASE Kernel
  <2>1. KernelInvNext
    BY <1>2, RunStep, PollStep, EventStep, ReceiverStep, BroadcastStep, ListedStep, ReturnStep,
       TellStep, ExitingStep, UnlinkStep, ResumeStep DEF Kernel
  <2> QED
    BY <2>1, NextKernel
<1>3. CASE Threads
  <2>1. PICK exited \in BOOLEAN : ThreadReturns(exited)
    BY <1>3 DEF Threads
  <2> QED
    BY <2>1, ThreadStep, NextKernel
<1>4. CASE \E p \in Process : process_post_synch(p) \/ process_start(p) \/ process_exit(p)
  <2>1. PICK p \in Process : process_post_synch(p) \/ process_start(p) \/ process_exit(p)
    BY <1>4
  <2> QED
    BY <2>1, PostSynchStep, StartStep, ProcessExitStep, NextKernel
<1>5. CASE \E p \in Polled : process_poll(p)
  <2>1. PICK p \in Polled : process_poll(p)
    BY <1>5
  <2> QED
    BY <2>1, ProcessPollStep, NextKernel
<1> QED
  BY <1>1, <1>2, <1>3, <1>4, <1>5 DEF Next, Calls
-----------------------------------------------------------------------------
(* The event queue.                                                          *)

\* The slot of the k-th event that waits.
Slot(f, k) == (f + k - 1) % NUMEVENTS

QueueInv ==
  /\ events \in [0..(NUMEVENTS - 1) -> Posted \cup {NoEvent}]
  /\ fevent \in 0..(NUMEVENTS - 1) /\ nevents \in 0..NUMEVENTS
  /\ \A k \in 1..nevents : events[Slot(fevent, k)] \in Posted

(* The remainder of what fevent and nevents are at most.                     *)
LEMMA RemainderOf ==
  ASSUME NEW a \in 0..(2 * NUMEVENTS - 1)
  PROVE  a % NUMEVENTS = IF a < NUMEVENTS THEN a ELSE a - NUMEVENTS
BY Constants, SMT

(* Slots are in the ring, and two events that wait are in two.               *)
LEMMA SlotValue ==
  ASSUME NEW f \in 0..(NUMEVENTS - 1), NEW k \in 1..NUMEVENTS
  PROVE  /\ Slot(f, k) \in 0..(NUMEVENTS - 1)
         /\ Slot(f, k) = IF f + k - 1 < NUMEVENTS THEN f + k - 1 ELSE f + k - 1 - NUMEVENTS
         /\ \A m \in 1..NUMEVENTS : m # k => Slot(f, m) # Slot(f, k)
<1>1. NUMEVENTS \in Nat /\ NUMEVENTS >= 1
  BY Constants
<1>2. \A m \in 1..NUMEVENTS : f + m - 1 \in 0..(2 * NUMEVENTS - 1)
  BY <1>1
<1>3. \A m \in 1..NUMEVENTS :
        Slot(f, m) = IF f + m - 1 < NUMEVENTS THEN f + m - 1 ELSE f + m - 1 - NUMEVENTS
  <2> TAKE m \in 1..NUMEVENTS
  <2>1. PICK a \in 0..(2 * NUMEVENTS - 1) : a = f + m - 1
    BY <1>2
  <2>2. a % NUMEVENTS = IF a < NUMEVENTS THEN a ELSE a - NUMEVENTS
    BY RemainderOf
  <2>3. Slot(f, m) = a % NUMEVENTS
    BY <2>1 DEF Slot
  <2>4. Slot(f, m) = IF a < NUMEVENTS THEN a ELSE a - NUMEVENTS
    BY <2>2, <2>3
  <2> QED
    BY <1>1, <2>1, <2>4
<1>4. Slot(f, k) \in 0..(NUMEVENTS - 1)
  BY <1>1, <1>3
<1>5. \A m \in 1..NUMEVENTS : m # k => Slot(f, m) # Slot(f, k)
  BY <1>1, <1>3
<1> QED
  BY <1>3, <1>4, <1>5

(* fevent moves to the next slot of the ring.                                *)
LEMMA SlotAfter ==
  ASSUME NEW f \in 0..(NUMEVENTS - 1)
  PROVE  /\ (f + 1) % NUMEVENTS = IF f + 1 < NUMEVENTS THEN f + 1 ELSE 0
         /\ (f + 1) % NUMEVENTS \in 0..(NUMEVENTS - 1)
<1>1. NUMEVENTS \in Nat /\ NUMEVENTS >= 1
  BY Constants
<1>2. PICK a \in 0..(2 * NUMEVENTS - 1) : a = f + 1
  BY <1>1
<1>3. a % NUMEVENTS = IF a < NUMEVENTS THEN a ELSE a - NUMEVENTS
  BY RemainderOf
<1>4. (f + 1) % NUMEVENTS = IF f + 1 < NUMEVENTS THEN f + 1 ELSE 0
  BY <1>1, <1>2, <1>3
<1> QED
  BY <1>1, <1>4

(* After an event has been taken the others are where they were.             *)
LEMMA SlotNext ==
  ASSUME NEW f \in 0..(NUMEVENTS - 1), NEW k \in 1..(NUMEVENTS - 1)
  PROVE  Slot((f + 1) % NUMEVENTS, k) = Slot(f, k + 1)
<1>1. NUMEVENTS \in Nat /\ NUMEVENTS >= 1
  BY Constants
<1> DEFINE g == (f + 1) % NUMEVENTS
<1>4. g = IF f + 1 < NUMEVENTS THEN f + 1 ELSE 0
  BY SlotAfter
<1>5. g \in 0..(NUMEVENTS - 1)
  BY SlotAfter
<1> HIDE DEF g
<1>6. k \in 1..NUMEVENTS /\ k + 1 \in 1..NUMEVENTS
  BY <1>1
<1>7. Slot(g, k) = IF g + k - 1 < NUMEVENTS THEN g + k - 1 ELSE g + k - 1 - NUMEVENTS
  BY <1>5, <1>6, SlotValue
<1>8. Slot(f, k + 1) = IF f + (k + 1) - 1 < NUMEVENTS THEN f + (k + 1) - 1
                       ELSE f + (k + 1) - 1 - NUMEVENTS
  BY <1>6, SlotValue
<1>9. Slot(g, k) = Slot(f, k + 1)
  BY <1>1, <1>4, <1>6, <1>7, <1>8
<1> QED
  BY <1>9 DEF g

(* The first slot of the ring is where fevent points.                        *)
LEMMA SlotFirst ==
  ASSUME NEW f \in 0..(NUMEVENTS - 1)
  PROVE  Slot(f, 1) = f
<1>1. NUMEVENTS \in Nat /\ NUMEVENTS >= 1 /\ 1 \in 1..NUMEVENTS
  BY Constants
<1>2. Slot(f, 1) = IF f + 1 - 1 < NUMEVENTS THEN f + 1 - 1 ELSE f + 1 - 1 - NUMEVENTS
  BY <1>1, SlotValue
<1> QED
  BY <1>1, <1>2

(* A new event goes into the slot after the last.                            *)
LEMMA PostQueue ==
  ASSUME QueueInv, NEW e \in Posted, process_post(e)
  PROVE  /\ nevents \in Nat /\ nevents < NUMEVENTS /\ nevents' = nevents + 1
         /\ fevent' = fevent /\ stack' = stack
         /\ events' \in [0..(NUMEVENTS - 1) -> Posted \cup {NoEvent}]
         /\ events'[Slot(fevent, nevents + 1)] = e
         /\ \A k \in 1..nevents :
              k \in 1..NUMEVENTS /\ events'[Slot(fevent, k)] = events[Slot(fevent, k)]
<1>1. /\ nevents \in Nat /\ nevents < NUMEVENTS /\ NUMEVENTS \in Nat
      /\ nevents + 1 \in 1..NUMEVENTS
      /\ \A k \in 1..nevents : k \in 1..NUMEVENTS /\ k # nevents + 1
  BY Constants DEF process_post, QueueInv, Room
<1>2. ((fevent + nevents) % 256) % NUMEVENTS = Slot(fevent, nevents + 1)
  <2>1. fevent \in Nat
    BY DEF QueueInv
  <2>2. fevent + nevents = fevent + (nevents + 1) - 1
    BY <1>1, <2>1
  <2>3. fevent + nevents \in 0..255
    <3>1. fevent \in 0..(NUMEVENTS - 1) /\ NUMEVENTS <= 128
      BY Constants DEF QueueInv
    <3> QED
      BY <1>1, <2>1, <3>1
  <2>4. \A m \in 0..255 : m % 256 = m
    OBVIOUS
  <2> QED
    BY <2>2, <2>3, <2>4 DEF Slot
<1>3. /\ events' = [events EXCEPT ![Slot(fevent, nevents + 1)] = e]
      /\ nevents' = nevents + 1 /\ fevent' = fevent /\ stack' = stack
  BY <1>2 DEF process_post
<1>4. /\ fevent \in 0..(NUMEVENTS - 1)
      /\ events \in [0..(NUMEVENTS - 1) -> Posted \cup {NoEvent}]
  BY DEF QueueInv
<1>5. Slot(fevent, nevents + 1) \in 0..(NUMEVENTS - 1)
  BY <1>1, <1>4, SlotValue
<1>6. \A k \in 1..nevents : /\ Slot(fevent, k) \in 0..(NUMEVENTS - 1)
                            /\ Slot(fevent, k) # Slot(fevent, nevents + 1)
  BY <1>1, <1>4, SlotValue
<1> QED
  BY <1>1, <1>3, <1>4, <1>5, <1>6

(* do_event takes the event in the first slot.                               *)
LEMMA TakeQueue ==
  ASSUME QueueInv, do_event
  PROVE  /\ nevents \in Nat /\ nevents > 0 /\ nevents <= NUMEVENTS /\ nevents' = nevents - 1
         /\ fevent' \in 0..(NUMEVENTS - 1) /\ fevent = Slot(fevent, 1)
         /\ events[fevent] \in Posted
         /\ events' \in [0..(NUMEVENTS - 1) -> Posted \cup {NoEvent}]
         /\ \A k \in 1..(nevents - 1) :
              /\ k + 1 \in 1..nevents
              /\ events'[Slot(fevent', k)] = events[Slot(fevent, k + 1)]
<1>1. /\ nevents \in Nat /\ nevents > 0 /\ nevents <= NUMEVENTS /\ NUMEVENTS \in Nat
      /\ nevents' = nevents - 1 /\ fevent' = (fevent + 1) % NUMEVENTS
      /\ events' = [events EXCEPT ![fevent] = NoEvent]
      /\ fevent \in 0..(NUMEVENTS - 1)
      /\ events \in [0..(NUMEVENTS - 1) -> Posted \cup {NoEvent}]
  BY Constants DEF do_event, QueueInv
<1>2. fevent = Slot(fevent, 1)
  BY <1>1, SlotFirst
<1>3. 1 \in 1..nevents
  BY <1>1
<1>4. events[fevent] \in Posted
  BY <1>2, <1>3 DEF QueueInv
<1>5. ASSUME NEW k \in 1..(nevents - 1)
      PROVE  /\ k + 1 \in 1..nevents
             /\ events'[Slot(fevent', k)] = events[Slot(fevent, k + 1)]
  <2>1. /\ k + 1 \in 1..nevents /\ k + 1 \in 1..NUMEVENTS /\ k \in 1..(NUMEVENTS - 1)
        /\ 1 \in 1..NUMEVENTS /\ k + 1 # 1
    BY <1>1
  <2>2. Slot(fevent', k) = Slot(fevent, k + 1)
    BY <1>1, <2>1, SlotNext
  <2>3. Slot(fevent, k + 1) \in 0..(NUMEVENTS - 1) /\ Slot(fevent, k + 1) # Slot(fevent, 1)
    BY <1>1, <2>1, SlotValue
  <2> QED
    BY <1>1, <1>2, <2>1, <2>2, <2>3
<1>6. fevent' \in 0..(NUMEVENTS - 1)
  BY <1>1, SlotAfter
<1> QED
  BY <1>1, <1>2, <1>4, <1>5, <1>6

(* No other step touches the queue.                                          *)
LEMMA QueueIdle ==
  ASSUME [Next]_vars
  PROVE  \/ UNCHANGED queuevars
         \/ \E e \in Posted : process_post(e)
         \/ do_event
<1>1. CASE Kernel
  BY <1>1 DEF Kernel, process_run, PollNext, CallReceiver, BroadcastNext, CallListed, Return,
    TellNext, CallExiting, Unlink, Resume
<1>2. CASE Threads
  BY <1>2 DEF Threads, ThreadReturns
<1>3. CASE Calls
  BY <1>3 DEF Calls, process_post_synch, process_start, process_exit
<1>4. CASE \E p \in Polled : process_poll(p)
  BY <1>4 DEF process_poll
<1>5. CASE UNCHANGED vars
  BY <1>5 DEF vars
<1> QED
  BY <1>1, <1>2, <1>3, <1>4, <1>5 DEF Next

(* The queue starts empty ...                                               *)
LEMMA InitQueue == Init => QueueInv
BY Constants DEF Init, QueueInv

(* ... and its first nevents slots hold posted events.                       *)
LEMMA StepQueue == QueueInv /\ [Next]_vars => QueueInv'
<1> SUFFICES ASSUME QueueInv, [Next]_vars PROVE QueueInv'
  OBVIOUS
<1>1. CASE UNCHANGED queuevars
  BY <1>1 DEF queuevars, QueueInv, Slot
<1>2. CASE \E e \in Posted : process_post(e)
  <2>1. PICK e \in Posted : process_post(e)
    BY <1>2
  <2>2. /\ nevents \in Nat /\ nevents < NUMEVENTS /\ nevents' = nevents + 1
        /\ fevent' = fevent
        /\ events' \in [0..(NUMEVENTS - 1) -> Posted \cup {NoEvent}]
        /\ events'[Slot(fevent, nevents + 1)] = e
        /\ \A k \in 1..nevents : events'[Slot(fevent, k)] = events[Slot(fevent, k)]
    BY <2>1, PostQueue
  <2>3. nevents' \in 0..NUMEVENTS /\ \A k \in 1..nevents' : k \in 1..nevents \/ k = nevents + 1
    BY <2>2, Constants
  <2>4. \A k \in 1..nevents' : events'[Slot(fevent', k)] \in Posted
    BY <2>2, <2>3 DEF QueueInv
  <2>5. fevent' \in 0..(NUMEVENTS - 1)
    BY <2>2 DEF QueueInv
  <2> QED
    BY <2>2, <2>3, <2>4, <2>5 DEF QueueInv, Slot
<1>3. CASE do_event
  <2>1. /\ nevents \in Nat /\ nevents > 0 /\ nevents <= NUMEVENTS /\ nevents' = nevents - 1
        /\ fevent' \in 0..(NUMEVENTS - 1)
        /\ events' \in [0..(NUMEVENTS - 1) -> Posted \cup {NoEvent}]
        /\ \A k \in 1..(nevents - 1) :
             /\ k + 1 \in 1..nevents
             /\ events'[Slot(fevent', k)] = events[Slot(fevent, k + 1)]
    BY <1>3, TakeQueue
  <2>2. nevents' \in 0..NUMEVENTS
    BY <2>1, Constants
  <2>3. \A k \in 1..nevents' : events'[Slot(fevent', k)] \in Posted
    BY <2>1 DEF QueueInv
  <2> QED
    BY <2>1, <2>2, <2>3 DEF QueueInv, Slot
<1> QED
  BY <1>1, <1>2, <1>3, QueueIdle
-----------------------------------------------------------------------------
(* The event that is being delivered.                                        *)

\* A call in s delivers e.
Delivers(s, e) ==
  \E i \in 1..Len(s) : s[i].fn = "do_event" /\ e = [ev |-> s[i].arg, p |-> s[i].p]

\* r delivers what s does.
SameDelivery(s, r) == \A e : Delivers(s, e) <=> Delivers(r, e)

(* A new call delivers its own event only.                                   *)
LEMMA PushDelivers ==
  ASSUME NEW S, NEW s \in Seq(S), NEW f
  PROVE  /\ <<f>> \o s \in Seq(S \cup {f})
         /\ \A e : Delivers(<<f>> \o s, e) <=>
              \/ Delivers(s, e)
              \/ f.fn = "do_event" /\ e = [ev |-> f.arg, p |-> f.p]
<1> DEFINE r == <<f>> \o s
<1>1. s \in Seq(S \cup {f})
  <2>1. Len(s) \in Nat /\ s \in [1..Len(s) -> S]
    BY LenProperties
  <2>2. s \in [1..Len(s) -> S \cup {f}]
    BY <2>1
  <2> QED
    BY <2>1, <2>2, SeqDef
<1>2. f \in S \cup {f}
  OBVIOUS
<1>3. /\ r \in Seq(S \cup {f}) /\ Len(s) \in Nat /\ Len(r) = Len(s) + 1 /\ r[1] = f
      /\ \A i \in 1..Len(s) : i + 1 \in 1..Len(r) /\ r[i + 1] = s[i]
      /\ \A i \in 1..Len(r) : i = 1 \/ (i - 1 \in 1..Len(s) /\ r[i] = s[i - 1])
  BY <1>1, <1>2, PushSeq
<1> HIDE DEF r
<1>4. 1 \in 1..Len(r)
  BY <1>3
<1>5. ASSUME NEW e, Delivers(r, e)
      PROVE  Delivers(s, e) \/ (f.fn = "do_event" /\ e = [ev |-> f.arg, p |-> f.p])
  <2>1. PICK i \in 1..Len(r) : r[i].fn = "do_event" /\ e = [ev |-> r[i].arg, p |-> r[i].p]
    BY <1>5 DEF Delivers
  <2> QED
    BY <1>3, <2>1 DEF Delivers
<1>6. ASSUME NEW e, Delivers(s, e) PROVE Delivers(r, e)
  BY <1>3, <1>6 DEF Delivers
<1>7. ASSUME f.fn = "do_event" PROVE Delivers(r, [ev |-> f.arg, p |-> f.p])
  BY <1>3, <1>4, <1>7 DEF Delivers
<1> QED
  BY <1>3, <1>5, <1>6, <1>7 DEF r

(* A call that returns leaves the delivery to the rest.                      *)
LEMMA PopDelivers ==
  ASSUME NEW S, NEW s \in Seq(S), s # << >>
  PROVE  /\ Tail(s) \in Seq(S)
         /\ \A e : Delivers(s, e) <=>
              \/ Delivers(Tail(s), e)
              \/ Head(s).fn = "do_event" /\ e = [ev |-> Head(s).arg, p |-> Head(s).p]
<1> DEFINE r == Tail(s)
<1>1. /\ r \in Seq(S) /\ Head(s) = s[1] /\ 1 \in 1..Len(s)
      /\ \A i \in 1..Len(r) : i + 1 \in 1..Len(s) /\ r[i] = s[i + 1]
      /\ \A i \in 1..Len(s) : i = 1 \/ (i - 1 \in 1..Len(r) /\ r[i - 1] = s[i])
  BY PopSeq
<1> HIDE DEF r
<1>2. ASSUME NEW e, Delivers(s, e)
      PROVE  Delivers(r, e) \/ (s[1].fn = "do_event" /\ e = [ev |-> s[1].arg, p |-> s[1].p])
  <2>1. PICK i \in 1..Len(s) : s[i].fn = "do_event" /\ e = [ev |-> s[i].arg, p |-> s[i].p]
    BY <1>2 DEF Delivers
  <2> QED
    BY <1>1, <2>1 DEF Delivers
<1>3. ASSUME NEW e, Delivers(r, e) PROVE Delivers(s, e)
  BY <1>1, <1>3 DEF Delivers
<1>4. ASSUME s[1].fn = "do_event" PROVE Delivers(s, [ev |-> s[1].arg, p |-> s[1].p])
  BY <1>1, <1>4 DEF Delivers
<1> QED
  BY <1>1, <1>2, <1>3, <1>4 DEF r

(* A walk that moves on delivers what it did.                                *)
LEMMA MoveDelivers ==
  ASSUME stack \in Seq(Frame), stack # << >>, NEW g, g.fn = Top.fn, g.arg = Top.arg, g.p = Top.p
  PROVE  SameDelivery(stack, With(g)) /\ With(g) \in Seq(Frame \cup {g})
<1>1. /\ Tail(stack) \in Seq(Frame)
      /\ \A e : Delivers(stack, e) <=>
           \/ Delivers(Tail(stack), e)
           \/ Top.fn = "do_event" /\ e = [ev |-> Top.arg, p |-> Top.p]
  BY PopDelivers DEF Top
<1>2. /\ <<g>> \o Tail(stack) \in Seq(Frame \cup {g})
      /\ \A e : Delivers(<<g>> \o Tail(stack), e) <=>
           \/ Delivers(Tail(stack), e)
           \/ g.fn = "do_event" /\ e = [ev |-> g.arg, p |-> g.p]
  <2>1. PICK s \in Seq(Frame) : s = Tail(stack)
    BY <1>1
  <2>2. /\ <<g>> \o s \in Seq(Frame \cup {g})
        /\ \A e : Delivers(<<g>> \o s, e) <=>
             \/ Delivers(s, e)
             \/ g.fn = "do_event" /\ e = [ev |-> g.arg, p |-> g.p]
    BY PushDelivers
  <2> QED
    BY <2>1, <2>2
<1> QED
  BY <1>1, <1>2 DEF With, SameDelivery

(* Calls other than do_event deliver nothing.                                *)
LEMMA OtherDelivers ==
  ASSUME NEW S, NEW s \in Seq(S), NEW f, f.fn # "do_event"
  PROVE  SameDelivery(s, <<f>> \o s)
BY PushDelivers DEF SameDelivery

(* Calling a process delivers nothing else ...                               *)
LEMMA CallDelivers ==
  ASSUME NEW S, NEW base \in Seq(S), NEW p, NEW ev, call_process(p, ev, base)
  PROVE  SameDelivery(base, stack')
<1>1. CASE stack' = base
  BY <1>1 DEF SameDelivery
<1>2. CASE stack' = <<Thread(p, ev, TRUE)>> \o base
  <2>1. PICK f : f = Thread(p, ev, TRUE)
    OBVIOUS
  <2>2. f.fn # "do_event"
    BY <2>1 DEF Thread
  <2>3. SameDelivery(base, <<f>> \o base)
    BY <2>2, OtherDelivers
  <2> QED
    BY <1>2, <2>1, <2>3
<1> QED
  BY <1>1, <1>2 DEF call_process

(* ... nor does do_poll ...                                                  *)
LEMMA PollFirstDelivers ==
  ASSUME NEW S, NEW base \in Seq(S), PollFirst(base)
  PROVE  SameDelivery(base, stack')
<1>1. CASE stack' = base
  BY <1>1 DEF SameDelivery
<1>2. CASE stack' = <<Walk("do_poll", NULL, "POLL", NULL, owed)>> \o base
  <2>1. PICK f : f = Walk("do_poll", NULL, "POLL", NULL, owed)
    OBVIOUS
  <2>2. f.fn # "do_event"
    BY <2>1 DEF Walk
  <2>3. SameDelivery(base, <<f>> \o base)
    BY <2>2, OtherDelivers
  <2> QED
    BY <1>2, <2>1, <2>3
<1> QED
  BY <1>1, <1>2 DEF PollFirst

(* ... nor does an exit.                                                     *)
LEMMA ExitDelivers ==
  ASSUME NEW base \in Seq(Frame), NEW p, NEW from, exit_process(p, from, base)
  PROVE  SameDelivery(base, stack')
<1>1. CASE stack' = base
  BY <1>1 DEF SameDelivery
<1>2. CASE stack' = <<[Walk("exit_process", p, from, process_current, {})
                         EXCEPT !.at = NULL]>> \o base
  <2>1. PICK f : f = [Walk("exit_process", p, from, process_current, {}) EXCEPT !.at = NULL]
    OBVIOUS
  <2>2. f.fn # "do_event"
    BY <2>1 DEF Walk
  <2>3. SameDelivery(base, <<f>> \o base)
    BY <2>2, OtherDelivers
  <2> QED
    BY <1>2, <2>1, <2>3
<1>3. CASE stack' = <<Walk("exit_process", p, from, process_current,
                           {q \in Listed \ {p} : state[q] = "RUNNING"})>> \o Strike(p, base)
  <2>1. PICK f : f = Walk("exit_process", p, from, process_current,
                          {q \in Listed \ {p} : state[q] = "RUNNING"})
    OBVIOUS
  <2>2. f.fn # "do_event"
    BY <2>1 DEF Walk
  <2>3. PICK rest : rest = Strike(p, base)
    OBVIOUS
  <2>4. rest \in Seq(Frame) /\ Len(rest) = Len(base)
    BY <2>3, StrikeSeq
  <2>5. SameDelivery(rest, <<f>> \o rest)
    BY <2>2, <2>4, OtherDelivers
  <2>6. \A i \in 1..Len(base) : base[i].fn = "do_event" \/ rest[i].fn = "do_event" =>
          rest[i].fn = base[i].fn /\ rest[i].arg = base[i].arg /\ rest[i].p = base[i].p
    <3> TAKE i \in 1..Len(base)
    <3>1. rest[i].fn = base[i].fn /\ (base[i].fn \in Walks => rest[i].p = base[i].p)
      BY <2>3, StrikeSeq
    <3>2. base[i].fn = "do_event" => rest[i].arg = base[i].arg
      <4>1. base[i] \in Frame /\ DOMAIN base = 1..Len(base)
        BY ElementOfSeq, LenProperties
      <4>2. base[i].fn = "do_event" => base[i] \in WalkRecord
        BY <4>1, FrameKinds DEF WalkFrame, Walks
      <4>3. rest[i] = IF base[i].fn \in Walks THEN [base[i] EXCEPT !.missed = @ \ {p}]
                      ELSE base[i]
        BY <2>3, <4>1 DEF Strike
      <4> QED
        BY <4>2, <4>3 DEF WalkRecord
    <3> QED
      BY <3>1, <3>2 DEF Walks
  <2>7. SameDelivery(base, rest)
    BY <2>4, <2>6 DEF SameDelivery, Delivers
  <2>8. SameDelivery(base, <<f>> \o rest)
    BY <2>5, <2>7 DEF SameDelivery
  <2> QED
    BY <1>3, <2>1, <2>3, <2>8
<1> QED
  BY <1>1, <1>2, <1>3 DEF exit_process

(* do_event is the outermost call: there is one delivery at a time.          *)
LEMMA DeliveredIs ==
  ASSUME Shape(stack)
  PROVE  /\ \A e : Delivers(stack, e) => Delivered = e
         /\ (\A e : ~Delivers(stack, e)) => Delivered = NoEvent
<1>1. stack \in Seq(Frame) /\ Len(stack) \in Nat /\ DOMAIN stack = 1..Len(stack)
  BY LenProperties DEF Shape
<1>2. Frames = {stack[i] : i \in 1..Len(stack)}
  BY <1>1 DEF Frames
<1>3. \A i \in 1..Len(stack) : stack[i].fn = "do_event" => i = Len(stack)
  BY DEF Shape, Adjacent
<1>4. ASSUME NEW e, Delivers(stack, e) PROVE Delivered = e
  <2>1. PICK i \in 1..Len(stack) :
          stack[i].fn = "do_event" /\ e = [ev |-> stack[i].arg, p |-> stack[i].p]
    BY <1>4 DEF Delivers
  <2>2. \E f \in Frames : f.fn = "do_event"
    BY <1>2, <2>1
  <2>3. PICK f \in Frames : f = (CHOOSE g \in Frames : g.fn = "do_event") /\ f.fn = "do_event"
    BY <2>2
  <2>4. f = stack[i]
    BY <1>2, <1>3, <2>1, <2>3
  <2>5. Delivered = [ev |-> f.arg, p |-> f.p]
    BY <2>2, <2>3 DEF Delivered
  <2> QED
    BY <2>1, <2>4, <2>5
<1>5. ASSUME \A e : ~Delivers(stack, e) PROVE Delivered = NoEvent
  <2>1. ASSUME NEW f \in Frames, f.fn = "do_event" PROVE FALSE
    <3>1. PICK i \in 1..Len(stack) : f = stack[i]
      BY <1>2
    <3>2. Delivers(stack, [ev |-> f.arg, p |-> f.p])
      BY <2>1, <3>1 DEF Delivers
    <3> QED
      BY <1>5, <3>2
  <2> QED
    BY <2>1 DEF Delivered
<1> QED
  BY <1>4, <1>5

(* The same of the next state.                                               *)
LEMMA DeliveredNext ==
  ASSUME Shape(stack')
  PROVE  /\ \A e : Delivers(stack', e) => Delivered' = e
         /\ (\A e : ~Delivers(stack', e)) => Delivered' = NoEvent
<1>1. stack' \in Seq(Frame) /\ Len(stack') \in Nat /\ DOMAIN stack' = 1..Len(stack')
  BY LenProperties DEF Shape
<1>2. Frames' = {stack'[i] : i \in 1..Len(stack')}
  BY <1>1 DEF Frames
<1>3. \A i \in 1..Len(stack') : stack'[i].fn = "do_event" => i = Len(stack')
  BY DEF Shape, Adjacent
<1>4. ASSUME NEW e, Delivers(stack', e) PROVE Delivered' = e
  <2>1. PICK i \in 1..Len(stack') :
          stack'[i].fn = "do_event" /\ e = [ev |-> stack'[i].arg, p |-> stack'[i].p]
    BY <1>4 DEF Delivers
  <2>2. \E f \in Frames' : f.fn = "do_event"
    BY <1>2, <2>1
  <2>3. PICK f \in Frames' : f = (CHOOSE g \in Frames' : g.fn = "do_event") /\ f.fn = "do_event"
    BY <2>2
  <2>4. f = stack'[i]
    BY <1>2, <1>3, <2>1, <2>3
  <2>5. Delivered' = [ev |-> f.arg, p |-> f.p]
    BY <2>2, <2>3 DEF Delivered
  <2> QED
    BY <2>1, <2>4, <2>5
<1>5. ASSUME \A e : ~Delivers(stack', e) PROVE Delivered' = NoEvent
  <2>1. ASSUME NEW f \in Frames', f.fn = "do_event" PROVE FALSE
    <3>1. PICK i \in 1..Len(stack') : f = stack'[i]
      BY <1>2
    <3>2. Delivers(stack', [ev |-> f.arg, p |-> f.p])
      BY <2>1, <3>1 DEF Delivers
    <3> QED
      BY <1>5, <3>2
  <2> QED
    BY <2>1 DEF Delivered, NoEvent
<1> QED
  BY <1>4, <1>5

(* When the same is delivered before and after a step, Delivered is the same. *)
LEMMA DeliveredKept ==
  ASSUME Shape(stack), Shape(stack'), SameDelivery(stack, stack')
  PROVE  UNCHANGED Delivered
BY DeliveredIs, DeliveredNext DEF SameDelivery, NoEvent
-----------------------------------------------------------------------------
(* What the invariant gives.                                                 *)

(* The kernel and its queue stay as they must be, whatever the threads ask   *)
(* of them and whenever processes are polled (process.c:100-381).             *)
THEOREM KernelInvariant == Spec => [](KernelInv /\ QueueInv)
<1>1. Init => KernelInv /\ QueueInv
  BY InitKernel, InitQueue
<1>2. ASSUME KernelInv, QueueInv, [Next]_vars PROVE KernelInv' /\ QueueInv'
  <2>1. QueueInv'
    BY <1>2, StepQueue
  <2>2. ASSUME do_event PROVE events[fevent].p \in Place /\ events[fevent].ev \in Arg
    BY <1>2, <2>2, TakeQueue, Constants DEF Place, Arg
  <2>3. KernelInv'
    BY <1>2, <2>2, KernelStep
  <2> QED
    BY <2>1, <2>3
<1> QED
  BY <1>1, <1>2, PTL DEF Spec

(* Every variable of the kernel keeps its type, and every call under way is  *)
(* one of the kinds of calls.                                                *)
THEOREM KernelTypeOK == Spec => []TypeOK
<1>1. ASSUME KernelInv, QueueInv PROVE TypeOK
  <2>1. \A f \in Frames : f.fn \in Walks \cup {"thread", "synch", "process_run"}
    <3>1. stack \in Seq(Frame)
      BY <1>1 DEF KernelInv, StackFits, Shape
    <3>2. \A i \in DOMAIN stack : stack[i] \in Frame
      BY <3>1, ElementOfSeq, LenProperties
    <3> QED
      BY <3>2, FrameKinds DEF Frames
  <2> QED
    BY <1>1, <2>1 DEF TypeOK, KernelInv, KernelTypes, QueueInv, Links, States, Place
<1> QED
  BY <1>1, KernelInvariant, PTL

(* A process that runs is on the list and one on the list runs or is in the  *)
(* middle of its exit, whatever starts and exits what from inside which call *)
(* (process.c:100-207), those excepted that were exited in a call of theirs   *)
(* or set running by do_poll after their exit.                               *)
THEOREM KernelList == Spec => []ListedAreRunning
<1>1. ASSUME KernelInv PROVE ListedAreRunning
  <2>1. ASSUME NEW p \in Exits(stack) PROVE Exiting(p)
    <3>1. PICK i \in 1..Len(stack) : stack[i].fn = "exit_process" /\ stack[i].p = p
      BY <2>1 DEF Exits
    <3>2. i \in DOMAIN stack
      BY <1>1, LenProperties DEF KernelInv, StackFits, Shape
    <3> QED
      BY <3>1, <3>2 DEF Exiting, Frames
  <2> QED
    BY <1>1, <2>1, ListedIs DEF KernelInv, ListFits, ListedAreRunning
<1> QED
  BY <1>1, KernelInvariant, PTL

(* No thread is called while it is being called (call_process runs a process *)
(* in state RUNNING only, process.c:177-200), the excused excepted.          *)
THEOREM KernelThreads == Spec => []ThreadsNotReentered
<1>1. ASSUME KernelInv PROVE ThreadsNotReentered
  <2>1. stack \in Seq(Frame) /\ Single(stack, undone)
    BY <1>1 DEF KernelInv, StackFits, Shape
  <2>2. DOMAIN stack = 1..Len(stack)
    BY <2>1, LenProperties
  <2> QED
    BY <2>1, <2>2 DEF ThreadsNotReentered, Single, Same
<1> QED
  BY <1>1, KernelInvariant, PTL

(* PROCESS_CURRENT() is the thread that runs: whoever calls out of a thread  *)
(* puts it back (process.c:173, 364-370).                                *)
THEOREM KernelCurrent == Spec => []CurrentIsCalled
<1>1. ASSUME KernelInv PROVE CurrentIsCalled
  BY <1>1 DEF KernelInv, CurrentFits, CurrentIsCalled, Running, Top
<1> QED
  BY <1>1, KernelInvariant, PTL

(* What a thread may rely on while it runs: it is the current process and    *)
(* nobody runs it a second time (process.c:173-200).                         *)
THEOREM KernelRunsAlone == Spec => []ThreadRunsAlone
BY KernelThreads, KernelCurrent, PTL DEF ThreadRunsAlone

(* A walk that is at its end has visited everyone it had to, though others   *)
(* entered and left the list under it (process.c:148-152, 231-239, 277-287). *)
THEOREM KernelWalks == Spec => []WalksMissNobody
<1>1. ASSUME KernelInv PROVE WalksMissNobody
  <2> SUFFICES ASSUME NEW fn \in Walks, Running(fn), AtTheEnd, NEW q \in Top.missed \ undone
               PROVE  FALSE
    BY DEF WalksMissNobody
  <2>1. stack # << >> /\ Top.fn \in Walks
    BY DEF Running
  <2>2. /\ Top \in WalkRecord /\ q \in Process /\ Top.at # NULL
        /\ Reaches(next, Top.at, q) /\ (q = Top.at => Top.due)
    BY <1>1, <2>1, WalkFacts
  <2>3. next[Top.at] = NULL /\ ~Top.due
    BY <2>2 DEF AtTheEnd
  <2>4. Top.at \in Process \cup {HEAD} /\ next \in Links
    BY <1>1, <2>2 DEF WalkRecord, Place, KernelInv
  <2>5. next[Top.at] # NULL
    <3>1. PICK x \in Process \cup {HEAD} : x = Top.at
      BY <2>4
    <3> QED
      BY <2>2, <2>3, <2>4, <3>1, ReachStep
  <2> QED
    BY <2>3, <2>5
<1> QED
  BY <1>1, KernelInvariant, PTL
-----------------------------------------------------------------------------
(* The event queue is a first-in first-out buffer.                           *)

(* process_run, and the walks of a poll, deliver nothing new.                *)
LEMMA LoopDelivers ==
  ASSUME KernelInv, process_run \/ PollNext \/ CallReceiver \/ BroadcastNext \/ CallListed
  PROVE  SameDelivery(stack, stack')
<1>0. stack \in Seq(Frame)
  BY DEF KernelInv, StackFits, Shape
<1>1. CASE process_run
  <2>1. PICK f : f = [fn |-> "process_run"]
    OBVIOUS
  <2>2. <<f>> \o stack \in Seq(Frame \cup {f}) /\ SameDelivery(stack, <<f>> \o stack)
    <3>1. f.fn # "do_event"
      BY <2>1
    <3> QED
      BY <1>0, <3>1, PushDelivers, OtherDelivers
  <2>3. <<f>> \o stack = <<f>>
    BY <1>1 DEF process_run
  <2>4. <<f>> \in Seq(Frame \cup {f}) /\ SameDelivery(stack, <<f>>)
    BY <2>2, <2>3
  <2>5. PollFirst(<<f>>)
    BY <1>1, <2>1 DEF process_run
  <2>6. SameDelivery(<<f>>, stack')
    BY <2>4, <2>5, PollFirstDelivers
  <2> QED
    BY <2>4, <2>6 DEF SameDelivery
<1>2. CASE PollNext
  <2>1. stack # << >> /\ Top \in WalkRecord
    BY <1>2, WalkFacts DEF PollNext, Running, Walks
  <2>2. PICK q : q = next[Top.at]
    OBVIOUS
  <2>3. CASE needspoll[q]
    <3>1. PICK g : g = [Top EXCEPT !.at = q, !.missed = @ \ {q}]
      OBVIOUS
    <3>2. g.fn = Top.fn /\ g.arg = Top.arg /\ g.p = Top.p
      BY <2>1, <3>1 DEF WalkRecord
    <3>3. SameDelivery(stack, With(g)) /\ With(g) \in Seq(Frame \cup {g})
      BY <1>0, <2>1, <3>2, MoveDelivers
    <3>4. PICK f : f = Thread(q, "POLL", TRUE)
      OBVIOUS
    <3>5. f.fn # "do_event" /\ stack' = <<f>> \o With(g)
      BY <1>2, <2>2, <2>3, <3>1, <3>4 DEF PollNext, Thread
    <3>6. PICK s \in Seq(Frame \cup {g}) : s = With(g)
      BY <3>3
    <3>7. SameDelivery(s, <<f>> \o s)
      BY <3>5, OtherDelivers
    <3> QED
      BY <3>3, <3>5, <3>6, <3>7 DEF SameDelivery
  <2>4. CASE ~needspoll[q]
    <3>1. PICK g : g = [Top EXCEPT !.at = q]
      OBVIOUS
    <3>2. g.fn = Top.fn /\ g.arg = Top.arg /\ g.p = Top.p
      BY <2>1, <3>1 DEF WalkRecord
    <3>3. stack' = With(g)
      BY <1>2, <2>2, <2>4, <3>1 DEF PollNext
    <3> QED
      BY <1>0, <2>1, <3>2, <3>3, MoveDelivers
  <2> QED
    BY <2>3, <2>4
<1>3. CASE CallReceiver
  <2>1. stack # << >> /\ Top \in WalkRecord
    BY <1>3, WalkFacts DEF CallReceiver, Running, Walks
  <2>2. PICK g : g = [Top EXCEPT !.at = NULL]
    OBVIOUS
  <2>3. g.fn = Top.fn /\ g.arg = Top.arg /\ g.p = Top.p
    BY <2>1, <2>2 DEF WalkRecord
  <2>4. SameDelivery(stack, With(g)) /\ With(g) \in Seq(Frame \cup {g})
    BY <1>0, <2>1, <2>3, MoveDelivers
  <2>5. call_process(Top.p, Top.arg, With(g))
    BY <1>3, <2>2 DEF CallReceiver
  <2>6. SameDelivery(With(g), stack')
    BY <2>4, <2>5, CallDelivers
  <2> QED
    BY <2>4, <2>6 DEF SameDelivery
<1>4. CASE BroadcastNext
  <2>1. stack # << >> /\ Top \in WalkRecord
    BY <1>4, WalkFacts DEF BroadcastNext, Running, Walks
  <2>2. PICK g : g = [Top EXCEPT !.at = next[Top.at], !.due = TRUE]
    OBVIOUS
  <2>3. g.fn = Top.fn /\ g.arg = Top.arg /\ g.p = Top.p
    BY <2>1, <2>2 DEF WalkRecord
  <2>4. SameDelivery(stack, With(g)) /\ With(g) \in Seq(Frame \cup {g})
    BY <1>0, <2>1, <2>3, MoveDelivers
  <2>5. PollFirst(With(g))
    BY <1>4, <2>2 DEF BroadcastNext
  <2>6. SameDelivery(With(g), stack')
    BY <2>4, <2>5, PollFirstDelivers
  <2> QED
    BY <2>4, <2>6 DEF SameDelivery
<1>5. CASE CallListed
  <2>1. stack # << >> /\ Top \in WalkRecord
    BY <1>5, WalkFacts DEF CallListed, Running, Walks
  <2>2. PICK g : g = [Top EXCEPT !.due = FALSE, !.missed = @ \ {Top.at}]
    OBVIOUS
  <2>3. g.fn = Top.fn /\ g.arg = Top.arg /\ g.p = Top.p
    BY <2>1, <2>2 DEF WalkRecord
  <2>4. SameDelivery(stack, With(g)) /\ With(g) \in Seq(Frame \cup {g})
    BY <1>0, <2>1, <2>3, MoveDelivers
  <2>5. call_process(Top.at, Top.arg, With(g))
    BY <1>5, <2>2 DEF CallListed
  <2>6. SameDelivery(With(g), stack')
    BY <2>4, <2>5, CallDelivers
  <2> QED
    BY <2>4, <2>6 DEF SameDelivery
<1> QED
  BY <1>1, <1>2, <1>3, <1>4, <1>5

(* Nor do an exit, a synchronous call that returns, and a thread that does.  *)
LEMMA ReturnDelivers ==
  ASSUME KernelInv,
         \/ TellNext \/ CallExiting \/ Unlink \/ Resume \/ Threads
         \/ Return /\ Top.fn # "do_event"
  PROVE  SameDelivery(stack, stack')
<1>0. stack \in Seq(Frame)
  BY DEF KernelInv, StackFits, Shape
<1>1. ASSUME stack # << >>, Top.fn # "do_event"
      PROVE  Tail(stack) \in Seq(Frame) /\ SameDelivery(stack, Tail(stack))
  BY <1>0, <1>1, PopDelivers DEF Top, SameDelivery
<1>2. CASE TellNext
  <2>1. stack # << >> /\ Top \in WalkRecord
    BY <1>2, WalkFacts DEF TellNext, Running, Walks
  <2>2. PICK q : q = next[Top.at]
    OBVIOUS
  <2>3. PICK g : g = [Top EXCEPT !.at = q, !.missed = @ \ {q}]
    OBVIOUS
  <2>4. g.fn = Top.fn /\ g.arg = Top.arg /\ g.p = Top.p
    BY <2>1, <2>3 DEF WalkRecord
  <2>5. SameDelivery(stack, With(g)) /\ With(g) \in Seq(Frame \cup {g})
    BY <1>0, <2>1, <2>4, MoveDelivers
  <2>6. stack' = With(g) \/ call_process(q, "EXITED", With(g))
    BY <1>2, <2>2, <2>3 DEF TellNext
  <2>7. CASE call_process(q, "EXITED", With(g))
    <3>1. SameDelivery(With(g), stack')
      BY <2>5, <2>7, CallDelivers
    <3> QED
      BY <2>5, <3>1 DEF SameDelivery
  <2> QED
    BY <2>5, <2>6, <2>7
<1>3. CASE CallExiting
  <2>1. stack # << >> /\ Top \in WalkRecord
    BY <1>3, WalkFacts DEF CallExiting, Running, Walks
  <2>2. PICK g : g = [Top EXCEPT !.at = NULL]
    OBVIOUS
  <2>3. g.fn = Top.fn /\ g.arg = Top.arg /\ g.p = Top.p
    BY <2>1, <2>2 DEF WalkRecord
  <2>4. SameDelivery(stack, With(g)) /\ With(g) \in Seq(Frame \cup {g})
    BY <1>0, <2>1, <2>3, MoveDelivers
  <2>5. PICK f : f = Thread(Top.p, "EXIT", FALSE)
    OBVIOUS
  <2>6. f.fn # "do_event" /\ (stack' = With(g) \/ stack' = <<f>> \o With(g))
    BY <1>3, <2>2, <2>5 DEF CallExiting, Thread
  <2>7. PICK s \in Seq(Frame \cup {g}) : s = With(g)
    BY <2>4
  <2>8. SameDelivery(s, <<f>> \o s)
    BY <2>6, OtherDelivers
  <2> QED
    BY <2>4, <2>6, <2>7, <2>8 DEF SameDelivery
<1>4. CASE Unlink \/ Resume
  BY <1>1, <1>4 DEF Unlink, Resume, Running
<1>5. ASSUME NEW exited \in BOOLEAN, ThreadReturns(exited) PROVE SameDelivery(stack, stack')
  <2>1. Tail(stack) \in Seq(Frame) /\ SameDelivery(stack, Tail(stack))
    BY <1>1, <1>5 DEF ThreadReturns, Running
  <2>2. stack' = Tail(stack) \/ exit_process(Top.p, Top.p, Tail(stack))
    BY <1>5 DEF ThreadReturns
  <2>3. CASE exit_process(Top.p, Top.p, Tail(stack))
    <3>1. SameDelivery(Tail(stack), stack')
      BY <2>1, <2>3, ExitDelivers
    <3> QED
      BY <2>1, <3>1 DEF SameDelivery
  <2> QED
    BY <2>1, <2>2, <2>3
<1>6. CASE Return /\ Top.fn # "do_event"
  <2>1. stack # << >> /\ stack' = Tail(stack)
    BY <1>6 DEF Return, Finished, Running
  <2> QED
    BY <1>1, <1>6, <2>1
<1> QED
  BY <1>2, <1>3, <1>4, <1>5, <1>6 DEF Threads

(* Nor does anything a thread or the sketch's loop asks for, or a poll.      *)
LEMMA UserDelivers ==
  ASSUME KernelInv, Calls \/ (\E p \in Polled : process_poll(p)) \/ UNCHANGED vars
  PROVE  SameDelivery(stack, stack')
<1>0. stack \in Seq(Frame)
  BY DEF KernelInv, StackFits, Shape
<1>1. ASSUME stack' = stack PROVE SameDelivery(stack, stack')
  BY <1>1 DEF SameDelivery
<1>2. CASE UNCHANGED vars \/ (\E e \in Posted : process_post(e))
           \/ (\E p \in Polled : process_poll(p))
  BY <1>1, <1>2 DEF vars, process_post, process_poll
<1>3. PICK f : f = [fn |-> "synch", old |-> process_current]
  OBVIOUS
<1>4. f.fn # "do_event" /\ Synch(stack) = <<f>> \o stack
  BY <1>3 DEF Synch
<1>5. SameDelivery(stack, Synch(stack)) /\ Synch(stack) \in Seq(Frame \cup {f})
  BY <1>0, <1>4, OtherDelivers, PushDelivers
<1>6. ASSUME NEW p \in Process, process_post_synch(p) PROVE SameDelivery(stack, stack')
  <2>1. call_process(p, "MSG", Synch(stack))
    BY <1>6 DEF process_post_synch
  <2>2. SameDelivery(Synch(stack), stack')
    BY <1>5, <2>1, CallDelivers
  <2> QED
    BY <1>5, <2>2 DEF SameDelivery
<1>7. ASSUME NEW p \in Process, process_start(p) PROVE SameDelivery(stack, stack')
  <2>1. PICK g : g = Thread(p, "INIT", TRUE)
    OBVIOUS
  <2>2. g.fn # "do_event" /\ stack' = <<g>> \o Synch(stack)
    BY <1>7, <2>1 DEF process_start, Thread
  <2>3. PICK s \in Seq(Frame \cup {f}) : s = Synch(stack)
    BY <1>5
  <2>4. SameDelivery(s, <<g>> \o s)
    BY <2>2, OtherDelivers
  <2> QED
    BY <1>5, <2>2, <2>3, <2>4 DEF SameDelivery
<1>8. ASSUME NEW p \in Process, process_exit(p) PROVE SameDelivery(stack, stack')
  BY <1>0, <1>8, ExitDelivers DEF process_exit
<1> QED
  BY <1>2, <1>6, <1>7, <1>8 DEF Calls

(* Only do_event starts and ends a delivery.                                 *)
LEMMA DeliverySteps ==
  ASSUME KernelInv, [Next]_vars
  PROVE  SameDelivery(stack, stack') \/ do_event \/ (Return /\ Top.fn = "do_event")
BY LoopDelivers, ReturnDelivers, UserDelivers DEF Next, Kernel

\* The events that wait, oldest first.
Waiting(f, n, ring) == [k \in 1..n |-> ring[Slot(f, k)]]

(* They are as many as nevents says, and have all been posted.               *)
LEMMA WaitingSeq ==
  ASSUME NEW f, NEW n \in Nat, NEW ring, \A k \in 1..n : ring[Slot(f, k)] \in Posted
  PROVE  /\ Waiting(f, n, ring) \in Seq(Posted) /\ Len(Waiting(f, n, ring)) = n
         /\ \A k \in 1..n : Waiting(f, n, ring)[k] = ring[Slot(f, k)]
<1> DEFINE w == Waiting(f, n, ring)
<1>1. w \in [1..n -> Posted] /\ \A k \in 1..n : w[k] = ring[Slot(f, k)]
  BY DEF Waiting
<1> HIDE DEF w
<1>2. w \in Seq(Posted) /\ Len(w) = n
  BY <1>1, SeqDef, LenProperties
<1> QED
  BY <1>1, <1>2 DEF w

(* process_post appends an event, for which there is room.                   *)
LEMMA PostAppends ==
  ASSUME QueueInv, NEW e \in Posted, process_post(e)
  PROVE  /\ Len(Waiting(fevent, nevents, events)) < NUMEVENTS
         /\ Waiting(fevent', nevents', events') = Append(Waiting(fevent, nevents, events), e)
<1>1. /\ nevents \in Nat /\ nevents < NUMEVENTS /\ nevents' = nevents + 1
      /\ fevent' = fevent /\ events'[Slot(fevent, nevents + 1)] = e
      /\ \A k \in 1..nevents : events'[Slot(fevent, k)] = events[Slot(fevent, k)]
  BY PostQueue
<1>2. \A k \in 1..nevents : events[Slot(fevent, k)] \in Posted
  BY DEF QueueInv
<1>3. PICK n, ring : n = nevents /\ ring = events'
  OBVIOUS
<1>4. n + 1 \in Nat /\ \A k \in 1..(n + 1) : k = n + 1 \/ k \in 1..n
  <2>1. \A m \in Nat : m + 1 \in Nat /\ \A k \in 1..(m + 1) : k = m + 1 \/ k \in 1..m
    OBVIOUS
  <2> QED
    BY <1>1, <1>3, <2>1
<1>5. \A k \in 1..(n + 1) : ring[Slot(fevent, k)] \in Posted
  BY <1>1, <1>2, <1>3, <1>4
<1>6. PICK c, d : c = Waiting(fevent, n, events) /\ d = Waiting(fevent, n + 1, ring)
  OBVIOUS
<1>7. c \in Seq(Posted) /\ Len(c) = n /\ \A k \in 1..n : c[k] = events[Slot(fevent, k)]
  BY <1>1, <1>2, <1>3, <1>6, WaitingSeq
<1>8. /\ d \in Seq(Posted) /\ Len(d) = n + 1
      /\ \A k \in 1..(n + 1) : d[k] = ring[Slot(fevent, k)]
  BY <1>4, <1>5, <1>6, WaitingSeq
<1>9. /\ Append(c, e) \in Seq(Posted) /\ Len(Append(c, e)) = n + 1
      /\ \A k \in 1..n : Append(c, e)[k] = c[k]
      /\ Append(c, e)[n + 1] = e
  BY <1>7, AppendProperties
<1>10. \A k \in 1..(n + 1) : d[k] = Append(c, e)[k]
  BY <1>1, <1>3, <1>4, <1>7, <1>8, <1>9
<1>11. d = Append(c, e)
  BY <1>8, <1>9, <1>10, SeqEqual
<1> QED
  BY <1>1, <1>3, <1>6, <1>7, <1>11

(* do_event takes the first of them.                                         *)
LEMMA EventTakesFirst ==
  ASSUME QueueInv, do_event
  PROVE  /\ Waiting(fevent, nevents, events) # << >>
         /\ Head(Waiting(fevent, nevents, events)) = events[fevent]
         /\ Waiting(fevent', nevents', events') = Tail(Waiting(fevent, nevents, events))
<1>1. /\ nevents \in Nat /\ nevents > 0 /\ nevents' = nevents - 1 /\ fevent = Slot(fevent, 1)
      /\ \A k \in 1..(nevents - 1) :
           k + 1 \in 1..nevents /\ events'[Slot(fevent', k)] = events[Slot(fevent, k + 1)]
  BY TakeQueue
<1>2. \A k \in 1..nevents : events[Slot(fevent, k)] \in Posted
  BY DEF QueueInv
<1>3. PICK n, m, first, ring : n = nevents /\ m = n - 1 /\ first = fevent' /\ ring = events'
  OBVIOUS
<1>4. n \in Nat /\ m \in Nat /\ m = n - 1 /\ n # 0 /\ 1 \in 1..n
  BY <1>1, <1>3
<1>5. \A k \in 1..m : ring[Slot(first, k)] = events[Slot(fevent, k + 1)] /\ k + 1 \in 1..n
  BY <1>1, <1>3
<1>6. \A k \in 1..m : ring[Slot(first, k)] \in Posted
  BY <1>2, <1>3, <1>5
<1>7. PICK c, d : c = Waiting(fevent, n, events) /\ d = Waiting(first, m, ring)
  OBVIOUS
<1>8. c \in Seq(Posted) /\ Len(c) = n /\ \A k \in 1..n : c[k] = events[Slot(fevent, k)]
  BY <1>2, <1>3, <1>4, <1>7, WaitingSeq
<1>9. d \in Seq(Posted) /\ Len(d) = m /\ \A k \in 1..m : d[k] = ring[Slot(first, k)]
  BY <1>4, <1>6, <1>7, WaitingSeq
<1>10. c # << >>
  BY <1>4, <1>8, EmptySeq
<1>11. Head(c) = events[fevent]
  <2>1. Head(c) = c[1]
    BY <1>8
  <2> QED
    BY <1>1, <1>4, <1>8, <2>1
<1>12. /\ Tail(c) \in Seq(Posted) /\ Len(Tail(c)) = m
       /\ \A k \in 1..m : Tail(c)[k] = c[k + 1]
  BY <1>4, <1>8, <1>10, HeadTailProperties
<1>13. d = Tail(c)
  BY <1>5, <1>8, <1>9, <1>12, SeqEqual
<1> QED
  BY <1>1, <1>3, <1>7, <1>10, <1>11, <1>13

\* What is delivered has been posted.
DeliveryInv == \A e : Delivers(stack, e) => e \in Posted

(* What do_event does to the delivery.                                       *)
LEMMA EventDelivers ==
  ASSUME KernelInv, QueueInv, do_event, Shape(stack')
  PROVE  /\ \A e : Delivers(stack', e) => e = events[fevent]
         /\ Delivered' = events[fevent] /\ events[fevent] \in Posted
<1>1. events[fevent] \in Posted
  BY TakeQueue
<1>2. PICK x \in Posted : x = events[fevent]
  BY <1>1
<1>3. x = [ev |-> x.ev, p |-> x.p]
  BY Constants
<1>4. stack \in Seq(Frame) /\ stack # << >> /\ Tail(stack) = << >>
  <2>1. stack # << >> /\ Head(stack).fn = "process_run"
    BY DEF do_event, Running, Top
  <2>2. Shape(stack) /\ stack \in Seq(Frame)
    BY DEF KernelInv, StackFits, Shape
  <2>3. PICK s : s = stack
    OBVIOUS
  <2>4. Tail(s) = << >>
    BY <2>1, <2>2, <2>3, LoopCalls
  <2> QED
    BY <2>1, <2>2, <2>3, <2>4
<1>5. PICK w : w = Walk("do_event", x.p, x.ev, NULL, IF x.p = NULL THEN Listed ELSE {})
  OBVIOUS
<1>6. w.fn = "do_event" /\ w.arg = x.ev /\ w.p = x.p
  BY <1>5 DEF Walk
<1>7. stack' = <<w>> \o << >>
  BY <1>2, <1>4, <1>5 DEF do_event, With
<1>8. PICK s \in Seq(Frame) : s = << >>
  BY <1>4, PopSeq
<1>9. \A e : ~Delivers(s, e)
  BY <1>8 DEF Delivers
<1>10. \A e : Delivers(<<w>> \o s, e) <=>
         Delivers(s, e) \/ (w.fn = "do_event" /\ e = [ev |-> w.arg, p |-> w.p])
  BY PushDelivers
<1>11. \A e : Delivers(stack', e) <=> e = x
  BY <1>3, <1>6, <1>7, <1>8, <1>9, <1>10
<1> QED
  BY <1>1, <1>2, <1>11, DeliveredNext

(* When do_event returns, nothing is delivered any more.                     *)
LEMMA ReturnReleases ==
  ASSUME KernelInv, DeliveryInv, Return, Top.fn = "do_event", Shape(stack')
  PROVE  /\ \A e : ~Delivers(stack', e)
         /\ Delivered # NoEvent /\ Delivered' = NoEvent
<1>1. stack \in Seq(Frame) /\ Shape(stack)
  BY DEF KernelInv, StackFits, Shape
<1>2. stack # << >> /\ stack' = Tail(stack)
  BY DEF Return, Finished, Running
<1>3. PICK s : s = stack
  OBVIOUS
<1>4. Tail(s) = << >>
  BY <1>1, <1>2, <1>3, LoopCalls DEF Top
<1>5. \A e : ~Delivers(stack', e)
  <2>1. stack' = << >>
    BY <1>2, <1>3, <1>4
  <2> QED
    BY <2>1 DEF Delivers
<1>6. PICK x : x = [ev |-> Top.arg, p |-> Top.p]
  OBVIOUS
<1>7. Delivers(stack, x)
  BY <1>1, <1>2, <1>6, PopDelivers DEF Top
<1>8. Delivered = x /\ x \in Posted
  BY <1>1, <1>7, DeliveredIs DEF DeliveryInv
<1>9. x # NoEvent
  <2>1. x.ev \in {"MSG", "EXIT"}
    BY <1>8, Constants
  <2> QED
    BY <2>1 DEF NoEvent
<1> QED
  BY <1>5, <1>8, <1>9, DeliveredNext

(* What is delivered has been posted, after every step too.                  *)
LEMMA StepDelivery ==
  ASSUME KernelInv, QueueInv, DeliveryInv, Shape(stack'), [Next]_vars
  PROVE  DeliveryInv'
<1>1. CASE SameDelivery(stack, stack')
  BY <1>1 DEF SameDelivery, DeliveryInv
<1>2. CASE do_event
  BY <1>2, EventDelivers DEF DeliveryInv
<1>3. CASE Return /\ Top.fn = "do_event"
  BY <1>3, ReturnReleases DEF DeliveryInv
<1> QED
  BY <1>1, <1>2, <1>3, DeliverySteps

\* What EventFifo calls its buffer.
Buffer == [k \in 1..nevents |-> events[(fevent + k - 1) % NUMEVENTS]]

(* Each step of the kernel is a step of the buffer of events, or leaves it as *)
(* it is.                                                                    *)
LEMMA StepServes ==
  ASSUME KernelInv, QueueInv, DeliveryInv, Shape(stack'), [Next]_vars
  PROVE  EventFifo!Served \/ UNCHANGED <<Buffer, Delivered>>
<1>1. Buffer = Waiting(fevent, nevents, events) /\ Buffer' = Waiting(fevent', nevents', events')
  BY DEF Buffer, Waiting, Slot
<1>2. Shape(stack)
  BY DEF KernelInv, StackFits
<1>3. ASSUME UNCHANGED queuevars PROVE UNCHANGED Buffer
  BY <1>3 DEF queuevars, Buffer
<1>4. CASE do_event
  <2>1. /\ Buffer # << >> /\ Head(Buffer) = events[fevent] /\ Buffer' = Tail(Buffer)
    BY <1>1, <1>4, EventTakesFirst
  <2>2. Delivered' = events[fevent]
    BY <1>4, EventDelivers
  <2>3. EventFifo!Take
    BY <2>1, <2>2 DEF EventFifo!Take, Buffer
  <2> QED
    BY <2>3 DEF EventFifo!Served
<1>5. CASE Return /\ Top.fn = "do_event"
  <2>1. UNCHANGED Buffer
    BY <1>3, <1>5 DEF Return
  <2>2. Delivered # NoEvent /\ Delivered' = NoEvent
    BY <1>5, ReturnReleases
  <2>3. EventFifo!Release
    BY <2>1, <2>2 DEF EventFifo!Release, Buffer
  <2> QED
    BY <2>3 DEF EventFifo!Served
<1>6. ASSUME SameDelivery(stack, stack') PROVE UNCHANGED Delivered
  BY <1>2, <1>6, DeliveredKept
<1>7. ASSUME NEW e \in Posted, process_post(e) PROVE EventFifo!Served
  <2>1. Len(Buffer) < NUMEVENTS /\ Buffer' = Append(Buffer, e)
    BY <1>1, <1>7, PostAppends
  <2>2. UNCHANGED Delivered
    BY <1>7 DEF process_post, Delivered, Frames
  <2>3. EventFifo!Put(e)
    BY <2>1, <2>2 DEF EventFifo!Put, Buffer
  <2> QED
    BY <2>3 DEF EventFifo!Served
<1>8. CASE UNCHANGED queuevars /\ SameDelivery(stack, stack')
  BY <1>3, <1>6, <1>8
<1> QED
  BY <1>4, <1>5, <1>7, <1>8, QueueIdle, DeliverySteps

(* Before the loop nothing waits and nothing is delivered.                   *)
LEMMA InitServes == Init => DeliveryInv /\ EventFifo!Init
<1> SUFFICES ASSUME Init PROVE DeliveryInv /\ EventFifo!Init
  OBVIOUS
<1>1. stack = << >> /\ nevents = 0
  BY DEF Init
<1>2. DeliveryInv
  BY <1>1 DEF DeliveryInv, Delivers
<1>3. Buffer = << >>
  BY <1>1 DEF Buffer
<1>4. Delivered = NoEvent
  BY <1>1 DEF Delivered, Frames
<1> QED
  BY <1>2, <1>3, <1>4 DEF EventFifo!Init, Buffer

(* Events are delivered one at a time, in the order in which process_post    *)
(* accepted them, from whatever call it was called and whatever the thread   *)
(* that an event is delivered to does (process.c:248-301, 324-358).          *)
THEOREM KernelEvents == Spec => EventsTakenInOrder
<1>1. ASSUME KernelInv, QueueInv, KernelInv', DeliveryInv, [Next]_vars
      PROVE  DeliveryInv' /\ (EventFifo!Served \/ UNCHANGED <<Buffer, Delivered>>)
  <2>1. Shape(stack')
    BY <1>1 DEF KernelInv, StackFits
  <2> QED
    BY <1>1, <2>1, StepDelivery, StepServes
<1>2. Spec => [](KernelInv /\ QueueInv)
  BY KernelInvariant
<1> QED
  BY <1>1, <1>2, InitServes, PTL DEF Spec, EventsTakenInOrder, EventFifo!ServedSpec, Buffer
=============================================================================
