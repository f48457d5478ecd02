-------------------------- MODULE ContikiTimerProof --------------------------
(***************************************************************************)
(* Proofs about the timers of ContikiTimer, alone and with the separate     *)
(* resource of SeparateResource beside them, for any number of timers,      *)
(* processes, events and calls.                                             *)
(***************************************************************************)
EXTENDS SeparateResource, SequenceTheorems, WellFoundedInduction, TLAPS

-----------------------------------------------------------------------------
(* Lists that hold nothing twice.                                           *)

(* A set of positions has a least one.                                       *)
LEMMA LeastPosition ==
  ASSUME NEW I, I \subseteq Nat, I # {}
  PROVE  Min(I) \in I
<1> DEFINE R == {ss \in Nat \X Nat : ss[1] < ss[2]}
<1>1. IsWellFoundedOn(R, Nat)
  BY NatLessThanWellFounded DEF OpToRel
<1>2. \A x, y \in Nat : y < x => <<y, x>> \in R
  OBVIOUS
<1> HIDE DEF R
<1>3. PICK x \in I : \A y \in I : ~(<<y, x>> \in R)
  BY <1>1, WFMin, Zenon
<1>4. ASSUME NEW y \in I PROVE x <= y
  <2>1. x \in Nat /\ y \in Nat
    OBVIOUS
  <2>2. ~(y < x)
    BY <1>2, <1>3, <2>1, Zenon
  <2> QED
    BY <2>1, <2>2
<1> QED
  BY <1>4 DEF Min

(* Unlinking an item leaves the others, once each.                           *)
LEMMA RemoveFirstList ==
  ASSUME NEW S, NEW s \in Seq(S), IsInjective(s), NEW e
  PROVE  /\ RemoveFirst(s, e) \in Seq(S)
         /\ IsInjective(RemoveFirst(s, e))
         /\ ToSet(RemoveFirst(s, e)) = ToSet(s) \ {e}
         /\ Len(RemoveFirst(s, e)) <= Len(s)
<1>1. Len(s) \in Nat /\ DOMAIN s = 1..Len(s)
  BY LenProperties
<1>2. CASE e \notin ToSet(s)
  <2>1. ~ \E i \in 1..Len(s) : s[i] = e
    BY <1>1, <1>2 DEF ToSet
  <2>2. RemoveFirst(s, e) = s
    BY <2>1 DEF RemoveFirst
  <2> QED
    BY <1>1, <1>2, <2>2
<1>3. CASE e \in ToSet(s)
  <2> DEFINE I == {i \in 1..Len(s) : s[i] = e}
             m == Min(I)
             r == RemoveFirst(s, e)
  <2>1. \E i \in 1..Len(s) : s[i] = e
    BY <1>1, <1>3 DEF ToSet
  <2>2. m \in 1..Len(s) /\ s[m] = e
    <3>1. I \subseteq Nat /\ I # {}
      BY <2>1
    <3>2. Min(I) \in I
      BY <3>1, LeastPosition
    <3> QED
      BY <3>2
  <2>3. r = SubSeq(s, 1, m - 1) \o SubSeq(s, m + 1, Len(s))
    <3>1. SelectInSeq(s, LAMBDA v : v = e) = IF I # {} THEN Min(I) ELSE 0
      BY DEF SelectInSeq
    <3>2. RemoveFirst(s, e) = RemoveAt(s, SelectInSeq(s, LAMBDA v : v = e))
      BY <2>1 DEF RemoveFirst
    <3> QED
      BY <2>1, <3>1, <3>2 DEF RemoveAt
  <2> HIDE DEF m, r
  <2> DEFINE a == SubSeq(s, 1, m - 1)
             b == SubSeq(s, m + 1, Len(s))
  <2>4. /\ a \in Seq(S) /\ Len(a) = m - 1
        /\ \A i \in 1..(m - 1) : a[i] = s[i]
    <3>1. \A i \in 1..(m - 1) : s[i] \in S
      BY <1>1, <2>2, ElementOfSeq
    <3> QED
      BY <2>2, <3>1, SubSeqProperties
  <2>5. /\ b \in Seq(S) /\ Len(b) = Len(s) - m
        /\ \A i \in 1..(Len(s) - m) : b[i] = s[m + i]
    <3>1. \A i \in (m + 1)..Len(s) : s[i] \in S
      BY <1>1, <2>2, ElementOfSeq
    <3>2. /\ b \in Seq(S) /\ Len(b) = IF m + 1 <= Len(s) THEN Len(s) - (m + 1) + 1 ELSE 0
          /\ \A i \in 1..(Len(s) - (m + 1) + 1) : b[i] = s[(m + 1) + i - 1]
      BY <1>1, <2>2, <3>1, SubSeqProperties
    <3> HIDE DEF b
    <3>3. Len(b) = Len(s) - m
      <4>1. Len(b) = IF m + 1 <= Len(s) THEN Len(s) - (m + 1) + 1 ELSE 0
        BY <3>2
      <4>2. Len(s) \in Nat /\ m \in Nat /\ m <= Len(s)
        BY <1>1, <2>2
      <4> QED
        BY <4>1, <4>2
    <3>4. ASSUME NEW i \in 1..(Len(s) - m) PROVE b[i] = s[m + i]
      <4>1. i \in 1..(Len(s) - (m + 1) + 1) /\ (m + 1) + i - 1 = m + i
        BY <1>1, <2>2
      <4> QED
        BY <3>2, <4>1
    <3> QED
      BY <3>2, <3>3, <3>4
  <2> HIDE DEF a, b
  <2>6. /\ r \in Seq(S) /\ Len(r) = Len(s) - 1
        /\ \A i \in 1..(Len(s) - 1) : r[i] = IF i < m THEN s[i] ELSE s[i + 1]
    <3>1. r = a \o b
      BY <2>3 DEF a, b
    <3>2. /\ r \in Seq(S) /\ Len(r) = Len(a) + Len(b)
          /\ \A i \in 1..(Len(a) + Len(b)) :
               r[i] = IF i <= Len(a) THEN a[i] ELSE b[i - Len(a)]
      BY <2>4, <2>5, <3>1, ConcatProperties
    <3>3. Len(r) = Len(s) - 1
      BY <1>1, <2>2, <2>4, <2>5, <3>2
    <3>4. ASSUME NEW i \in 1..(Len(s) - 1) PROVE r[i] = IF i < m THEN s[i] ELSE s[i + 1]
      <4>1. r[i] = IF i <= m - 1 THEN a[i] ELSE b[i - (m - 1)]
        BY <1>1, <2>2, <2>4, <2>5, <3>2
      <4>2. CASE i < m
        BY <1>1, <2>2, <2>4, <4>1, <4>2
      <4>3. CASE i >= m
        <5>1. i - (m - 1) \in 1..(Len(s) - m) /\ m + (i - (m - 1)) = i + 1
          BY <1>1, <2>2, <4>3
        <5> QED
          BY <1>1, <2>2, <2>5, <4>1, <4>3, <5>1
      <4> QED
        BY <1>1, <2>2, <4>2, <4>3
    <3> QED
      BY <3>2, <3>3, <3>4
  <2>7. DOMAIN r = 1..(Len(s) - 1)
    BY <2>6, LenProperties
  <2>8. IsInjective(r)
    <3> SUFFICES ASSUME NEW i \in DOMAIN r, NEW j \in DOMAIN r, r[i] = r[j]
                 PROVE  i = j
      BY DEF IsInjective
    <3> DEFINE from(k) == IF k < m THEN k ELSE k + 1
    <3>1. ASSUME NEW k \in 1..(Len(s) - 1)
          PROVE  from(k) \in 1..Len(s) /\ r[k] = s[from(k)]
      <4>1. from(k) \in 1..Len(s)
        BY <1>1, <2>2
      <4> QED
        BY <2>6, <4>1
    <3>2. from(i) = from(j)
      BY <1>1, <2>7, <3>1 DEF IsInjective
    <3> QED
      BY <1>1, <2>2, <2>7, <3>2
  <2>9. ToSet(r) = ToSet(s) \ {e}
    <3>1. ASSUME NEW x \in ToSet(r) PROVE x \in ToSet(s) \ {e}
      <4>1. PICK i \in 1..(Len(s) - 1) : x = r[i]
        BY <2>7 DEF ToSet
      <4>2. PICK k \in 1..Len(s) : x = s[k] /\ k # m
        <5>1. i \in 1..Len(s) /\ i + 1 \in 1..Len(s) /\ i # i + 1
          BY <1>1
        <5>2. r[i] = IF i < m THEN s[i] ELSE s[i + 1]
          BY <2>6
        <5>3. i < m => i # m
          BY <2>2
        <5>4. ~(i < m) => i + 1 # m
          BY <2>2
        <5> QED
          BY <4>1, <5>1, <5>2, <5>3, <5>4
      <4>3. x \in ToSet(s)
        BY <1>1, <4>2 DEF ToSet
      <4>4. x # e
        BY <1>1, <2>2, <4>2 DEF IsInjective
      <4> QED
        BY <4>3, <4>4
    <3>2. ASSUME NEW x \in ToSet(s) \ {e} PROVE x \in ToSet(r)
      <4>1. PICK k \in 1..Len(s) : x = s[k]
        BY <1>1 DEF ToSet
      <4>2. k # m
        BY <2>2, <4>1
      <4>3. CASE k < m
        <5>1. k \in 1..(Len(s) - 1) /\ r[k] = s[k]
          BY <1>1, <2>2, <2>6, <4>3
        <5> QED
          BY <2>7, <4>1, <5>1 DEF ToSet
      <4>4. CASE k > m
        <5>1. k - 1 \in 1..(Len(s) - 1) /\ r[k - 1] = s[k]
          BY <1>1, <2>2, <2>6, <4>4
        <5> QED
          BY <2>7, <4>1, <5>1 DEF ToSet
      <4> QED
        BY <1>1, <2>2, <4>2, <4>3, <4>4
    <3> QED
      BY <3>1, <3>2
  <2> QED
    BY <1>1, <2>6, <2>8, <2>9 DEF r
<1> QED
  BY <1>2, <1>3

(* Putting in front an item that is not on the list.                         *)
LEMMA PrependList ==
  ASSUME NEW S, NEW s \in Seq(S), IsInjective(s), NEW e \in S, e \notin ToSet(s)
  PROVE  /\ <<e>> \o s \in Seq(S)
         /\ IsInjective(<<e>> \o s)
         /\ ToSet(<<e>> \o s) = {e} \cup ToSet(s)
         /\ Len(<<e>> \o s) = Len(s) + 1
<1> DEFINE r == <<e>> \o s
<1>1. Len(s) \in Nat /\ DOMAIN s = 1..Len(s)
  BY LenProperties
<1>2. <<e>> \in Seq(S) /\ Len(<<e>>) = 1 /\ <<e>>[1] = e
  OBVIOUS
<1>3. /\ r \in Seq(S) /\ Len(r) = 1 + Len(s)
      /\ \A i \in 1..(1 + Len(s)) : r[i] = IF i <= 1 THEN <<e>>[i] ELSE s[i - 1]
  BY <1>2, ConcatProperties
<1> HIDE DEF r
<1>4. DOMAIN r = 1..(Len(s) + 1)
  BY <1>1, <1>3, LenProperties
<1>5. r[1] = e /\ \A i \in 2..(Len(s) + 1) : i - 1 \in 1..Len(s) /\ r[i] = s[i - 1]
  BY <1>1, <1>2, <1>3
<1>6. IsInjective(r)
  <2> SUFFICES ASSUME NEW i \in DOMAIN r, NEW j \in DOMAIN r, r[i] = r[j]
               PROVE  i = j
    BY DEF IsInjective
  <2>1. \A k \in 2..(Len(s) + 1) : r[k] # e
    BY <1>1, <1>5 DEF ToSet
  <2>2. (i = 1 /\ j = 1) \/ (i \in 2..(Len(s) + 1) /\ j \in 2..(Len(s) + 1))
    BY <1>1, <1>4, <1>5, <2>1
  <2>3. CASE i \in 2..(Len(s) + 1) /\ j \in 2..(Len(s) + 1)
    <3>1. i - 1 = j - 1
      BY <1>1, <1>5, <2>3 DEF IsInjective
    <3> QED
      BY <1>1, <2>3, <3>1
  <2> QED
    BY <2>2, <2>3
<1>7. ToSet(r) = {e} \cup ToSet(s)
  <2>1. ToSet(r) \subseteq {e} \cup ToSet(s)
    BY <1>1, <1>4, <1>5 DEF ToSet
  <2>2. e \in ToSet(r)
    BY <1>1, <1>4, <1>5 DEF ToSet
  <2>3. ASSUME NEW x \in ToSet(s) PROVE x \in ToSet(r)
    <3>1. PICK k \in 1..Len(s) : x = s[k]
      BY <1>1 DEF ToSet
    <3>2. k + 1 \in DOMAIN r /\ r[k + 1] = s[k]
      BY <1>1, <1>4, <1>5
    <3> QED
      BY <3>1, <3>2 DEF ToSet
  <2> QED
    BY <2>1, <2>2, <2>3
<1> QED
  BY <1>1, <1>3, <1>6, <1>7 DEF r

(* Putting it at the end.                                                    *)
LEMMA AppendList ==
  ASSUME NEW S, NEW s \in Seq(S), IsInjective(s), NEW e \in S, e \notin ToSet(s)
  PROVE  /\ Append(s, e) \in Seq(S)
         /\ IsInjective(Append(s, e))
         /\ ToSet(Append(s, e)) = {e} \cup ToSet(s)
<1> DEFINE r == Append(s, e)
<1>1. Len(s) \in Nat /\ DOMAIN s = 1..Len(s)
  BY LenProperties
<1>2. /\ r \in Seq(S) /\ Len(r) = Len(s) + 1
      /\ \A i \in 1..Len(s) : r[i] = s[i]
      /\ r[Len(s) + 1] = e
  BY AppendProperties
<1> HIDE DEF r
<1>3. DOMAIN r = 1..(Len(s) + 1)
  BY <1>2, LenProperties
<1>4. \A k \in 1..Len(s) : r[k] # e
  BY <1>1, <1>2 DEF ToSet
<1>5. IsInjective(r)
  BY <1>1, <1>2, <1>3, <1>4 DEF IsInjective
<1>6. ToSet(r) = {e} \cup ToSet(s)
  <2>1. ToSet(r) \subseteq {e} \cup ToSet(s)
    BY <1>1, <1>2, <1>3 DEF ToSet
  <2>2. {e} \cup ToSet(s) \subseteq ToSet(r)
    BY <1>1, <1>2, <1>3 DEF ToSet
  <2> QED
    BY <2>1, <2>2
<1> QED
  BY <1>2, <1>5, <1>6 DEF r

(* Leaving only the items of a set on a list.                                *)
LEMMA LeftList ==
  ASSUME NEW S, NEW s \in Seq(S), IsInjective(s), NEW K, NEW r \in Left(s, K)
  PROVE  /\ r \in Seq(S)
         /\ IsInjective(r)
         /\ ToSet(r) = ToSet(s) \cap K
<1>1. Len(s) \in Nat /\ DOMAIN s = 1..Len(s) /\ \A i \in 1..Len(s) : s[i] \in S
  BY LenProperties, ElementOfSeq
<1>2. PICK n \in 0..Len(s) : \E f \in [1..n -> DOMAIN s] :
        /\ \A i, j \in 1..n : i < j => f[i] < f[j]
        /\ Range(f) = {i \in DOMAIN s : s[i] \in K}
        /\ r = [i \in 1..n |-> s[f[i]]]
  <2>1. PICK f \in UNION {[1..n -> DOMAIN s] : n \in 0..Len(s)} :
          /\ \A i, j \in DOMAIN f : i < j => f[i] < f[j]
          /\ Range(f) = {i \in DOMAIN s : s[i] \in K}
          /\ r = [i \in DOMAIN f |-> s[f[i]]]
    BY DEF Left
  <2>2. PICK n \in 0..Len(s) : f \in [1..n -> DOMAIN s]
    BY <2>1
  <2>3. DOMAIN f = 1..n
    BY <2>2
  <2> QED
    BY <2>1, <2>2, <2>3
<1>3. PICK f \in [1..n -> DOMAIN s] :
        /\ \A i, j \in 1..n : i < j => f[i] < f[j]
        /\ Range(f) = {i \in DOMAIN s : s[i] \in K}
        /\ r = [i \in 1..n |-> s[f[i]]]
  BY <1>2
<1>4. \A i \in 1..n : f[i] \in 1..Len(s) /\ r[i] = s[f[i]] /\ r[i] \in S
  BY <1>1, <1>3
<1>5. r \in Seq(S) /\ DOMAIN r = 1..n
  <2>1. r \in [1..n -> S] /\ n \in Nat
    BY <1>1, <1>2, <1>4
  <2> QED
    BY <2>1, SeqDef
<1>6. IsInjective(r)
  <2> SUFFICES ASSUME NEW i \in 1..n, NEW j \in 1..n, r[i] = r[j]
               PROVE  i = j
    BY <1>5 DEF IsInjective
  <2>1. f[i] = f[j]
    BY <1>1, <1>4 DEF IsInjective
  <2> QED
    BY <1>1, <1>3, <1>4, <2>1
<1>7. ToSet(r) = ToSet(s) \cap K
  <2>1. ASSUME NEW x \in ToSet(r) PROVE x \in ToSet(s) \cap K
    <3>1. PICK i \in 1..n : x = s[f[i]]
      BY <1>4, <1>5 DEF ToSet
    <3>2. f[i] \in Range(f) /\ f[i] \in DOMAIN s
      BY <1>1, <1>3, <1>4 DEF Range
    <3> QED
      BY <1>3, <3>1, <3>2 DEF ToSet
  <2>2. ASSUME NEW x \in ToSet(s) \cap K PROVE x \in ToSet(r)
    <3>1. PICK k \in DOMAIN s : x = s[k]
      BY DEF ToSet
    <3>2. k \in Range(f)
      BY <1>3, <3>1
    <3>3. PICK i \in 1..n : f[i] = k
      BY <1>3, <3>2 DEF Range
    <3> QED
      BY <1>4, <1>5, <3>1, <3>3 DEF ToSet
  <2> QED
    BY <2>1, <2>2
<1> QED
  BY <1>5, <1>6, <1>7
-----------------------------------------------------------------------------
(* Constants, the clock and the event queue.                                *)

(* What the proofs use of the constants.                                     *)
LEMMA Constants ==
  /\ Ctimer \subseteq Timer /\ Etimer \subseteq Timer /\ None \notin Timer
  /\ AutoReset \subseteq Ctimer
  /\ \A e \in Etimer : e \notin Ctimer /\ Owner[e] \in Process
  /\ None \notin Process /\ CtimerProcess \notin Process /\ None # CtimerProcess
  /\ CLOCK \in Nat /\ CLOCK > 1 /\ Intervals \subseteq Nat
  /\ NUMEVENTS \in Nat /\ NUMEVENTS >= 1 /\ MaxLag \in Nat /\ MaxCalls \in Nat
<1>1. None # CtimerProcess
  BY DEF None, CtimerProcess
<1>2. \A e \in Etimer : Owner[e] \in Process
  BY DEF Process
<1>3. Intervals \subseteq Nat
  BY TimerAssumption
<1> QED
  BY <1>1, <1>2, <1>3, TimerAssumption DEF Timer

(* A time stays within the clock's width.                                    *)
LEMMA ClockWidth ==
  ASSUME NEW a \in Int PROVE a % CLOCK \in 0..(CLOCK - 1)
BY Constants

(* The timers with an event in the queue, when one more event is posted ...  *)
LEMMA QueueGrows ==
  ASSUME NEW q \in Seq(Event), NEW x \in Event
  PROVE  /\ Append(q, x) \in Seq(Event) /\ Len(Append(q, x)) = Len(q) + 1
         /\ \A t : (\E i \in DOMAIN q : q[i].timer = t) \/ x.timer = t =>
                     \E i \in DOMAIN Append(q, x) : Append(q, x)[i].timer = t
<1> DEFINE r == Append(q, x)
<1>1. /\ r \in Seq(Event) /\ Len(r) = Len(q) + 1 /\ Len(q) \in Nat
      /\ \A i \in 1..Len(q) : r[i] = q[i]
      /\ r[Len(q) + 1] = x
  BY AppendProperties, LenProperties
<1> HIDE DEF r
<1>2. DOMAIN q = 1..Len(q) /\ DOMAIN r = 1..(Len(q) + 1)
  BY <1>1, LenProperties
<1>3. ASSUME NEW t, (\E i \in DOMAIN q : q[i].timer = t) \/ x.timer = t
      PROVE  \E i \in DOMAIN r : r[i].timer = t
  BY <1>1, <1>2, <1>3
<1> QED
  BY <1>1, <1>3 DEF r

(* ... and when the oldest is taken.                                         *)
LEMMA QueueShrinks ==
  ASSUME NEW q \in Seq(Event), q # << >>
  PROVE  /\ Tail(q) \in Seq(Event) /\ Len(Tail(q)) = Len(q) - 1
         /\ \A t : (\E i \in DOMAIN q : q[i].timer = t) =>
                     \/ Head(q).timer = t
                     \/ \E i \in DOMAIN Tail(q) : Tail(q)[i].timer = t
<1> DEFINE r == Tail(q)
<1>1. /\ r \in Seq(Event) /\ Len(r) = Len(q) - 1 /\ Len(q) \in Nat \ {0}
      /\ \A i \in 1..Len(r) : r[i] = q[i + 1]
      /\ Head(q) = q[1]
  BY HeadTailProperties, LenProperties, EmptySeq
<1> HIDE DEF r
<1>2. DOMAIN q = 1..Len(q) /\ DOMAIN r = 1..(Len(q) - 1)
  BY <1>1, LenProperties
<1>3. ASSUME NEW t, NEW i \in DOMAIN q, q[i].timer = t, i # 1
      PROVE  \E j \in DOMAIN r : r[j].timer = t
  <2>1. i - 1 \in DOMAIN r /\ r[i - 1] = q[i]
    BY <1>1, <1>2, <1>3
  <2> QED
    BY <1>3, <2>1
<1> QED
  BY <1>1, <1>3 DEF r
-----------------------------------------------------------------------------
(* No timer is lost.                                                        *)

(* The inductive invariant.  A ctimer on the list of timers is there for      *)
(* ctimer_process, so that no exit of a thread takes it off; and a walk begins *)
(* at the front of the list, so that it is the walk alone that can be beyond   *)
(* an end that moves.                                                         *)
TimerInv ==
  /\ TypeOK /\ NoTimerLost
  /\ \A c \in Ctimer : owner[c] \in {None, CtimerProcess}
  /\ pc # "walk" => at = 1

(* add_timer puts a timer on the list, once, for a process that hears of it.  *)
LEMMA AddTimer ==
  ASSUME TimerInv, NEW t \in Timer, NEW p \in alive \cup {CtimerProcess},
         t \in Ctimer => p = CtimerProcess, add_timer(t, p)
  PROVE  /\ polled' = TRUE
         /\ owner' \in [Timer -> Process \cup {None, CtimerProcess}]
         /\ owner'[t] \in alive \cup {CtimerProcess}
         /\ \A u \in Timer : u # t => owner'[u] = owner[u]
         /\ \A c \in Ctimer : owner'[c] \in {None, CtimerProcess}
         /\ timerlist' \in Seq(Timer) /\ IsInjective(timerlist')
         /\ ToSet(timerlist') = {t} \cup ToSet(timerlist)
<1>1. /\ timerlist \in Seq(Timer) /\ IsInjective(timerlist)
      /\ owner \in [Timer -> Process \cup {None, CtimerProcess}]
      /\ alive \subseteq Process
  BY DEF TimerInv, TypeOK
<1>2. \A u \in Timer : u \in ToSet(timerlist) => owner[u] \in alive \cup {CtimerProcess}
  BY DEF TimerInv, NoTimerLost, Listed
<1>3. \A c \in Ctimer : owner[c] \in {None, CtimerProcess}
  BY DEF TimerInv
<1>4. CASE owner[t] # None /\ Listed(t)
  <2>1. polled' = TRUE /\ owner' = owner /\ timerlist' = timerlist
    BY <1>4 DEF add_timer
  <2> QED
    BY <1>1, <1>2, <1>3, <1>4, <2>1 DEF Listed
<1>5. CASE ~(owner[t] # None /\ Listed(t))
  <2>1. /\ polled' = TRUE
        /\ owner' = [owner EXCEPT ![t] = p]
        /\ timerlist' = <<t>> \o timerlist
    BY <1>5 DEF add_timer
  <2>2. t \notin ToSet(timerlist)
    BY <1>1, <1>2, <1>5, Constants DEF Listed
  <2>3. /\ timerlist' \in Seq(Timer) /\ IsInjective(timerlist')
        /\ ToSet(timerlist') = {t} \cup ToSet(timerlist)
    BY <1>1, <2>1, <2>2, PrependList
  <2> QED
    BY <1>1, <1>3, <2>1, <2>3
<1> QED
  BY <1>4, <1>5

(* A ctimer that is set is once on the list of ctimers.                       *)
LEMMA ReaddedOnce ==
  ASSUME TypeOK, NEW c \in Ctimer, Readd(c)
  PROVE  /\ ctimer_list' \in Seq(Ctimer) /\ IsInjective(ctimer_list')
         /\ ToSet(ctimer_list') = {c} \cup ToSet(ctimer_list)
<1> DEFINE r == RemoveFirst(ctimer_list, c)
<1>1. ctimer_list \in Seq(Ctimer) /\ IsInjective(ctimer_list)
  BY DEF TypeOK
<1>2. r \in Seq(Ctimer) /\ IsInjective(r) /\ ToSet(r) = ToSet(ctimer_list) \ {c}
  BY <1>1, RemoveFirstList
<1>3. ctimer_list' = Append(r, c)
  BY DEF Readd
<1> HIDE DEF r
<1>4. /\ ctimer_list' \in Seq(Ctimer) /\ IsInjective(ctimer_list')
      /\ ToSet(ctimer_list') = {c} \cup ToSet(r)
  BY <1>2, <1>3, AppendList
<1> QED
  BY <1>2, <1>4

(* Steps that leave the lists, the queue and the walk alone lose nothing.     *)
LEMMA ListsUntouched ==
  ASSUME TimerInv, TypeOK', UNCHANGED <<owner, timerlist, ctimer_list, events>>,
         alive \subseteq alive', pc' # "walk" => at' = 1
  PROVE  TimerInv'
<1>1. NoTimerLost'
  BY DEF TimerInv, NoTimerLost, Listed, Waiting, Queued
<1> QED
  BY <1>1 DEF TimerInv

(* The clock's interrupt, in the middle of a walk or of a call.               *)
LEMMA TickKeepsTimers ==
  ASSUME TimerInv, Tick PROVE TimerInv'
<1>1. since' \in [Timer -> 0..(CLOCK - 1)]
  <2>1. \A t \in Timer : since[t] \in 0..(CLOCK - 1) /\ since[t] + 1 \in Int
    BY Constants DEF TimerInv, TypeOK
  <2>2. \A t \in Timer : (since[t] + 1) % CLOCK \in 0..(CLOCK - 1)
    BY <2>1, ClockWidth
  <2> QED
    BY <2>1, <2>2 DEF Tick
<1>2. polled' \in BOOLEAN
  BY DEF Tick
<1>3. lag' \in 0..MaxLag
  BY Constants DEF Tick, TimerInv, TypeOK
<1>4. TypeOK'
  BY <1>1, <1>2, <1>3 DEF Tick, TimerInv, TypeOK, kernelvars, history
<1> QED
  BY <1>4, ListsUntouched DEF Tick, TimerInv, kernelvars

(* Everything the sketch and threads do is one of the calls MaxCalls counts.  *)
LEMMA CallCounted ==
  ASSUME TimerInv, Call PROVE calls' \in 0..MaxCalls /\ pc # "walk"
<1>1. calls \in 0..MaxCalls
  BY DEF TimerInv, TypeOK
<1>2. calls < MaxCalls /\ calls' = calls + 1 /\ pc \in {"loop", "callback"}
  BY DEF Call, UserCode
<1>3. MaxCalls \in Nat
  BY Constants
<1> QED
  BY <1>1, <1>2, <1>3

(* A ctimer is set: by the sketch, by another's function or by its own.       *)
LEMMA SetKeepsTimers ==
  ASSUME TimerInv, NEW c \in Ctimer, NEW i \in Intervals, ctimer_set(c, i),
         pc # "walk", UNCHANGED <<kernelvars, alive, lag>>, calls' \in 0..MaxCalls
  PROVE  TimerInv'
<1>1. /\ polled' = TRUE
      /\ owner' \in [Timer -> Process \cup {None, CtimerProcess}]
      /\ owner'[c] \in alive \cup {CtimerProcess}
      /\ \A u \in Timer : u # c => owner'[u] = owner[u]
      /\ \A d \in Ctimer : owner'[d] \in {None, CtimerProcess}
      /\ timerlist' \in Seq(Timer) /\ IsInjective(timerlist')
      /\ ToSet(timerlist') = {c} \cup ToSet(timerlist)
  <2>1. c \in Timer /\ CtimerProcess \in alive \cup {CtimerProcess}
    BY Constants
  <2>2. add_timer(c, CtimerProcess)
    BY DEF ctimer_set, etimer_set
  <2> QED
    BY <2>1, <2>2, AddTimer
<1>2. /\ ctimer_list' \in Seq(Ctimer) /\ IsInjective(ctimer_list')
      /\ ToSet(ctimer_list') = {c} \cup ToSet(ctimer_list)
  BY ReaddedOnce DEF ctimer_set, TimerInv
<1>3. at' = 1 /\ Len(timerlist') \in Nat
  BY <1>1, LenProperties DEF TimerInv, kernelvars
<1>4. TypeOK'
  <2>1. since' \in [Timer -> 0..(CLOCK - 1)] /\ interval' \in [Timer -> Intervals \cup {0}]
    BY Constants DEF ctimer_set, etimer_set, TimerInv, TypeOK
  <2>2. hasty' \in [Ctimer -> BOOLEAN]
    <3>1. (Queued(c) \/ (running = c /\ c \in AutoReset)) \in BOOLEAN
      BY DEF Queued
    <3> QED
      BY <3>1 DEF ctimer_set, TimerInv, TypeOK
  <2>3. stopped' \in [Ctimer -> {"no", "yes", "inTick"}]
    BY DEF ctimer_set, TimerInv, TypeOK
  <2>4. at' \in 1..(Len(timerlist') + 1)
    BY <1>3
  <2> QED
    BY <1>1, <1>2, <2>1, <2>2, <2>3, <2>4 DEF TimerInv, TypeOK, kernelvars
<1>5. NoTimerLost'
  BY <1>1, <1>2, Constants DEF TimerInv, NoTimerLost, Listed, Waiting, Queued, kernelvars
<1> QED
  BY <1>1, <1>3, <1>4, <1>5 DEF TimerInv

(* A ctimer is stopped.                                                       *)
LEMMA StopKeepsTimers ==
  ASSUME TimerInv, NEW c \in Ctimer, Stop(c) PROVE TimerInv'
<1>1. /\ timerlist' \in Seq(Timer) /\ IsInjective(timerlist')
      /\ ToSet(timerlist') = ToSet(timerlist) \ {c}
  BY RemoveFirstList DEF Stop, ctimer_stop, etimer_stop, TimerInv, TypeOK
<1>2. /\ ctimer_list' \in Seq(Ctimer) /\ IsInjective(ctimer_list')
      /\ ToSet(ctimer_list') = ToSet(ctimer_list) \ {c}
  BY RemoveFirstList DEF Stop, ctimer_stop, TimerInv, TypeOK
<1>3. at' = 1 /\ Len(timerlist') \in Nat
  BY <1>1, LenProperties DEF Stop, Call, UserCode, TimerInv, kernelvars
<1>4. c \in Timer /\ owner' = [owner EXCEPT ![c] = None]
  BY Constants DEF Stop, ctimer_stop, etimer_stop
<1>5. TypeOK'
  <2>1. since' \in [Timer -> 0..(CLOCK - 1)] /\ interval' = interval /\ polled' = polled
    BY Constants DEF Stop, ctimer_stop, etimer_stop, TimerInv, TypeOK
  <2>2. stopped' \in [Ctimer -> {"no", "yes", "inTick"}]
    BY DEF Stop, TimerInv, TypeOK
  <2>3. calls' \in 0..MaxCalls
    BY CallCounted DEF Stop
  <2>4. owner' \in [Timer -> Process \cup {None, CtimerProcess}]
    BY <1>4 DEF TimerInv, TypeOK
  <2>5. at' \in 1..(Len(timerlist') + 1)
    BY <1>3
  <2> QED
    BY <1>1, <1>2, <2>1, <2>2, <2>3, <2>4, <2>5 DEF Stop, TimerInv, TypeOK, kernelvars
<1>6. NoTimerLost'
  <2>1. owner \in [Timer -> Process \cup {None, CtimerProcess}]
    BY DEF TimerInv, TypeOK
  <2>2. owner'[c] = None /\ \A u \in Timer : u # c => owner'[u] = owner[u]
    BY <1>4, <2>1
  <2>3. UNCHANGED <<events, alive>>
    BY DEF Stop, kernelvars
  <2> QED
    BY <1>1, <1>2, <2>2, <2>3, Constants DEF TimerInv, NoTimerLost, Listed, Waiting, Queued
<1> QED
  BY <1>3, <1>4, <1>5, <1>6 DEF TimerInv

(* A thread sets its event timer.                                             *)
LEMMA WaitKeepsTimers ==
  ASSUME TimerInv, NEW e \in Etimer, NEW i \in Intervals, Wait(e, i)
  PROVE  TimerInv'
<1>1. /\ polled' = TRUE
      /\ owner' \in [Timer -> Process \cup {None, CtimerProcess}]
      /\ owner'[e] \in alive \cup {CtimerProcess}
      /\ \A u \in Timer : u # e => owner'[u] = owner[u]
      /\ \A d \in Ctimer : owner'[d] \in {None, CtimerProcess}
      /\ timerlist' \in Seq(Timer) /\ IsInjective(timerlist')
      /\ ToSet(timerlist') = {e} \cup ToSet(timerlist)
  <2>1. e \in Timer /\ e \notin Ctimer /\ Owner[e] \in alive \cup {CtimerProcess}
    BY Constants DEF Wait
  <2>2. add_timer(e, Owner[e])
    BY DEF Wait, etimer_set
  <2> QED
    BY <2>1, <2>2, AddTimer
<1>2. at' = 1 /\ Len(timerlist') \in Nat
  BY <1>1, LenProperties DEF Wait, TimerInv, kernelvars
<1>3. TypeOK'
  <2>1. since' \in [Timer -> 0..(CLOCK - 1)] /\ interval' \in [Timer -> Intervals \cup {0}]
    BY Constants DEF Wait, etimer_set, TimerInv, TypeOK
  <2>2. calls' \in 0..MaxCalls
    BY CallCounted DEF Wait
  <2>3. at' \in 1..(Len(timerlist') + 1)
    BY <1>2
  <2> QED
    BY <1>1, <2>1, <2>2, <2>3 DEF Wait, TimerInv, TypeOK, kernelvars, history
<1>4. NoTimerLost'
  <2>1. UNCHANGED <<ctimer_list, events, alive>>
    BY DEF Wait, kernelvars
  <2> QED
    BY <1>1, <2>1, Constants DEF TimerInv, NoTimerLost, Listed, Waiting, Queued
<1> QED
  BY <1>1, <1>2, <1>3, <1>4 DEF TimerInv

(* A thread exits; its timers leave the list with it.                         *)
LEMMA ExitKeepsTimers ==
  ASSUME TimerInv, NEW p \in Process, Exit(p) PROVE TimerInv'
<1> DEFINE K == {t \in Timer : owner[t] # p}
<1>1. /\ timerlist' \in Seq(Timer) /\ IsInjective(timerlist')
      /\ ToSet(timerlist') = ToSet(timerlist) \cap K
  <2>1. timerlist \in Seq(Timer) /\ IsInjective(timerlist) /\ timerlist' \in Left(timerlist, K)
    BY DEF Exit, TimerInv, TypeOK
  <2> HIDE DEF K
  <2> QED
    BY <2>1, LeftList
<1>2. at' = 1 /\ Len(timerlist') \in Nat
  BY <1>1, LenProperties DEF Exit, Call, UserCode, TimerInv, kernelvars
<1>3. TypeOK'
  <2>1. since' \in [Timer -> 0..(CLOCK - 1)]
    BY Constants DEF Exit, TimerInv, TypeOK
  <2>2. calls' \in 0..MaxCalls
    BY CallCounted DEF Exit
  <2>3. at' \in 1..(Len(timerlist') + 1)
    BY <1>2
  <2>4. alive' \subseteq Process
    BY DEF Exit, TimerInv, TypeOK
  <2> QED
    BY <1>1, <2>1, <2>2, <2>3, <2>4 DEF Exit, TimerInv, TypeOK, kernelvars, history
<1>4. NoTimerLost'
  <2>1. UNCHANGED <<ctimer_list, events, owner>> /\ alive' = alive \ {p}
    BY DEF Exit, kernelvars
  <2>2. \A c \in Ctimer : owner[c] # p
    BY Constants DEF TimerInv
  <2>3. \A t \in Timer : t \in ToSet(timerlist') => owner[t] # p /\ t \in ToSet(timerlist)
    BY <1>1
  <2>4. \A c \in Ctimer : c \in ToSet(timerlist) => c \in ToSet(timerlist')
    BY <1>1, <2>2, Constants
  <2> QED
    BY <2>1, <2>3, <2>4 DEF TimerInv, NoTimerLost, Listed, Waiting, Queued
<1> QED
  BY <1>2, <1>3, <1>4 DEF Exit, TimerInv

(* It starts again.                                                           *)
LEMMA RestartKeepsTimers ==
  ASSUME TimerInv, NEW p \in Process, Restart(p) PROVE TimerInv'
<1>1. calls' \in 0..MaxCalls
  BY CallCounted DEF Restart
<1>2. TypeOK'
  BY <1>1 DEF Restart, TimerInv, TypeOK, timervars, kernelvars, history
<1> QED
  BY <1>2, ListsUntouched DEF Restart, TimerInv, timervars, kernelvars

(* An event of another kind is posted.                                        *)
LEMMA PostKeepsTimers ==
  ASSUME TimerInv, NEW p \in Process, Post(p) PROVE TimerInv'
<1>1. [timer |-> None, p |-> p] \in Event
  BY DEF Event
<1>2. events \in Seq(Event) /\ Len(events) \in Nat
  BY LenProperties DEF TimerInv, TypeOK
<1>3. events' = Append(events, [timer |-> None, p |-> p])
  BY DEF Post
<1>4. /\ events' \in Seq(Event) /\ Len(events') = Len(events) + 1
      /\ \A t : Queued(t) => Queued(t)'
  BY <1>1, <1>2, <1>3, QueueGrows DEF Queued
<1>5. TypeOK'
  <2>1. calls' \in 0..MaxCalls
    BY CallCounted DEF Post
  <2>2. Len(events') <= NUMEVENTS
    BY <1>2, <1>4, Constants DEF Post, Room
  <2> QED
    BY <1>4, <2>1, <2>2 DEF Post, TimerInv, TypeOK, timervars, history
<1>6. NoTimerLost'
  BY <1>4 DEF Post, timervars, TimerInv, NoTimerLost, Listed, Waiting
<1> QED
  BY <1>5, <1>6 DEF Post, TimerInv, timervars

(* process_run begins.                                                        *)
LEMMA RunKeepsTimers ==
  ASSUME TimerInv, process_run PROVE TimerInv'
<1>1. Len(timerlist) \in Nat
  BY LenProperties DEF TimerInv, TypeOK
<1>2. at' \in 1..(Len(timerlist') + 1)
  BY <1>1 DEF process_run
<1>3. lag' \in 0..MaxLag
  BY Constants DEF process_run
<1>4. TypeOK'
  BY <1>2, <1>3 DEF process_run, TimerInv, TypeOK, history
<1> QED
  BY <1>4, ListsUntouched DEF process_run

(* A walk posts the events of expired timers, as many as the queue takes.     *)
LEMMA ExamineKeepsTimers ==
  ASSUME TimerInv, Examine PROVE TimerInv'
<1>1. /\ timerlist \in Seq(Timer) /\ IsInjective(timerlist) /\ Len(timerlist) \in Nat
      /\ DOMAIN timerlist = 1..Len(timerlist) /\ at \in DOMAIN timerlist
  BY LenProperties DEF Examine, TimerInv, TypeOK
<1>2. PICK t \in Timer : t = timerlist[at] /\ Listed(t)
  BY <1>1, ElementOfSeq DEF Listed, ToSet
<1>3. /\ owner \in [Timer -> Process \cup {None, CtimerProcess}]
      /\ owner[t] \in alive \cup {CtimerProcess} /\ alive \subseteq Process
  BY <1>2 DEF TimerInv, NoTimerLost, TypeOK
<1>4. UNCHANGED <<since, interval, ctimer_list, pc, running, alive, lag, calls, history>>
  BY DEF Examine
<1>5. pc = "walk" /\ polled \in BOOLEAN
  BY DEF Examine, TimerInv, TypeOK
<1>6. CASE timer_expired(t) /\ Room
  <2>1. /\ events' = Append(events, [timer |-> t, p |-> owner[t]])
        /\ owner' = [owner EXCEPT ![t] = None]
        /\ timerlist' = RemoveFirst(timerlist, t)
        /\ at' = 1 /\ UNCHANGED polled
    BY <1>2, <1>6 DEF Examine, PostExpired
  <2>2. /\ timerlist' \in Seq(Timer) /\ IsInjective(timerlist')
        /\ ToSet(timerlist') = ToSet(timerlist) \ {t}
    BY <1>1, <2>1, RemoveFirstList
  <2>3. /\ events' \in Seq(Event) /\ Len(events') <= NUMEVENTS
        /\ Queued(t)' /\ \A u : Queued(u) => Queued(u)'
    <3>1. [timer |-> t, p |-> owner[t]] \in Event
      BY <1>2, <1>3 DEF Event
    <3>2. events \in Seq(Event) /\ Len(events) \in Nat
      BY LenProperties DEF TimerInv, TypeOK
    <3>3. /\ events' \in Seq(Event) /\ Len(events') = Len(events) + 1
          /\ \A u : Queued(u) \/ u = t => Queued(u)'
      <4> DEFINE x == [timer |-> t, p |-> owner[t]]
      <4>1. x \in Event /\ x.timer = t /\ events' = Append(events, x)
        BY <2>1, <3>1
      <4> HIDE DEF x
      <4> QED
        BY <3>2, <4>1, QueueGrows DEF Queued
    <3>4. Len(events') <= NUMEVENTS
      BY <1>6, <3>2, <3>3, Constants DEF Room
    <3> QED
      BY <3>3, <3>4
  <2>4. /\ owner' \in [Timer -> Process \cup {None, CtimerProcess}]
        /\ owner'[t] = None /\ \A u \in Timer : u # t => owner'[u] = owner[u]
    BY <1>2, <1>3, <2>1
  <2>5. Len(timerlist') \in Nat /\ at' \in 1..(Len(timerlist') + 1)
    BY <2>1, <2>2, LenProperties
  <2>6. TypeOK'
    BY <1>4, <1>5, <2>1, <2>2, <2>3, <2>4, <2>5 DEF TimerInv, TypeOK, history
  <2>7. NoTimerLost'
    BY <1>4, <2>2, <2>3, <2>4, Constants DEF TimerInv, NoTimerLost, Listed, Waiting
  <2> QED
    BY <2>1, <2>4, <2>6, <2>7, Constants DEF TimerInv
<1>7. CASE ~(timer_expired(t) /\ Room)
  <2>1. at' = at + 1 /\ UNCHANGED <<events, owner, timerlist>> /\ polled' \in BOOLEAN
    BY <1>2, <1>5, <1>7 DEF Examine, PostExpired
  <2>2. at' \in 1..(Len(timerlist') + 1)
    BY <1>1, <2>1
  <2>3. TypeOK'
    BY <1>4, <2>1, <2>2 DEF TimerInv, TypeOK, history
  <2> QED
    BY <1>4, <1>5, <2>1, <2>3, ListsUntouched
<1> QED
  BY <1>6, <1>7

(* A walk is over.                                                            *)
LEMMA WalkEndsKeepsTimers ==
  ASSUME TimerInv, WalkEnds PROVE TimerInv'
<1>1. Len(timerlist) \in Nat
  BY LenProperties DEF TimerInv, TypeOK
<1>2. at' \in 1..(Len(timerlist') + 1)
  BY <1>1 DEF WalkEnds, timervars
<1>3. TypeOK'
  BY <1>2 DEF WalkEnds, TimerInv, TypeOK, timervars, history
<1> QED
  BY <1>3, ListsUntouched DEF WalkEnds, timervars

(* The oldest event is taken: the last of a ctimer that was stopped or set    *)
(* anew, or the one its function waits for.                                   *)
LEMMA TakeEventKeepsTimers ==
  ASSUME TimerInv, TakeEvent PROVE TimerInv'
<1>1. PICK t : t = Head(events).timer
  OBVIOUS
<1>2. /\ events' \in Seq(Event) /\ Len(events') <= NUMEVENTS
      /\ \A u : Queued(u) => u = t \/ Queued(u)'
  <2>1. /\ events \in Seq(Event) /\ events # << >> /\ events' = Tail(events)
        /\ Len(events) <= NUMEVENTS
    BY DEF TakeEvent, TimerInv, TypeOK
  <2>2. /\ events' \in Seq(Event) /\ Len(events') = Len(events) - 1
        /\ \A u : Queued(u) => Head(events).timer = u \/ Queued(u)'
    <3>1. PICK q : q = events
      OBVIOUS
    <3>2. PICK r : r = events'
      OBVIOUS
    <3>3. q \in Seq(Event) /\ q # << >> /\ r = Tail(q)
      BY <2>1, <3>1, <3>2
    <3>4. /\ r \in Seq(Event) /\ Len(r) = Len(q) - 1
          /\ \A u : (\E i \in DOMAIN q : q[i].timer = u) =>
                     Head(q).timer = u \/ \E i \in DOMAIN r : r[i].timer = u
      <4>1. /\ Tail(q) \in Seq(Event) /\ Len(Tail(q)) = Len(q) - 1
            /\ \A u : (\E i \in DOMAIN q : q[i].timer = u) =>
                       \/ Head(q).timer = u
                       \/ \E i \in DOMAIN Tail(q) : Tail(q)[i].timer = u
        BY <3>3, QueueShrinks, Zenon
      <4> QED
        BY <3>3, <4>1, Zenon
    <3> QED
      BY <3>1, <3>2, <3>4 DEF Queued
  <2>3. Len(events') <= NUMEVENTS
    BY <2>1, <2>2, LenProperties, Constants
  <2> QED
    BY <1>1, <2>2, <2>3
<1>3. UNCHANGED <<interval, owner, timerlist, polled, at, alive, lag, calls, history>>
  BY DEF TakeEvent
<1>4. at = 1 /\ pc = "event"
  BY DEF TakeEvent, TimerInv
<1>5. ctimer_list \in Seq(Ctimer) /\ IsInjective(ctimer_list)
  BY DEF TimerInv, TypeOK
<1>6. CASE t \in Ctimer /\ Waiting(t)
  <2>1. /\ ctimer_list' = RemoveFirst(ctimer_list, t)
        /\ running' = t /\ pc' = "callback" /\ UNCHANGED since
    BY <1>1, <1>6 DEF TakeEvent
  <2>2. /\ ctimer_list' \in Seq(Ctimer) /\ IsInjective(ctimer_list')
        /\ ToSet(ctimer_list') = ToSet(ctimer_list) \ {t}
    BY <1>5, <2>1, RemoveFirstList
  <2>3. TypeOK'
    BY <1>2, <1>3, <1>6, <2>1, <2>2 DEF TimerInv, TypeOK, history
  <2>4. \A c \in Ctimer : Waiting(c)' => Listed(c)' \/ Queued(c)'
    BY <1>2, <1>3, <2>2 DEF TimerInv, NoTimerLost, Waiting, Listed
  <2>5. NoTimerLost'
    BY <1>3, <2>4 DEF TimerInv, NoTimerLost, Listed
  <2> QED
    BY <1>3, <1>4, <2>3, <2>5 DEF TimerInv
<1>7. CASE ~(t \in Ctimer /\ Waiting(t))
  <2>1. pc' = "loop" /\ UNCHANGED <<ctimer_list, running>>
    BY <1>1, <1>7 DEF TakeEvent
  <2>2. since' \in [Timer -> 0..(CLOCK - 1)]
    <3>1. PICK Z : since' = [u \in Timer |-> IF Z[u] THEN 0 ELSE since[u]]
      <4> DEFINE Z == [u \in Timer |-> u = t /\ ~Listed(u)
                         /\ \A i \in 2..Len(events) : events[i].timer # u]
      <4>1. since' = [u \in Timer |-> IF Z[u] THEN 0 ELSE since[u]]
        BY <1>1, <1>7 DEF TakeEvent
      <4> QED
        BY <4>1
    <3> QED
      BY <3>1, Constants DEF TimerInv, TypeOK
  <2>3. TypeOK'
    BY <1>2, <1>3, <2>1, <2>2 DEF TimerInv, TypeOK, history
  <2>4. \A c \in Ctimer : Waiting(c)' => Listed(c)' \/ Queued(c)'
    BY <1>2, <1>3, <1>7, <2>1 DEF TimerInv, NoTimerLost, Waiting, Listed
  <2>5. NoTimerLost'
    BY <1>3, <2>4 DEF TimerInv, NoTimerLost, Listed
  <2> QED
    BY <1>3, <1>4, <2>3, <2>5 DEF TimerInv
<1> QED
  BY <1>6, <1>7

(* There is no event.                                                         *)
LEMMA NoEventKeepsTimers ==
  ASSUME TimerInv, NoEvent PROVE TimerInv'
<1>1. TypeOK'
  BY DEF NoEvent, TimerInv, TypeOK, timervars, history
<1> QED
  BY <1>1, ListsUntouched DEF NoEvent, TimerInv, timervars

(* The function of a ctimer returns.                                          *)
LEMMA ReturnKeepsTimers ==
  ASSUME TimerInv, NEW c \in Ctimer, CallbackReturns(c) PROVE TimerInv'
<1>1. /\ pc = "callback" /\ running = c /\ pc' = "loop" /\ running' = None
      /\ UNCHANGED <<events, at, alive, lag, calls, history>>
  BY DEF CallbackReturns, Returns
<1>2. CASE c \in AutoReset
  <2>1. etimer_reset(c, CtimerProcess) /\ Readd(c)
    BY <1>2 DEF CallbackReturns
  <2>2. /\ polled' = TRUE
        /\ owner' \in [Timer -> Process \cup {None, CtimerProcess}]
        /\ owner'[c] \in alive \cup {CtimerProcess}
        /\ \A u \in Timer : u # c => owner'[u] = owner[u]
        /\ \A d \in Ctimer : owner'[d] \in {None, CtimerProcess}
        /\ timerlist' \in Seq(Timer) /\ IsInjective(timerlist')
        /\ ToSet(timerlist') = {c} \cup ToSet(timerlist)
    <3>1. c \in Timer /\ CtimerProcess \in alive \cup {CtimerProcess}
      BY Constants
    <3>2. add_timer(c, CtimerProcess)
      BY <2>1 DEF etimer_reset
    <3> QED
      BY <3>1, <3>2, AddTimer
  <2>3. /\ ctimer_list' \in Seq(Ctimer) /\ IsInjective(ctimer_list')
        /\ ToSet(ctimer_list') = {c} \cup ToSet(ctimer_list)
    BY <2>1, ReaddedOnce DEF TimerInv
  <2>4. since' \in [Timer -> 0..(CLOCK - 1)]
    <3>1. /\ c \in Timer /\ since \in [Timer -> 0..(CLOCK - 1)]
          /\ interval \in [Timer -> Intervals \cup {0}]
      BY Constants DEF TimerInv, TypeOK
    <3>2. since[c] - interval[c] \in Int
      <4>1. since[c] \in 0..(CLOCK - 1) /\ interval[c] \in Intervals \cup {0}
        BY <3>1
      <4>2. since[c] \in Int
        BY <4>1
      <4>3. \A x \in Intervals : x \in Nat
        BY Constants, Zenon
      <4>4. interval[c] \in Nat
        BY <4>1, <4>3
      <4> QED
        BY <4>2, <4>4
    <3>3. (since[c] - interval[c]) % CLOCK \in 0..(CLOCK - 1)
      BY <3>2, ClockWidth
    <3>4. since' = [since EXCEPT ![c] = (since[c] - interval[c]) % CLOCK]
      BY <2>1 DEF etimer_reset
    <3> QED
      BY <3>1, <3>3, <3>4
  <2>5. at' = 1 /\ at' \in 1..(Len(timerlist') + 1)
    BY <1>1, <2>2, LenProperties DEF TimerInv
  <2>6. TypeOK'
    BY <1>1, <2>1, <2>2, <2>3, <2>4, <2>5 DEF etimer_reset, TimerInv, TypeOK, history
  <2>7. NoTimerLost'
    BY <1>1, <2>2, <2>3, Constants DEF TimerInv, NoTimerLost, Listed, Waiting, Queued
  <2> QED
    BY <2>2, <2>5, <2>6, <2>7 DEF TimerInv
<1>3. CASE c \notin AutoReset
  <2>1. /\ since' = [since EXCEPT ![c] = IF Listed(c) \/ Queued(c) THEN @ ELSE 0]
        /\ UNCHANGED <<interval, owner, timerlist, ctimer_list, polled>>
    BY <1>3 DEF CallbackReturns
  <2>2. since' \in [Timer -> 0..(CLOCK - 1)]
    BY <2>1, Constants DEF TimerInv, TypeOK
  <2>3. TypeOK'
    BY <1>1, <2>1, <2>2 DEF TimerInv, TypeOK, history
  <2> QED
    BY <1>1, <2>1, <2>3, ListsUntouched DEF TimerInv
<1> QED
  BY <1>2, <1>3

(* What the sketch and its threads do to the timers in C.                     *)
LEMMA SketchKeepsTimers ==
  ASSUME TimerInv, NEW C \in SUBSET Ctimer, Sketch(C) PROVE TimerInv'
<1>1. CASE \E c \in C : Stop(c)
  BY <1>1, StopKeepsTimers
<1>2. ASSUME NEW c \in C, NEW i \in Intervals, Start(c, i) PROVE TimerInv'
  <2>1. calls' \in 0..MaxCalls /\ pc # "walk"
    BY <1>2, CallCounted DEF Start
  <2> QED
    BY <1>2, <2>1, SetKeepsTimers DEF Start
<1>3. CASE \E e \in Etimer, i \in Intervals : Wait(e, i)
  BY <1>3, WaitKeepsTimers
<1>4. CASE \E p \in Process : Exit(p) \/ Restart(p) \/ Post(p)
  BY <1>4, ExitKeepsTimers, RestartKeepsTimers, PostKeepsTimers
<1> QED
  BY <1>1, <1>2, <1>3, <1>4 DEF Sketch

(* What the kernel does to them.                                              *)
LEMMA KernelKeepsTimers ==
  ASSUME TimerInv, Kernel PROVE TimerInv'
BY RunKeepsTimers, ExamineKeepsTimers, WalkEndsKeepsTimers, TakeEventKeepsTimers,
   NoEventKeepsTimers DEF Kernel

(* Nothing moves.                                                             *)
LEMMA StutterKeepsTimers ==
  ASSUME TimerInv, UNCHANGED vars PROVE TimerInv'
<1>1. TypeOK'
  BY DEF vars, TimerInv, TypeOK, timervars, kernelvars, history
<1> QED
  BY <1>1, ListsUntouched DEF TimerInv, vars, timervars, kernelvars

(* initialize() leaves no timer set.                                          *)
LEMMA InitHasTimers ==
  ASSUME Init PROVE TimerInv
<1>1. TypeOK
  <2>1. << >> \in Seq(Timer) /\ << >> \in Seq(Ctimer) /\ << >> \in Seq(Event)
        /\ Len(<< >>) = 0 /\ IsInjective(<< >>)
    BY DEF IsInjective
  <2>2. since \in [Timer -> 0..(CLOCK - 1)] /\ interval \in [Timer -> Intervals \cup {0}]
    BY Constants DEF Init
  <2>3. /\ timerlist \in Seq(Timer) /\ IsInjective(timerlist)
        /\ ctimer_list \in Seq(Ctimer) /\ IsInjective(ctimer_list)
        /\ events \in Seq(Event) /\ Len(events) = 0 /\ Len(timerlist) = 0
    BY <2>1 DEF Init
  <2>4. /\ Len(events) <= NUMEVENTS /\ at \in 1..(Len(timerlist) + 1)
        /\ lag \in 0..MaxLag /\ calls \in 0..MaxCalls
    BY <2>3, Constants DEF Init
  <2>5. /\ owner \in [Timer -> Process \cup {None, CtimerProcess}]
        /\ polled \in BOOLEAN /\ pc \in {"loop", "walk", "event", "callback"}
        /\ running \in Ctimer \cup {None} /\ alive \subseteq Process
        /\ hasty \in [Ctimer -> BOOLEAN]
        /\ stopped \in [Ctimer -> {"no", "yes", "inTick"}]
    BY DEF Init
  <2> QED
    BY <2>2, <2>3, <2>4, <2>5, Zenon DEF TypeOK
<1>2. NoTimerLost
  <2>1. ToSet(<< >>) = {}
    BY DEF ToSet
  <2> QED
    BY <2>1, Constants DEF Init, NoTimerLost, Listed, Waiting
<1> QED
  BY <1>1, <1>2, Constants DEF Init, TimerInv

(* A step of the timers, with or without the separate resource's.             *)
LEMMA StepKeepsTimers ==
  ASSUME TimerInv, [Next]_vars PROVE TimerInv'
<1>1. CASE Sketch(Ctimer)
  BY <1>1, SketchKeepsTimers
<1>2. CASE \E c \in Ctimer : CallbackReturns(c)
  BY <1>2, ReturnKeepsTimers
<1> QED
  BY <1>1, <1>2, TickKeepsTimers, KernelKeepsTimers, StutterKeepsTimers DEF Next

(* The same of the timers beside a separate resource, which sets its own when *)
(* it accepts a request.                                                      *)
LEMMA SepStepKeepsTimers ==
  ASSUME TimerInv, [SepNext]_allvars PROVE TimerInv'
<1>1. sep \in Ctimer /\ Time \in Intervals
  BY SeparateAssumption
<1>2. CASE Others
  <2>1. CASE Sketch(Ctimer \ {sep})
    BY <2>1, SketchKeepsTimers
  <2>2. CASE \E c \in Ctimer \ {sep} : CallbackReturns(c)
    BY <2>2, ReturnKeepsTimers
  <2> QED
    BY <1>2, <2>1, <2>2, TickKeepsTimers, KernelKeepsTimers DEF Others
<1>3. CASE SendSeparate
  BY <1>1, <1>3, ReturnKeepsTimers DEF SendSeparate
<1>4. ASSUME NEW c \in Client, doGet(c) PROVE TimerInv'
  <2>1. CASE ctimer_set(sep, Time)
    <3>1. calls' \in 0..MaxCalls /\ pc # "walk" /\ UNCHANGED <<kernelvars, alive, lag>>
      BY <1>4 DEF doGet, TimerInv, TypeOK
    <3> QED
      BY <1>1, <2>1, <3>1, SetKeepsTimers
  <2>2. CASE UNCHANGED <<timervars, history>>
    BY <1>4, <2>2, StutterKeepsTimers DEF doGet, vars
  <2> QED
    BY <1>4, <2>1, <2>2 DEF doGet
<1>5. ASSUME NEW c \in Client, Acknowledge(c) PROVE TimerInv'
  BY <1>5, StutterKeepsTimers DEF Acknowledge
<1>6. CASE UNCHANGED allvars
  BY <1>6, StutterKeepsTimers DEF allvars
<1> QED
  BY <1>2, <1>3, <1>4, <1>5, <1>6 DEF SepNext

(* Types, and the order of the lists: whoever sets, stops and exits, and       *)
(* whatever the queue holds, a timer is once on a list, so that every walk of  *)
(* etimer_process ends, and no timer that is waited for is lost between lists  *)
(* and queue.  With the separate resource beside the sketch ...                *)
THEOREM TimersInvariant == SepSpec => [](TypeOK /\ NoTimerLost)
<1>1. SepInit => TimerInv
  BY InitHasTimers DEF SepInit
<1>2. TimerInv /\ [SepNext]_allvars => TimerInv'
  BY SepStepKeepsTimers
<1>3. TimerInv => TypeOK /\ NoTimerLost
  BY DEF TimerInv
<1> QED
  BY <1>1, <1>2, <1>3, PTL DEF SepSpec

(* ... and without it.                                                         *)
THEOREM TimersAloneInvariant == Spec => [](TypeOK /\ NoTimerLost)
<1>1. Init => TimerInv
  BY InitHasTimers
<1>2. TimerInv /\ [Next]_vars => TimerInv'
  BY StepKeepsTimers
<1>3. TimerInv => TypeOK /\ NoTimerLost
  BY DEF TimerInv
<1> QED
  BY <1>1, <1>2, <1>3, PTL DEF Spec

(* Every variable of the timers has its type, beside the resource too.       *)
THEOREM TimersTypes == SepSpec => []TypeOK
<1>1. TypeOK /\ NoTimerLost => TypeOK
  OBVIOUS
<1> QED
  BY <1>1, TimersInvariant, PTL
-----------------------------------------------------------------------------
(* A stopped timer stays quiet.                                             *)

MayBeCalled(c) == stopped[c] = "no" \/ (stopped[c] = "inTick" /\ c \in AutoReset)

(* The inductive invariant: the list of ctimers holds none that was stopped,  *)
(* but a Timer that did so in its tick and repeats.                           *)
QuietInv ==
  \A c \in Ctimer : /\ Waiting(c) => MayBeCalled(c)
                    /\ running = c => stopped[c] # "yes"

QuietStep == QuietInv' /\ \A c \in Ctimer : Called(c) => MayBeCalled(c)

(* Steps that neither call a ctimer nor touch the list of ctimers.            *)
LEMMA QuietElsewhere ==
  ASSUME TimerInv, QuietInv, UNCHANGED <<ctimer_list, stopped>>,
         running' \in {running, None}, pc' # "callback" \/ pc = "callback"
  PROVE  QuietStep
<1>1. QuietInv'
  BY Constants DEF QuietInv, Waiting, MayBeCalled
<1> QED
  BY <1>1 DEF QuietStep, Called

(* Setting a ctimer.                                                          *)
LEMMA QuietSet ==
  ASSUME TimerInv, QuietInv, NEW c \in Ctimer, NEW i \in Intervals,
         ctimer_set(c, i), UNCHANGED kernelvars
  PROVE  QuietStep
<1>1. /\ stopped' = [stopped EXCEPT ![c] = "no"]
      /\ stopped \in [Ctimer -> {"no", "yes", "inTick"}]
      /\ running' = running /\ pc' = pc
  BY DEF ctimer_set, kernelvars, TimerInv, TypeOK
<1>2. stopped'[c] = "no" /\ \A d \in Ctimer : d # c => stopped'[d] = stopped[d]
  BY <1>1
<1>3. ToSet(ctimer_list') = {c} \cup ToSet(ctimer_list)
  BY ReaddedOnce DEF ctimer_set, TimerInv
<1>4. QuietInv'
  BY <1>1, <1>2, <1>3 DEF QuietInv, Waiting, MayBeCalled
<1> QED
  BY <1>1, <1>4 DEF QuietStep, Called

(* Stopping it, in its own tick too.                                          *)
LEMMA QuietStop ==
  ASSUME TimerInv, QuietInv, NEW c \in Ctimer, Stop(c)
  PROVE  QuietStep
<1>1. /\ stopped' = [stopped EXCEPT ![c] = IF running = c THEN "inTick" ELSE "yes"]
      /\ stopped \in [Ctimer -> {"no", "yes", "inTick"}]
      /\ running' = running /\ pc' = pc
  BY DEF Stop, kernelvars, TimerInv, TypeOK
<1>2. /\ stopped'[c] = IF running = c THEN "inTick" ELSE "yes"
      /\ \A d \in Ctimer : d # c => stopped'[d] = stopped[d]
  BY <1>1
<1>3. ToSet(ctimer_list') = ToSet(ctimer_list) \ {c}
  BY RemoveFirstList DEF Stop, ctimer_stop, TimerInv, TypeOK
<1>4. QuietInv'
  BY <1>1, <1>2, <1>3 DEF QuietInv, Waiting, MayBeCalled
<1> QED
  BY <1>1, <1>4 DEF QuietStep, Called

(* Whatever else the sketch and its threads do.                               *)
LEMMA QuietSketch ==
  ASSUME TimerInv, QuietInv, NEW C \in SUBSET Ctimer, Sketch(C)
  PROVE  QuietStep
<1>1. CASE \E c \in C : Stop(c)
  BY <1>1, QuietStop
<1>2. CASE \E c \in C, i \in Intervals : Start(c, i)
  BY <1>2, QuietSet DEF Start
<1>3. ASSUME NEW e \in Etimer, NEW i \in Intervals, Wait(e, i) PROVE QuietStep
  BY <1>3, QuietElsewhere DEF Wait, kernelvars, history
<1>4. ASSUME NEW p \in Process, Exit(p) \/ Restart(p) \/ Post(p) PROVE QuietStep
  BY <1>4, QuietElsewhere DEF Exit, Restart, Post, timervars, kernelvars, history
<1> QED
  BY <1>1, <1>2, <1>3, <1>4 DEF Sketch

(* The event of a ctimer is taken, which is called if it is still listed.     *)
LEMMA QuietTakeEvent ==
  ASSUME TimerInv, QuietInv, TakeEvent
  PROVE  QuietStep
<1>1. PICK t : t = Head(events).timer
  OBVIOUS
<1>2. stopped' = stopped /\ pc = "event"
  BY DEF TakeEvent, history
<1>3. CASE t \in Ctimer /\ Waiting(t)
  <2>1. ctimer_list' = RemoveFirst(ctimer_list, t) /\ running' = t
    BY <1>1, <1>3 DEF TakeEvent
  <2>2. ToSet(ctimer_list') = ToSet(ctimer_list) \ {t}
    BY <2>1, RemoveFirstList DEF TimerInv, TypeOK
  <2>3. MayBeCalled(t)
    BY <1>3 DEF QuietInv
  <2>4. QuietInv'
    BY <1>2, <2>1, <2>2, <2>3 DEF QuietInv, Waiting, MayBeCalled
  <2> QED
    BY <2>1, <2>3, <2>4 DEF QuietStep, Called
<1>4. CASE ~(t \in Ctimer /\ Waiting(t))
  BY <1>1, <1>2, <1>4, QuietElsewhere DEF TakeEvent
<1> QED
  BY <1>3, <1>4

(* The function of a ctimer returns; a Timer that repeats is on the list      *)
(* again, unless it has been stopped from elsewhere, which cannot be.         *)
LEMMA QuietReturn ==
  ASSUME TimerInv, QuietInv, NEW c \in Ctimer, CallbackReturns(c)
  PROVE  QuietStep
<1>1. running = c /\ running' = None /\ pc' = "loop" /\ stopped' = stopped
  BY DEF CallbackReturns, Returns, history
<1>2. CASE c \in AutoReset
  <2>1. ToSet(ctimer_list') = {c} \cup ToSet(ctimer_list)
    BY <1>2, ReaddedOnce DEF CallbackReturns, TimerInv
  <2>2. MayBeCalled(c)
    BY <1>1, <1>2 DEF QuietInv, MayBeCalled, TimerInv, TypeOK
  <2>3. QuietInv'
    BY <1>1, <2>1, <2>2, Constants DEF QuietInv, Waiting, MayBeCalled
  <2> QED
    BY <1>1, <2>3 DEF QuietStep, Called
<1>3. CASE c \notin AutoReset
  BY <1>1, <1>3, QuietElsewhere DEF CallbackReturns
<1> QED
  BY <1>2, <1>3

(* The rest of the kernel, and the clock.                                     *)
LEMMA QuietKernel ==
  ASSUME TimerInv, QuietInv, Tick \/ Kernel
  PROVE  QuietStep
<1>1. CASE Tick
  BY <1>1, QuietElsewhere DEF Tick, kernelvars, history
<1>2. CASE process_run
  BY <1>2, QuietElsewhere DEF process_run, history
<1>3. CASE Examine
  BY <1>3, QuietElsewhere DEF Examine, history
<1>4. CASE WalkEnds
  BY <1>4, QuietElsewhere DEF WalkEnds, timervars, history
<1>5. CASE NoEvent
  BY <1>5, QuietElsewhere DEF NoEvent, timervars, history
<1> QED
  BY <1>1, <1>2, <1>3, <1>4, <1>5, QuietTakeEvent DEF Kernel

(* Every step, of the timers alone ...                                        *)
LEMMA QuietNext ==
  ASSUME TimerInv, QuietInv, [Next]_vars
  PROVE  QuietStep
<1>1. CASE Sketch(Ctimer)
  BY <1>1, QuietSketch
<1>2. CASE UNCHANGED vars
  BY <1>2, QuietElsewhere DEF vars, timervars, kernelvars, history
<1> QED
  BY <1>1, <1>2, QuietKernel, QuietReturn DEF Next

(* ... and beside the separate resource.                                      *)
LEMMA QuietSepNext ==
  ASSUME TimerInv, QuietInv, [SepNext]_allvars
  PROVE  QuietStep
<1>1. sep \in Ctimer /\ Time \in Intervals
  BY SeparateAssumption
<1>2. ASSUME UNCHANGED vars PROVE QuietStep
  BY <1>2, QuietNext
<1>3. CASE Others
  <2>1. CASE Sketch(Ctimer \ {sep})
    BY <2>1, QuietSketch
  <2> QED
    BY <1>3, <2>1, QuietKernel, QuietReturn DEF Others
<1>4. ASSUME NEW c \in Client, doGet(c) PROVE QuietStep
  <2>1. CASE ctimer_set(sep, Time)
    BY <1>1, <1>4, <2>1, QuietSet DEF doGet
  <2>2. CASE UNCHANGED <<timervars, history>>
    BY <1>2, <1>4, <2>2 DEF doGet, vars
  <2> QED
    BY <1>4, <2>1, <2>2 DEF doGet
<1> QED
  BY <1>1, <1>2, <1>3, <1>4, QuietReturn DEF SepNext, SendSeparate, Acknowledge, allvars

(* A timer that was stopped is not called before it is started again, though   *)
(* its event may wait in the queue.                                           *)
THEOREM StoppedTimersStayQuiet == SepSpec => StoppedStaysQuiet
<1>1. SepInit => TimerInv
  BY InitHasTimers DEF SepInit
<1>2. SepInit => QuietInv
  <2>1. ToSet(<< >>) = {}
    BY DEF ToSet
  <2> QED
    BY <2>1, Constants DEF SepInit, Init, QuietInv, Waiting
<1>3. TimerInv /\ [SepNext]_allvars => TimerInv'
  BY SepStepKeepsTimers
<1>4. TimerInv /\ QuietInv /\ [SepNext]_allvars => QuietInv'
  BY QuietSepNext DEF QuietStep
<1>5. TimerInv /\ QuietInv /\ [SepNext]_allvars =>
        [\A c \in Ctimer : Called(c) =>
           stopped[c] = "no" \/ (stopped[c] = "inTick" /\ c \in AutoReset)]_vars
  BY QuietSepNext DEF QuietStep, MayBeCalled
<1> QED
  BY <1>1, <1>2, <1>3, <1>4, <1>5, PTL DEF SepSpec, StoppedStaysQuiet
-----------------------------------------------------------------------------
(* No timer is called early.                                                *)

(* The inductive invariant.  A timer that was not set in haste has one event   *)
(* in the queue at most, none while it runs on the list or is being called;    *)
(* and its event, if it is waited for, was posted when the interval was over,   *)
(* which only a clock that has gone half round could make untrue.               *)
OnTime(c) ==
  ~hasty[c] =>
    /\ Queued(c) => ~Listed(c) /\ running # c
    /\ Queued(c) /\ Waiting(c) => interval[c] <= since[c]
    /\ \A i, j \in DOMAIN events : events[i].timer = c /\ events[j].timer = c => i = j
CalledInCallback == running # None => pc = "callback"
OnTimeInv == CalledInCallback /\ \A c \in Ctimer : OnTime(c)

OnTimeStep ==
  OnTimeInv' /\ \A c \in Ctimer : Called(c) /\ ~hasty[c] => ~Early(c)

(* Times of a ctimer are numbers.                                             *)
LEMMA TimesAreNumbers ==
  ASSUME TimerInv, NEW c \in Ctimer
  PROVE  /\ since[c] \in Nat /\ since[c] < CLOCK /\ interval[c] \in Nat
         /\ hasty[c] \in BOOLEAN
<1>1. since[c] \in 0..(CLOCK - 1) /\ interval[c] \in Intervals \cup {0}
  BY Constants DEF TimerInv, TypeOK
<1>2. CLOCK \in Nat /\ Intervals \subseteq Nat
  BY Constants
<1>3. hasty[c] \in BOOLEAN
  BY DEF TimerInv, TypeOK
<1>4. interval[c] \in Nat
  <2>1. CASE interval[c] = 0
    BY <2>1
  <2>2. CASE interval[c] \in Intervals
    BY <1>2, <2>2
  <2> QED
    BY <1>1, <2>1, <2>2
<1>5. since[c] \in Nat /\ since[c] < CLOCK
  BY <1>1, <1>2, SMT
<1> QED
  BY <1>3, <1>4, <1>5

(* Steps that post nothing, take nothing and call nobody, as far as c can see. *)
LEMMA OnTimeElsewhere ==
  ASSUME NEW c \in Ctimer, OnTime(c), UNCHANGED events,
         hasty'[c] = hasty[c], interval'[c] = interval[c],
         Queued(c) /\ ~hasty[c] /\ interval[c] <= since[c] => interval[c] <= since'[c],
         Listed(c)' => Listed(c), Waiting(c)' => Waiting(c),
         running' = c => running = c
  PROVE  OnTime(c)'
<1>1. Queued(c)' <=> Queued(c)
  BY DEF Queued
<1> QED
  BY <1>1 DEF OnTime

(* The clock goes on.                                                         *)
LEMMA OnTimeTick ==
  ASSUME TimerInv, Punctual, OnTimeInv, Tick
  PROVE  OnTimeStep
<1>1. UNCHANGED <<interval, timerlist, ctimer_list, events, pc, running, hasty>>
  BY DEF Tick, kernelvars, history
<1>2. ASSUME NEW c \in Ctimer PROVE OnTime(c)'
  <2>1. since'[c] = IF InUse(c) THEN (since[c] + 1) % CLOCK ELSE since[c]
    BY Constants DEF Tick
  <2>2. ASSUME Queued(c), ~hasty[c] PROVE since[c] <= since'[c]
    <3>1. InUse(c) /\ since[c] < CLOCK \div 2
      BY <2>2 DEF InUse, Punctual
    <3>2. since[c] \in Nat /\ CLOCK \in Nat /\ CLOCK > 1
      BY TimesAreNumbers, Constants
    <3>3. since[c] + 1 < CLOCK
      BY <3>1, <3>2
    <3>4. (since[c] + 1) % CLOCK = since[c] + 1
      BY <3>2, <3>3
    <3> QED
      BY <2>1, <3>1, <3>2, <3>4
  <2>3. Queued(c) /\ ~hasty[c] /\ interval[c] <= since[c] => interval[c] <= since'[c]
    <3>1. since[c] \in Nat /\ interval[c] \in Nat
      BY TimesAreNumbers
    <3>2. since'[c] \in Int
      BY <2>1, <3>1, Constants
    <3> QED
      BY <2>2, <3>1, <3>2
  <2> QED
    BY <1>1, <2>3, OnTimeElsewhere DEF OnTimeInv, Listed, Waiting
<1> QED
  BY <1>1, <1>2 DEF OnTimeStep, OnTimeInv, CalledInCallback, Called

(* A ctimer is set: only one whose event is not on its way is set in time.    *)
LEMMA OnTimeSet ==
  ASSUME TimerInv, OnTimeInv, NEW c \in Ctimer, NEW i \in Intervals,
         ctimer_set(c, i), UNCHANGED kernelvars
  PROVE  OnTimeStep
<1>1. UNCHANGED <<events, pc, running>>
  BY DEF kernelvars
<1>2. /\ since' = [since EXCEPT ![c] = 0] /\ interval' = [interval EXCEPT ![c] = i]
      /\ hasty' = [hasty EXCEPT ![c] = Queued(c) \/ (running = c /\ c \in AutoReset)]
      /\ add_timer(c, CtimerProcess) /\ Readd(c)
  BY DEF ctimer_set, etimer_set
<1>3. ToSet(timerlist') = {c} \cup ToSet(timerlist)
  <2>1. c \in Timer /\ CtimerProcess \in alive \cup {CtimerProcess}
    BY Constants
  <2> QED
    BY <1>2, <2>1, AddTimer
<1>4. ToSet(ctimer_list') = {c} \cup ToSet(ctimer_list)
  BY <1>2, ReaddedOnce DEF TimerInv
<1>5. OnTime(c)'
  <2>1. hasty'[c] = (Queued(c) \/ (running = c /\ c \in AutoReset))
    BY <1>2 DEF TimerInv, TypeOK
  <2>2. ~hasty'[c] => ~Queued(c)
    BY <2>1, Zenon
  <2>3. Queued(c)' <=> Queued(c)
    BY <1>1 DEF Queued
  <2>4. ~Queued(c) => \A k \in DOMAIN events : events[k].timer # c
    BY DEF Queued
  <2> QED
    BY <1>1, <2>2, <2>3, <2>4 DEF OnTime
<1>6. ASSUME NEW d \in Ctimer, d # c PROVE OnTime(d)'
  <2>1. since'[d] = since[d] /\ interval'[d] = interval[d] /\ hasty'[d] = hasty[d]
    BY <1>2, <1>6, Constants DEF TimerInv, TypeOK
  <2>2. (Listed(d)' => Listed(d)) /\ (Waiting(d)' => Waiting(d))
    BY <1>3, <1>4, <1>6 DEF Listed, Waiting
  <2>3. OnTime(d)
    BY DEF OnTimeInv
  <2> QED
    BY <1>1, <2>1, <2>2, <2>3, OnTimeElsewhere
<1>7. CalledInCallback'
  BY <1>1 DEF OnTimeInv, CalledInCallback
<1> QED
  BY <1>1, <1>5, <1>6, <1>7 DEF OnTimeStep, OnTimeInv, Called

(* A ctimer is stopped.                                                       *)
LEMMA OnTimeStop ==
  ASSUME TimerInv, OnTimeInv, NEW c \in Ctimer, Stop(c)
  PROVE  OnTimeStep
<1>1. UNCHANGED <<interval, events, pc, running, hasty>>
  BY DEF Stop, ctimer_stop, etimer_stop, kernelvars
<1>2. /\ ToSet(timerlist') = ToSet(timerlist) \ {c}
      /\ ToSet(ctimer_list') = ToSet(ctimer_list) \ {c}
  BY RemoveFirstList DEF Stop, ctimer_stop, etimer_stop, TimerInv, TypeOK
<1>3. \A d \in Ctimer : Queued(d) => since'[d] = since[d]
  BY Constants DEF Stop, ctimer_stop, etimer_stop, TimerInv, TypeOK
<1>4. ASSUME NEW d \in Ctimer PROVE OnTime(d)'
  <2>1. (Listed(d)' => Listed(d)) /\ (Waiting(d)' => Waiting(d))
    BY <1>2 DEF Listed, Waiting
  <2> QED
    BY <1>1, <1>3, <2>1, OnTimeElsewhere DEF OnTimeInv
<1> QED
  BY <1>1, <1>4 DEF OnTimeStep, OnTimeInv, CalledInCallback, Called

(* Threads wait, exit and post other events, in which no ctimer has a part.   *)
LEMMA OnTimeThreads ==
  ASSUME TimerInv, OnTimeInv,
         \/ \E e \in Etimer, i \in Intervals : Wait(e, i)
         \/ \E p \in Process : Exit(p) \/ Restart(p) \/ Post(p)
  PROVE  OnTimeStep
<1>1. UNCHANGED <<ctimer_list, pc, running, hasty>>
  BY DEF Wait, Exit, Restart, Post, timervars, kernelvars, history
<1>2. ASSUME UNCHANGED events,
             \A c \in Ctimer : /\ interval'[c] = interval[c]
                               /\ Queued(c) => since'[c] = since[c]
                               /\ Listed(c)' => Listed(c)
      PROVE  OnTimeStep
  <2>1. ASSUME NEW c \in Ctimer PROVE OnTime(c)'
    BY <1>1, <1>2, OnTimeElsewhere DEF OnTimeInv, Waiting
  <2> QED
    BY <1>1, <2>1 DEF OnTimeStep, OnTimeInv, CalledInCallback, Called
<1>3. ASSUME NEW e \in Etimer, NEW i \in Intervals, Wait(e, i) PROVE OnTimeStep
  <2>1. e \in Timer /\ e \notin Ctimer /\ Owner[e] \in alive \cup {CtimerProcess}
    BY <1>3, Constants DEF Wait
  <2>2. ToSet(timerlist') = {e} \cup ToSet(timerlist)
    BY <1>3, <2>1, AddTimer DEF Wait, etimer_set
  <2>3. \A c \in Ctimer : interval'[c] = interval[c] /\ since'[c] = since[c]
    BY <1>3, <2>1, Constants DEF Wait, etimer_set, TimerInv, TypeOK
  <2>4. \A c \in Ctimer : Listed(c)' => Listed(c)
    BY <2>1, <2>2 DEF Listed
  <2> QED
    BY <1>2, <1>3, <2>3, <2>4 DEF Wait, kernelvars
<1>4. ASSUME NEW p \in Process, Exit(p) PROVE OnTimeStep
  <2>1. /\ timerlist \in Seq(Timer) /\ IsInjective(timerlist)
        /\ timerlist' \in Left(timerlist, {t \in Timer : owner[t] # p})
    BY <1>4 DEF Exit, TimerInv, TypeOK
  <2>2. ToSet(timerlist') \subseteq ToSet(timerlist)
    <3>1. ToSet(timerlist') = ToSet(timerlist) \cap {t \in Timer : owner[t] # p}
      BY <2>1, LeftList
    <3> QED
      BY <3>1
  <2>3. UNCHANGED <<interval, events>>
    BY <1>4 DEF Exit, kernelvars
  <2>4. \A c \in Ctimer : Queued(c) => since'[c] = since[c]
    BY <1>4, Constants DEF Exit
  <2> QED
    BY <1>2, <2>2, <2>3, <2>4 DEF Listed
<1>5. ASSUME NEW p \in Process, Restart(p) PROVE OnTimeStep
  BY <1>2, <1>5 DEF Restart, timervars, kernelvars, Listed
<1>6. ASSUME NEW p \in Process, Post(p) PROVE OnTimeStep
  <2> DEFINE x == [timer |-> None, p |-> p]
  <2>1. /\ events' = Append(events, x) /\ x.timer = None
        /\ UNCHANGED <<since, interval, timerlist>>
    BY <1>6 DEF Post, timervars
  <2> HIDE DEF x
  <2>2. /\ DOMAIN events = 1..Len(events) /\ DOMAIN events' = 1..(Len(events) + 1)
        /\ \A k \in DOMAIN events : events'[k] = events[k]
        /\ events'[Len(events) + 1] = x /\ Len(events) \in Nat
    BY <2>1, LenProperties, AppendProperties DEF TimerInv, TypeOK
  <2>3. ASSUME NEW c \in Ctimer PROVE OnTime(c)'
    <3>1. c # None
      BY Constants
    <3>2. \A k \in DOMAIN events' : events'[k].timer = c =>
             k \in DOMAIN events /\ events[k].timer = c
      BY <2>1, <2>2, <3>1
    <3>3. Queued(c)' => Queued(c)
      BY <3>2 DEF Queued
    <3>4. OnTime(c)
      BY DEF OnTimeInv
    <3> QED
      BY <1>1, <2>1, <3>2, <3>3, <3>4 DEF OnTime, Listed, Waiting
  <2> QED
    BY <1>1, <2>3 DEF OnTimeStep, OnTimeInv, CalledInCallback, Called
<1> QED
  BY <1>3, <1>4, <1>5, <1>6

(* etimer_process posts the event of a timer whose interval is over.          *)
LEMMA OnTimeExamine ==
  ASSUME TimerInv, Punctual, OnTimeInv, Examine
  PROVE  OnTimeStep
<1>1. /\ UNCHANGED <<since, interval, ctimer_list, pc, running, hasty>>
      /\ pc = "walk" /\ running = None
  BY DEF Examine, OnTimeInv, CalledInCallback, history
<1>2. /\ timerlist \in Seq(Timer) /\ IsInjective(timerlist)
      /\ DOMAIN timerlist = 1..Len(timerlist) /\ at \in DOMAIN timerlist
  BY LenProperties DEF Examine, TimerInv, TypeOK
<1>3. PICK t \in Timer : t = timerlist[at] /\ Listed(t)
  BY <1>2, ElementOfSeq DEF Listed, ToSet
<1>4. CASE timer_expired(t) /\ Room
  <2> DEFINE x == [timer |-> t, p |-> owner[t]]
  <2>1. /\ events' = Append(events, x) /\ x.timer = t
        /\ timerlist' = RemoveFirst(timerlist, t)
    BY <1>3, <1>4 DEF Examine, PostExpired
  <2>2. ToSet(timerlist') = ToSet(timerlist) \ {t}
    BY <1>2, <2>1, RemoveFirstList
  <2>3. x \in Event
    <3>1. owner[t] \in alive \cup {CtimerProcess} /\ alive \subseteq Process
      BY <1>3 DEF TimerInv, NoTimerLost, TypeOK
    <3> QED
      BY <1>3, <3>1 DEF Event
  <2> HIDE DEF x
  <2>4. /\ DOMAIN events = 1..Len(events) /\ DOMAIN events' = 1..(Len(events) + 1)
        /\ \A k \in DOMAIN events : events'[k] = events[k]
        /\ events'[Len(events) + 1] = x /\ Len(events) \in Nat
    BY <2>1, <2>3, LenProperties, AppendProperties DEF TimerInv, TypeOK
  <2>5. ASSUME NEW c \in Ctimer, c # t PROVE OnTime(c)'
    <3>1. \A k \in DOMAIN events' : events'[k].timer = c =>
             k \in DOMAIN events /\ events[k].timer = c
      BY <2>1, <2>4, <2>5
    <3>2. Queued(c)' => Queued(c)
      BY <3>1 DEF Queued
    <3>3. Listed(c)' => Listed(c)
      BY <2>2 DEF Listed
    <3>4. OnTime(c)
      BY DEF OnTimeInv
    <3> QED
      BY <1>1, <3>1, <3>2, <3>3, <3>4 DEF OnTime, Waiting
  <2>6. ASSUME t \in Ctimer, ~hasty[t] PROVE OnTime(t)'
    <3>1. ~Queued(t)
      BY <1>3, <2>6 DEF OnTimeInv, OnTime
    <3>2. \A k \in DOMAIN events' : events'[k].timer = t => k = Len(events) + 1
      BY <2>1, <2>4, <3>1 DEF Queued
    <3>3. interval[t] <= since[t]
      <4>1. since[t] < CLOCK \div 2
        BY <1>3, <2>6 DEF Punctual, InUse
      <4>2. since[t] \in Nat /\ interval[t] \in Nat /\ CLOCK \in Nat /\ CLOCK > 1
        BY <2>6, TimesAreNumbers, Constants
      <4>3. since[t] + 1 < CLOCK
        BY <4>1, <4>2
      <4>4. (since[t] + 1) % CLOCK = since[t] + 1
        BY <4>2, <4>3
      <4>5. interval[t] < since[t] + 1
        BY <1>4, <4>4 DEF timer_expired
      <4> QED
        BY <4>2, <4>5
    <3>4. ~Listed(t)' /\ running' # t
      BY <1>1, <1>3, <2>2, Constants DEF Listed
    <3> QED
      BY <1>1, <3>2, <3>3, <3>4 DEF OnTime
  <2>7. ASSUME NEW c \in Ctimer PROVE OnTime(c)'
    <3>1. CASE c = t /\ hasty[c]
      BY <1>1, <3>1 DEF OnTime
    <3> QED
      BY <2>5, <2>6, <2>7, <3>1
  <2> QED
    BY <1>1, <2>7 DEF OnTimeStep, OnTimeInv, CalledInCallback, Called
<1>5. CASE ~(timer_expired(t) /\ Room)
  <2>1. UNCHANGED <<events, timerlist>>
    BY <1>3, <1>5 DEF Examine, PostExpired
  <2>2. ASSUME NEW c \in Ctimer PROVE OnTime(c)'
    BY <1>1, <2>1, OnTimeElsewhere DEF OnTimeInv, Listed, Waiting
  <2> QED
    BY <1>1, <2>2 DEF OnTimeStep, OnTimeInv, CalledInCallback, Called
<1> QED
  BY <1>4, <1>5

(* The oldest event is taken: if it is a ctimer's, it was its only one.       *)
LEMMA OnTimeTakeEvent ==
  ASSUME TimerInv, Punctual, OnTimeInv, TakeEvent
  PROVE  OnTimeStep
<1>1. PICK t : t = Head(events).timer
  OBVIOUS
<1>2. /\ UNCHANGED <<interval, timerlist, hasty>>
      /\ pc = "event" /\ running = None /\ events # << >> /\ events' = Tail(events)
  BY DEF TakeEvent, history, OnTimeInv, CalledInCallback
<1>3. /\ DOMAIN events = 1..Len(events) /\ DOMAIN events' = 1..(Len(events) - 1)
      /\ \A k \in DOMAIN events' : events'[k] = events[k + 1]
      /\ Len(events) \in Nat \ {0} /\ Head(events) = events[1]
  <2>1. events \in Seq(Event) /\ events # << >>
    BY <1>2 DEF TimerInv, TypeOK
  <2>2. events' \in Seq(Event) /\ Len(events') = Len(events) - 1
    BY <1>2, <2>1, HeadTailProperties
  <2> QED
    BY <1>2, <2>1, <2>2, HeadTailProperties, LenProperties, EmptySeq
<1>4. \A u : Queued(u)' => Queued(u)
  <2>1. \A k \in DOMAIN events' : k + 1 \in DOMAIN events
    BY <1>3
  <2> QED
    BY <1>3, <2>1 DEF Queued
<1>5. Queued(t)
  BY <1>1, <1>3 DEF Queued
<1>6. ASSUME NEW c \in Ctimer, OnTime(c), ~hasty[c]
      PROVE  \A i, j \in DOMAIN events' :
               events'[i].timer = c /\ events'[j].timer = c => i = j
  <2> SUFFICES ASSUME NEW i \in DOMAIN events', NEW j \in DOMAIN events',
                      events'[i].timer = c, events'[j].timer = c
               PROVE  i = j
    OBVIOUS
  <2>1. i + 1 \in DOMAIN events /\ j + 1 \in DOMAIN events /\ i \in Int /\ j \in Int
    BY <1>3
  <2>2. events[i + 1].timer = c /\ events[j + 1].timer = c
    BY <1>3
  <2>3. i + 1 = j + 1
    BY <1>6, <2>1, <2>2 DEF OnTime
  <2> QED
    BY <2>1, <2>3
<1>7. CASE t \in Ctimer /\ Waiting(t)
  <2>1. /\ ctimer_list' = RemoveFirst(ctimer_list, t)
        /\ running' = t /\ pc' = "callback" /\ UNCHANGED since
    BY <1>1, <1>7 DEF TakeEvent
  <2>2. ToSet(ctimer_list') = ToSet(ctimer_list) \ {t}
    BY <2>1, RemoveFirstList DEF TimerInv, TypeOK
  <2>3. ~hasty[t] => ~Queued(t)'
    <3> SUFFICES ASSUME ~hasty[t], NEW k \in DOMAIN events', events'[k].timer = t
                 PROVE  FALSE
      BY DEF Queued
    <3>1. k + 1 \in DOMAIN events /\ events[k + 1].timer = t /\ k \in Nat /\ k > 0
      BY <1>3
    <3>2. 1 \in DOMAIN events /\ events[1].timer = t
      BY <1>1, <1>3
    <3>3. k + 1 = 1
      BY <1>7, <3>1, <3>2 DEF OnTimeInv, OnTime
    <3> QED
      BY <3>1, <3>3
  <2>4. ASSUME NEW c \in Ctimer PROVE OnTime(c)'
    <3>1. OnTime(c)
      BY DEF OnTimeInv
    <3>2. Waiting(c)' => Waiting(c)
      BY <2>2 DEF Waiting
    <3>3. Listed(c)' <=> Listed(c)
      BY <1>2 DEF Listed
    <3> QED
      BY <1>2, <1>4, <1>6, <2>1, <2>3, <3>1, <3>2, <3>3 DEF OnTime
  <2>5. ~hasty[t] => ~Early(t)
    <3>1. ASSUME ~hasty[t] PROVE interval[t] <= since[t] /\ since[t] < CLOCK \div 2
      BY <1>5, <1>7, <3>1 DEF OnTimeInv, OnTime, Punctual, InUse
    <3>2. since[t] \in Nat /\ interval[t] \in Nat /\ CLOCK \in Nat
      BY <1>7, TimesAreNumbers, Constants
    <3> QED
      BY <3>1, <3>2 DEF Early
  <2> QED
    BY <2>1, <2>4, <2>5 DEF OnTimeStep, OnTimeInv, CalledInCallback, Called
<1>8. CASE ~(t \in Ctimer /\ Waiting(t))
  <2>1. /\ pc' = "loop" /\ UNCHANGED <<ctimer_list, running>>
        /\ since' = [u \in Timer |-> IF u = t /\ ~Listed(u)
                                        /\ \A i \in 2..Len(events) : events[i].timer # u
                                     THEN 0 ELSE since[u]]
    BY <1>1, <1>8 DEF TakeEvent
  <2>2. \A c \in Ctimer : Queued(c)' => since'[c] = since[c]
    <3> SUFFICES ASSUME NEW c \in Ctimer, NEW k \in DOMAIN events', events'[k].timer = c
                 PROVE  since'[c] = since[c]
      BY DEF Queued
    <3>1. k + 1 \in 2..Len(events) /\ events[k + 1].timer = c
      BY <1>3
    <3> QED
      BY <2>1, <3>1, Constants
  <2>3. ASSUME NEW c \in Ctimer PROVE OnTime(c)'
    <3>1. OnTime(c)
      BY DEF OnTimeInv
    <3>2. (Waiting(c)' <=> Waiting(c)) /\ (Listed(c)' <=> Listed(c))
      BY <1>2, <2>1 DEF Waiting, Listed
    <3> QED
      BY <1>2, <1>4, <1>6, <2>1, <2>2, <3>1, <3>2 DEF OnTime
  <2> QED
    BY <1>2, <2>1, <2>3 DEF OnTimeStep, OnTimeInv, CalledInCallback, Called
<1> QED
  BY <1>7, <1>8

(* A function returns, and a repeating Timer is on both lists again.          *)
LEMMA OnTimeReturn ==
  ASSUME TimerInv, OnTimeInv, NEW c \in Ctimer, CallbackReturns(c)
  PROVE  OnTimeStep
<1>1. /\ running = c /\ running' = None /\ pc' = "loop"
      /\ UNCHANGED <<events, hasty, interval>>
  BY DEF CallbackReturns, Returns, history, etimer_reset
<1>2. \A d \in Ctimer : d # c => since'[d] = since[d]
  BY Constants DEF CallbackReturns, etimer_reset, TimerInv, TypeOK
<1>3. /\ ToSet(timerlist') \subseteq {c} \cup ToSet(timerlist)
      /\ ToSet(ctimer_list') \subseteq {c} \cup ToSet(ctimer_list)
  <2>1. CASE c \in AutoReset
    <3>1. ToSet(ctimer_list') = {c} \cup ToSet(ctimer_list)
      BY <2>1, ReaddedOnce DEF CallbackReturns, TimerInv
    <3>2. c \in Timer /\ CtimerProcess \in alive \cup {CtimerProcess}
      BY Constants
    <3>3. add_timer(c, CtimerProcess)
      BY <2>1 DEF CallbackReturns, etimer_reset
    <3>4. ToSet(timerlist') = {c} \cup ToSet(timerlist)
      BY <3>2, <3>3, AddTimer
    <3> QED
      BY <3>1, <3>4
  <2>2. CASE c \notin AutoReset
    BY <2>2 DEF CallbackReturns
  <2> QED
    BY <2>1, <2>2
<1>4. OnTime(c)'
  <2>1. ~hasty[c] => ~Queued(c)
    BY <1>1 DEF OnTimeInv, OnTime
  <2>2. Queued(c)' <=> Queued(c)
    BY <1>1 DEF Queued
  <2>3. ~Queued(c) => \A k \in DOMAIN events : events[k].timer # c
    BY DEF Queued
  <2> QED
    BY <1>1, <2>1, <2>2, <2>3 DEF OnTime
<1>5. ASSUME NEW d \in Ctimer, d # c PROVE OnTime(d)'
  <2>1. (Listed(d)' => Listed(d)) /\ (Waiting(d)' => Waiting(d))
    BY <1>3, <1>5 DEF Listed, Waiting
  <2>2. OnTime(d) /\ since'[d] = since[d] /\ d # None
    BY <1>2, <1>5, Constants DEF OnTimeInv
  <2> QED
    BY <1>1, <2>1, <2>2, OnTimeElsewhere
<1> QED
  BY <1>1, <1>4, <1>5 DEF OnTimeStep, OnTimeInv, CalledInCallback, Called

(* Steps that leave timers and queue alone.                                   *)
LEMMA OnTimeIdle ==
  ASSUME OnTimeInv, UNCHANGED <<since, interval, timerlist, ctimer_list, events, hasty>>,
         UNCHANGED running, pc' = pc \/ (pc # "callback" /\ pc' # "callback")
  PROVE  OnTimeStep
<1>1. ASSUME NEW c \in Ctimer PROVE OnTime(c)'
  BY <1>1, OnTimeElsewhere DEF OnTimeInv, Listed, Waiting
<1> QED
  BY <1>1 DEF OnTimeStep, OnTimeInv, CalledInCallback, Called

(* Every step of the timers ...                                               *)
LEMMA OnTimeTimers ==
  ASSUME TimerInv, Punctual, OnTimeInv, NEW C \in SUBSET Ctimer,
         Tick \/ Kernel \/ Sketch(C) \/ \E c \in C : CallbackReturns(c)
  PROVE  OnTimeStep
<1>1. CASE process_run \/ WalkEnds \/ NoEvent
  BY <1>1, OnTimeIdle DEF process_run, WalkEnds, NoEvent, timervars, history
<1>2. CASE Kernel
  BY <1>1, <1>2, OnTimeExamine, OnTimeTakeEvent DEF Kernel
<1>3. ASSUME NEW c \in C, NEW i \in Intervals, Start(c, i) PROVE OnTimeStep
  BY <1>3, OnTimeSet DEF Start
<1>4. CASE Sketch(C)
  BY <1>3, <1>4, OnTimeStop, OnTimeThreads DEF Sketch
<1> QED
  BY <1>2, <1>4, OnTimeTick, OnTimeReturn

(* ... and of those beside the separate resource.                             *)
LEMMA OnTimeSepNext ==
  ASSUME TimerInv, Punctual, OnTimeInv, [SepNext]_allvars
  PROVE  OnTimeStep
<1>1. sep \in Ctimer /\ Time \in Intervals
  BY SeparateAssumption
<1>2. ASSUME UNCHANGED vars PROVE OnTimeStep
  <2>1. UNCHANGED <<since, interval, timerlist, ctimer_list, events, hasty>>
    BY <1>2 DEF vars, timervars, kernelvars, history
  <2>2. running' = running /\ pc' = pc
    BY <1>2 DEF vars, kernelvars
  <2> QED
    BY <2>1, <2>2, OnTimeIdle
<1>3. CASE Others
  BY <1>3, OnTimeTimers DEF Others
<1>4. CASE SendSeparate
  BY <1>1, <1>4, OnTimeReturn DEF SendSeparate
<1>5. ASSUME NEW c \in Client, doGet(c) PROVE OnTimeStep
  <2>1. CASE ctimer_set(sep, Time)
    BY <1>1, <1>5, <2>1, OnTimeSet DEF doGet
  <2>2. CASE UNCHANGED <<timervars, history>>
    BY <1>2, <1>5, <2>2 DEF doGet, vars
  <2> QED
    BY <1>5, <2>1, <2>2 DEF doGet
<1> QED
  BY <1>2, <1>3, <1>4, <1>5 DEF SepNext, Acknowledge, allvars

(* A ctimer's function is called no earlier than asked, whatever is set,       *)
(* stopped and posted and however full the queue is, except after a call in    *)
(* haste.  Punctual is what the clock's width takes: TLC checks it where the   *)
(* main loop keeps up, and nothing in the code can promise it where it does not. *)
THEOREM TimersAreNotEarly == SepSpec /\ []Punctual => NotEarly
<1>1. SepInit => TimerInv
  BY InitHasTimers DEF SepInit
<1>2. SepInit => OnTimeInv
  <2>1. \A c \in Ctimer : ~(\E i \in DOMAIN << >> : << >>[i].timer = c)
    OBVIOUS
  <2> QED
    BY <2>1 DEF SepInit, Init, OnTimeInv, OnTime, CalledInCallback, Queued
<1>3. TimerInv /\ [SepNext]_allvars => TimerInv'
  BY SepStepKeepsTimers
<1>4. TimerInv /\ Punctual /\ OnTimeInv /\ [SepNext]_allvars => OnTimeInv'
  BY OnTimeSepNext DEF OnTimeStep
<1>5. TimerInv /\ Punctual /\ OnTimeInv /\ [SepNext]_allvars =>
        [\A c \in Ctimer : Called(c) /\ ~hasty[c] => ~Early(c)]_vars
  BY OnTimeSepNext DEF OnTimeStep
<1> QED
  BY <1>1, <1>2, <1>3, <1>4, <1>5, PTL DEF SepSpec, NotEarly
-----------------------------------------------------------------------------
(* The separate resource answers for every request it accepted.             *)

(* The inductive invariant.  The timer of the resource is on the list or its   *)
(* function runs, not both, since nobody else sets it; a client asks once; and *)
(* a refused response leaves the resource active, so that nothing is accepted  *)
(* after it.                                                                   *)
SeparateInv ==
  /\ RequestsAccountedFor /\ CalledInCallback
  /\ answered \in Seq(Client) /\ accepted \subseteq Client
  /\ waiting \cap accepted = {}
  /\ ~(Waiting(sep) /\ running = sep)
  /\ refused => active

(* What the timers do beside the resource: its timer stays on the list, or is  *)
(* called from it.                                                             *)
SepTimerKept ==
  /\ CalledInCallback'
  /\ ~(Waiting(sep) /\ running = sep)'
  /\ (Waiting(sep) \/ running = sep)' <=> Waiting(sep) \/ running = sep

LEMMA SepTimerElsewhere ==
  ASSUME SeparateInv, Waiting(sep)' <=> Waiting(sep), running' = running,
         running # None => pc' = "callback"
  PROVE  SepTimerKept
BY DEF SepTimerKept, SeparateInv, CalledInCallback

(* A ctimer that enters, leaves or re-enters the list is not another.          *)
LEMMA OtherStaysListed ==
  ASSUME TimerInv, NEW c \in Ctimer, c # sep,
         Readd(c) \/ ctimer_list' = RemoveFirst(ctimer_list, c)
  PROVE  Waiting(sep)' <=> Waiting(sep)
<1>1. ctimer_list \in Seq(Ctimer) /\ IsInjective(ctimer_list)
  BY DEF TimerInv, TypeOK
<1>2. ToSet(RemoveFirst(ctimer_list, c)) = ToSet(ctimer_list) \ {c}
  BY <1>1, RemoveFirstList
<1>3. CASE Readd(c)
  <2>1. ToSet(ctimer_list') = {c} \cup ToSet(ctimer_list)
    BY <1>1, <1>3, ReaddedOnce DEF TimerInv
  <2> QED
    BY <2>1 DEF Waiting
<1>4. CASE ctimer_list' = RemoveFirst(ctimer_list, c)
  BY <1>2, <1>4 DEF Waiting
<1> QED
  BY <1>3, <1>4

LEMMA SepTimerSketch ==
  ASSUME TimerInv, SeparateInv, Sketch(Ctimer \ {sep})
  PROVE  SepTimerKept
<1>1. UNCHANGED <<pc, running>>
  BY DEF Sketch, Start, Stop, Wait, Exit, Restart, Post, kernelvars
<1>2. ASSUME Waiting(sep)' <=> Waiting(sep) PROVE SepTimerKept
  BY <1>1, <1>2, SepTimerElsewhere DEF SeparateInv, CalledInCallback
<1>3. ASSUME NEW c \in Ctimer \ {sep}, NEW i \in Intervals, Start(c, i)
      PROVE  SepTimerKept
  BY <1>2, <1>3, OtherStaysListed DEF Start, ctimer_set
<1>4. ASSUME NEW c \in Ctimer \ {sep}, Stop(c)
      PROVE  SepTimerKept
  BY <1>2, <1>4, OtherStaysListed DEF Stop, ctimer_stop
<1>5. CASE ctimer_list' = ctimer_list
  BY <1>2, <1>5 DEF Waiting
<1>6. ASSUME NEW e \in Etimer, NEW i \in Intervals, Wait(e, i) PROVE SepTimerKept
  BY <1>5, <1>6 DEF Wait
<1>7. ASSUME NEW p \in Process, Exit(p) \/ Restart(p) \/ Post(p) PROVE SepTimerKept
  BY <1>5, <1>7 DEF Exit, Restart, Post, timervars
<1> QED
  BY <1>3, <1>4, <1>6, <1>7 DEF Sketch

LEMMA SepTimerKernel ==
  ASSUME TimerInv, SeparateInv, Tick \/ Kernel
  PROVE  SepTimerKept
<1>1. CASE Tick
  BY <1>1, SepTimerElsewhere
     DEF Tick, kernelvars, Waiting, SeparateInv, CalledInCallback
<1>2. CASE process_run \/ Examine \/ WalkEnds \/ NoEvent
  <2>1. pc # "callback" /\ UNCHANGED <<ctimer_list, running>>
    BY <1>2 DEF process_run, Examine, WalkEnds, NoEvent, timervars
  <2> QED
    BY <2>1, SepTimerElsewhere DEF Waiting, SeparateInv, CalledInCallback
<1>3. CASE TakeEvent
  <2> DEFINE t == Head(events).timer
  <2>1. running = None
    BY <1>3 DEF TakeEvent, SeparateInv, CalledInCallback
  <2>2. CASE t \in Ctimer /\ Waiting(t)
    <3>1. /\ ctimer_list' = RemoveFirst(ctimer_list, t)
          /\ running' = t /\ pc' = "callback"
      BY <1>3, <2>2 DEF TakeEvent
    <3>2. ctimer_list \in Seq(Ctimer) /\ IsInjective(ctimer_list)
      BY DEF TimerInv, TypeOK
    <3> HIDE DEF t
    <3>3. ToSet(ctimer_list') = ToSet(ctimer_list) \ {t}
      BY <2>2, <3>1, <3>2, RemoveFirstList
    <3>4. None # sep
      BY Constants, SeparateAssumption
    <3> QED
      BY <2>1, <2>2, <3>1, <3>3, <3>4 DEF SepTimerKept, CalledInCallback, Waiting
  <2>3. CASE ~(t \in Ctimer /\ Waiting(t))
    <3>1. UNCHANGED <<ctimer_list, running>>
      BY <1>3, <2>3 DEF TakeEvent
    <3> QED
      BY <2>1, <3>1, SepTimerElsewhere DEF Waiting
  <2> QED
    BY <2>2, <2>3
<1> QED
  BY <1>1, <1>2, <1>3 DEF Kernel

LEMMA SepTimerReturn ==
  ASSUME TimerInv, SeparateInv, NEW c \in Ctimer \ {sep}, CallbackReturns(c)
  PROVE  SepTimerKept
<1>1. running = c /\ running' = None /\ c # sep /\ None # sep
  BY Constants, SeparateAssumption DEF CallbackReturns, Returns
<1>2. Waiting(sep)' <=> Waiting(sep)
  <2>1. Readd(c) \/ ctimer_list' = ctimer_list
    BY DEF CallbackReturns
  <2> QED
    BY <1>1, <2>1, OtherStaysListed DEF Waiting
<1> QED
  BY <1>1, <1>2 DEF SepTimerKept, CalledInCallback

(* The resource accepts a request, or rejects it.                              *)
LEMMA AcceptKeepsAccount ==
  ASSUME TimerInv, SeparateInv, NEW c \in Client, doGet(c)
  PROVE  SeparateInv'
<1>1. running = None /\ None # sep /\ UNCHANGED <<running, pc, answered, refused>>
  BY Constants, SeparateAssumption
     DEF doGet, SeparateInv, CalledInCallback, kernelvars
<1>2. c \in waiting /\ waiting' = waiting \ {c}
  BY DEF doGet
<1>3. CASE accept(c) /\ ctimer_set(sep, Time)
  <2>1. /\ ~active /\ active' = TRUE /\ metadata' = c /\ accepted' = accepted \cup {c}
    BY <1>3 DEF accept
  <2>2. Waiting(sep)'
    <3>1. ctimer_list \in Seq(Ctimer) /\ IsInjective(ctimer_list) /\ sep \in Ctimer
      BY SeparateAssumption DEF TimerInv, TypeOK
    <3>2. ToSet(ctimer_list') = {sep} \cup ToSet(ctimer_list)
      BY <1>3, <3>1, ReaddedOnce DEF ctimer_set, TimerInv
    <3> QED
      BY <3>2 DEF Waiting
  <2>3. ~refused /\ accepted = ToSet(answered)
    BY <2>1 DEF SeparateInv, RequestsAccountedFor
  <2>4. c \notin accepted
    BY <1>2 DEF SeparateInv
  <2>5. accepted' \ ToSet(answered) = {c}
    BY <2>1, <2>3, <2>4
  <2>6. RequestsAccountedFor'
    BY <1>1, <2>1, <2>2, <2>3, <2>5 DEF SeparateInv, RequestsAccountedFor
  <2> QED
    BY <1>1, <1>2, <2>1, <2>3, <2>6 DEF SeparateInv, CalledInCallback
<1>4. CASE UNCHANGED <<timervars, history, active, metadata, accepted>>
  BY <1>1, <1>2, <1>4
     DEF SeparateInv, RequestsAccountedFor, CalledInCallback, Waiting, timervars
<1> QED
  BY <1>3, <1>4 DEF doGet

(* The response goes, or finds no transaction.                                 *)
LEMMA SendKeepsAccount ==
  ASSUME TimerInv, SeparateInv, SendSeparate
  PROVE  SeparateInv'
<1>1. /\ running = sep /\ running' = None /\ None # sep
      /\ UNCHANGED <<ctimer_list, waiting, metadata, accepted>>
  BY Constants, SeparateAssumption DEF SendSeparate, CallbackReturns, Returns
<1>2. ~Waiting(sep) /\ ~Waiting(sep)' /\ active /\ ~refused
  BY <1>1 DEF SeparateInv, RequestsAccountedFor, Waiting
<1>3. /\ accepted \ ToSet(answered) = {metadata} /\ ToSet(answered) \subseteq accepted
      /\ IsInjective(answered) /\ answered \in Seq(Client) /\ accepted \subseteq Client
  BY <1>2 DEF SeparateInv, RequestsAccountedFor
<1>4. CASE HasTransaction
  <2>1. answered' = Append(answered, metadata) /\ active' = FALSE /\ refused' = refused
    BY <1>4 DEF SendSeparate, send
  <2>2. metadata \in Client /\ metadata \notin ToSet(answered) /\ metadata \in accepted
    BY <1>3
  <2>3. /\ answered' \in Seq(Client) /\ IsInjective(answered')
        /\ ToSet(answered') = {metadata} \cup ToSet(answered)
    BY <1>3, <2>1, <2>2, AppendList
  <2>4. accepted' \ ToSet(answered') = {} /\ ToSet(answered') \subseteq accepted'
    BY <1>1, <1>3, <2>2, <2>3
  <2>5. RequestsAccountedFor'
    BY <1>1, <1>2, <2>1, <2>3, <2>4 DEF RequestsAccountedFor
  <2> QED
    BY <1>1, <1>2, <2>1, <2>3, <2>5 DEF SeparateInv, CalledInCallback
<1>5. CASE ~HasTransaction
  <2>1. refused' = TRUE /\ UNCHANGED <<answered, active>>
    BY <1>5 DEF SendSeparate, send
  <2>2. RequestsAccountedFor'
    BY <1>1, <1>2, <1>3, <2>1 DEF RequestsAccountedFor
  <2> QED
    BY <1>1, <1>2, <2>1, <2>2 DEF SeparateInv, CalledInCallback
<1> QED
  BY <1>4, <1>5

LEMMA SepStepKeepsAccount ==
  ASSUME TimerInv, SeparateInv, [SepNext]_allvars
  PROVE  SeparateInv'
<1>1. CASE Others
  <2>1. SepTimerKept
    BY <1>1, SepTimerKernel, SepTimerSketch, SepTimerReturn DEF Others
  <2>2. UNCHANGED <<engine, separate>>
    BY <1>1 DEF Others
  <2> QED
    BY <2>1, <2>2
       DEF SepTimerKept, SeparateInv, RequestsAccountedFor, engine, separate
<1>2. CASE SendSeparate
  BY <1>2, SendKeepsAccount
<1>3. ASSUME NEW c \in Client, doGet(c) PROVE SeparateInv'
  BY <1>3, AcceptKeepsAccount
<1>4. CASE UNCHANGED <<vars, waiting, separate>>
  BY <1>4 DEF SeparateInv, RequestsAccountedFor, CalledInCallback, Waiting,
              separate, vars, timervars, kernelvars
<1>5. CASE UNCHANGED allvars
  BY <1>4, <1>5 DEF allvars, engine
<1> QED
  BY <1>1, <1>2, <1>3, <1>4, <1>5 DEF SepNext, Acknowledge

(* Every request that was accepted is answered once or is the one under way,   *)
(* whatever the sketch does with its timers and however the queue fills; and   *)
(* the flag, the stored request and the timer agree, so that a timer that      *)
(* fires answers the request it was set for.                                   *)
THEOREM SeparateAccount == SepSpec => []RequestsAccountedFor
<1>1. SepInit => TimerInv
  BY InitHasTimers DEF SepInit
<1>2. SepInit => SeparateInv
  <2> SUFFICES ASSUME SepInit PROVE SeparateInv
    OBVIOUS
  <2>1. answered = << >> /\ ctimer_list = << >> /\ running = None /\ None # sep
    BY Constants, SeparateAssumption DEF SepInit, Init
  <2>2. ToSet(<< >>) = {} /\ IsInjective(<< >>) /\ << >> \in Seq(Client)
    BY DEF ToSet, IsInjective
  <2>3. ~Waiting(sep)
    BY <2>1, <2>2 DEF Waiting
  <2> QED
    BY <2>1, <2>2, <2>3
       DEF SepInit, SeparateInv, RequestsAccountedFor, CalledInCallback
<1>3. TimerInv /\ [SepNext]_allvars => TimerInv'
  BY SepStepKeepsTimers
<1>4. TimerInv /\ SeparateInv /\ [SepNext]_allvars => SeparateInv'
  BY SepStepKeepsAccount
<1>5. SeparateInv => RequestsAccountedFor
  BY DEF SeparateInv
<1> QED
  BY <1>1, <1>2, <1>3, <1>4, <1>5, PTL DEF SepSpec
=============================================================================
