-------------------------- MODULE SerialLineProof --------------------------
(***************************************************************************)
(* The serial line of the sink, for any messages, any buffer and any losses: *)
(* types; and, as long as no end of a frame is lost, a message that lost     *)
(* nothing is handled and one that did is not, step by step.                 *)
(***************************************************************************)
EXTENDS SerialLine, SequenceTheorems, WellFoundedInduction, TLAPS

-----------------------------------------------------------------------------
(* Sequences of any length put together: the library does it by recursion, so   *)
(* that there is such a function has to be shown.                             *)

(* What holds of 0, and of n + 1 when it holds of n, holds of every number.   *)
LEMMA EveryNat ==
  ASSUME NEW I, 0 \in I, \A n \in Nat : n \in I => n + 1 \in I
  PROVE  Nat \subseteq I
<1> DEFINE R == {ss \in Nat \X Nat : ss[1] < ss[2]}
           Out == Nat \ I
<1>1. IsWellFoundedOn(R, Nat)
  BY NatLessThanWellFounded DEF OpToRel
<1>2. \A n \in Nat : <<n, n + 1>> \in R
  OBVIOUS
<1> HIDE DEF R
<1>3. SUFFICES ASSUME Out # {} PROVE FALSE
  OBVIOUS
<1>4. PICK x \in Out : \A y \in Out : ~(<<y, x>> \in R)
  BY <1>1, <1>3, WFMin, Zenon
<1>5. x \in Nat \ {0} /\ x \notin I
  BY <1>4
<1>6. x - 1 \in Nat /\ (x - 1) + 1 = x
  BY <1>5
<1>7. x - 1 \in Out
  BY <1>5, <1>6
<1> QED
  BY <1>2, <1>4, <1>6, <1>7

\* The recursion of FlattenSeq.
FlatOf(seqs, g) ==
  [i \in 1..Len(seqs) |-> IF i = 1 THEN seqs[i] ELSE g[i - 1] \o seqs[i]]
LEMMA FlatUnfolds ==
  \A seqs : FlattenSeq(seqs) =
    IF Len(seqs) = 0 THEN seqs ELSE (CHOOSE g : g = FlatOf(seqs, g))[Len(seqs)]
BY DEF FlattenSeq, FlatOf

(* The recursion ends: there is a sequence of what is put together so far.     *)
LEMMA FlatRuns ==
  ASSUME NEW S, NEW seqs \in Seq(Seq(S))
  PROVE  \E f : /\ \A i \in 1..Len(seqs) :
                    f[i] = IF i = 1 THEN seqs[i] ELSE f[i - 1] \o seqs[i]
                /\ FlattenSeq(seqs) = IF Len(seqs) = 0 THEN seqs ELSE f[Len(seqs)]
<1> DEFINE n == Len(seqs)
           Step(g, i) == IF i = 1 THEN seqs[i] ELSE g[i - 1] \o seqs[i]
           I == {k \in Nat : \E g : \A i \in 1..k : g[i] = Step(g, i)}
<1>1. n \in Nat /\ \A i \in 1..n : seqs[i] \in Seq(S)
  BY LenProperties, ElementOfSeq
<1> HIDE DEF n
<1>2. 0 \in I
  OBVIOUS
<1>3. ASSUME NEW k \in Nat, k \in I PROVE k + 1 \in I
  <2>1. PICK g : \A i \in 1..k : g[i] = Step(g, i)
    BY <1>3
  <2>2. PICK h : h = [i \in 1..(k + 1) |-> Step(g, i)]
    OBVIOUS
  <2>3. ASSUME NEW i \in 1..(k + 1) PROVE h[i] = Step(h, i)
    <3>1. h[i] = Step(g, i)
      BY <2>2
    <3>2. i # 1 => i - 1 \in 1..k /\ i - 1 \in 1..(k + 1)
      OBVIOUS
    <3>3. i # 1 => h[i - 1] = g[i - 1]
      BY <2>1, <2>2, <3>2
    <3> QED
      BY <3>1, <3>3
  <2> QED
    BY <2>3
<1> HIDE DEF I
<1>4. n \in I
  BY <1>1, <1>2, <1>3, EveryNat
<1>5. PICK g : \A i \in 1..n : g[i] = Step(g, i)
  BY <1>4 DEF I
<1>6. PICK h : h = [i \in 1..n |-> g[i]]
  OBVIOUS
<1>7. ASSUME NEW i \in 1..n PROVE h[i] = Step(h, i)
  <2>1. i # 1 => i - 1 \in 1..n
    BY <1>1
  <2> QED
    BY <1>5, <1>6, <2>1
<1>8. h = [i \in 1..n |-> Step(h, i)]
  BY <1>6, <1>7
<1>9. h = FlatOf(seqs, h)
  BY <1>8 DEF FlatOf, n
<1>10. PICK f : f = (CHOOSE m : m = FlatOf(seqs, m))
  OBVIOUS
<1>11. f = FlatOf(seqs, f)
  BY <1>9, <1>10
<1>12. \A i \in 1..n : f[i] = Step(f, i)
  BY <1>11 DEF FlatOf, n
<1>13. FlattenSeq(seqs) = IF Len(seqs) = 0 THEN seqs ELSE f[Len(seqs)]
  BY <1>10, FlatUnfolds
<1>14. \A i \in 1..Len(seqs) : f[i] = IF i = 1 THEN seqs[i] ELSE f[i - 1] \o seqs[i]
  BY <1>12 DEF n
<1> QED
  BY <1>13, <1>14

(* Sequences put together are one.                                            *)
LEMMA FlatIsSeq ==
  ASSUME NEW S, NEW seqs \in Seq(Seq(S))
  PROVE  FlattenSeq(seqs) \in Seq(S)
<1> DEFINE n == Len(seqs)
           Step(g, i) == IF i = 1 THEN seqs[i] ELSE g[i - 1] \o seqs[i]
<1>1. n \in Nat /\ \A i \in 1..n : seqs[i] \in Seq(S)
  BY LenProperties, ElementOfSeq
<1>2. PICK f : /\ \A i \in 1..n : f[i] = Step(f, i)
               /\ FlattenSeq(seqs) = IF n = 0 THEN seqs ELSE f[n]
  BY FlatRuns
<1> HIDE DEF n
<1> DEFINE J == {k \in Nat : k \in 1..n => f[k] \in Seq(S)}
<1>3. 0 \in J
  OBVIOUS
<1>4. ASSUME NEW k \in Nat, k \in J PROVE k + 1 \in J
  <2>1. ASSUME k + 1 \in 1..n PROVE f[k + 1] \in Seq(S)
    <3>1. f[k + 1] = IF k + 1 = 1 THEN seqs[k + 1] ELSE f[k] \o seqs[k + 1]
      BY <1>2, <2>1
    <3>2. seqs[k + 1] \in Seq(S)
      BY <1>1, <2>1
    <3>3. k + 1 # 1 => f[k] \in Seq(S)
      BY <1>1, <1>4, <2>1
    <3> QED
      BY <3>1, <3>2, <3>3, ConcatProperties
  <2> QED
    BY <2>1
<1> HIDE DEF J
<1>5. n \in J
  BY <1>1, <1>3, <1>4, EveryNat
<1>6. n # 0 => f[n] \in Seq(S)
  BY <1>1, <1>5 DEF J
<1>7. n = 0 => seqs \in Seq(S)
  BY EmptySeq DEF n
<1> QED
  BY <1>2, <1>6, <1>7

(* Putting one more behind them.                                               *)
LEMMA FlatAppend ==
  ASSUME NEW S, NEW seqs \in Seq(Seq(S)), NEW s \in Seq(S)
  PROVE  FlattenSeq(Append(seqs, s)) = FlattenSeq(seqs) \o s
<1> DEFINE n == Len(seqs)
           more == Append(seqs, s)
<1>1. n \in Nat /\ more \in Seq(Seq(S)) /\ Len(more) = n + 1
  BY LenProperties, AppendProperties
<1>2. more[n + 1] = s /\ \A i \in 1..n : more[i] = seqs[i]
  BY AppendProperties
<1> HIDE DEF n, more
<1>3. PICK f : /\ \A i \in 1..n : f[i] = IF i = 1 THEN seqs[i] ELSE f[i - 1] \o seqs[i]
               /\ FlattenSeq(seqs) = IF n = 0 THEN seqs ELSE f[n]
  BY FlatRuns DEF n
<1>4. PICK g : /\ \A i \in 1..(n + 1) : g[i] = IF i = 1 THEN more[i] ELSE g[i - 1] \o more[i]
               /\ FlattenSeq(more) = IF n + 1 = 0 THEN more ELSE g[n + 1]
  <2>1. \E g : /\ \A i \in 1..Len(more) : g[i] = IF i = 1 THEN more[i] ELSE g[i - 1] \o more[i]
               /\ FlattenSeq(more) = IF Len(more) = 0 THEN more ELSE g[Len(more)]
    BY <1>1, FlatRuns
  <2> QED
    BY <1>1, <2>1
<1> DEFINE J == {k \in Nat : k \in 1..n => g[k] = f[k]}
<1>5. 0 \in J
  OBVIOUS
<1>6. ASSUME NEW k \in Nat, k \in J PROVE k + 1 \in J
  <2>1. ASSUME k + 1 \in 1..n PROVE g[k + 1] = f[k + 1]
    <3>1. k + 1 \in 1..(n + 1) /\ (k + 1) - 1 = k /\ (k + 1 # 1 => k \in 1..n)
      BY <1>1, <2>1
    <3>2. g[k + 1] = IF k + 1 = 1 THEN more[k + 1] ELSE g[k] \o more[k + 1]
      BY <1>4, <3>1
    <3>3. f[k + 1] = IF k + 1 = 1 THEN seqs[k + 1] ELSE f[k] \o seqs[k + 1]
      BY <1>3, <2>1, <3>1
    <3> QED
      BY <1>2, <1>6, <2>1, <3>1, <3>2, <3>3
  <2> QED
    BY <2>1
<1> HIDE DEF J
<1>7. n \in J
  BY <1>1, <1>5, <1>6, EveryNat
<1>8. FlattenSeq(more) = IF n = 0 THEN s ELSE g[n] \o s
  BY <1>1, <1>2, <1>4
<1>9. CASE n = 0
  <2>1. seqs = << >> /\ FlattenSeq(seqs) = << >>
    BY <1>3, <1>9, EmptySeq DEF n
  <2> QED
    BY <1>8, <1>9, <2>1, ConcatEmptySeq DEF more
<1>10. CASE n # 0
  <2>1. g[n] = f[n]
    BY <1>1, <1>7, <1>10 DEF J
  <2> QED
    BY <1>3, <1>8, <1>10, <2>1 DEF more
<1> QED
  BY <1>9, <1>10

-----------------------------------------------------------------------------
(* Types.                                                                   *)

\* The bytes there are.
Bytes ==
  {START, ESC, NO_ACK, "start", "esc", "junk"} \cup UNION {ToSet(Body[m]) : m \in Message}

\* What is on the line when j messages have been sent.
Item(j) == [b : Bytes, k : Nat, n : 1..j]

(* A byte on the line is one of a message that was sent, and the buffer is not *)
(* full.                                                                      *)
LineInv ==
  /\ sent \in Seq(Message) /\ Len(sent) <= MaxMessages
  /\ line \in Seq(Item(Len(sent)))
  /\ rxserialbuf \in Seq(Bytes) /\ Len(rxserialbuf) < SINKMTU
  /\ escaped \in BOOLEAN /\ outOfStep \in BOOLEAN /\ harmed \subseteq 1..Len(sent)

(* The bytes of a packet.                                                     *)
LEMMA PacketBytes ==
  ASSUME NEW m \in Message
  PROVE  /\ Packet(m) \in Seq(Bytes) /\ Len(Packet(m)) = Len(Body[m]) + 1
         /\ Len(Packet(m)) \in Nat /\ DOMAIN Packet(m) = 1..Len(Packet(m))
         /\ \A i \in DOMAIN Packet(m) : Packet(m)[i] \in Bytes
         /\ Len(Packet(m)) >= 3
<1>1. Body[m] \in Seq(ToSet(Body[m])) /\ ToSet(Body[m]) \subseteq Bytes /\ Len(Body[m]) >= 2
  BY SerialAssumption DEF Bytes
<1>2. Body[m] \in Seq(Bytes) /\ Len(Body[m]) \in Nat
  BY <1>1, SeqMonotonic, LenProperties
<1>3. <<NO_ACK>> \in Seq(Bytes) /\ Len(<<NO_ACK>>) = 1
  BY DEF Bytes
<1>4. Packet(m) \in Seq(Bytes) /\ Len(Packet(m)) = 1 + Len(Body[m])
  BY <1>2, <1>3, ConcatProperties DEF Packet
<1>5. DOMAIN Packet(m) = 1..Len(Packet(m)) /\ \A i \in 1..Len(Packet(m)) : Packet(m)[i] \in Bytes
  BY <1>4, LenProperties, ElementOfSeq
<1> QED
  BY <1>1, <1>2, <1>4, <1>5

(* Two sequences of bytes in the order of their places, put together.          *)
Piece == [b : Bytes, k : Nat]
Increasing(s) == \A i, j \in DOMAIN s : i < j => s[i].k < s[j].k

LEMMA JoinedPieces ==
  ASSUME NEW s \in Seq(Piece), NEW t \in Seq(Piece), Increasing(s), Increasing(t),
         \A x \in ToSet(s), y \in ToSet(t) : x.k < y.k
  PROVE  /\ s \o t \in Seq(Piece) /\ Increasing(s \o t)
         /\ ToSet(s \o t) = ToSet(s) \cup ToSet(t)
<1> DEFINE r == s \o t
<1>1. /\ r \in Seq(Piece) /\ Len(r) = Len(s) + Len(t)
      /\ \A i \in 1..(Len(s) + Len(t)) : r[i] = IF i <= Len(s) THEN s[i] ELSE t[i - Len(s)]
  BY ConcatProperties
<1> HIDE DEF r
<1>2. /\ Len(s) \in Nat /\ Len(t) \in Nat /\ DOMAIN s = 1..Len(s) /\ DOMAIN t = 1..Len(t)
      /\ DOMAIN r = 1..(Len(s) + Len(t))
  BY <1>1, LenProperties
<1>3. \A i \in 1..Len(s) : i \in DOMAIN r /\ r[i] = s[i] /\ s[i] \in ToSet(s)
  BY <1>1, <1>2 DEF ToSet
<1>4. \A i \in DOMAIN r : i > Len(s) =>
        i - Len(s) \in 1..Len(t) /\ r[i] = t[i - Len(s)] /\ r[i] \in ToSet(t)
  BY <1>1, <1>2 DEF ToSet
<1>5. ToSet(r) = ToSet(s) \cup ToSet(t)
  <2>1. ToSet(r) \subseteq ToSet(s) \cup ToSet(t)
    BY <1>2, <1>3, <1>4 DEF ToSet
  <2>2. ToSet(s) \subseteq ToSet(r)
    BY <1>2, <1>3 DEF ToSet
  <2>3. ASSUME NEW y \in ToSet(t) PROVE y \in ToSet(r)
    <3>1. PICK i \in 1..Len(t) : y = t[i]
      BY <1>2 DEF ToSet
    <3>2. i + Len(s) \in DOMAIN r /\ i + Len(s) > Len(s) /\ (i + Len(s)) - Len(s) = i
      BY <1>2
    <3>3. r[i + Len(s)] = y
      BY <1>4, <3>1, <3>2
    <3> QED
      BY <3>2, <3>3 DEF ToSet
  <2> QED
    BY <2>1, <2>2, <2>3
<1>6. Increasing(r)
  <2> SUFFICES ASSUME NEW i \in DOMAIN r, NEW j \in DOMAIN r, i < j
               PROVE  r[i].k < r[j].k
    BY DEF Increasing
  <2>1. CASE j <= Len(s)
    <3>1. i \in 1..Len(s) /\ j \in 1..Len(s)
      BY <1>2, <2>1
    <3> QED
      BY <1>2, <1>3, <3>1 DEF Increasing
  <2>2. CASE i > Len(s)
    <3>1. /\ i - Len(s) \in 1..Len(t) /\ j - Len(s) \in 1..Len(t)
          /\ r[i] = t[i - Len(s)] /\ r[j] = t[j - Len(s)]
      BY <1>2, <1>4, <2>2
    <3>2. i - Len(s) < j - Len(s)
      BY <1>2
    <3> QED
      BY <1>2, <3>1, <3>2 DEF Increasing
  <2>3. CASE i <= Len(s) /\ j > Len(s)
    <3>1. i \in 1..Len(s)
      BY <1>2, <2>3
    <3>2. r[i] \in ToSet(s) /\ r[j] \in ToSet(t)
      BY <1>3, <1>4, <2>3, <3>1
    <3> QED
      BY <3>2
  <2> QED
    BY <1>2, <2>1, <2>2, <2>3
<1> QED
  BY <1>1, <1>5, <1>6 DEF r

LEMMA OnePiece ==
  ASSUME NEW x \in Piece
  PROVE  <<x>> \in Seq(Piece) /\ Increasing(<<x>>) /\ ToSet(<<x>>) = {x}
<1>1. <<x>> \in Seq(Piece) /\ DOMAIN <<x>> = {1} /\ <<x>>[1] = x
  OBVIOUS
<1> QED
  BY <1>1 DEF Increasing, ToSet

LEMMA TwoPieces ==
  ASSUME NEW x \in Piece, NEW y \in Piece, x.k < y.k
  PROVE  <<x, y>> \in Seq(Piece) /\ Increasing(<<x, y>>) /\ ToSet(<<x, y>>) = {x, y}
<1>1. <<x, y>> \in Seq(Piece) /\ DOMAIN <<x, y>> = {1, 2} /\ <<x, y>>[1] = x /\ <<x, y>>[2] = y
  OBVIOUS
<1> QED
  BY <1>1 DEF Increasing, ToSet

(* What an escaped byte is read as.                                           *)
LEMMA Escapes ==
  /\ \A b \in Special : Xor(b) \notin Special /\ Xor(Xor(b)) = b /\ Xor(b) # b
  /\ \A b : Xor(b) \in Bytes
  /\ START \in Bytes /\ ESC \in Bytes /\ START \in Special /\ ESC \in Special
  /\ START # ESC
<1>1. DOMAIN Masked = {"START", "start", "ESC", "esc"}
  BY DEF Masked
<1>2. /\ Masked["START"] = "start" /\ Masked["start"] = "START"
      /\ Masked["ESC"] = "esc" /\ Masked["esc"] = "ESC"
  BY DEF Masked, START, ESC
<1>3. \A b : Xor(b) \in Bytes
  BY <1>1, <1>2 DEF Xor, Bytes, START, ESC
<1>4. Xor("START") = "start" /\ Xor("start") = "START" /\ Xor("ESC") = "esc" /\ Xor("esc") = "ESC"
  BY <1>1, <1>2 DEF Xor
<1>5. START = "START" /\ ESC = "ESC" /\ Special = {"START", "ESC"}
  BY DEF Special, START, ESC
<1>6. "start" \notin {"START", "ESC"} /\ "esc" \notin {"START", "ESC"} /\ "START" # "ESC"
  OBVIOUS
<1>7. START \in Bytes /\ ESC \in Bytes
  BY DEF Bytes
<1> QED
  BY <1>3, <1>4, <1>5, <1>6, <1>7

\* The places in a message's frame.
Places(m) ==
  {1, LastPlace(m)} \cup {2 * i + 1 : i \in DOMAIN Packet(m)}
    \cup {2 * i : i \in {j \in DOMAIN Packet(m) : Packet(m)[j] \in Special}}

\* Byte x is that of byte i of the packet, or the ESC before it.
IsOf(x, i, packet) ==
  \/ /\ x.k = 2 * i + 1
     /\ x.b = IF packet[i] \in Special THEN Xor(packet[i]) ELSE packet[i]
  \/ x.k = 2 * i /\ packet[i] \in Special /\ x.b = ESC

\* Byte x is in the frame of m.
IsIn(x, m) ==
  \/ x.k \in {1, LastPlace(m)} /\ x.b = START
  \/ \E i \in DOMAIN Packet(m) : IsOf(x, i, Packet(m))

\* s is what the first j bytes of a packet are sent as.
SentAs(packet, j, s) ==
  /\ s \in Seq(Piece) /\ Increasing(s)
  /\ \A x \in ToSet(s) : \E i \in 1..j : IsOf(x, i, packet)
  /\ \A i \in 1..j :
       /\ \E x \in ToSet(s) : x.k = 2 * i + 1
       /\ packet[i] \in Special => \E x \in ToSet(s) : x.k = 2 * i

(* StuffedBytes gives the bytes of a packet in order, each at its place.       *)
LEMMA StuffedInOrder ==
  ASSUME NEW m \in Message
  PROVE  SentAs(Packet(m), Len(Packet(m)), StuffedBytes(Packet(m)))
<1>1. PICK packet : packet = Packet(m)
  OBVIOUS
<1>2. PICK l : l = Len(packet)
  OBVIOUS
<1>3. l \in Nat /\ DOMAIN packet = 1..l /\ \A i \in 1..l : packet[i] \in Bytes
  BY <1>1, <1>2, PacketBytes
<1> DEFINE unit(i) == IF packet[i] \in Special
                      THEN <<At(ESC, 2 * i), At(Xor(packet[i]), 2 * i + 1)>>
                      ELSE <<At(packet[i], 2 * i + 1)>>
           units(j) == [i \in 1..j |-> unit(i)]
           Good(j) == /\ units(j) \in Seq(Seq(Piece))
                      /\ SentAs(packet, j, FlattenSeq(units(j)))
           I == {j \in Nat : j <= l => Good(j)}
<1>4. ASSUME NEW i \in 1..l
      PROVE  /\ unit(i) \in Seq(Piece) /\ Increasing(unit(i))
             /\ \A x \in ToSet(unit(i)) : IsOf(x, i, packet)
             /\ \E x \in ToSet(unit(i)) : x.k = 2 * i + 1
             /\ packet[i] \in Special => \E x \in ToSet(unit(i)) : x.k = 2 * i
  <2> DEFINE e == At(ESC, 2 * i)
             c == At(IF packet[i] \in Special THEN Xor(packet[i]) ELSE packet[i], 2 * i + 1)
  <2>1. e \in Piece /\ c \in Piece
    BY <1>3, Escapes DEF At, Piece
  <2>2. /\ e.k = 2 * i /\ e.b = ESC /\ c.k = 2 * i + 1
        /\ c.b = IF packet[i] \in Special THEN Xor(packet[i]) ELSE packet[i]
    BY DEF At
  <2>3. e.k < c.k
    BY <2>2
  <2>4. unit(i) = IF packet[i] \in Special THEN <<e, c>> ELSE <<c>>
    OBVIOUS
  <2> HIDE DEF e, c, unit
  <2>5. /\ unit(i) \in Seq(Piece) /\ Increasing(unit(i))
        /\ ToSet(unit(i)) = IF packet[i] \in Special THEN {e, c} ELSE {c}
    BY <2>1, <2>3, <2>4, OnePiece, TwoPieces, SMTT(30)
  <2> QED
    BY <2>2, <2>5 DEF IsOf
<1> HIDE DEF unit
<1>5. 0 \in I
  <2>1. units(0) = << >> /\ FlattenSeq(<< >>) = << >>
    BY FlatUnfolds
  <2>2. << >> \in Seq(Piece) /\ << >> \in Seq(Seq(Piece)) /\ ToSet(<< >>) = {} /\ Increasing(<< >>)
    BY DEF ToSet, Increasing
  <2>3. FlattenSeq(units(0)) = << >> /\ units(0) \in Seq(Seq(Piece))
    BY <2>1, <2>2
  <2>4. SentAs(packet, 0, << >>)
    BY <2>2 DEF SentAs
  <2>5. Good(0)
    BY <2>3, <2>4
  <2> HIDE DEF Good
  <2> QED
    BY <2>5
<1>6. ASSUME NEW j \in Nat, j \in I PROVE j + 1 \in I
  <2> HIDE DEF Good
  <2> SUFFICES ASSUME j + 1 <= l PROVE Good(j + 1)
    BY DEF I
  <2>0. Good(j)
    BY <1>3, <1>6
  <2>1. units(j) \in Seq(Seq(Piece)) /\ j + 1 \in 1..l
    BY <2>0 DEF Good
  <2> DEFINE s == FlattenSeq(units(j))
             u == unit(j + 1)
  <2>2. /\ u \in Seq(Piece) /\ Increasing(u)
        /\ \A x \in ToSet(u) : IsOf(x, j + 1, packet)
        /\ \E x \in ToSet(u) : x.k = 2 * (j + 1) + 1
        /\ packet[j + 1] \in Special => \E x \in ToSet(u) : x.k = 2 * (j + 1)
    BY <1>4, <2>1
  <2>3. units(j + 1) = Append(units(j), u) /\ Append(units(j), u) \in Seq(Seq(Piece))
    <3>1. Len(units(j)) = j
      BY LenProperties, <2>1
    <3>2. /\ Append(units(j), u) \in Seq(Seq(Piece)) /\ Len(Append(units(j), u)) = j + 1
          /\ \A i \in 1..j : Append(units(j), u)[i] = units(j)[i]
          /\ Append(units(j), u)[j + 1] = u
      BY <2>1, <2>2, <3>1, AppendProperties
    <3>3. Append(units(j), u) = [i \in 1..(j + 1) |-> Append(units(j), u)[i]]
      BY <3>2, SeqDef
    <3>4. \A i \in 1..(j + 1) : Append(units(j), u)[i] = unit(i)
      <4>1. \A i \in 1..(j + 1) : i \in 1..j \/ i = j + 1
        OBVIOUS
      <4> QED
        BY <3>2, <4>1
    <3> QED
      BY <3>2, <3>3, <3>4
  <2>4. units(j + 1) \in Seq(Seq(Piece))
    BY <2>3
  <2>5. FlattenSeq(units(j + 1)) = s \o u
    BY <2>1, <2>2, <2>3, FlatAppend
  <2>6. /\ s \in Seq(Piece) /\ Increasing(s)
        /\ \A x \in ToSet(s) : \E i \in 1..j : IsOf(x, i, packet)
        /\ \A i \in 1..j :
             /\ \E x \in ToSet(s) : x.k = 2 * i + 1
             /\ packet[i] \in Special => \E x \in ToSet(s) : x.k = 2 * i
    BY <2>0 DEF Good, SentAs
  <2> HIDE DEF s, u, units
  <2>7. ASSUME NEW x \in ToSet(s), NEW y \in ToSet(u) PROVE x.k < y.k
    <3>1. PICK i \in 1..j : x.k = 2 * i + 1 \/ x.k = 2 * i
      BY <2>6 DEF IsOf
    <3>2. y.k = 2 * (j + 1) + 1 \/ y.k = 2 * (j + 1)
      BY <2>2 DEF IsOf
    <3> QED
      BY <3>1, <3>2
  <2>8. s \o u \in Seq(Piece) /\ Increasing(s \o u) /\ ToSet(s \o u) = ToSet(s) \cup ToSet(u)
    BY <2>2, <2>6, <2>7, JoinedPieces
  <2>9. \A i \in 1..(j + 1) : i \in 1..j \/ i = j + 1
    OBVIOUS
  <2>10. SentAs(packet, j + 1, s \o u)
    <3>1. \A x \in ToSet(s \o u) : \E i \in 1..(j + 1) : IsOf(x, i, packet)
      BY <2>2, <2>6, <2>8
    <3>2. \A i \in 1..(j + 1) :
             /\ \E x \in ToSet(s \o u) : x.k = 2 * i + 1
             /\ packet[i] \in Special => \E x \in ToSet(s \o u) : x.k = 2 * i
      BY <2>2, <2>6, <2>8, <2>9
    <3> QED
      BY <2>8, <3>1, <3>2 DEF SentAs
  <2> QED
    BY <2>4, <2>5, <2>10 DEF Good
<1> HIDE DEF I, Good
<1>7. l \in I
  BY <1>3, <1>5, <1>6, EveryNat
<1>8. StuffedBytes(packet) = FlattenSeq(units(l))
  BY <1>3 DEF StuffedBytes, unit
<1>9. SentAs(packet, l, FlattenSeq(units(l)))
  BY <1>3, <1>7 DEF I, Good
<1> QED
  BY <1>1, <1>2, <1>8, <1>9

(* ... and so does WritePacketData the bytes of a frame, all of them.          *)
LEMMA FrameInOrder ==
  ASSUME NEW m \in Message
  PROVE  \E frame : /\ frame = WritePacketData(m)
                    /\ frame \in Seq(Piece) /\ Increasing(frame)
                    /\ \A y \in ToSet(frame) : IsIn(y, m)
                    /\ \A k \in Places(m) : \E y \in ToSet(frame) : y.k = k
<1>1. PICK s : s = StuffedBytes(Packet(m))
  OBVIOUS
<1>2. PICK packet : packet = Packet(m)
  OBVIOUS
<1>3. /\ s \in Seq(Piece) /\ Increasing(s)
      /\ \A x \in ToSet(s) : \E i \in DOMAIN packet : IsOf(x, i, packet)
      /\ \A i \in DOMAIN packet :
           /\ \E x \in ToSet(s) : x.k = 2 * i + 1
           /\ packet[i] \in Special => \E x \in ToSet(s) : x.k = 2 * i
  BY <1>1, <1>2, StuffedInOrder, PacketBytes DEF SentAs
<1>4. Len(packet) \in Nat /\ DOMAIN packet = 1..Len(packet) /\ LastPlace(m) = 2 * Len(packet) + 3
  BY <1>2, PacketBytes DEF LastPlace
<1> DEFINE first == At(START, 1)
           last == At(START, LastPlace(m))
<1>5. /\ first \in Piece /\ first.k = 1 /\ first.b = START
      /\ last \in Piece /\ last.k = LastPlace(m) /\ last.b = START
  BY <1>4, Escapes DEF At, Piece
<1>6. WritePacketData(m) = (<<first>> \o s) \o <<last>>
  BY <1>1 DEF WritePacketData
<1> HIDE DEF first, last
<1>7. /\ <<first>> \in Seq(Piece) /\ Increasing(<<first>>) /\ ToSet(<<first>>) = {first}
       /\ <<last>> \in Seq(Piece) /\ Increasing(<<last>>) /\ ToSet(<<last>>) = {last}
  BY <1>5, OnePiece
<1>8. ASSUME NEW x \in ToSet(s) PROVE 1 < x.k /\ x.k < LastPlace(m)
  <2>1. PICK i \in 1..Len(packet) : x.k = 2 * i + 1 \/ x.k = 2 * i
    BY <1>3, <1>4 DEF IsOf
  <2> QED
    BY <1>4, <2>1
<1>9. /\ <<first>> \o s \in Seq(Piece) /\ Increasing(<<first>> \o s)
      /\ ToSet(<<first>> \o s) = {first} \cup ToSet(s)
  <2>1. \A x \in ToSet(<<first>>), y \in ToSet(s) : x.k < y.k
    BY <1>5, <1>8, <1>7
  <2> QED
    BY <1>3, <1>7, <2>1, JoinedPieces
<1>10. \A x \in ToSet(<<first>> \o s) : x.k < LastPlace(m)
  BY <1>4, <1>5, <1>8, <1>9
<1>11. PICK frame : frame = WritePacketData(m)
  OBVIOUS
<1>12. /\ frame \in Seq(Piece) /\ Increasing(frame)
       /\ ToSet(frame) = {first} \cup ToSet(s) \cup {last}
  <2>1. \A x \in ToSet(<<first>> \o s), y \in ToSet(<<last>>) : x.k < y.k
    BY <1>5, <1>10, <1>7
  <2> QED
    BY <1>6, <1>7, <1>9, <1>11, <2>1, JoinedPieces
<1>13. \A x \in ToSet(frame) : IsIn(x, m)
  BY <1>2, <1>3, <1>5, <1>12 DEF IsIn
<1>14. ASSUME NEW k \in Places(m) PROVE \E x \in ToSet(frame) : x.k = k
  BY <1>2, <1>3, <1>5, <1>12 DEF Places
<1> QED
  BY <1>11, <1>12, <1>13, <1>14

(* Nothing is on the line at first.                                           *)
LEMMA LineStarts == LineInit => LineInv
<1> SUFFICES ASSUME LineInit PROVE LineInv
  OBVIOUS
<1>1. Len(sent) = 0 /\ Len(rxserialbuf) = 0 /\ 0 < SINKMTU /\ 0 <= MaxMessages
  BY SerialAssumption DEF LineInit
<1>2. << >> \in Seq(Message) /\ << >> \in Seq(Bytes) /\ << >> \in Seq(Item(0))
  BY EmptySeq
<1> QED
  BY <1>1, <1>2 DEF LineInit, LineInv

(* The items of the line.                                                     *)
LEMMA LineItems ==
  ASSUME LineInv
  PROVE  /\ Len(line) \in Nat /\ DOMAIN line = 1..Len(line)
         /\ \A i \in 1..Len(line) : /\ line[i] \in Item(Len(sent))
                                  /\ line[i].b \in Bytes /\ line[i].n \in 1..Len(sent)
<1>1. \A i \in 1..Len(line) : line[i] \in Item(Len(sent))
  BY ElementOfSeq DEF LineInv
<1>2. \A x \in Item(Len(sent)) : x.b \in Bytes /\ x.n \in 1..Len(sent)
  BY DEF Item
<1> QED
  BY <1>1, <1>2, LenProperties DEF LineInv

(* Sending a message puts its bytes on the line.                              *)
LEMMA SendKeeps ==
  ASSUME LineInv, NEW m \in Message, Send(m)
  PROVE  LineInv'
<1>1. PICK frame : frame = WritePacketData(m)
  OBVIOUS
<1>2. frame \in Seq(Piece) /\ Len(frame) \in Nat /\ DOMAIN frame = 1..Len(frame)
  BY <1>1, FrameInOrder, LenProperties
<1>3. /\ sent' \in Seq(Message) /\ Len(sent') = Len(sent) + 1 /\ Len(sent) \in Nat
      /\ Len(sent') <= MaxMessages
  <2>1. Len(sent) < MaxMessages /\ sent' = Append(sent, m)
    BY DEF Send
  <2> QED
    BY <2>1, AppendProperties, LenProperties, SerialAssumption DEF LineInv
<1> DEFINE Mark(i) == [b |-> frame[i].b, k |-> frame[i].k, n |-> Len(sent) + 1]
           marked == [i \in DOMAIN frame |-> Mark(i)]
<1>4. \A i \in DOMAIN frame : Mark(i) \in Item(Len(sent'))
  <2>1. \A i \in DOMAIN frame : frame[i] \in Piece
    BY <1>2, ElementOfSeq
  <2>2. \A i \in DOMAIN frame : frame[i].b \in Bytes /\ frame[i].k \in Nat
    BY <2>1 DEF Piece
  <2> QED
    BY <1>3, <2>2 DEF Item
<1>5. marked \in Seq(Item(Len(sent')))
  <2> HIDE DEF Mark
  <2> QED
    BY <1>2, <1>4, SeqDef
<1>6. line \in Seq(Item(Len(sent')))
  <2>1. 1..Len(sent) \subseteq 1..Len(sent')
    BY <1>3
  <2>2. Item(Len(sent)) \subseteq Item(Len(sent'))
    BY <2>1 DEF Item
  <2> QED
    BY <2>2, SeqMonotonic DEF LineInv
<1>7. line' = line \o marked
  BY <1>1 DEF Send
<1>8. line' \in Seq(Item(Len(sent')))
  <2> HIDE DEF marked
  <2> QED
    BY <1>5, <1>6, <1>7, ConcatProperties
<1>9. UNCHANGED <<reader, harm>>
  BY DEF Send
<1> QED
  BY <1>3, <1>8, <1>9 DEF LineInv, reader, harm

(* A part of the line is like the line.                                       *)
LEMMA PartOfLine ==
  ASSUME LineInv, NEW i \in 1..(Len(line) + 1), NEW j \in 0..Len(line)
  PROVE  SubSeq(line, i, j) \in Seq(Item(Len(sent)))
<1>1. Len(line) \in Nat /\ \A k \in i..j : line[k] \in Item(Len(sent))
  BY LineItems
<1> QED
  BY <1>1, SubSeqProperties

(* Losing a byte, or all that came while the sink was off.                     *)
LEMMA LossKeeps ==
  ASSUME LineInv, \/ \E i \in DOMAIN line : Lose(i)
                  \/ MissBytes
  PROVE  LineInv'
<1>1. /\ Len(line) \in Nat /\ DOMAIN line = 1..Len(line)
      /\ \A i \in DOMAIN line : line[i].n \in 1..Len(sent)
  BY LineItems
<1>2. CASE \E i \in DOMAIN line : Lose(i)
  <2>1. PICK i \in DOMAIN line : Lose(i)
    BY <1>2
  <2>2. i \in 1..Len(line) /\ i - 1 \in 0..Len(line) /\ i + 1 \in 1..(Len(line) + 1)
    BY <1>1
  <2>3. line' \in Seq(Item(Len(sent)))
    <3>1. line' = SubSeq(line, 1, i - 1) \o SubSeq(line, i + 1, Len(line))
      BY <2>1 DEF Lose, RemoveAt
    <3>2. 1 \in 1..(Len(line) + 1) /\ Len(line) \in 0..Len(line)
      BY <1>1
    <3> QED
      BY <2>2, <3>1, <3>2, PartOfLine, ConcatProperties
  <2>4. harmed' \subseteq 1..Len(sent)
    BY <1>1, <2>1 DEF Lose, LineInv
  <2>5. outOfStep' \in BOOLEAN
    BY <2>1, Zenon DEF Lose, LineInv
  <2> QED
    BY <2>1, <2>3, <2>4, <2>5 DEF Lose, LineInv, reader
<1>3. CASE MissBytes
  <2>1. PICK k \in 0..Len(line) :
          /\ line' = SubSeq(line, k + 1, Len(line))
          /\ harmed' = harmed \cup {line[i].n : i \in 1..k}
    BY <1>3 DEF MissBytes
  <2>2. line' \in Seq(Item(Len(sent)))
    <3>1. k + 1 \in 1..(Len(line) + 1) /\ Len(line) \in 0..Len(line)
      BY <1>1
    <3> QED
      BY <2>1, <3>1, PartOfLine
  <2>3. harmed' \subseteq 1..Len(sent)
    <3>1. \A i \in 1..k : i \in DOMAIN line
      BY <1>1
    <3> QED
      BY <1>1, <2>1, <3>1 DEF LineInv
  <2>4. outOfStep' \in BOOLEAN
    BY <1>3, Zenon DEF MissBytes, LineInv
  <2>5. Len(<< >>) < SINKMTU /\ << >> \in Seq(Bytes)
    BY SerialAssumption
  <2> QED
    BY <1>3, <2>2, <2>3, <2>4, <2>5 DEF MissBytes, LineInv
<1> QED
  BY <1>2, <1>3

(* A byte that is stored leaves the index within the buffer.                  *)
LEMMA StoredKeeps ==
  ASSUME LineInv, NEW b \in Bytes, Stored(b)
  PROVE  rxserialbuf' \in Seq(Bytes) /\ Len(rxserialbuf') < SINKMTU
<1>1. /\ Append(rxserialbuf, b) \in Seq(Bytes)
      /\ Len(Append(rxserialbuf, b)) = Len(rxserialbuf) + 1 /\ Len(rxserialbuf) \in Nat
  BY AppendProperties, LenProperties DEF LineInv
<1>2. Len(<< >>) = 0 /\ << >> \in Seq(Bytes) /\ SINKMTU \in Nat /\ 0 < SINKMTU
  BY SerialAssumption
<1> QED
  BY <1>1, <1>2 DEF Stored, LineInv

(* Reading a byte.                                                            *)
LEMMA ReadKeeps ==
  ASSUME LineInv, ReadByte \/ ReadNothing \/ \E m \in Message : ReadEnd(m)
  PROVE  LineInv'
<1>1. /\ line # << >> /\ line' = Tail(line)
      /\ UNCHANGED <<sent, harm>>
  BY DEF ReadByte, ReadNothing, ReadEnd
<1>2. line' \in Seq(Item(Len(sent)))
  BY <1>1, HeadTailProperties DEF LineInv
<1>3. line[1].b \in Bytes /\ 1 < SINKMTU
  <2>1. 1 \in 1..Len(line)
    BY <1>1, EmptySeq, LenProperties DEF LineInv
  <2>2. line[1].b \in Bytes /\ line[1].n \in 1..Len(sent)
    BY <2>1, LineItems
  <2>3. sent[line[1].n] \in Message
    BY <2>2, ElementOfSeq DEF LineInv
  <2>4. PICK m \in Message : TRUE
    BY <2>3
  <2>5. Len(Body[m]) \in Nat
    BY <2>4, SerialAssumption, LenProperties
  <2> QED
    BY <2>2, <2>4, <2>5, SerialAssumption
<1>4. /\ rxserialbuf' \in Seq(Bytes) /\ Len(rxserialbuf') < SINKMTU
      /\ escaped' \in BOOLEAN
  <2>1. CASE ReadByte
    <3>1. Xor(line[1].b) \in Bytes /\ START \in Bytes
      BY DEF Xor, Masked, Bytes, START, ESC
    <3>2. CASE \E b \in Bytes : Stored(b) /\ escaped' \in {FALSE, escaped}
      BY <3>2, StoredKeeps DEF LineInv
    <3>3. CASE rxserialbuf' \in {rxserialbuf, <<START>>} /\ escaped' \in {TRUE, escaped}
      <4>1. <<START>> \in Seq(Bytes) /\ Len(<<START>>) = 1
        BY <3>1
      <4> QED
        BY <1>3, <3>3, <4>1 DEF LineInv
    <3> QED
      BY <1>3, <2>1, <3>1, <3>2, <3>3 DEF ReadByte
  <2>2. CASE ReadNothing \/ \E m \in Message : ReadEnd(m)
    <3>1. Len(<< >>) < SINKMTU /\ << >> \in Seq(Bytes)
      BY SerialAssumption
    <3>2. rxserialbuf' = << >> /\ escaped' = escaped
      BY <2>2 DEF ReadNothing, ReadEnd, PacketLeavesBuffer
    <3> QED
      BY <3>1, <3>2 DEF LineInv
  <2> QED
    BY <2>1, <2>2
<1> QED
  BY <1>1, <1>2, <1>4 DEF LineInv, harm
-----------------------------------------------------------------------------
(* The line, as a set of bytes and their order.                             *)

Marked == [b : Bytes, k : Nat, n : Nat]
Before(x, y) == x.n < y.n \/ (x.n = y.n /\ x.k < y.k)
Ordered(s) == \A i, j \in DOMAIN s : i < j => Before(s[i], s[j])

LEMMA BeforeIsOrder ==
  /\ \A x \in Marked : x.n \in Nat /\ x.k \in Nat /\ ~Before(x, x)
  /\ \A x, y \in Marked : Before(x, y) => ~Before(y, x)
<1>1. \A x \in Marked : x.n \in Nat /\ x.k \in Nat
  BY DEF Marked
<1> QED
  BY <1>1 DEF Before

LEMMA LineIsMarked ==
  ASSUME LineInv PROVE line \in Seq(Marked)
<1>1. Item(Len(sent)) \subseteq Marked
  BY DEF Item, Marked
<1> QED
  BY <1>1, SeqMonotonic DEF LineInv

(* The first byte comes before the others.                                    *)
LEMMA FirstOfOrder ==
  ASSUME NEW s \in Seq(Marked), Ordered(s), s # << >>
  PROVE  /\ s[1] \in ToSet(s) /\ s[1] \in Marked
         /\ \A x \in ToSet(s) : x = s[1] \/ Before(s[1], x)
<1>1. Len(s) \in Nat /\ Len(s) # 0 /\ DOMAIN s = 1..Len(s) /\ \A i \in 1..Len(s) : s[i] \in Marked
  BY EmptySeq, LenProperties, ElementOfSeq
<1>2. 1 \in DOMAIN s /\ \A i \in DOMAIN s : i = 1 \/ 1 < i
  BY <1>1
<1> QED
  BY <1>1, <1>2 DEF Ordered, ToSet

(* All bytes but the first.                                                   *)
LEMMA TailOfOrder ==
  ASSUME NEW s \in Seq(Marked), Ordered(s), s # << >>
  PROVE  Ordered(Tail(s)) /\ ToSet(Tail(s)) = ToSet(s) \ {s[1]}
<1>1. Len(s) \in Nat /\ Len(s) # 0 /\ DOMAIN s = 1..Len(s) /\ \A i \in 1..Len(s) : s[i] \in Marked
  BY EmptySeq, LenProperties, ElementOfSeq
<1>2. PICK r : r = Tail(s)
  OBVIOUS
<1>3. /\ r \in Seq(Marked) /\ Len(r) = Len(s) - 1
      /\ \A i \in 1..Len(r) : r[i] = s[i + 1]
  BY <1>2, HeadTailProperties
<1>4. DOMAIN r = 1..(Len(s) - 1)
  BY <1>3, LenProperties
<1>5. Ordered(r)
  <2> SUFFICES ASSUME NEW i \in DOMAIN r, NEW j \in DOMAIN r, i < j
               PROVE  Before(r[i], r[j])
    BY DEF Ordered
  <2>1. r[i] = s[i + 1] /\ r[j] = s[j + 1]
    BY <1>3, <1>4
  <2>2. i + 1 \in DOMAIN s /\ j + 1 \in DOMAIN s /\ i + 1 < j + 1
    BY <1>1, <1>4
  <2> QED
    BY <2>1, <2>2 DEF Ordered
<1>6. \A i \in DOMAIN r : r[i] \in ToSet(s) /\ Before(s[1], r[i])
  BY <1>1, <1>3, <1>4 DEF Ordered, ToSet
<1>7. ToSet(r) \subseteq ToSet(s) \ {s[1]}
  <2>1. s[1] \in Marked
    BY <1>1
  <2> QED
    BY <1>6, <2>1, BeforeIsOrder DEF ToSet
<1>8. ASSUME NEW x \in ToSet(s) \ {s[1]} PROVE x \in ToSet(r)
  <2>1. PICK i \in 1..Len(s) : x = s[i] /\ i # 1
    BY <1>1 DEF ToSet
  <2>2. i - 1 \in DOMAIN r /\ r[i - 1] = x
    BY <1>1, <1>3, <1>4, <2>1
  <2> QED
    BY <2>2 DEF ToSet
<1> QED
  BY <1>2, <1>5, <1>7, <1>8

(* All bytes but one, and the one before that.                                *)
LEMMA OrderWithout ==
  ASSUME NEW s \in Seq(Marked), Ordered(s), NEW i \in DOMAIN s
  PROVE  /\ Ordered(RemoveAt(s, i)) /\ ToSet(RemoveAt(s, i)) = ToSet(s) \ {s[i]}
         /\ s[i] \in ToSet(s)
         /\ i # 1 => /\ s[i - 1] \in ToSet(s)
                     /\ \A x \in ToSet(s) :
                          Before(x, s[i]) => x = s[i - 1] \/ Before(x, s[i - 1])
<1>1. Len(s) \in Nat /\ DOMAIN s = 1..Len(s) /\ \A j \in 1..Len(s) : s[j] \in Marked
  BY LenProperties, ElementOfSeq
<1>2. PICK r : r = RemoveAt(s, i)
  OBVIOUS
<1> DEFINE a == SubSeq(s, 1, i - 1)
           b == SubSeq(s, i + 1, Len(s))
<1>3. /\ a \in Seq(Marked) /\ Len(a) = i - 1
      /\ \A j \in 1..(i - 1) : a[j] = s[j]
  <2>1. \A j \in 1..(i - 1) : s[j] \in Marked
    BY <1>1
  <2> QED
    BY <1>1, <2>1, SubSeqProperties
<1>4. /\ b \in Seq(Marked) /\ Len(b) = Len(s) - i
      /\ \A j \in 1..(Len(s) - i) : b[j] = s[i + j]
  <2>1. \A j \in (i + 1)..Len(s) : s[j] \in Marked
    BY <1>1
  <2>2. /\ b \in Seq(Marked) /\ Len(b) = IF i + 1 <= Len(s) THEN Len(s) - (i + 1) + 1 ELSE 0
        /\ \A j \in 1..(Len(s) - (i + 1) + 1) : b[j] = s[(i + 1) + j - 1]
    BY <1>1, <2>1, SubSeqProperties
  <2> HIDE DEF b
  <2>3. Len(b) = Len(s) - i
    <3>1. i \in Nat /\ i <= Len(s)
      BY <1>1
    <3> QED
      BY <1>1, <2>2, <3>1
  <2>4. ASSUME NEW j \in 1..(Len(s) - i) PROVE b[j] = s[i + j]
    <3>1. j \in 1..(Len(s) - (i + 1) + 1) /\ (i + 1) + j - 1 = i + j
      BY <1>1
    <3> QED
      BY <2>2, <3>1
  <2> QED
    BY <2>2, <2>3, <2>4
<1> HIDE DEF a, b
<1>5. /\ r \in Seq(Marked) /\ Len(r) = Len(a) + Len(b)
      /\ \A j \in 1..(Len(a) + Len(b)) : r[j] = IF j <= Len(a) THEN a[j] ELSE b[j - Len(a)]
  <2>1. r = a \o b
    BY <1>2 DEF RemoveAt, a, b
  <2> QED
    BY <1>3, <1>4, <2>1, ConcatProperties
<1>6. DOMAIN r = 1..(Len(s) - 1)
  BY <1>1, <1>3, <1>4, <1>5, LenProperties
<1> DEFINE f(j) == IF j < i THEN j ELSE j + 1
<1>7. ASSUME NEW j \in DOMAIN r PROVE f(j) \in DOMAIN s /\ f(j) # i /\ r[j] = s[f(j)]
  <2>1. CASE j < i
    BY <1>1, <1>3, <1>4, <1>5, <1>6, <2>1
  <2>2. CASE j >= i
    <3>1. j - Len(a) \in 1..(Len(s) - i) /\ i + (j - Len(a)) = j + 1
      BY <1>1, <1>3, <1>6, <2>2
    <3>2. b[j - Len(a)] = s[j + 1]
      BY <1>4, <3>1
    <3>3. r[j] = b[j - Len(a)]
      BY <1>1, <1>3, <1>4, <1>5, <1>6, <2>2
    <3> QED
      BY <1>1, <1>6, <2>2, <3>2, <3>3
  <2> QED
    BY <1>1, <1>6, <2>1, <2>2
<1>8. \A j, k \in DOMAIN r : j < k => f(j) < f(k)
  BY <1>1, <1>6
<1>9. \A j \in DOMAIN s : j # i => \E k \in DOMAIN r : f(k) = j
  <2> SUFFICES ASSUME NEW j \in DOMAIN s, j # i PROVE \E k \in DOMAIN r : f(k) = j
    OBVIOUS
  <2>1. CASE j < i
    <3>1. j \in DOMAIN r /\ f(j) = j
      BY <1>1, <1>6, <2>1
    <3> QED
      BY <3>1
  <2>2. CASE j > i
    <3>1. j - 1 \in DOMAIN r /\ f(j - 1) = j
      BY <1>1, <1>6, <2>2
    <3> QED
      BY <3>1
  <2> QED
    BY <1>1, <2>1, <2>2
<1> HIDE DEF f
<1>10. Ordered(r)
  BY <1>7, <1>8 DEF Ordered
<1>11. \A j \in DOMAIN s : j # i => s[j] # s[i]
  <2>1. \A j \in DOMAIN s : j # i => Before(s[i], s[j]) \/ Before(s[j], s[i])
    BY <1>1 DEF Ordered
  <2> QED
    BY <1>1, <2>1, BeforeIsOrder
<1>12. ToSet(r) = ToSet(s) \ {s[i]}
  <2>1. ToSet(r) \subseteq ToSet(s) \ {s[i]}
    BY <1>7, <1>11 DEF ToSet
  <2>2. ToSet(s) \ {s[i]} \subseteq ToSet(r)
    BY <1>7, <1>9 DEF ToSet
  <2> QED
    BY <2>1, <2>2
<1>13. ASSUME i # 1
       PROVE  /\ s[i - 1] \in ToSet(s)
              /\ \A x \in ToSet(s) :
                   Before(x, s[i]) => x = s[i - 1] \/ Before(x, s[i - 1])
  <2>1. i - 1 \in DOMAIN s
    BY <1>1, <1>13
  <2>2. ASSUME NEW j \in DOMAIN s, Before(s[j], s[i])
        PROVE  s[j] = s[i - 1] \/ Before(s[j], s[i - 1])
    <3>1. ~(i < j) /\ i # j
      BY <1>1, <2>2, BeforeIsOrder DEF Ordered
    <3>2. j = i - 1 \/ j < i - 1
      BY <1>1, <3>1
    <3> QED
      BY <2>1, <3>2 DEF Ordered
  <2> QED
    BY <2>1, <2>2 DEF ToSet
<1> QED
  BY <1>2, <1>10, <1>12, <1>13 DEF ToSet

(* All bytes from one on.                                                     *)
LEMMA RestOfOrder ==
  ASSUME NEW s \in Seq(Marked), Ordered(s), NEW j \in 0..Len(s)
  PROVE  LET r == SubSeq(s, j + 1, Len(s))
         IN  /\ r \in Seq(Marked) /\ Len(r) = Len(s) - j /\ Ordered(r)
             /\ ToSet(s) = {s[i] : i \in 1..j} \cup ToSet(r)
             /\ \A i \in 1..j : \A y \in ToSet(r) : Before(s[i], y)
<1>1. Len(s) \in Nat /\ DOMAIN s = 1..Len(s) /\ \A i \in 1..Len(s) : s[i] \in Marked
  BY LenProperties, ElementOfSeq
<1>2. PICK r : r = SubSeq(s, j + 1, Len(s))
  OBVIOUS
<1>3. /\ r \in Seq(Marked)
      /\ Len(r) = IF j + 1 <= Len(s) THEN Len(s) - (j + 1) + 1 ELSE 0
      /\ \A i \in 1..(Len(s) - (j + 1) + 1) : r[i] = s[(j + 1) + i - 1]
  <2>1. \A i \in (j + 1)..Len(s) : s[i] \in Marked
    BY <1>1
  <2> QED
    BY <1>1, <1>2, <2>1, SubSeqProperties
<1>4. Len(r) = Len(s) - j /\ DOMAIN r = 1..(Len(s) - j)
  <2>1. Len(r) = Len(s) - j
    BY <1>1, <1>3
  <2> QED
    BY <1>3, <2>1, LenProperties
<1>5. ASSUME NEW i \in 1..(Len(s) - j) PROVE r[i] = s[i + j] /\ i + j \in DOMAIN s
  <2>1. i \in 1..(Len(s) - (j + 1) + 1) /\ (j + 1) + i - 1 = i + j
    BY <1>1
  <2> QED
    BY <1>1, <1>3, <2>1, SMTT(30)
<1>6. Ordered(r)
  <2>1. \A i, k \in 1..(Len(s) - j) : i < k => i + j < k + j
    BY <1>1
  <2> QED
    BY <1>4, <1>5, <2>1 DEF Ordered
<1>7. ToSet(s) = {s[i] : i \in 1..j} \cup ToSet(r)
  <2>1. ToSet(r) \subseteq ToSet(s)
    BY <1>4, <1>5 DEF ToSet
  <2>2. {s[i] : i \in 1..j} \subseteq ToSet(s)
    BY <1>1 DEF ToSet
  <2>3. ASSUME NEW i \in DOMAIN s, i > j PROVE s[i] \in ToSet(r)
    <3>1. i - j \in 1..(Len(s) - j) /\ (i - j) + j = i
      BY <1>1, <2>3
    <3> QED
      BY <1>4, <1>5, <3>1 DEF ToSet
  <2>4. \A i \in DOMAIN s : i \in 1..j \/ i > j
    BY <1>1
  <2> QED
    BY <2>1, <2>2, <2>3, <2>4 DEF ToSet
<1>8. ASSUME NEW i \in 1..j, NEW y \in ToSet(r) PROVE Before(s[i], y)
  <2>1. PICK k \in 1..(Len(s) - j) : y = r[k]
    BY <1>4 DEF ToSet
  <2>2. i \in DOMAIN s /\ k + j \in DOMAIN s /\ i < k + j
    BY <1>1
  <2> QED
    BY <1>5, <2>1, <2>2 DEF Ordered
<1> QED
  BY <1>2, <1>3, <1>4, <1>6, <1>7, <1>8

(* Bytes behind the others.                                                   *)
LEMMA JoinedOrder ==
  ASSUME NEW s \in Seq(Marked), NEW t \in Seq(Marked), Ordered(s), Ordered(t),
         \A x \in ToSet(s), y \in ToSet(t) : Before(x, y)
  PROVE  Ordered(s \o t) /\ ToSet(s \o t) = ToSet(s) \cup ToSet(t)
<1> DEFINE r == s \o t
<1>1. /\ r \in Seq(Marked) /\ Len(r) = Len(s) + Len(t)
      /\ \A i \in 1..(Len(s) + Len(t)) : r[i] = IF i <= Len(s) THEN s[i] ELSE t[i - Len(s)]
  BY ConcatProperties
<1> HIDE DEF r
<1>2. /\ Len(s) \in Nat /\ Len(t) \in Nat /\ DOMAIN s = 1..Len(s) /\ DOMAIN t = 1..Len(t)
      /\ DOMAIN r = 1..(Len(s) + Len(t))
  BY <1>1, LenProperties
<1>3. \A i \in 1..Len(s) : i \in DOMAIN r /\ r[i] = s[i] /\ s[i] \in ToSet(s)
  BY <1>1, <1>2, SMTT(30) DEF ToSet
<1>4. \A i \in DOMAIN r : i > Len(s) =>
        i - Len(s) \in 1..Len(t) /\ r[i] = t[i - Len(s)] /\ r[i] \in ToSet(t)
  BY <1>1, <1>2 DEF ToSet
<1>5. ToSet(r) = ToSet(s) \cup ToSet(t)
  <2>1. ToSet(r) \subseteq ToSet(s) \cup ToSet(t)
    BY <1>2, <1>3, <1>4 DEF ToSet
  <2>2. ToSet(s) \subseteq ToSet(r)
    BY <1>2, <1>3 DEF ToSet
  <2>3. ASSUME NEW y \in ToSet(t) PROVE y \in ToSet(r)
    <3>1. PICK i \in 1..Len(t) : y = t[i]
      BY <1>2 DEF ToSet
    <3>2. i + Len(s) \in DOMAIN r /\ i + Len(s) > Len(s) /\ (i + Len(s)) - Len(s) = i
      BY <1>2
    <3>3. r[i + Len(s)] = y
      BY <1>4, <3>1, <3>2
    <3> QED
      BY <3>2, <3>3 DEF ToSet
  <2> QED
    BY <2>1, <2>2, <2>3
<1>6. Ordered(r)
  <2> SUFFICES ASSUME NEW i \in DOMAIN r, NEW j \in DOMAIN r, i < j
               PROVE  Before(r[i], r[j])
    BY DEF Ordered
  <2>1. CASE j <= Len(s)
    <3>1. i \in 1..Len(s) /\ j \in 1..Len(s)
      BY <1>2, <2>1
    <3> QED
      BY <1>2, <1>3, <3>1 DEF Ordered
  <2>2. CASE i > Len(s)
    <3>1. /\ i - Len(s) \in 1..Len(t) /\ j - Len(s) \in 1..Len(t)
          /\ r[i] = t[i - Len(s)] /\ r[j] = t[j - Len(s)]
      BY <1>2, <1>4, <2>2
    <3>2. i - Len(s) < j - Len(s)
      BY <1>2
    <3> QED
      BY <1>2, <3>1, <3>2 DEF Ordered
  <2>3. CASE i <= Len(s) /\ j > Len(s)
    <3>1. i \in 1..Len(s)
      BY <1>2, <2>3
    <3>2. r[i] \in ToSet(s) /\ r[j] \in ToSet(t)
      BY <1>3, <1>4, <2>3, <3>1
    <3> QED
      BY <3>2
  <2> QED
    BY <1>2, <2>1, <2>2, <2>3
<1> QED
  BY <1>5, <1>6 DEF r

-----------------------------------------------------------------------------
(* In step.                                                                 *)

OnLine(n, k) == \E x \in ToSet(line) : x.n = n /\ x.k = k

(* The inductive invariant, as long as no end of a frame was lost: the reader   *)
(* has done with the first d messages, and of the next it has read the byte at  *)
(* place p last, or none yet (p = 0).                                           *)

\* What is on the line is of the messages after those d, beyond place p, in order.
OfMessages(d, p) ==
  /\ Ordered(line)
  /\ \A x \in ToSet(line) : /\ x.n \in (d + 1)..Len(sent) /\ IsIn(x, sent[x.n])
                            /\ x.n = d + 1 => x.k > p

\* The ends of their frames are all there; and what is escaped, if its ESC is.
EndsThere(d, p) ==
  \A n \in (d + 1)..Len(sent) :
    /\ OnLine(n, LastPlace(sent[n]))
    /\ n > d + 1 \/ p = 0 => OnLine(n, 1)
EscapedThere ==
  \A n \in Nat, j \in Nat : OnLine(n, 2 * j) => OnLine(n, 2 * j + 1)

\* Of an unharmed message everything is there that was not read; of a harmed one
\* that was not begun something is not.
UnharmedThere(d, p) ==
  \A n \in (d + 1)..Len(sent) : n \notin harmed =>
    \A k \in Places(sent[n]) : n > d + 1 \/ k > p => OnLine(n, k)
HarmedLack(d, p) ==
  \A n \in (d + 1)..Len(sent) : n \in harmed /\ (n > d + 1 \/ p = 0) =>
    \E k \in Places(sent[n]) : ~OnLine(n, k)

\* bytes are left of the first u bytes of the packet ...
LeftOfFirst(u, packet, bytes) ==
  \E from \in [1..Len(bytes) -> 1..u] :
    /\ \A i, j \in 1..Len(bytes) : i < j => from[i] < from[j]
    /\ \A i \in 1..Len(bytes) :
         \/ bytes[i] = packet[from[i]]
         \/ packet[from[i]] \in Special /\ bytes[i] = Xor(packet[from[i]])
\* ... and are all of them.
AllOfFirst(u, packet, bytes) ==
  Len(bytes) = u /\ \A i \in 1..u : bytes[i] = packet[i]

\* The reader has gone through u bytes of the packet of message d + 1, or those of
\* them that were left.
Within(d, p, u) ==
  /\ d < Len(sent) /\ u \in 0..Len(Packet(sent[d + 1]))
  /\ \/ ~escaped /\ p = 2 * u + 1
     \/ /\ escaped /\ p = 2 * u + 2 /\ OnLine(d + 1, 2 * u + 3)
        /\ u < Len(Packet(sent[d + 1])) /\ Packet(sent[d + 1])[u + 1] \in Special
  /\ rxserialbuf # << >> /\ rxserialbuf[1] = START
  /\ LeftOfFirst(u, Packet(sent[d + 1]), Tail(rxserialbuf))
  /\ AllOfFirst(u, Packet(sent[d + 1]), Tail(rxserialbuf)) =>
       (d + 1 \in harmed => \E k \in Places(sent[d + 1]) : k > p /\ ~OnLine(d + 1, k))
  /\ d + 1 \notin harmed => AllOfFirst(u, Packet(sent[d + 1]), Tail(rxserialbuf))
Between(p) == p = 0 /\ ~escaped /\ (rxserialbuf = << >> \/ rxserialbuf = <<START>>)

Reached(d, p) ==
  /\ d \in 0..Len(sent) /\ p \in Nat
  /\ OfMessages(d, p) /\ EndsThere(d, p) /\ EscapedThere
  /\ UnharmedThere(d, p) /\ HarmedLack(d, p)
InStep(d, p) ==
  /\ Reached(d, p) /\ handled = Unharmed(d)
  /\ Between(p) \/ \E u \in Nat : Within(d, p, u)
StepInv == ~outOfStep => \E d, p \in Nat : InStep(d, p)
-----------------------------------------------------------------------------
(* The messages that are left.                                              *)

\* The first j of messages st, without those numbered in hm.
Kept(j, st, hm) == FlattenSeq([i \in 1..j |-> IF i \in hm THEN << >> ELSE <<st[i]>>])

LEMMA UnharmedIsKept ==
  /\ \A j : Unharmed(j) = Kept(j, sent, harmed)
  /\ \A j : Unharmed(j)' = Kept(j, sent', harmed')
BY DEF Unharmed, Kept

(* Those kept depend on the first j only.                                     *)
LEMMA SameKept ==
  ASSUME NEW j \in Nat, NEW st, NEW hm, NEW st2, NEW hm2,
         \A i \in 1..j : st[i] = st2[i] /\ (i \in hm <=> i \in hm2)
  PROVE  Kept(j, st, hm) = Kept(j, st2, hm2)
<1>1. [i \in 1..j |-> IF i \in hm THEN << >> ELSE <<st[i]>>]
        = [i \in 1..j |-> IF i \in hm2 THEN << >> ELSE <<st2[i]>>]
  OBVIOUS
<1> QED
  BY <1>1 DEF Kept

(* One more message.                                                          *)
LEMMA KeptNext ==
  ASSUME NEW st \in Seq(Message), NEW hm, NEW j \in Nat, j < Len(st)
  PROVE  /\ Kept(j, st, hm) \in Seq(Message)
         /\ Kept(j + 1, st, hm) = IF j + 1 \in hm THEN Kept(j, st, hm)
                                  ELSE Append(Kept(j, st, hm), st[j + 1])
<1> DEFINE piece(i) == IF i \in hm THEN << >> ELSE <<st[i]>>
           pieces(k) == [i \in 1..k |-> piece(i)]
<1>1. Len(st) \in Nat /\ \A i \in 1..Len(st) : st[i] \in Message
  BY LenProperties, ElementOfSeq
<1>2. ASSUME NEW i \in 1..(j + 1) PROVE piece(i) \in Seq(Message)
  <2>1. st[i] \in Message
    BY <1>1
  <2> QED
    BY <2>1
<1>3. Kept(j, st, hm) = FlattenSeq(pieces(j)) /\ Kept(j + 1, st, hm) = FlattenSeq(pieces(j + 1))
  BY DEF Kept
<1>4. piece(j + 1) = IF j + 1 \in hm THEN << >> ELSE <<st[j + 1]>>
  OBVIOUS
<1> HIDE DEF piece
<1>5. pieces(j) \in Seq(Seq(Message)) /\ Len(pieces(j)) = j
  <2>1. pieces(j) \in [1..j -> Seq(Message)]
    BY <1>2
  <2> QED
    BY <2>1, SeqDef, LenProperties
<1>6. pieces(j + 1) = Append(pieces(j), piece(j + 1))
  <2>1. piece(j + 1) \in Seq(Message)
    BY <1>2
  <2>2. /\ Append(pieces(j), piece(j + 1)) \in Seq(Seq(Message))
        /\ Len(Append(pieces(j), piece(j + 1))) = j + 1
        /\ \A i \in 1..j : Append(pieces(j), piece(j + 1))[i] = pieces(j)[i]
        /\ Append(pieces(j), piece(j + 1))[j + 1] = piece(j + 1)
    BY <1>5, <2>1, AppendProperties
  <2>3. Append(pieces(j), piece(j + 1))
          = [i \in 1..(j + 1) |-> Append(pieces(j), piece(j + 1))[i]]
    BY <2>2, SeqDef
  <2>4. \A i \in 1..(j + 1) : i \in 1..j \/ i = j + 1
    OBVIOUS
  <2>5. \A i \in 1..(j + 1) : Append(pieces(j), piece(j + 1))[i] = piece(i)
    BY <2>2, <2>4
  <2> QED
    BY <2>3, <2>5
<1> HIDE DEF pieces
<1>7. Kept(j, st, hm) \in Seq(Message)
  BY <1>3, <1>5, FlatIsSeq
<1>8. Kept(j + 1, st, hm) = Kept(j, st, hm) \o piece(j + 1)
  <2>1. piece(j + 1) \in Seq(Message)
    BY <1>2
  <2> QED
    BY <1>3, <1>5, <1>6, <2>1, FlatAppend
<1>9. CASE j + 1 \in hm
  BY <1>4, <1>7, <1>8, <1>9, ConcatEmptySeq
<1>10. CASE j + 1 \notin hm
  <2>1. st[j + 1] \in Message
    BY <1>1
  <2>2. Kept(j, st, hm) \o <<st[j + 1]>> = Append(Kept(j, st, hm), st[j + 1])
    BY <1>7, <2>1, AppendIsConcat
  <2> QED
    BY <1>4, <1>7, <1>8, <1>10, <2>2
<1> QED
  BY <1>9, <1>10

(* None kept of none; and none kept of messages that are all left out.         *)
LEMMA KeptNone == \A st, hm : Kept(0, st, hm) = << >>
<1>1. \A st, hm : [i \in 1..0 |-> IF i \in hm THEN << >> ELSE <<st[i]>>] = << >>
  OBVIOUS
<1>2. FlattenSeq(<< >>) = << >>
  BY FlatUnfolds
<1> QED
  BY <1>1, <1>2 DEF Kept

LEMMA KeptSkips ==
  ASSUME NEW st \in Seq(Message), NEW hm, NEW d \in Nat, NEW e \in d..Len(st),
         (d + 1)..e \subseteq hm
  PROVE  Kept(e, st, hm) = Kept(d, st, hm)
<1> DEFINE I == {j \in Nat : d + j <= e => Kept(d + j, st, hm) = Kept(d, st, hm)}
<1>1. 0 \in I
  OBVIOUS
<1>2. ASSUME NEW j \in Nat, j \in I PROVE j + 1 \in I
  <2>1. ASSUME d + (j + 1) <= e PROVE Kept(d + (j + 1), st, hm) = Kept(d, st, hm)
    <3>1. /\ Len(st) \in Nat /\ d + j \in Nat /\ d + j < Len(st) /\ d + j <= e
          /\ (d + j) + 1 = d + (j + 1) /\ (d + j) + 1 \in (d + 1)..e
      BY <2>1, LenProperties
    <3>2. Kept((d + j) + 1, st, hm) = Kept(d + j, st, hm)
      BY <3>1, KeptNext
    <3> QED
      BY <1>2, <3>1, <3>2
  <2> QED
    BY <2>1
<1> HIDE DEF I
<1>3. e - d \in Nat /\ d + (e - d) = e
  BY LenProperties
<1>4. e - d \in I
  BY <1>1, <1>2, <1>3, EveryNat
<1> QED
  BY <1>3, <1>4 DEF I

(* Those of the first d come first.                                           *)
LEMMA KeptIsPrefix ==
  ASSUME NEW st \in Seq(Message), NEW hm, NEW d \in Nat, NEW e \in d..Len(st)
  PROVE  IsPrefix(Kept(d, st, hm), Kept(e, st, hm))
<1>1. Len(st) \in Nat
  BY LenProperties
<1>2. ASSUME NEW j \in 0..Len(st) PROVE Kept(j, st, hm) \in Seq(Message)
  <2>1. CASE j < Len(st)
    BY <1>1, <2>1, KeptNext
  <2>2. CASE j = 0
    <3>1. Kept(j, st, hm) = << >>
      BY <2>2, KeptNone, Zenon
    <3> QED
      BY <3>1, EmptySeq
  <2>3. CASE j = Len(st) /\ j # 0
    <3>1. /\ j - 1 \in Nat /\ j - 1 < Len(st) /\ (j - 1) + 1 = j
          /\ j \in 1..Len(st)
      BY <1>1, <2>3
    <3>2. PICK l \in Nat : l = j - 1 /\ l < Len(st) /\ l + 1 = j
      BY <3>1
    <3>3. Kept(l, st, hm) \in Seq(Message)
      BY <3>2, KeptNext
    <3>4. \/ Kept(l + 1, st, hm) = Kept(l, st, hm)
          \/ Kept(l + 1, st, hm) = Append(Kept(l, st, hm), st[l + 1])
      <4>1. l < Len(st)
        BY <3>2
      <4>2. Kept(l + 1, st, hm) = IF l + 1 \in hm THEN Kept(l, st, hm)
                                  ELSE Append(Kept(l, st, hm), st[l + 1])
        BY <4>1, KeptNext
      <4> QED
        BY <4>2
    <3>5. st[j] \in Message
      <4>1. j \in 1..Len(st)
        BY <3>1
      <4> QED
        BY <4>1, ElementOfSeq, Zenon
    <3>6. Append(Kept(l, st, hm), st[j]) \in Seq(Message)
      BY <3>3, <3>5, AppendProperties
    <3> QED
      BY <3>2, <3>3, <3>4, <3>6, Zenon
  <2> QED
    BY <1>1, <2>1, <2>2, <2>3
<1> DEFINE K(j) == Kept(d + j, st, hm)
           Starts(j) == /\ Len(K(0)) <= Len(K(j))
                        /\ \A i \in 1..Len(K(0)) : K(0)[i] = K(j)[i]
           I == {j \in Nat : d + j <= e => Starts(j)}
<1>3. \A j \in Nat : d + j <= e => K(j) \in Seq(Message) /\ Len(K(j)) \in Nat
  <2>1. \A j \in Nat : d + j <= e => d + j \in 0..Len(st)
    BY <1>1
  <2> QED
    BY <1>2, <2>1, LenProperties
<1>4. 0 \in I
  <2>1. Len(K(0)) <= Len(K(0))
    BY <1>1, <1>3
  <2> QED
    BY <2>1
<1>5. ASSUME NEW j \in Nat, j \in I PROVE j + 1 \in I
  <2> SUFFICES ASSUME d + (j + 1) <= e PROVE Starts(j + 1)
    OBVIOUS
  <2>1. /\ d + j \in Nat /\ d + j < Len(st) /\ d + j <= e /\ (d + j) + 1 = d + (j + 1)
        /\ (d + j) + 1 \in 1..Len(st)
    BY <1>1
  <2>2. Starts(j)
    BY <1>5, <2>1
  <2>3. K(j + 1) = IF (d + j) + 1 \in hm THEN K(j) ELSE Append(K(j), st[(d + j) + 1])
    BY <2>1, KeptNext
  <2>4. K(j) \in Seq(Message) /\ Len(K(j)) \in Nat /\ Len(K(0)) \in Nat
    BY <1>1, <1>3, <2>1
  <2>5. CASE (d + j) + 1 \notin hm
    <3>1. st[(d + j) + 1] \in Message
      BY <2>1, ElementOfSeq
    <3> HIDE DEF K
    <3>2. Len(K(j + 1)) = Len(K(j)) + 1 /\ \A i \in 1..Len(K(j)) : K(j + 1)[i] = K(j)[i]
      BY <2>3, <2>4, <2>5, <3>1, AppendProperties, SMTT(30)
    <3> QED
      BY <2>2, <2>4, <3>2
  <2> QED
    BY <2>2, <2>3, <2>5
<1>6. e - d \in Nat /\ d + (e - d) = e /\ d + 0 = d
  BY <1>1
<1> HIDE DEF I
<1>7. e - d \in I
  BY <1>4, <1>5, <1>6, EveryNat
<1>8. Starts(e - d)
  BY <1>6, <1>7 DEF I
<1> DEFINE a == Kept(d, st, hm)
           b == Kept(e, st, hm)
<1>9. /\ Len(a) <= Len(b) /\ \A i \in 1..Len(a) : a[i] = b[i]
      /\ a \in Seq(Message) /\ b \in Seq(Message) /\ Len(a) \in Nat /\ Len(b) \in Nat
  BY <1>1, <1>2, <1>6, <1>8, LenProperties
<1> HIDE DEF a, b
<1>10. SubSeq(a, 1, Len(a)) = SubSeq(b, 1, Len(a))
  BY <1>9
<1> QED
  BY <1>9, <1>10 DEF IsPrefix, a, b
-----------------------------------------------------------------------------
(* The first byte on the line.                                              *)

(* The places in a frame.                                                     *)
LEMMA PlacesOf ==
  ASSUME NEW m \in Message
  PROVE  /\ LastPlace(m) = 2 * Len(Packet(m)) + 3
         /\ LastPlace(m) \in Places(m) /\ 1 \in Places(m)
         /\ \A i \in 1..Len(Packet(m)) : 2 * i + 1 \in Places(m)
         /\ \A k \in Places(m) : k \in Nat /\ 1 <= k /\ k <= LastPlace(m)
         /\ \A x \in Marked : IsIn(x, m) =>
              /\ x.k \in Places(m)
              /\ x.k = 1 \/ x.k = LastPlace(m) => x.b = START
              /\ x.k \notin {1, LastPlace(m)} =>
                   \E i \in 1..Len(Packet(m)) : IsOf(x, i, Packet(m))
<1>1. PICK L : L = Len(Packet(m))
  OBVIOUS
<1>2. L \in Nat /\ DOMAIN Packet(m) = 1..L /\ LastPlace(m) = 2 * L + 3
  BY <1>1, PacketBytes DEF LastPlace
<1>3. \A k \in Places(m) : k \in Nat /\ 1 <= k /\ k <= 2 * L + 3
  BY <1>2 DEF Places
<1>4. ASSUME NEW x \in Marked, IsIn(x, m)
      PROVE  /\ x.k \in Places(m)
             /\ x.k = 1 \/ x.k = LastPlace(m) => x.b = START
             /\ x.k \notin {1, LastPlace(m)} => \E i \in 1..L : IsOf(x, i, Packet(m))
  <2>1. CASE x.k \in {1, LastPlace(m)} /\ x.b = START
    BY <2>1 DEF Places
  <2>2. CASE \E i \in DOMAIN Packet(m) : IsOf(x, i, Packet(m))
    <3>1. PICK i \in 1..L : IsOf(x, i, Packet(m))
      BY <1>2, <2>2
    <3>2. x.k \in Places(m) /\ x.k # 1 /\ x.k # 2 * L + 3
      BY <1>2, <3>1 DEF IsOf, Places
    <3> QED
      BY <1>2, <3>1, <3>2
  <2> QED
    BY <1>4, <2>1, <2>2 DEF IsIn
<1>5. LastPlace(m) \in Places(m) /\ 1 \in Places(m) /\ \A i \in 1..L : 2 * i + 1 \in Places(m)
  BY <1>2 DEF Places
<1> QED
  BY <1>1, <1>2, <1>3, <1>4, <1>5

(* It is the next one of the first message the reader has not done with.        *)
LEMMA FirstByte ==
  ASSUME LineInv, NEW d \in Nat, NEW p \in Nat, Reached(d, p), line # << >>
  PROVE  /\ line[1] \in Marked /\ line[1] \in ToSet(line)
         /\ d + 1 \in 1..Len(sent) /\ sent[d + 1] \in Message
         /\ line[1].n = d + 1 /\ line[1].k > p /\ IsIn(line[1], sent[d + 1])
         /\ p = 0 => line[1].k = 1
         /\ \A n, k \in Nat : OnLine(n, k) =>
              n > d + 1 \/ (n = d + 1 /\ k >= line[1].k)
         /\ \A x \in ToSet(line) : x \in Marked /\ (x = line[1] \/ Before(line[1], x))
<1>1. /\ line \in Seq(Marked) /\ line[1] \in ToSet(line) /\ line[1] \in Marked
      /\ \A x \in ToSet(line) : x = line[1] \/ Before(line[1], x)
  BY LineIsMarked, FirstOfOrder DEF Reached, OfMessages
<1>2. \A x \in ToSet(line) : x \in Marked /\ x.n \in Nat /\ x.k \in Nat
  <2>1. \A x \in ToSet(line) : x \in Marked
    BY <1>1, LenProperties, ElementOfSeq DEF ToSet
  <2> QED
    BY <2>1, BeforeIsOrder
<1>3. \A x \in ToSet(line) : /\ x.n \in (d + 1)..Len(sent) /\ IsIn(x, sent[x.n])
                             /\ x.n = d + 1 => x.k > p
  BY DEF Reached, OfMessages
<1>4. Len(sent) \in Nat /\ \A i \in 1..Len(sent) : sent[i] \in Message
  BY LenProperties, ElementOfSeq DEF LineInv
<1>5. d + 1 \in 1..Len(sent) /\ sent[d + 1] \in Message
  BY <1>1, <1>3, <1>4
<1>6. OnLine(d + 1, LastPlace(sent[d + 1])) /\ (p = 0 => OnLine(d + 1, 1))
  BY <1>5 DEF Reached, EndsThere
<1>7. line[1].n = d + 1
  <2>1. PICK x \in ToSet(line) : x.n = d + 1
    BY <1>6 DEF OnLine
  <2> QED
    BY <1>1, <1>2, <1>3, <2>1 DEF Before
<1>8. IsIn(line[1], sent[d + 1]) /\ line[1].k > p /\ line[1].k >= 1
  <2>1. IsIn(line[1], sent[d + 1]) /\ line[1].k > p
    BY <1>1, <1>3, <1>7
  <2> QED
    BY <1>1, <1>2, <2>1
<1>9. ASSUME NEW n \in Nat, NEW k \in Nat, OnLine(n, k)
      PROVE  n > d + 1 \/ (n = d + 1 /\ k >= line[1].k)
  <2>1. PICK x \in ToSet(line) : x.n = n /\ x.k = k
    BY <1>9 DEF OnLine
  <2> QED
    BY <1>1, <1>2, <1>7, <2>1 DEF Before
<1>10. p = 0 => line[1].k = 1
  <2>1. p = 0 => 1 >= line[1].k
    BY <1>6, <1>9
  <2> QED
    BY <1>1, <1>2, <1>8, <2>1
<1> QED
  BY <1>1, <1>2, <1>5, <1>7, <1>8, <1>9, <1>10

(* What is left once it is read.                                              *)
LEMMA FirstRead ==
  ASSUME LineInv, NEW d \in Nat, NEW p \in Nat, Reached(d, p), line # << >>,
         line' = Tail(line), NEW q, q = line[1].k
  PROVE  /\ q \in Nat
         /\ \A n, k \in Nat : OnLine(n, k)' <=> OnLine(n, k) /\ ~(n = d + 1 /\ k = q)
         /\ Ordered(line)'
         /\ \A x \in ToSet(line)' : /\ x \in ToSet(line) /\ x \in Marked
                                    /\ x.n = d + 1 => x.k > q
<1>1. /\ line[1] \in Marked /\ line[1].n = d + 1
      /\ \A x \in ToSet(line) : x \in Marked /\ (x = line[1] \/ Before(line[1], x))
  BY FirstByte
<1>2. Ordered(Tail(line)) /\ ToSet(Tail(line)) = ToSet(line) \ {line[1]}
  BY LineIsMarked, TailOfOrder DEF Reached, OfMessages
<1>3. \A x \in Marked : x.n \in Nat /\ x.k \in Nat
  BY BeforeIsOrder
<1>4. \A x \in ToSet(line) \ {line[1]} : x.n = d + 1 => x.k > q
  BY <1>1, <1>3 DEF Before
<1>5. \A x \in ToSet(line) : x = line[1] <=> x.n = d + 1 /\ x.k = q
  BY <1>1, <1>3, <1>4
<1>6. ASSUME NEW n \in Nat, NEW k \in Nat
      PROVE  OnLine(n, k)' <=> OnLine(n, k) /\ ~(n = d + 1 /\ k = q)
  BY <1>2, <1>5 DEF OnLine
<1>7. Ordered(line)' /\ ToSet(line)' = ToSet(line) \ {line[1]}
  BY <1>2
<1> QED
  BY <1>1, <1>3, <1>4, <1>6, <1>7

(* Reading a byte inside a frame.                                             *)
LEMMA ReachedNext ==
  ASSUME LineInv, NEW d \in Nat, NEW p \in Nat, Reached(d, p), line # << >>,
         line' = Tail(line), UNCHANGED <<sent, harmed>>,
         NEW q, q = line[1].k, q # LastPlace(sent[d + 1])
  PROVE  Reached(d, q)'
<1>1. /\ d + 1 \in 1..Len(sent) /\ sent[d + 1] \in Message /\ q > p
      /\ \A n, k \in Nat : OnLine(n, k) => n > d + 1 \/ (n = d + 1 /\ k >= q)
  BY FirstByte
<1>2. /\ q \in Nat
      /\ \A n, k \in Nat : OnLine(n, k)' <=> OnLine(n, k) /\ ~(n = d + 1 /\ k = q)
      /\ Ordered(line)'
      /\ \A x \in ToSet(line)' : /\ x \in ToSet(line) /\ x \in Marked
                                 /\ x.n = d + 1 => x.k > q
  BY FirstRead
<1>3. Len(sent) \in Nat /\ \A n \in (d + 1)..Len(sent) : n \in Nat /\ sent[n] \in Message
  BY LenProperties, ElementOfSeq DEF LineInv
<1>4. \A n \in (d + 1)..Len(sent) : LastPlace(sent[n]) \in Nat
  BY <1>3, PlacesOf
<1>5. OfMessages(d, q)'
  <2>1. \A x \in ToSet(line)' : x.n \in (d + 1)..Len(sent) /\ IsIn(x, sent[x.n])
    BY <1>2 DEF Reached, OfMessages
  <2>2. \A x \in ToSet(line)' : x.n \in (d + 1)..Len(sent') /\ IsIn(x, sent'[x.n])
    BY <2>1
  <2> QED
    BY <1>2, <2>2 DEF OfMessages
<1>6. EndsThere(d, q)'
  BY <1>1, <1>2, <1>3, <1>4 DEF Reached, EndsThere
<1>7. EscapedThere'
  <2>1. ASSUME NEW n \in Nat, NEW j \in Nat, OnLine(n, 2 * j)'
        PROVE  OnLine(n, 2 * j + 1)'
    <3>1. OnLine(n, 2 * j) /\ ~(n = d + 1 /\ 2 * j = q)
      BY <1>2, <2>1
    <3>2. OnLine(n, 2 * j + 1)
      BY <3>1 DEF Reached, EscapedThere
    <3>3. n > d + 1 \/ (n = d + 1 /\ 2 * j >= q)
      BY <1>1, <3>1
    <3>4. ~(n = d + 1 /\ 2 * j + 1 = q)
      BY <1>2, <3>1, <3>3
    <3> QED
      BY <1>2, <3>2, <3>4
  <2> QED
    BY <2>1 DEF EscapedThere
<1>8. UnharmedThere(d, q)'
  <2>1. ASSUME NEW n \in (d + 1)..Len(sent), n \notin harmed, NEW k \in Places(sent[n]),
               n > d + 1 \/ k > q
        PROVE  OnLine(n, k)'
    <3>1. n \in Nat /\ k \in Nat
      BY <1>3, PlacesOf
    <3>2. OnLine(n, k)
      BY <1>1, <1>2, <2>1, <3>1 DEF Reached, UnharmedThere
    <3> QED
      BY <1>2, <2>1, <3>1, <3>2
  <2> QED
    BY <2>1 DEF UnharmedThere
<1>9. HarmedLack(d, q)'
  <2>1. ASSUME NEW n \in (d + 1)..Len(sent), n \in harmed, n > d + 1
        PROVE  \E k \in Places(sent[n]) : ~OnLine(n, k)'
    <3>1. PICK k \in Places(sent[n]) : ~OnLine(n, k)
      BY <2>1 DEF Reached, HarmedLack
    <3>2. n \in Nat /\ k \in Nat
      BY <1>3, <3>1, PlacesOf
    <3> QED
      BY <1>2, <3>1, <3>2
  <2>2. q # 0
    BY <1>1, <1>2
  <2> QED
    BY <2>1, <2>2 DEF HarmedLack
<1> QED
  BY <1>2, <1>5, <1>6, <1>7, <1>8, <1>9 DEF Reached

(* Reading the end of a frame.                                                *)
LEMMA ReachedDone ==
  ASSUME LineInv, NEW d \in Nat, NEW p \in Nat, Reached(d, p), line # << >>,
         line' = Tail(line), UNCHANGED <<sent, harmed>>,
         line[1].k = LastPlace(sent[d + 1])
  PROVE  Reached(d + 1, 0)'
<1>0. PICK q : q = line[1].k
  OBVIOUS
<1>1. /\ d + 1 \in 1..Len(sent) /\ sent[d + 1] \in Message
      /\ q = LastPlace(sent[d + 1])
  BY <1>0, FirstByte
<1>2. /\ q \in Nat
      /\ \A n, k \in Nat : OnLine(n, k)' <=> OnLine(n, k) /\ ~(n = d + 1 /\ k = q)
      /\ Ordered(line)'
      /\ \A x \in ToSet(line)' : /\ x \in ToSet(line) /\ x \in Marked
                                 /\ x.n = d + 1 => x.k > q
  BY <1>0, FirstRead
<1>3. Len(sent) \in Nat /\ \A n \in (d + 1)..Len(sent) : n \in Nat /\ sent[n] \in Message
  BY LenProperties, ElementOfSeq DEF LineInv
<1>4. \A n \in (d + 1)..Len(sent) : LastPlace(sent[n]) \in Nat
  BY <1>3, PlacesOf
<1>5. ASSUME NEW x \in ToSet(line)'
      PROVE  x.n \in (d + 2)..Len(sent) /\ IsIn(x, sent[x.n]) /\ x.k \in Nat /\ x.k > 0
  <2>1. x \in Marked /\ x.n \in (d + 1)..Len(sent) /\ IsIn(x, sent[x.n])
    BY <1>2 DEF Reached, OfMessages
  <2>2. x.k \in Nat /\ 1 <= x.k /\ x.k <= LastPlace(sent[x.n])
    BY <1>3, <2>1, PlacesOf
  <2>3. x.n # d + 1
    BY <1>1, <1>2, <2>2
  <2> QED
    BY <1>3, <2>1, <2>2, <2>3
<1>6. \A n, k \in Nat : OnLine(n, k)' => n > d + 1 /\ OnLine(n, k)
  BY <1>2, <1>5 DEF OnLine
<1>7. \A n, k \in Nat : n > d + 1 => (OnLine(n, k)' <=> OnLine(n, k))
  BY <1>2
<1>8. \A n \in (d + 2)..Len(sent) : n \in (d + 1)..Len(sent) /\ n > d + 1
  BY <1>3
<1>9. (d + 1) + 1 = d + 2
  OBVIOUS
<1>10. OfMessages(d + 1, 0)'
  BY <1>2, <1>5, <1>9 DEF OfMessages
<1>11. EndsThere(d + 1, 0)'
  BY <1>3, <1>4, <1>7, <1>8, <1>9 DEF Reached, EndsThere
<1>12. EscapedThere'
  <2>1. ASSUME NEW n \in Nat, NEW j \in Nat, OnLine(n, 2 * j)'
        PROVE  OnLine(n, 2 * j + 1)'
    <3>1. OnLine(n, 2 * j) /\ n > d + 1
      BY <1>6, <2>1
    <3>2. OnLine(n, 2 * j + 1)
      BY <3>1 DEF Reached, EscapedThere
    <3> QED
      BY <1>7, <3>1, <3>2
  <2> QED
    BY <2>1 DEF EscapedThere
<1>13. UnharmedThere(d + 1, 0)'
  <2>1. ASSUME NEW n \in (d + 2)..Len(sent), n \notin harmed, NEW k \in Places(sent[n])
        PROVE  OnLine(n, k)'
    <3>1. n \in (d + 1)..Len(sent) /\ n > d + 1 /\ n \in Nat /\ k \in Nat
      BY <1>3, <1>8, PlacesOf
    <3>2. OnLine(n, k)
      BY <2>1, <3>1 DEF Reached, UnharmedThere
    <3> QED
      BY <1>7, <3>1, <3>2
  <2> QED
    BY <1>9, <2>1 DEF UnharmedThere
<1>14. HarmedLack(d + 1, 0)'
  <2>1. ASSUME NEW n \in (d + 2)..Len(sent), n \in harmed
        PROVE  \E k \in Places(sent[n]) : ~OnLine(n, k)'
    <3>1. n \in (d + 1)..Len(sent) /\ n > d + 1
      BY <1>8
    <3>2. PICK k \in Places(sent[n]) : ~OnLine(n, k)
      BY <2>1, <3>1 DEF Reached, HarmedLack
    <3>3. n \in Nat /\ k \in Nat
      BY <1>3, <3>1, <3>2, PlacesOf
    <3> QED
      BY <1>7, <3>1, <3>2, <3>3
  <2> QED
    BY <1>9, <2>1 DEF HarmedLack
<1>15. d + 1 \in 0..Len(sent)
  BY <1>1
<1> QED
  BY <1>10, <1>11, <1>12, <1>13, <1>14, <1>15 DEF Reached
-----------------------------------------------------------------------------
(* What is left of the first bytes of a packet.                             *)

\* Byte b is byte c of a packet, or what is left of it without its ESC.
ReadAs(b, c) == b = c \/ (c \in Special /\ b = Xor(c))

(* No more bytes are left than there were.                                    *)
LEMMA LeftAreFewer ==
  ASSUME NEW u \in Nat, NEW packet, NEW bytes \in Seq(Bytes), LeftOfFirst(u, packet, bytes)
  PROVE  Len(bytes) <= u
<1>1. Len(bytes) \in Nat
  BY LenProperties
<1>2. PICK from \in [1..Len(bytes) -> 1..u] :
        \A i, j \in 1..Len(bytes) : i < j => from[i] < from[j]
  BY DEF LeftOfFirst
<1> DEFINE I == {i \in Nat : i \in 1..Len(bytes) => i <= from[i]}
<1>3. 0 \in I
  BY <1>1
<1>4. ASSUME NEW i \in Nat, i \in I PROVE i + 1 \in I
  <2>1. ASSUME i + 1 \in 1..Len(bytes) PROVE i + 1 <= from[i + 1]
    <3>1. from[i + 1] \in 1..u
      BY <1>2, <2>1
    <3>2. CASE i = 0
      BY <3>1, <3>2
    <3>3. CASE i # 0
      <4>1. i \in 1..Len(bytes) /\ i < i + 1
        BY <1>1, <2>1, <3>3
      <4>2. from[i] < from[i + 1] /\ i <= from[i] /\ from[i] \in 1..u
        BY <1>2, <1>4, <2>1, <4>1
      <4> QED
        BY <3>1, <4>2
    <3> QED
      BY <3>2, <3>3
  <2> QED
    BY <2>1
<1> HIDE DEF I
<1>5. Len(bytes) \in I
  BY <1>1, <1>3, <1>4, EveryNat
<1>6. CASE Len(bytes) = 0
  BY <1>6
<1>7. CASE Len(bytes) # 0
  <2>1. Len(bytes) \in 1..Len(bytes)
    BY <1>1, <1>7
  <2>2. from[Len(bytes)] \in 1..u /\ Len(bytes) <= from[Len(bytes)]
    BY <1>2, <1>5, <2>1 DEF I
  <2> QED
    BY <1>1, <2>2
<1> QED
  BY <1>6, <1>7

(* Bytes that are lost leave it so; and so does one that is read.               *)
LEMMA LeftOfMore ==
  ASSUME NEW u \in Nat, NEW v \in Nat, u <= v, NEW packet, NEW bytes,
         LeftOfFirst(u, packet, bytes)
  PROVE  LeftOfFirst(v, packet, bytes)
<1>1. 1..u \subseteq 1..v
  OBVIOUS
<1>2. [1..Len(bytes) -> 1..u] \subseteq [1..Len(bytes) -> 1..v]
  BY <1>1
<1> QED
  BY <1>2 DEF LeftOfFirst

LEMMA LeftAndNext ==
  ASSUME NEW u \in Nat, NEW v \in Nat, u < v, NEW packet, NEW bytes \in Seq(Bytes),
         LeftOfFirst(u, packet, bytes), NEW b \in Bytes, ReadAs(b, packet[v])
  PROVE  LeftOfFirst(v, packet, Append(bytes, b))
<1>1. PICK r : r = Append(bytes, b)
  OBVIOUS
<1>2. PICK l : l = Len(bytes)
  OBVIOUS
<1>3. /\ l \in Nat /\ Len(r) = l + 1 /\ r[l + 1] = b
      /\ \A i \in 1..l : r[i] = bytes[i]
  BY <1>1, <1>2, AppendProperties, LenProperties
<1>4. PICK from \in [1..l -> 1..u] :
        /\ \A i, j \in 1..l : i < j => from[i] < from[j]
        /\ \A i \in 1..l : ReadAs(bytes[i], packet[from[i]])
  BY <1>2 DEF LeftOfFirst, ReadAs
<1> DEFINE fr == [i \in 1..(l + 1) |-> IF i = l + 1 THEN v ELSE from[i]]
<1>5. \A i \in 1..(l + 1) : i = l + 1 \/ (i \in 1..l /\ i # l + 1)
  BY <1>3
<1>6. fr[l + 1] = v /\ \A i \in 1..l : fr[i] = from[i] /\ from[i] \in 1..u
  BY <1>3, <1>4, <1>5
<1>7. fr \in [1..(l + 1) -> 1..v]
  BY <1>4, <1>5
<1> HIDE DEF fr
<1>8. ASSUME NEW i \in 1..(l + 1), NEW j \in 1..(l + 1), i < j PROVE fr[i] < fr[j]
  <2>1. i \in 1..l
    BY <1>3, <1>8
  <2>2. fr[i] = from[i] /\ from[i] \in 1..u
    BY <1>6, <2>1
  <2>3. CASE j = l + 1
    BY <1>6, <2>2, <2>3
  <2>4. CASE j \in 1..l
    BY <1>4, <1>6, <1>8, <2>1, <2>4
  <2> QED
    BY <1>5, <2>3, <2>4
<1>9. \A i \in 1..(l + 1) : ReadAs(r[i], packet[fr[i]])
  BY <1>3, <1>4, <1>5, <1>6
<1>10. LeftOfFirst(v, packet, r)
  BY <1>3, <1>7, <1>8, <1>9 DEF LeftOfFirst, ReadAs
<1> QED
  BY <1>1, <1>10

(* As long as none is lost, all are there.                                    *)
LEMMA AllAndNext ==
  ASSUME NEW u \in Nat, NEW packet, NEW bytes \in Seq(Bytes), NEW b \in Bytes
  PROVE  /\ AllOfFirst(u, packet, bytes) /\ b = packet[u + 1] =>
              AllOfFirst(u + 1, packet, Append(bytes, b))
         /\ AllOfFirst(u + 1, packet, Append(bytes, b)) =>
              AllOfFirst(u, packet, bytes) /\ b = packet[u + 1]
<1>1. PICK r : r = Append(bytes, b)
  OBVIOUS
<1>2. PICK l : l = Len(bytes)
  OBVIOUS
<1>3. /\ l \in Nat /\ Len(r) = l + 1 /\ r[l + 1] = b
      /\ \A i \in 1..l : r[i] = bytes[i]
  BY <1>1, <1>2, AppendProperties, LenProperties
<1>4. \A i \in 1..(u + 1) : i = u + 1 \/ i \in 1..u
  OBVIOUS
<1>5. 1..u \subseteq 1..(u + 1) /\ u + 1 \in 1..(u + 1)
  OBVIOUS
<1>6. AllOfFirst(u, packet, bytes) /\ b = packet[u + 1] => AllOfFirst(u + 1, packet, r)
  BY <1>2, <1>3, <1>4 DEF AllOfFirst
<1>7. ASSUME AllOfFirst(u + 1, packet, r)
      PROVE  AllOfFirst(u, packet, bytes) /\ b = packet[u + 1]
  <2>1. l = u /\ \A i \in 1..(u + 1) : r[i] = packet[i]
    BY <1>3, <1>7 DEF AllOfFirst
  <2> QED
    BY <1>2, <1>3, <1>5, <2>1 DEF AllOfFirst
<1> QED
  BY <1>1, <1>6, <1>7
-----------------------------------------------------------------------------
(* Reading, in step.                                                        *)

(* The first end of a frame.                                                  *)
LEMMA FrameBegins ==
  ASSUME LineInv, NEW d \in Nat, NEW p \in Nat, Reached(d, p), handled = Unharmed(d),
         Between(p), ReadByte \/ ReadNothing \/ \E m \in Message : ReadEnd(m)
  PROVE  InStep(d, 1)'
<1>1. line # << >> /\ line' = Tail(line) /\ UNCHANGED <<sent, harmed>>
  BY DEF ReadByte, ReadNothing, ReadEnd, harm
<1>2. /\ d + 1 \in 1..Len(sent) /\ sent[d + 1] \in Message /\ line[1] \in Marked
      /\ line[1].k = 1 /\ IsIn(line[1], sent[d + 1])
      /\ \A n, k \in Nat : OnLine(n, k) => n > d + 1 \/ (n = d + 1 /\ k >= 1)
  BY <1>1, FirstByte DEF Between
<1>3. line[1].b = START
  BY <1>2, PlacesOf
<1>4. Len(<< >>) = 0 /\ Len(<<START>>) = 1
  OBVIOUS
<1>5. ~escaped /\ ~AtEnd /\ Len(rxserialbuf) <= 2 /\ p = 0
  <2>1. ~escaped /\ p = 0 /\ (rxserialbuf = << >> \/ rxserialbuf = <<START>>)
    BY Zenon DEF Between
  <2>2. Len(rxserialbuf) = 0 \/ Len(rxserialbuf) = 1
    BY <1>4, <2>1, Zenon
  <2>3. Len(rxserialbuf) <= 2 /\ ~(Len(rxserialbuf) > 2)
    BY <2>2
  <2> QED
    BY <2>1, <2>3 DEF AtEnd
<1>6. rxserialbuf' = <<START>> /\ UNCHANGED <<escaped, handled>>
  <2>1. ReadByte
    BY <1>5 DEF ReadNothing, ReadEnd
  <2>2. START \in Special /\ START # ESC
    BY Escapes
  <2> QED
    BY <1>3, <1>5, <2>1, <2>2 DEF ReadByte, Special
<1>7. 1 # LastPlace(sent[d + 1]) /\ Len(sent) \in Nat /\ Len(Packet(sent[d + 1])) \in Nat
  <2>1. /\ LastPlace(sent[d + 1]) = 2 * Len(Packet(sent[d + 1])) + 3
        /\ Len(Packet(sent[d + 1])) \in Nat
    BY <1>2, PlacesOf, PacketBytes
  <2> QED
    BY <2>1, LenProperties DEF LineInv
<1>8. Reached(d, 1)'
  BY <1>1, <1>2, <1>7, ReachedNext
<1>9. Within(d, 1, 0)'
  <2> DEFINE packet == Packet(sent[d + 1])
             none == Tail(<<START>>)
  <2>1. <<START>> # << >> /\ <<START>>[1] = START /\ none = << >> /\ Len(none) = 0
    OBVIOUS
  <2>2. d < Len(sent) /\ 0 \in 0..Len(packet)
    BY <1>2, <1>7
  <2>3. LeftOfFirst(0, packet, none)
    <3>1. [i \in 1..0 |-> 0] \in [1..Len(none) -> 1..0]
      BY <2>1
    <3>2. \A i \in 1..Len(none) : FALSE
      BY <2>1
    <3> HIDE DEF none, packet
    <3> QED
      BY <3>1, <3>2 DEF LeftOfFirst
  <2>4. AllOfFirst(0, packet, none)
    BY <2>1 DEF AllOfFirst
  <2>5. d + 1 \in harmed => \E k \in Places(sent[d + 1]) : k > 1 /\ ~OnLine(d + 1, k)'
    <3> SUFFICES ASSUME d + 1 \in harmed
                 PROVE  \E k \in Places(sent[d + 1]) : k > 1 /\ ~OnLine(d + 1, k)'
      OBVIOUS
    <3>1. d + 1 \in (d + 1)..Len(sent)
      BY <1>2, <1>7
    <3>2. PICK k \in Places(sent[d + 1]) : ~OnLine(d + 1, k)
      BY <1>5, <3>1 DEF Reached, HarmedLack
    <3>3. OnLine(d + 1, 1)
      BY <1>5, <3>1 DEF Reached, EndsThere
    <3>4. k \in Nat /\ 1 <= k /\ k # 1
      BY <1>2, <3>2, <3>3, PlacesOf
    <3>5. ~OnLine(d + 1, k)'
      BY <1>1, <1>2, <3>2, <3>4, FirstRead
    <3> QED
      BY <3>4, <3>5
  <2> HIDE DEF none, packet
  <2>6. /\ d < Len(sent') /\ 0 \in 0..Len(Packet(sent'[d + 1]))
        /\ LeftOfFirst(0, Packet(sent'[d + 1]), Tail(rxserialbuf'))
        /\ AllOfFirst(0, Packet(sent'[d + 1]), Tail(rxserialbuf'))
        /\ d + 1 \in harmed' => \E k \in Places(sent'[d + 1]) : k > 1 /\ ~OnLine(d + 1, k)'
    BY <1>1, <1>6, <2>2, <2>3, <2>4, <2>5 DEF none, packet
  <2> QED
    BY <1>5, <1>6, <2>1, <2>6 DEF Within
<1>10. (handled = Unharmed(d))'
  BY <1>1, <1>6 DEF Unharmed
<1> QED
  BY <1>8, <1>9, <1>10 DEF InStep

(* What comes next inside a frame.                                            *)
LEMMA WithinFirst ==
  ASSUME LineInv, NEW d \in Nat, NEW p \in Nat, NEW u \in Nat,
         Reached(d, p), Within(d, p, u), line # << >>
  PROVE  LET m == sent[d + 1]
         IN  /\ u <= Len(Packet(m)) /\ line[1].k # 1
             /\ escaped => /\ u + 1 <= Len(Packet(m)) /\ Packet(m)[u + 1] \in Special
                           /\ line[1].k = 2 * u + 3 /\ line[1].b = Xor(Packet(m)[u + 1])
             /\ ~escaped => \/ line[1].k = LastPlace(m) /\ line[1].b = START
                            \/ \E i \in (u + 1)..Len(Packet(m)) : IsOf(line[1], i, Packet(m))
<1>1. PICK m : m = sent[d + 1]
  OBVIOUS
<1>2. PICK L : L = Len(Packet(m))
  OBVIOUS
<1>3. PICK q : q = line[1].k
  OBVIOUS
<1>4. /\ m \in Message /\ line[1] \in Marked /\ q \in Nat /\ q > p /\ IsIn(line[1], m)
      /\ \A n, k \in Nat : OnLine(n, k) => n > d + 1 \/ (n = d + 1 /\ k >= q)
  BY <1>1, <1>3, FirstByte, BeforeIsOrder
<1>5. L \in Nat /\ LastPlace(m) = 2 * L + 3
  BY <1>2, <1>4, PacketBytes, PlacesOf
<1>6. /\ u <= L
      /\ \/ ~escaped /\ p = 2 * u + 1
         \/ /\ escaped /\ p = 2 * u + 2 /\ OnLine(d + 1, 2 * u + 3)
            /\ u < L /\ Packet(m)[u + 1] \in Special
  BY <1>1, <1>2, <1>5 DEF Within
<1>7. q # 1
  BY <1>4, <1>6
<1>8. /\ q = 2 * L + 3 => line[1].b = START
      /\ q # 2 * L + 3 => \E i \in 1..L : IsOf(line[1], i, Packet(m))
  BY <1>2, <1>3, <1>4, <1>5, <1>7, PlacesOf
<1>9. ASSUME escaped
      PROVE  /\ u + 1 <= L /\ Packet(m)[u + 1] \in Special
             /\ q = 2 * u + 3 /\ line[1].b = Xor(Packet(m)[u + 1])
  <2>1. /\ p = 2 * u + 2 /\ OnLine(d + 1, 2 * u + 3) /\ u < L
        /\ Packet(m)[u + 1] \in Special
    BY <1>6, <1>9
  <2>2. q = 2 * u + 3
    BY <1>4, <2>1
  <2>3. PICK i \in 1..L : IsOf(line[1], i, Packet(m))
    BY <1>5, <1>8, <2>1, <2>2
  <2>4. i = u + 1 /\ line[1].k # 2 * i
    BY <1>3, <2>2, <2>3 DEF IsOf
  <2> QED
    BY <1>5, <2>1, <2>2, <2>3, <2>4 DEF IsOf
<1>10. ASSUME ~escaped
       PROVE  \/ q = 2 * L + 3 /\ line[1].b = START
              \/ \E i \in (u + 1)..L : IsOf(line[1], i, Packet(m))
  <2>1. p = 2 * u + 1
    BY <1>6, <1>10
  <2>2. CASE q # 2 * L + 3
    <3>1. PICK i \in 1..L : IsOf(line[1], i, Packet(m))
      BY <1>8, <2>2
    <3>2. i >= u + 1
      BY <1>3, <1>4, <2>1, <3>1 DEF IsOf
    <3> QED
      BY <1>5, <3>1, <3>2
  <2> QED
    BY <1>8, <2>2
<1> QED
  BY <1>1, <1>2, <1>3, <1>5, <1>6, <1>7, <1>9, <1>10

(* An ESC.                                                                    *)
LEMMA EscIsRead ==
  ASSUME LineInv, NEW d \in Nat, NEW p \in Nat, NEW u \in Nat, Reached(d, p),
         handled = Unharmed(d), Within(d, p, u), ~escaped, line # << >>,
         NEW i \in (u + 1)..Len(Packet(sent[d + 1])),
         line[1].k = 2 * i, Packet(sent[d + 1])[i] \in Special,
         line' = Tail(line), escaped' = TRUE,
         UNCHANGED <<rxserialbuf, sent, harmed, handled>>
  PROVE  InStep(d, 2 * i)'
<1>1. PICK m : m = sent[d + 1]
  OBVIOUS
<1>2. PICK L : L = Len(Packet(m))
  OBVIOUS
<1>3. /\ m \in Message /\ d + 1 \in 1..Len(sent) /\ line[1] \in ToSet(line)
      /\ line[1].n = d + 1
  BY <1>1, FirstByte
<1>4. L \in Nat /\ LastPlace(m) = 2 * L + 3 /\ u \in 0..L /\ i \in 1..L
  BY <1>1, <1>2, <1>3, PacketBytes, PlacesOf DEF Within
<1>5. Reached(d, 2 * i)'
  <2>1. 2 * i # LastPlace(sent[d + 1])
    BY <1>1, <1>4
  <2> QED
    BY <2>1, ReachedNext
<1>6. OnLine(d + 1, 2 * i + 1)'
  <2>1. OnLine(d + 1, 2 * i)
    BY <1>3 DEF OnLine
  <2>2. OnLine(d + 1, 2 * i + 1)
    BY <1>4, <2>1 DEF Reached, EscapedThere
  <2>3. 2 * i + 1 \in Nat /\ 2 * i + 1 # 2 * i /\ d + 1 \in Nat
    BY <1>4
  <2> QED
    BY <2>2, <2>3, FirstRead
<1> DEFINE bytes == Tail(rxserialbuf)
           v == i - 1
<1>7. v \in Nat /\ u <= v /\ v < L /\ 2 * i = 2 * v + 2 /\ 2 * i + 1 = 2 * v + 3 /\ v + 1 = i
  BY <1>1, <1>2, <1>4
<1>8. /\ rxserialbuf # << >> /\ rxserialbuf[1] = START /\ d < Len(sent)
      /\ LeftOfFirst(u, Packet(m), bytes)
      /\ d + 1 \notin harmed => AllOfFirst(u, Packet(m), bytes)
      /\ p = 2 * u + 1
  BY <1>1 DEF Within
<1>9. bytes \in Seq(Bytes)
  BY <1>8, HeadTailProperties DEF LineInv
<1> HIDE DEF bytes, v
<1>10. LeftOfFirst(v, Packet(m), bytes) /\ Len(bytes) <= u /\ Len(bytes) \in Nat
  BY <1>7, <1>8, <1>9, LeftOfMore, LeftAreFewer, LenProperties
<1>11. d + 1 \notin harmed => AllOfFirst(v, Packet(m), bytes)
  <2> SUFFICES ASSUME d + 1 \notin harmed PROVE AllOfFirst(v, Packet(m), bytes)
    OBVIOUS
  <2>1. d + 1 \in (d + 1)..Len(sent) /\ d + 1 \in Nat
    BY <1>3
  <2>2. 2 * u + 3 \in Places(m) /\ 2 * u + 3 > p
    <3>1. u + 1 \in 1..L /\ 2 * (u + 1) + 1 = 2 * u + 3
      <4>1. u \in Nat /\ u < L
        BY <1>4, <1>7
      <4> QED
        BY <1>4, <4>1
    <3>2. 2 * (u + 1) + 1 \in Places(m)
      BY <1>2, <1>3, <3>1, PlacesOf
    <3> QED
      BY <1>4, <1>8, <3>1, <3>2
  <2>3. OnLine(d + 1, 2 * u + 3)
    BY <1>1, <2>1, <2>2 DEF Reached, UnharmedThere
  <2>4. 2 * u + 3 >= 2 * i
    BY <1>4, <2>1, <2>3, FirstByte
  <2>5. v = u
    <3>1. u \in Nat /\ v \in Nat /\ u <= v /\ i = v + 1 /\ 2 * u + 3 >= 2 * i
      BY <1>7, <2>4
    <3>2. 2 * u + 3 >= 2 * v + 2
      BY <3>1
    <3> QED
      BY <3>1, <3>2
  <2> QED
    BY <1>8, <2>5
<1>12. ASSUME AllOfFirst(v, Packet(m), bytes), d + 1 \in harmed
       PROVE  \E k \in Places(m) : k > 2 * i /\ ~OnLine(d + 1, k)'
  <2>1. v = u
    BY <1>7, <1>10, <1>12, SMTT(30) DEF AllOfFirst
  <2>2. PICK k \in Places(m) : k > p /\ ~OnLine(d + 1, k)
    BY <1>1, <1>12, <2>1 DEF Within, bytes
  <2>3. k \in Nat /\ p = 2 * i - 1 /\ OnLine(d + 1, 2 * i)
    <3>1. k \in Nat
      BY <1>3, <2>2, PlacesOf
    <3>2. OnLine(d + 1, 2 * i)
      BY <1>3 DEF OnLine
    <3> QED
      BY <1>4, <1>7, <1>8, <2>1, <3>1, <3>2
  <2>4. k > 2 * i
    <3>1. k # 2 * i
      BY <2>2, <2>3, Zenon
    <3> QED
      BY <1>4, <2>2, <2>3, <3>1
  <2> QED
    BY <2>2, <2>3, <2>4, FirstRead
<1>13. Within(d, 2 * i, v)'
  <2>1. /\ (d < Len(sent))' /\ (v \in 0..Len(Packet(sent[d + 1])))'
        /\ (rxserialbuf # << >>)' /\ (rxserialbuf[1] = START)'
    BY <1>1, <1>2, <1>7, <1>8
  <2>2. /\ escaped' /\ 2 * i = 2 * v + 2 /\ OnLine(d + 1, 2 * v + 3)'
        /\ (v < Len(Packet(sent[d + 1])))' /\ (Packet(sent[d + 1])[v + 1] \in Special)'
    BY <1>1, <1>2, <1>6, <1>7
  <2>3. LeftOfFirst(v, Packet(sent'[d + 1]), Tail(rxserialbuf'))
    BY <1>1, <1>10 DEF bytes
  <2>4. /\ AllOfFirst(v, Packet(sent'[d + 1]), Tail(rxserialbuf')) =>
             (d + 1 \in harmed' =>
                \E k \in Places(sent'[d + 1]) : k > 2 * i /\ ~OnLine(d + 1, k)')
        /\ d + 1 \notin harmed' => AllOfFirst(v, Packet(sent'[d + 1]), Tail(rxserialbuf'))
    BY <1>1, <1>11, <1>12 DEF bytes
  <2> QED
    BY <2>1, <2>2, <2>3, <2>4 DEF Within
<1>14. (handled = Unharmed(d))'
  BY DEF Unharmed
<1> QED
  BY <1>5, <1>7, <1>13, <1>14 DEF InStep

(* The buffer has room for a byte of a packet.                                *)
LEMMA BufferNext ==
  ASSUME LineInv, NEW m \in Message, NEW u \in Nat, u < Len(Packet(m)), NEW b \in Bytes,
         rxserialbuf # << >>, rxserialbuf[1] = START,
         LeftOfFirst(u, Packet(m), Tail(rxserialbuf)), Stored(b)
  PROVE  /\ rxserialbuf' # << >> /\ rxserialbuf'[1] = START
         /\ Tail(rxserialbuf') = Append(Tail(rxserialbuf), b)
         /\ Tail(rxserialbuf) \in Seq(Bytes) /\ Len(Tail(rxserialbuf)) \in Nat
         /\ Len(Tail(rxserialbuf)) <= u
<1>1. PICK s : s = rxserialbuf
  OBVIOUS
<1>2. /\ s \in Seq(Bytes) /\ Tail(s) \in Seq(Bytes) /\ Len(Tail(s)) = Len(s) - 1
      /\ Len(s) \in Nat /\ Len(s) # 0
  BY <1>1, HeadTailProperties, LenProperties, EmptySeq DEF LineInv
<1>3. Len(Tail(s)) <= u
  BY <1>1, <1>2, LeftAreFewer
<1>4. /\ Len(Packet(m)) = Len(Body[m]) + 1 /\ Len(Packet(m)) \in Nat
      /\ Len(Body[m]) + 3 <= LongestPacket /\ LongestPacket < SINKMTU
      /\ LongestPacket \in Nat /\ SINKMTU \in Nat
  BY PacketBytes, SerialAssumption
<1>5. Len(Body[m]) = Len(Packet(m)) - 1
  <2>1. Len(Body[m]) \in Nat
    BY SerialAssumption, LenProperties
  <2> QED
    BY <1>4, <2>1
<1>6. Len(s) + 1 # SINKMTU
  BY <1>2, <1>3, <1>4, <1>5
<1>7. rxserialbuf' = Append(s, b)
  BY <1>1, <1>6 DEF Stored
<1>8. /\ Append(s, b) \in Seq(Bytes) /\ Append(s, b) # << >> /\ Append(s, b)[1] = START
      /\ Tail(Append(s, b)) = Append(Tail(s), b)
  <2>1. /\ Append(s, b) \in Seq(Bytes) /\ Len(Append(s, b)) = Len(s) + 1
        /\ \A i \in 1..Len(s) : Append(s, b)[i] = s[i]
        /\ Append(s, b)[Len(s) + 1] = b
    BY <1>2, AppendProperties
  <2>2. PICK r : r = Append(s, b)
    OBVIOUS
  <2>3. /\ r \in Seq(Bytes) /\ r # << >> /\ r[1] = START
        /\ Tail(r) \in Seq(Bytes) /\ Len(Tail(r)) = Len(s)
        /\ \A i \in 1..Len(s) : Tail(r)[i] = r[i + 1]
    <3>1. r \in Seq(Bytes) /\ Len(r) = Len(s) + 1 /\ r # << >>
      BY <1>2, <2>1, <2>2, EmptySeq
    <3>2. 1 \in 1..Len(s)
      BY <1>2
    <3>3. r[1] = START
      BY <1>1, <2>1, <2>2, <3>2
    <3> QED
      BY <1>2, <3>1, <3>3, HeadTailProperties
  <2>4. PICK t : t = Append(Tail(s), b)
    OBVIOUS
  <2>5. /\ t \in Seq(Bytes) /\ Len(t) = Len(s) /\ t[Len(s)] = b
        /\ \A i \in 1..(Len(s) - 1) : t[i] = s[i + 1]
    <3>1. /\ t \in Seq(Bytes) /\ Len(t) = Len(Tail(s)) + 1
          /\ \A i \in 1..Len(Tail(s)) : t[i] = Tail(s)[i]
          /\ t[Len(Tail(s)) + 1] = b
      BY <1>2, <2>4, AppendProperties
    <3>2. \A i \in 1..(Len(s) - 1) : Tail(s)[i] = s[i + 1]
      BY <1>1, <1>2, HeadTailProperties
    <3>3. Len(Tail(s)) + 1 = Len(s)
      BY <1>2
    <3> QED
      BY <1>2, <3>1, <3>2, <3>3
  <2>6. \A i \in 1..Len(s) : Tail(r)[i] = t[i]
    <3> SUFFICES ASSUME NEW i \in 1..Len(s) PROVE Tail(r)[i] = t[i]
      OBVIOUS
    <3>1. Tail(r)[i] = r[i + 1]
      BY <2>3
    <3>2. CASE i = Len(s)
      BY <2>1, <2>2, <2>5, <3>1, <3>2
    <3>3. CASE i # Len(s)
      <4>1. i \in 1..(Len(s) - 1) /\ i + 1 \in 1..Len(s)
        <5>1. Len(s) \in Nat
          BY <1>2
        <5> QED
          BY <3>3, <5>1
      <4>2. t[i] = s[i + 1] /\ r[i + 1] = s[i + 1]
        <5>1. r[i + 1] = s[i + 1]
          BY <2>1, <2>2, <4>1, Zenon
        <5> QED
          BY <2>5, <4>1, <5>1
      <4> QED
        BY <3>1, <4>2
    <3> QED
      BY <3>2, <3>3
  <2>7. Tail(r) = t
    BY <2>3, <2>5, <2>6, SeqEqual
  <2> QED
    BY <2>2, <2>3, <2>4, <2>7
<1> QED
  BY <1>1, <1>2, <1>3, <1>7, <1>8

(* A byte of the packet.                                                      *)
LEMMA ByteIsRead ==
  ASSUME LineInv, NEW d \in Nat, NEW p \in Nat, NEW u \in Nat, Reached(d, p),
         handled = Unharmed(d), Within(d, p, u), line # << >>,
         NEW i \in (u + 1)..Len(Packet(sent[d + 1])),
         line[1].k = 2 * i + 1, IsOf(line[1], i, Packet(sent[d + 1])),
         NEW b, b = IF escaped THEN Xor(line[1].b) ELSE line[1].b, Stored(b),
         escaped => i = u + 1 /\ Packet(sent[d + 1])[i] \in Special,
         line' = Tail(line), escaped' = FALSE,
         UNCHANGED <<sent, harmed, handled>>
  PROVE  InStep(d, 2 * i + 1)'
<1>1. PICK m : m = sent[d + 1]
  OBVIOUS
<1>2. PICK L : L = Len(Packet(m))
  OBVIOUS
<1>3. /\ m \in Message /\ d + 1 \in 1..Len(sent) /\ line[1] \in ToSet(line)
      /\ line[1].n = d + 1
  BY <1>1, FirstByte
<1>4. L \in Nat /\ LastPlace(m) = 2 * L + 3 /\ u \in 0..L /\ i \in 1..L /\ u < i
  <2>1. L \in Nat /\ LastPlace(m) = 2 * L + 3 /\ u \in 0..L
    BY <1>1, <1>2, <1>3, PacketBytes, PlacesOf DEF Within
  <2>2. i \in (u + 1)..L
    BY <1>1, <1>2
  <2> QED
    BY <2>1, <2>2
<1>5. Reached(d, 2 * i + 1)'
  <2>1. 2 * i + 1 # LastPlace(sent[d + 1])
    BY <1>1, <1>4
  <2> QED
    BY <2>1, ReachedNext
<1>6. /\ ReadAs(b, Packet(m)[i]) /\ b \in Bytes
      /\ ~escaped /\ b = Packet(m)[i] => Packet(m)[i] \notin Special
      /\ escaped \/ Packet(m)[i] \notin Special => b = Packet(m)[i]
  <2>1. line[1].b = IF Packet(m)[i] \in Special THEN Xor(Packet(m)[i]) ELSE Packet(m)[i]
    <3>1. line[1].k # 2 * i
      BY <1>4
    <3> QED
      BY <1>1, <3>1 DEF IsOf
  <2>2. Packet(m)[i] \in Bytes
    BY <1>2, <1>3, <1>4, PacketBytes
  <2>3. escaped => Packet(m)[i] \in Special
    BY <1>1
  <2> QED
    BY <2>1, <2>2, <2>3, Escapes DEF ReadAs
<1> DEFINE bytes == Tail(rxserialbuf)
           more == Append(bytes, b)
<1>7. /\ rxserialbuf # << >> /\ rxserialbuf[1] = START /\ d < Len(sent)
      /\ LeftOfFirst(u, Packet(m), bytes)
      /\ d + 1 \notin harmed => AllOfFirst(u, Packet(m), bytes)
      /\ ~escaped => p = 2 * u + 1
      /\ escaped => p = 2 * u + 2
  BY <1>1, Zenon DEF Within
<1>8. u < Len(Packet(m))
  BY <1>2, <1>4
<1>9. /\ rxserialbuf' # << >> /\ rxserialbuf'[1] = START
      /\ Tail(rxserialbuf') = more
      /\ bytes \in Seq(Bytes) /\ Len(bytes) \in Nat /\ Len(bytes) <= u
  BY <1>3, <1>6, <1>7, <1>8, BufferNext
<1> HIDE DEF bytes
<1>10. LeftOfFirst(i, Packet(m), more)
  BY <1>4, <1>6, <1>7, <1>9, LeftAndNext, SMTT(30)
<1>11. Len(more) = Len(bytes) + 1
  BY <1>6, <1>9, AppendProperties
<1>12. /\ AllOfFirst(u, Packet(m), bytes) /\ b = Packet(m)[u + 1] =>
             AllOfFirst(u + 1, Packet(m), more)
       /\ AllOfFirst(u + 1, Packet(m), more) =>
             AllOfFirst(u, Packet(m), bytes) /\ b = Packet(m)[u + 1]
  BY <1>6, <1>9, AllAndNext
<1> HIDE DEF more
<1>13. d + 1 \notin harmed => AllOfFirst(i, Packet(m), more)
  <2> SUFFICES ASSUME d + 1 \notin harmed PROVE AllOfFirst(i, Packet(m), more)
    OBVIOUS
  <2>1. d + 1 \in (d + 1)..Len(sent) /\ d + 1 \in Nat
    BY <1>3
  <2>2. \A k \in Places(m) : k > p => k \in Nat /\ OnLine(d + 1, k)
    BY <1>1, <1>3, <2>1, PlacesOf DEF Reached, UnharmedThere
  <2>3. \A k \in Places(m) : k > p => k >= 2 * i + 1
    BY <2>1, <2>2, FirstByte
  <2>4. 2 * (u + 1) + 1 \in Places(m)
    <3>1. u + 1 \in 1..L
      BY <1>4, SMTT(30)
    <3> QED
      BY <1>2, <1>3, <3>1, PlacesOf
  <2>5. 2 * (u + 1) + 1 > p
    BY <1>7
  <2>6. i = u + 1
    BY <1>4, <2>3, <2>4, <2>5
  <2>7. ~escaped => Packet(m)[i] \notin Special
    <3> SUFFICES ASSUME ~escaped, Packet(m)[i] \in Special PROVE FALSE
      OBVIOUS
    <3>1. 2 * i \in Places(m)
      <4>1. i \in DOMAIN Packet(m)
        BY <1>2, <1>3, <1>4, PacketBytes
      <4> QED
        BY <4>1 DEF Places
    <3>2. 2 * i > p
      BY <1>4, <1>7, <2>6
    <3> QED
      BY <1>4, <2>3, <3>1, <3>2
  <2>8. b = Packet(m)[u + 1]
    BY <1>6, <2>6, <2>7
  <2> QED
    BY <1>7, <1>12, <2>6, <2>8
<1>14. ASSUME AllOfFirst(i, Packet(m), more), d + 1 \in harmed
       PROVE  \E k \in Places(m) : k > 2 * i + 1 /\ ~OnLine(d + 1, k)'
  <2>1. i = u + 1
    BY <1>4, <1>9, <1>11, <1>14, SMTT(30) DEF AllOfFirst
  <2>2. AllOfFirst(u, Packet(m), bytes) /\ b = Packet(m)[i]
    BY <1>12, <1>14, <2>1
  <2>3. PICK k \in Places(m) : k > p /\ ~OnLine(d + 1, k)
    BY <1>1, <1>14, <2>2 DEF Within, bytes
  <2>4. k \in Nat
    BY <1>3, <2>3, PlacesOf
  <2>5. k # 2 * i + 1
    <3>1. OnLine(d + 1, 2 * i + 1)
      BY <1>3 DEF OnLine
    <3> QED
      BY <2>3, <3>1, Zenon
  <2>6. ASSUME k = 2 * i, ~escaped PROVE FALSE
    <3>1. Packet(m)[i] \in Special
      <4>1. k \in Places(m) /\ k # 1 /\ k # LastPlace(m) /\ \A j \in DOMAIN Packet(m) : k # 2 * j + 1
        BY <1>2, <1>3, <1>4, <2>3, <2>6, PacketBytes, SMTT(30)
      <4>2. PICK j \in DOMAIN Packet(m) : Packet(m)[j] \in Special /\ k = 2 * j
        BY <4>1 DEF Places
      <4>3. j = i
        BY <1>2, <1>3, <2>6, <4>2, PacketBytes, SMTT(30)
      <4> QED
        BY <4>2, <4>3
    <3> QED
      BY <1>6, <2>2, <2>6, <3>1
  <2>7. k > 2 * i + 1
    <3>1. CASE escaped
      <4>1. p = 2 * i
        BY <1>4, <1>7, <2>1, <3>1
      <4> QED
        BY <1>4, <2>3, <2>4, <2>5, <4>1
    <3>2. CASE ~escaped
      <4>1. k # 2 * i /\ p = 2 * u + 1 /\ k > p
        BY <1>7, <2>3, <2>6, <3>2, Zenon
      <4>2. u \in Nat /\ i = u + 1
        BY <2>1
      <4>3. k > 2 * u + 1 /\ k # 2 * u + 2 /\ k # 2 * u + 3
        <5>1. 2 * (u + 1) = 2 * u + 2 /\ 2 * (u + 1) + 1 = 2 * u + 3
          BY <4>2
        <5> QED
          BY <2>5, <4>1, <4>2, <5>1
      <4>4. 2 * i + 1 = 2 * u + 3 /\ k > 2 * u + 3
        BY <2>4, <4>2, <4>3
      <4> QED
        BY <4>4, Zenon
    <3> QED
      BY <3>1, <3>2
  <2> QED
    BY <2>3, <2>4, <2>7, FirstRead
<1>15. Within(d, 2 * i + 1, i)'
  <2>1. /\ (d < Len(sent))' /\ (i \in 0..Len(Packet(sent[d + 1])))'
        /\ (rxserialbuf # << >>)' /\ (rxserialbuf[1] = START)'
    BY <1>1, <1>2, <1>4, <1>7, <1>9
  <2>2. LeftOfFirst(i, Packet(sent'[d + 1]), Tail(rxserialbuf'))
    BY <1>1, <1>9, <1>10
  <2>3. /\ AllOfFirst(i, Packet(sent'[d + 1]), Tail(rxserialbuf')) =>
             (d + 1 \in harmed' =>
                \E k \in Places(sent'[d + 1]) : k > 2 * i + 1 /\ ~OnLine(d + 1, k)')
        /\ d + 1 \notin harmed' => AllOfFirst(i, Packet(sent'[d + 1]), Tail(rxserialbuf'))
    BY <1>1, <1>9, <1>13, <1>14
  <2> QED
    BY <2>1, <2>2, <2>3 DEF Within
<1>16. (handled = Unharmed(d))'
  BY DEF Unharmed
<1>17. i \in Nat
  BY <1>4
<1> QED
  BY <1>5, <1>15, <1>16, <1>17 DEF InStep

(* The index has not wrapped around.                                          *)
LEMMA SmallMod == \A a, b \in Nat : a < b => a % b = a
OBVIOUS

(* What comes after the first byte of the buffer, compared.                   *)
LEMMA AfterFirst ==
  ASSUME NEW s \in Seq(Bytes), s # << >>, s[1] = START, NEW t \in Seq(Bytes)
  PROVE  s = <<START>> \o t <=> Tail(s) = t
<1>1. /\ Tail(s) \in Seq(Bytes) /\ Len(Tail(s)) = Len(s) - 1 /\ Len(s) \in Nat /\ Len(s) # 0
      /\ \A i \in 1..Len(Tail(s)) : Tail(s)[i] = s[i + 1]
  BY HeadTailProperties, LenProperties, EmptySeq
<1>2. PICK r : r = <<START>> \o t
  OBVIOUS
<1>3. <<START>> \in Seq(Bytes) /\ Len(<<START>>) = 1 /\ <<START>>[1] = START
  BY DEF Bytes
<1>4. /\ r \in Seq(Bytes) /\ Len(r) = 1 + Len(t) /\ Len(t) \in Nat
      /\ \A i \in 1..(1 + Len(t)) : r[i] = IF i <= 1 THEN <<START>>[i] ELSE t[i - 1]
  <2>1. /\ r \in Seq(Bytes) /\ Len(r) = Len(<<START>>) + Len(t)
        /\ \A i \in 1..(Len(<<START>>) + Len(t)) :
             r[i] = IF i <= Len(<<START>>) THEN <<START>>[i] ELSE t[i - Len(<<START>>)]
    BY <1>2, <1>3, ConcatProperties
  <2> QED
    BY <1>3, <2>1, LenProperties
<1>5. r[1] = START /\ \A i \in 1..Len(t) : r[i + 1] = t[i]
  <2>1. 1 \in 1..(1 + Len(t)) /\ 1 <= 1
    BY <1>4
  <2>2. ASSUME NEW i \in 1..Len(t) PROVE r[i + 1] = t[i]
    <3>1. i + 1 \in 1..(1 + Len(t)) /\ ~(i + 1 <= 1) /\ (i + 1) - 1 = i
      BY <1>4
    <3> QED
      BY <1>4, <3>1
  <2> QED
    BY <1>3, <1>4, <2>1, <2>2
<1>6. ASSUME s = r PROVE Tail(s) = t
  <2>1. Len(Tail(s)) = Len(t)
    <3>1. Len(Tail(s)) = Len(s) - 1 /\ Len(s) = Len(r)
      BY <1>1, <1>6
    <3>2. Len(r) = 1 + Len(t) /\ Len(t) \in Nat
      BY <1>4
    <3> QED
      BY <3>1, <3>2
  <2>2. ASSUME NEW i \in 1..Len(Tail(s)) PROVE Tail(s)[i] = t[i]
    <3>1. r[i + 1] = t[i]
      BY <1>5, <2>1
    <3>2. Tail(s)[i] = s[i + 1]
      BY <1>1
    <3> QED
      BY <1>6, <3>1, <3>2
  <2> QED
    BY <1>1, <2>1, <2>2, SeqEqual
<1>7. ASSUME Tail(s) = t PROVE s = r
  <2>1. Len(s) = Len(r)
    <3>1. Len(Tail(s)) = Len(t)
      BY <1>7, Zenon
    <3>2. Len(Tail(s)) = Len(s) - 1 /\ Len(s) \in Nat
      BY <1>1
    <3>3. Len(r) = 1 + Len(t) /\ Len(t) \in Nat
      BY <1>4
    <3> DEFINE ls == Len(s)
               lr == Len(r)
               lt == Len(t)
    <3>4. ls - 1 = lt /\ lr = 1 + lt /\ ls \in Nat /\ lt \in Nat
      BY <3>1, <3>2, <3>3
    <3> HIDE DEF ls, lr, lt
    <3>5. ls = lr
      BY <3>4
    <3> QED
      BY <3>5 DEF ls, lr
  <2>2. ASSUME NEW i \in 1..Len(s) PROVE s[i] = r[i]
    <3>1. CASE i = 1
      BY <1>5, <3>1
    <3>2. CASE i # 1
      <4>1. i - 1 \in 1..Len(t) /\ (i - 1) + 1 = i
        BY <1>1, <1>7, <3>2
      <4> QED
        BY <1>1, <1>5, <1>7, <4>1
    <3> QED
      BY <3>1, <3>2
  <2> QED
    BY <1>4, <2>1, <2>2, SeqEqual
<1> QED
  BY <1>2, <1>6, <1>7

(* The end of a frame.                                                        *)
LEMMA EndIsRead ==
  ASSUME LineInv, NoneLeftOfAnother, NEW d \in Nat, NEW p \in Nat, NEW u \in Nat,
         Reached(d, p), handled = Unharmed(d), Within(d, p, u), ~escaped,
         line[1].k = LastPlace(sent[d + 1]), line[1].b = START,
         ReadByte \/ ReadNothing \/ \E m \in Message : ReadEnd(m)
  PROVE  InStep(d + 1, 0)'
<1>1. line # << >> /\ line' = Tail(line) /\ UNCHANGED <<sent, harmed>>
  BY DEF ReadByte, ReadNothing, ReadEnd, harm
<1>2. PICK m : m = sent[d + 1]
  OBVIOUS
<1>3. PICK L : L = Len(Packet(m))
  OBVIOUS
<1>4. /\ m \in Message /\ d + 1 \in 1..Len(sent) /\ line[1] \in ToSet(line)
      /\ line[1].n = d + 1
  BY <1>1, <1>2, FirstByte
<1>5. /\ L \in Nat /\ L >= 3 /\ LastPlace(m) = 2 * L + 3 /\ u \in 0..L
      /\ DOMAIN Packet(m) = 1..L /\ Packet(m) \in Seq(Bytes)
  BY <1>2, <1>3, <1>4, PacketBytes, PlacesOf DEF Within
<1> DEFINE bytes == Tail(rxserialbuf)
<1>6. /\ rxserialbuf # << >> /\ rxserialbuf[1] = START /\ d < Len(sent)
      /\ LeftOfFirst(u, Packet(m), bytes)
      /\ d + 1 \notin harmed => AllOfFirst(u, Packet(m), bytes)
      /\ p = 2 * u + 1
  BY <1>2 DEF Within
<1>7. /\ bytes \in Seq(Bytes) /\ Len(bytes) = Len(rxserialbuf) - 1
      /\ Len(rxserialbuf) \in Nat /\ Len(bytes) \in Nat
  BY <1>6, HeadTailProperties, LenProperties DEF LineInv
<1>8. \A n \in Message : Received(n) <=> bytes = Packet(n)
  <2>1. \A n \in Message : Packet(n) \in Seq(Bytes)
    BY PacketBytes
  <2> QED
    BY <1>6, <2>1, AfterFirst DEF LineInv, Received
<1> HIDE DEF bytes
<1>9. Len(bytes) <= u
  BY <1>6, <1>7, LeftAreFewer
<1>10. \A n \in Message : Received(n) => n = m
  <2>1. LeftOf(Packet(m), bytes)
    <3>1. PICK from \in [1..Len(bytes) -> 1..u] :
            /\ \A i, j \in 1..Len(bytes) : i < j => from[i] < from[j]
            /\ \A i \in 1..Len(bytes) :
                 \/ bytes[i] = Packet(m)[from[i]]
                 \/ Packet(m)[from[i]] \in Special /\ bytes[i] = Xor(Packet(m)[from[i]])
      BY <1>6 DEF LeftOfFirst
    <3>2. 1..u \subseteq 1..L
      BY <1>5
    <3>3. DOMAIN from = 1..Len(bytes) /\ from \in [1..Len(bytes) -> DOMAIN Packet(m)]
      BY <1>5, <3>1, <3>2
    <3> QED
      BY <3>1, <3>3 DEF LeftOf
  <2> QED
    BY <1>4, <1>8, <2>1 DEF NoneLeftOfAnother
<1>11. d + 1 \in (d + 1)..Len(sent) /\ d + 1 \in Nat
  BY <1>4
<1>12. \A n, k \in Nat : OnLine(n, k) => n > d + 1 \/ (n = d + 1 /\ k >= 2 * L + 3)
  BY <1>1, <1>2, <1>5, FirstByte
<1>13. ASSUME d + 1 \notin harmed PROVE Received(m)
  <2>1. u = L
    <3> SUFFICES ASSUME u # L PROVE FALSE
      OBVIOUS
    <3>1. u + 1 \in 1..L /\ 2 * (u + 1) + 1 > p /\ 2 * (u + 1) + 1 < 2 * L + 3
      BY <1>5, <1>6
    <3>2. 2 * (u + 1) + 1 \in Places(m)
      BY <1>3, <1>4, <3>1, PlacesOf
    <3>3. OnLine(d + 1, 2 * (u + 1) + 1)
      BY <1>2, <1>11, <1>13, <3>1, <3>2 DEF Reached, UnharmedThere
    <3>4. PICK k \in Nat : k = 2 * (u + 1) + 1
      OBVIOUS
    <3> QED
      BY <1>5, <1>11, <1>12, <3>1, <3>3, <3>4
  <2>2. Len(bytes) = Len(Packet(m)) /\ \A i \in 1..Len(bytes) : bytes[i] = Packet(m)[i]
    BY <1>3, <1>6, <1>13, <2>1 DEF AllOfFirst
  <2>3. bytes = Packet(m)
    BY <1>5, <1>7, <2>2, SeqEqual
  <2> QED
    BY <1>4, <1>8, <2>3
<1>14. ASSUME d + 1 \in harmed PROVE ~Received(m)
  <2> SUFFICES ASSUME Received(m) PROVE FALSE
    OBVIOUS
  <2>1. bytes = Packet(m)
    BY <1>4, <1>8
  <2>2. u = L
    BY <1>3, <1>5, <1>9, <2>1
  <2>3. AllOfFirst(u, Packet(m), bytes)
    BY <1>3, <2>1, <2>2 DEF AllOfFirst
  <2>4. PICK k \in Places(m) : k > 2 * L + 1 /\ ~OnLine(d + 1, k)
    BY <1>2, <1>6, <1>14, <2>2, <2>3 DEF Within, bytes
  <2>5. k # 2 * L + 3
    <3>1. OnLine(d + 1, 2 * L + 3)
      BY <1>2, <1>4, <1>5 DEF OnLine
    <3> QED
      BY <2>4, <3>1, Zenon
  <2>6. k \in Nat /\ k = 2 * L + 2
    <3>1. k \in Nat /\ k <= LastPlace(m)
      BY <1>4, <2>4, PlacesOf
    <3> QED
      BY <1>5, <2>4, <2>5, <3>1
  <2>7. \A j \in 1..L : k # 2 * j /\ k # 2 * j + 1
    BY <1>5, <2>6
  <2>8. k # 1 /\ k # LastPlace(m)
    BY <1>5, <2>6
  <2> QED
    BY <1>5, <2>4, <2>7, <2>8 DEF Places
<1>15. /\ ShortEnough /\ Len(rxserialbuf) > 2
       \/ d + 1 \in harmed
  <2> SUFFICES ASSUME d + 1 \notin harmed
               PROVE  ShortEnough /\ Len(rxserialbuf) > 2
    OBVIOUS
  <2>1. Len(bytes) = L
    BY <1>3, <1>4, <1>8, <1>13
  <2>2. /\ Len(Packet(m)) = Len(Body[m]) + 1 /\ Len(Body[m]) \in Nat
        /\ Len(Body[m]) + 3 <= LongestPacket /\ LongestPacket < SINKMTU
        /\ LongestPacket \in Nat /\ SINKMTU \in Nat
    BY <1>4, PacketBytes, SerialAssumption, LenProperties
  <2>3. PICK N : N = Len(rxserialbuf) + 1
    OBVIOUS
  <2>4. N \in Nat /\ N = L + 2 /\ Len(rxserialbuf) > 2
    <3>1. Len(rxserialbuf) - 1 = L
      BY <1>7, <2>1
    <3> QED
      BY <1>5, <1>7, <2>3, <3>1, SMTT(30)
  <2>5. N <= LongestPacket /\ N < SINKMTU
    <3>1. L - 1 + 3 <= LongestPacket
      <4>1. Len(Body[m]) = L - 1
        BY <1>3, <1>5, <2>2
      <4> QED
        BY <2>2, <4>1
    <3> QED
      BY <1>5, <2>2, <2>4, <3>1
  <2>6. N % SINKMTU = N
    <3>1. N \in Nat /\ SINKMTU \in Nat /\ N < SINKMTU
      BY <2>2, <2>4, <2>5
    <3> QED
      BY <3>1, SmallMod
  <2> QED
    BY <2>3, <2>4, <2>5, <2>6 DEF ShortEnough
<1>16. START \in Special /\ ESC \in Special /\ START # ESC
  BY Escapes
<1>17. ReadByte => ~AtEnd /\ rxserialbuf' = <<START>> /\ UNCHANGED <<escaped, handled>>
  <2> SUFFICES ASSUME ReadByte
               PROVE  ~AtEnd /\ rxserialbuf' = <<START>> /\ UNCHANGED <<escaped, handled>>
    OBVIOUS
  <2>1. /\ ~AtEnd /\ UNCHANGED <<escaped, handled>>
        /\ rxserialbuf' = IF Len(rxserialbuf) <= 2 THEN <<START>> ELSE rxserialbuf
    BY <1>16 DEF ReadByte
  <2>2. Len(rxserialbuf) <= 2
    BY <1>6, <1>7, <2>1 DEF AtEnd
  <2> QED
    BY <2>1, <2>2
<1>18. ReadNothing \/ (\E n \in Message : ReadEnd(n)) =>
          rxserialbuf' = << >> /\ UNCHANGED escaped
  BY DEF ReadNothing, ReadEnd, PacketLeavesBuffer
<1>19. Between(0)'
  BY <1>17, <1>18 DEF Between
<1>20. handled' = IF d + 1 \in harmed THEN handled ELSE Append(handled, m)
  <2>1. CASE d + 1 \in harmed
    <3>1. ~\E n \in Message : Received(n)
      BY <1>10, <1>14, <2>1
    <3> QED
      BY <1>17, <2>1, <3>1 DEF ReadNothing, ReadEnd
  <2>2. CASE d + 1 \notin harmed
    <3>1. ~ReadByte
      BY <1>6, <1>15, <1>17, <2>2 DEF AtEnd
    <3>2. Received(m) /\ ShortEnough
      BY <1>13, <1>15, <2>2
    <3>3. ~ReadNothing
      BY <1>4, <3>2 DEF ReadNothing
    <3>4. PICK n \in Message : ReadEnd(n)
      BY <3>1, <3>3
    <3>5. Received(n) /\ handled' = Append(handled, n)
      BY <1>4, <3>2, <3>4 DEF ReadEnd
    <3> QED
      BY <1>10, <2>2, <3>5
  <2> QED
    BY <2>1, <2>2
<1>21. (handled = Unharmed(d + 1))'
  <2>1. Kept(d + 1, sent, harmed) = IF d + 1 \in harmed THEN Kept(d, sent, harmed)
                                    ELSE Append(Kept(d, sent, harmed), sent[d + 1])
    BY <1>6, KeptNext DEF LineInv
  <2>2. handled = Kept(d, sent, harmed)
    BY UnharmedIsKept
  <2>3. handled' = Kept(d + 1, sent, harmed)
    BY <1>2, <1>20, <2>1, <2>2
  <2>4. handled' = Kept(d + 1, sent', harmed')
    BY <1>1, <2>3
  <2> QED
    BY <2>4 DEF Unharmed, Kept
<1>22. Reached(d + 1, 0)'
  BY <1>1, ReachedDone
<1> QED
  BY <1>19, <1>21, <1>22 DEF InStep

(* A byte is read, in step.                                                   *)
LEMMA ReadInStep ==
  ASSUME LineInv, NoneLeftOfAnother, NEW d \in Nat, NEW p \in Nat, InStep(d, p),
         ReadByte \/ ReadNothing \/ \E m \in Message : ReadEnd(m)
  PROVE  \E e, q \in Nat : InStep(e, q)'
<1>1. /\ line # << >> /\ line' = Tail(line) /\ UNCHANGED <<sent, harmed>>
      /\ Reached(d, p) /\ handled = Unharmed(d)
  BY DEF ReadByte, ReadNothing, ReadEnd, harm, InStep
<1>2. CASE Between(p)
  BY <1>1, <1>2, FrameBegins
<1>3. CASE ~Between(p)
  <2>1. PICK u \in Nat : Within(d, p, u)
    BY <1>3 DEF InStep
  <2>2. PICK m : m = sent[d + 1]
    OBVIOUS
  <2>3. m \in Message /\ Len(Packet(m)) \in Nat /\ u <= Len(Packet(m))
    BY <1>1, <2>1, <2>2, FirstByte, WithinFirst, PacketBytes
  <2>4. \/ ~escaped /\ line[1].k = LastPlace(m) /\ line[1].b = START
        \/ \E i \in (u + 1)..Len(Packet(m)) :
             /\ IsOf(line[1], i, Packet(m))
             /\ escaped => /\ i = u + 1 /\ Packet(m)[i] \in Special
                           /\ line[1].k = 2 * i + 1
    <3>1. CASE escaped
      <4>1. /\ u + 1 <= Len(Packet(m)) /\ Packet(m)[u + 1] \in Special
            /\ line[1].k = 2 * u + 3 /\ line[1].b = Xor(Packet(m)[u + 1])
        BY <1>1, <2>1, <2>2, <3>1, WithinFirst
      <4>2. u + 1 \in (u + 1)..Len(Packet(m)) /\ 2 * (u + 1) + 1 = 2 * u + 3
        BY <2>3, <4>1
      <4>3. IsOf(line[1], u + 1, Packet(m)) /\ line[1].k = 2 * (u + 1) + 1
        BY <4>1, <4>2 DEF IsOf
      <4> QED
        BY <4>1, <4>2, <4>3
    <3>2. CASE ~escaped
      BY <1>1, <2>1, <2>2, <3>2, WithinFirst
    <3> QED
      BY <3>1, <3>2
  <2>5. CASE ~escaped /\ line[1].k = LastPlace(m) /\ line[1].b = START
    <3>1. InStep(d + 1, 0)'
      BY <1>1, <2>1, <2>2, <2>5, EndIsRead
    <3> QED
      BY <3>1
  <2>6. ASSUME NEW i \in (u + 1)..Len(Packet(m)), IsOf(line[1], i, Packet(m)),
               escaped => /\ i = u + 1 /\ Packet(m)[i] \in Special
                          /\ line[1].k = 2 * i + 1
        PROVE  \E e, q \in Nat : InStep(e, q)'
    <3>1. i \in Nat /\ 2 * i \in Nat /\ 2 * i + 1 \in Nat /\ 2 * i # 2 * i + 1
      BY <2>3
    <3>2. CASE line[1].k = 2 * i
      <4>1. Packet(m)[i] \in Special /\ line[1].b = ESC /\ ~escaped
        BY <2>6, <3>1, <3>2 DEF IsOf
      <4>2. ReadByte /\ escaped' = TRUE /\ UNCHANGED <<rxserialbuf, handled>>
        <5>1. START # ESC /\ ESC \in {START, ESC}
          BY Escapes
        <5> QED
          BY <4>1, <5>1 DEF ReadByte, ReadNothing, ReadEnd
      <4>3. InStep(d, 2 * i)'
        BY <1>1, <2>1, <2>2, <3>2, <4>1, <4>2, EscIsRead
      <4> QED
        BY <3>1, <4>3
    <3>3. CASE line[1].k = 2 * i + 1
      <4>1. line[1].b = IF Packet(m)[i] \in Special THEN Xor(Packet(m)[i]) ELSE Packet(m)[i]
        BY <2>6, <3>1, <3>3 DEF IsOf
      <4>2. line[1].b # START /\ line[1].b # ESC
        BY <4>1, Escapes
      <4>3. PICK b : b = IF escaped THEN Xor(line[1].b) ELSE line[1].b
        OBVIOUS
      <4>4. ReadByte
        BY <4>2 DEF ReadNothing, ReadEnd
      <4>5. Stored(b) /\ escaped' = FALSE /\ UNCHANGED handled
        <5>1. escaped \in BOOLEAN
          BY DEF LineInv
        <5>2. CASE escaped
          BY <4>3, <4>4, <5>2 DEF ReadByte
        <5>3. CASE ~escaped
          BY <4>2, <4>3, <4>4, <5>1, <5>3 DEF ReadByte
        <5> QED
          BY <5>2, <5>3
      <4>6. InStep(d, 2 * i + 1)'
        BY <1>1, <2>1, <2>2, <2>6, <3>3, <4>3, <4>5, ByteIsRead
      <4> QED
        BY <3>1, <4>6
    <3> QED
      BY <2>6, <3>2, <3>3 DEF IsOf
  <2> QED
    BY <2>4, <2>5, <2>6
<1> QED
  BY <1>2, <1>3
-----------------------------------------------------------------------------
(* The other steps, in step.                                                *)

LEMMA InStepAtFirst == LineInit => InStep(0, 0)
<1> SUFFICES ASSUME LineInit PROVE InStep(0, 0)
  OBVIOUS
<1>1. /\ line = << >> /\ rxserialbuf = << >> /\ ~escaped /\ Len(sent) = 0
      /\ handled = << >>
  BY DEF LineInit
<1>2. DOMAIN line = {} /\ ToSet(line) = {}
  <2>1. DOMAIN line = 1..Len(line) /\ Len(line) = 0
    BY <1>1
  <2> QED
    BY <2>1 DEF ToSet
<1>3. (0 + 1)..Len(sent) = {}
  BY <1>1
<1>4. Reached(0, 0)
  BY <1>1, <1>2, <1>3
  DEF Reached, OfMessages, Ordered, EndsThere, EscapedThere, UnharmedThere, HarmedLack, OnLine
<1>5. handled = Unharmed(0)
  BY <1>1, KeptNone, UnharmedIsKept
<1> QED
  BY <1>1, <1>4, <1>5 DEF InStep, Between

(* What the reader has read is not changed when what is on the line of its       *)
(* message and what it has of it is not.                                       *)
LEMMA WithinKept ==
  ASSUME NEW d \in Nat, NEW p \in Nat, NEW u \in Nat, Within(d, p, u),
         d < Len(sent'), sent'[d + 1] = sent[d + 1], UNCHANGED reader,
         d + 1 \in harmed <=> d + 1 \in harmed',
         \A k \in Nat : OnLine(d + 1, k)' <=> OnLine(d + 1, k),
         \A k \in Places(sent[d + 1]) : k \in Nat
  PROVE  Within(d, p, u)'
<1> DEFINE m == sent[d + 1]
<1>1. /\ rxserialbuf # << >> /\ rxserialbuf[1] = START /\ u \in 0..Len(Packet(m))
      /\ LeftOfFirst(u, Packet(m), Tail(rxserialbuf))
      /\ AllOfFirst(u, Packet(m), Tail(rxserialbuf)) /\ d + 1 \in harmed =>
           \E k \in Places(m) : k > p /\ ~OnLine(d + 1, k)
      /\ d + 1 \notin harmed => AllOfFirst(u, Packet(m), Tail(rxserialbuf))
      /\ \/ ~escaped /\ p = 2 * u + 1
         \/ /\ escaped /\ p = 2 * u + 2 /\ OnLine(d + 1, 2 * u + 3)
            /\ u < Len(Packet(m)) /\ Packet(m)[u + 1] \in Special
  BY DEF Within
<1>2. UNCHANGED <<rxserialbuf, escaped>>
  BY DEF reader
<1>3. \/ ~escaped' /\ p = 2 * u + 1
      \/ /\ escaped' /\ p = 2 * u + 2 /\ OnLine(d + 1, 2 * u + 3)'
         /\ u < Len(Packet(m)) /\ Packet(m)[u + 1] \in Special
  <2>1. 2 * u + 3 \in Nat
    OBVIOUS
  <2>2. OnLine(d + 1, 2 * u + 3)' <=> OnLine(d + 1, 2 * u + 3)
    BY <2>1
  <2> QED
    BY <1>1, <1>2, <2>2, Zenon
<1>4. AllOfFirst(u, Packet(m), Tail(rxserialbuf)) /\ d + 1 \in harmed =>
        \E k \in Places(m) : k > p /\ ~OnLine(d + 1, k)'
  BY <1>1
<1>5. m = sent'[d + 1]
  OBVIOUS
<1> HIDE DEF m
<1>6. /\ (rxserialbuf # << >>)' /\ (rxserialbuf[1] = START)'
      /\ u \in 0..Len(Packet(sent'[d + 1]))
      /\ LeftOfFirst(u, Packet(sent'[d + 1]), Tail(rxserialbuf'))
      /\ AllOfFirst(u, Packet(sent'[d + 1]), Tail(rxserialbuf')) =>
           (d + 1 \in harmed' =>
              \E k \in Places(sent'[d + 1]) : k > p /\ ~OnLine(d + 1, k)')
      /\ d + 1 \notin harmed' => AllOfFirst(u, Packet(sent'[d + 1]), Tail(rxserialbuf'))
  BY <1>1, <1>2, <1>4, <1>5
<1>7. \/ ~escaped' /\ p = 2 * u + 1
      \/ /\ escaped' /\ p = 2 * u + 2 /\ OnLine(d + 1, 2 * u + 3)'
         /\ u < Len(Packet(sent'[d + 1])) /\ Packet(sent'[d + 1])[u + 1] \in Special
  BY <1>3, <1>5
<1> QED
  BY <1>6, <1>7 DEF Within

(* What sending a message puts on the line.                                   *)
LEMMA SentBytes ==
  ASSUME LineInv, NEW m \in Message, Send(m), Ordered(line), NEW N, N = Len(sent) + 1
  PROVE  /\ Ordered(line)'
         /\ \A x \in ToSet(line)' :
              x \in ToSet(line) \/ (x \in Marked /\ x.n = N /\ IsIn(x, m))
         /\ \A n, k \in Nat : n < N => (OnLine(n, k)' <=> OnLine(n, k))
         /\ \A k \in Places(m) : OnLine(N, k)'
<1>1. PICK frame : /\ frame = WritePacketData(m)
                   /\ frame \in Seq(Piece) /\ Increasing(frame)
                   /\ \A y \in ToSet(frame) : IsIn(y, m)
                   /\ \A k \in Places(m) : \E y \in ToSet(frame) : y.k = k
  BY FrameInOrder
<1>2. Len(frame) \in Nat /\ DOMAIN frame = 1..Len(frame) /\ Len(sent) \in Nat
  BY <1>1, LenProperties DEF LineInv
<1> DEFINE Mark(i) == [b |-> frame[i].b, k |-> frame[i].k, n |-> N]
           marked == [i \in DOMAIN frame |-> Mark(i)]
<1>3. \A i \in DOMAIN frame : frame[i].b \in Bytes /\ frame[i].k \in Nat /\ frame[i] \in ToSet(frame)
  <2>1. \A i \in DOMAIN frame : frame[i] \in Piece /\ frame[i] \in ToSet(frame)
    BY <1>1, <1>2, ElementOfSeq DEF ToSet
  <2> QED
    BY <2>1 DEF Piece
<1>4. \A i \in DOMAIN frame :
        /\ Mark(i) \in Marked
        /\ Mark(i).n = N /\ Mark(i).k = frame[i].k /\ Mark(i).b = frame[i].b
  BY <1>2, <1>3 DEF Marked
<1>5. line' = line \o marked
  BY <1>1 DEF Send
<1>6. DOMAIN marked = DOMAIN frame /\ \A i \in DOMAIN frame : marked[i] = Mark(i)
  OBVIOUS
<1> HIDE DEF Mark
<1>7. marked \in Seq(Marked)
  BY <1>2, <1>4, SeqDef
<1> HIDE DEF marked
<1>8. Ordered(marked)
  BY <1>1, <1>4, <1>6 DEF Ordered, Increasing, Before
<1>9. \A x \in ToSet(line) : x \in Marked /\ x.n \in 1..Len(sent)
  <2>1. \A i \in DOMAIN line : line[i] \in Marked /\ line[i].n \in 1..Len(sent)
    BY LineIsMarked, LineItems, ElementOfSeq
  <2> QED
    BY <2>1 DEF ToSet
<1>10. \A y \in ToSet(marked) :
         \E i \in DOMAIN frame : y = Mark(i) /\ IsIn(frame[i], m)
  BY <1>1, <1>3, <1>6 DEF ToSet
<1>11. \A y \in ToSet(marked) : y \in Marked /\ y.n = N /\ IsIn(y, m)
  BY <1>4, <1>10 DEF IsIn, IsOf
<1>12. /\ Ordered(line \o marked)
       /\ ToSet(line \o marked) = ToSet(line) \cup ToSet(marked)
  <2>1. \A x \in ToSet(line), y \in ToSet(marked) : Before(x, y)
    BY <1>2, <1>9, <1>11 DEF Before
  <2> QED
    BY <1>7, <1>8, <2>1, LineIsMarked, JoinedOrder
<1>13. Ordered(line)' /\ ToSet(line)' = ToSet(line) \cup ToSet(marked)
  BY <1>5, <1>12
<1>14. ASSUME NEW n \in Nat, NEW k \in Nat, n < N
       PROVE  OnLine(n, k)' <=> OnLine(n, k)
  <2>1. n # N
    BY <1>2, <1>14
  <2> QED
    BY <1>11, <1>13, <2>1 DEF OnLine
<1>15. ASSUME NEW k \in Places(m) PROVE OnLine(N, k)'
  <2>1. PICK i \in DOMAIN frame : frame[i].k = k
    BY <1>1, <1>2 DEF ToSet
  <2>2. marked[i] \in ToSet(marked) /\ marked[i].n = N /\ marked[i].k = k
    BY <1>4, <1>6, <2>1 DEF ToSet
  <2> QED
    BY <1>13, <2>2 DEF OnLine
<1> QED
  BY <1>11, <1>13, <1>14, <1>15

LEMMA SendInStep ==
  ASSUME LineInv, NEW d \in Nat, NEW p \in Nat, InStep(d, p), NEW m \in Message, Send(m)
  PROVE  InStep(d, p)'
<1>0. PICK N : N = Len(sent)
  OBVIOUS
<1>1. /\ Reached(d, p) /\ Ordered(line) /\ handled = Unharmed(d) /\ d \in 0..N
      /\ \A x \in ToSet(line) : /\ x.n \in (d + 1)..N /\ IsIn(x, sent[x.n])
                                /\ x.n = d + 1 => x.k > p
  BY <1>0 DEF InStep, Reached, OfMessages
<1>2. /\ UNCHANGED <<reader, handled, harmed>> /\ sent' = Append(sent, m)
  BY DEF Send, harm
<1>3. /\ N \in Nat /\ Len(sent') = N + 1 /\ sent'[N + 1] = m
      /\ \A n \in 1..N : sent'[n] = sent[n] /\ sent[n] \in Message
      /\ harmed \subseteq 1..N
  BY <1>0, <1>2, AppendProperties, LenProperties, ElementOfSeq DEF LineInv
<1>4. /\ Ordered(line)'
      /\ \A x \in ToSet(line)' :
           x \in ToSet(line) \/ (x \in Marked /\ x.n = N + 1 /\ IsIn(x, m))
      /\ \A n, k \in Nat : n <= N => (OnLine(n, k)' <=> OnLine(n, k))
      /\ \A k \in Places(m) : OnLine(N + 1, k)'
  <2>1. PICK M : M = N + 1
    OBVIOUS
  <2>2. /\ Ordered(line)'
        /\ \A x \in ToSet(line)' :
             x \in ToSet(line) \/ (x \in Marked /\ x.n = M /\ IsIn(x, m))
        /\ \A n, k \in Nat : n < M => (OnLine(n, k)' <=> OnLine(n, k))
        /\ \A k \in Places(m) : OnLine(M, k)'
    BY <1>0, <1>1, <2>1, SentBytes
  <2>3. \A n \in Nat : n <= N => n < M
    BY <1>3, <2>1
  <2> QED
    BY <2>1, <2>2, <2>3
<1>5. \A n \in (d + 1)..(N + 1) : n = N + 1 \/ (n \in (d + 1)..N /\ n \in 1..N /\ n # N + 1)
  BY <1>1, <1>3
<1>6. \A n \in 1..N : n \in Nat /\ n <= N /\ \A k \in Places(sent[n]) : k \in Nat
  BY <1>3, PlacesOf
<1>7. \A x \in Marked : IsIn(x, m) => x.k \in Nat /\ x.k >= 1
  BY PlacesOf
<1>8. (d + 1)..(N + 1) = (d + 1)..Len(sent')
  BY <1>3
<1>9. OfMessages(d, p)'
  <2>1. ASSUME NEW x \in ToSet(line)'
        PROVE  /\ x.n \in (d + 1)..(N + 1) /\ IsIn(x, sent'[x.n])
               /\ x.n = d + 1 => x.k > p
    <3>1. CASE x \in ToSet(line)
      <4>1. x.n \in (d + 1)..N /\ IsIn(x, sent[x.n]) /\ (x.n = d + 1 => x.k > p)
        BY <1>1, <3>1
      <4>2. x.n \in 1..N /\ x.n \in (d + 1)..(N + 1)
        BY <1>1, <1>3, <4>1
      <4> QED
        BY <1>3, <4>1, <4>2
    <3>2. CASE x \in Marked /\ x.n = N + 1 /\ IsIn(x, m)
      <4>1. x.n = d + 1 => p = 0
        <5> SUFFICES ASSUME x.n = d + 1 PROVE p = 0
          OBVIOUS
        <5>1. d = N /\ ~(d < N)
          BY <1>1, <1>3, <3>2
        <5> QED
          BY <1>0, <1>1, <5>1 DEF InStep, Within, Between
      <4>2. x.n \in (d + 1)..(N + 1)
        BY <1>1, <1>3, <3>2
      <4> QED
        BY <1>3, <1>7, <3>2, <4>1, <4>2
    <3> QED
      BY <1>4, <3>1, <3>2
  <2> QED
    BY <1>4, <1>8, <2>1 DEF OfMessages
<1>10. EndsThere(d, p)'
  <2>1. ASSUME NEW n \in (d + 1)..(N + 1), NEW last, last = LastPlace(sent'[n])
        PROVE  /\ OnLine(n, last)'
               /\ n > d + 1 \/ p = 0 => OnLine(n, 1)'
    <3>1. CASE n = N + 1
      <4>1. last \in Places(m) /\ 1 \in Places(m)
        BY <1>3, <2>1, <3>1, PlacesOf
      <4> QED
        BY <1>4, <3>1, <4>1
    <3>2. CASE n \in (d + 1)..N /\ n \in 1..N
      <4>1. last = LastPlace(sent[n])
        BY <1>3, <2>1, <3>2
      <4>2. /\ OnLine(n, last) /\ (n > d + 1 \/ p = 0 => OnLine(n, 1))
        BY <1>0, <1>1, <3>2, <4>1 DEF Reached, EndsThere
      <4>3. last \in Nat
        BY <1>3, <1>6, <3>2, <4>1, PlacesOf
      <4> QED
        BY <1>4, <1>6, <3>2, <4>2, <4>3
    <3> QED
      BY <1>5, <3>1, <3>2
  <2> QED
    BY <1>8, <2>1 DEF EndsThere
<1>11. EscapedThere'
  <2>1. ASSUME NEW n \in Nat, NEW j \in Nat, OnLine(n, 2 * j)'
        PROVE  OnLine(n, 2 * j + 1)'
    <3>1. PICK x \in ToSet(line)' : x.n = n /\ x.k = 2 * j
      BY <2>1 DEF OnLine
    <3>2. CASE x \in ToSet(line)
      <4>1. OnLine(n, 2 * j) /\ n <= N
        BY <1>1, <1>3, <3>1, <3>2 DEF OnLine
      <4>2. OnLine(n, 2 * j + 1) /\ 2 * j + 1 \in Nat
        BY <1>1, <4>1 DEF Reached, EscapedThere
      <4> QED
        BY <1>4, <4>1, <4>2
    <3>3. CASE x \in Marked /\ x.n = N + 1 /\ IsIn(x, m)
      <4>1. Len(Packet(m)) \in Nat /\ LastPlace(m) = 2 * Len(Packet(m)) + 3
        BY PacketBytes, PlacesOf
      <4>2. 2 * j # 1 /\ 2 * j # 2 * Len(Packet(m)) + 3
        BY <4>1
      <4>3. PICK i \in 1..Len(Packet(m)) : IsOf(x, i, Packet(m))
        BY <3>1, <3>3, <4>1, <4>2, PlacesOf
      <4>4. i = j
        BY <3>1, <4>3 DEF IsOf
      <4>5. 2 * j + 1 \in Places(m)
        BY <4>3, <4>4, PlacesOf
      <4> QED
        BY <1>4, <3>1, <3>3, <4>5
    <3> QED
      BY <1>4, <3>2, <3>3
  <2> QED
    BY <2>1 DEF EscapedThere
<1>12. UnharmedThere(d, p)'
  <2>1. ASSUME NEW n \in (d + 1)..(N + 1), n \notin harmed, NEW k \in Places(sent'[n]),
               n > d + 1 \/ k > p
        PROVE  OnLine(n, k)'
    <3>1. CASE n = N + 1
      BY <1>3, <1>4, <2>1, <3>1
    <3>2. CASE n \in (d + 1)..N /\ n \in 1..N
      <4>1. k \in Places(sent[n]) /\ k \in Nat /\ n \in Nat /\ n <= N
        BY <1>3, <1>6, <3>2
      <4>2. OnLine(n, k)
        BY <1>0, <1>1, <2>1, <3>2, <4>1 DEF Reached, UnharmedThere
      <4> QED
        BY <1>4, <4>1, <4>2
    <3> QED
      BY <1>5, <3>1, <3>2
  <2> QED
    BY <1>2, <1>8, <2>1 DEF UnharmedThere
<1>13. HarmedLack(d, p)'
  <2>1. ASSUME NEW n \in (d + 1)..(N + 1), n \in harmed, n > d + 1 \/ p = 0
        PROVE  \E k \in Places(sent'[n]) : ~OnLine(n, k)'
    <3>1. n \in (d + 1)..N /\ n \in 1..N
      BY <1>3, <1>5, <2>1
    <3>2. PICK k \in Places(sent[n]) : ~OnLine(n, k)
      BY <1>0, <1>1, <2>1, <3>1 DEF Reached, HarmedLack
    <3>3. k \in Nat /\ n \in Nat /\ n <= N /\ sent'[n] = sent[n]
      BY <1>3, <1>6, <3>1, <3>2
    <3>4. ~OnLine(n, k)'
      BY <1>4, <3>2, <3>3
    <3> QED
      BY <3>2, <3>3, <3>4
  <2> QED
    BY <1>2, <1>8, <2>1 DEF HarmedLack
<1>14. Reached(d, p)'
  <2>1. d \in 0..Len(sent')
    BY <1>1, <1>3
  <2> QED
    BY <1>9, <1>10, <1>11, <1>12, <1>13, <2>1 DEF Reached
<1>15. (handled = Unharmed(d))'
  <2>1. \A n \in 1..d : sent[n] = sent'[n] /\ (n \in harmed <=> n \in harmed')
    BY <1>1, <1>2, <1>3
  <2>2. Kept(d, sent, harmed) = Kept(d, sent', harmed')
    BY <2>1, SameKept
  <2> QED
    BY <1>1, <1>2, <2>2, UnharmedIsKept
<1>16. ASSUME NEW u \in Nat, Within(d, p, u) PROVE Within(d, p, u)'
  <2>1. d < N
    BY <1>0, <1>16 DEF Within
  <2>2. d + 1 \in 1..N /\ d < Len(sent')
    BY <1>3, <2>1
  <2>3. sent'[d + 1] = sent[d + 1] /\ \A k \in Places(sent[d + 1]) : k \in Nat
    BY <1>3, <1>6, <2>2
  <2>4. \A k \in Nat : OnLine(d + 1, k)' <=> OnLine(d + 1, k)
    BY <1>4, <1>6, <2>2
  <2> QED
    BY <1>2, <1>16, <2>2, <2>3, <2>4, WithinKept
<1>17. Between(p) => Between(p)'
  BY <1>2 DEF Between, reader
<1>18. Between(p) \/ \E u \in Nat : Within(d, p, u)
  BY DEF InStep
<1> QED
  BY <1>14, <1>15, <1>16, <1>17, <1>18 DEF InStep

(* What losing a byte leaves on the line.                                     *)
LEMMA LostByte ==
  ASSUME LineInv, Ordered(line), NEW i \in DOMAIN line, Lose(i), NEW z, z = line[i]
  PROVE  /\ z \in ToSet(line) /\ z \in Marked
         /\ Ordered(line)' /\ ToSet(line)' = ToSet(line) \ {z}
         /\ \A n, k \in Nat : OnLine(n, k)' <=> OnLine(n, k) /\ ~(n = z.n /\ k = z.k)
         /\ i = 1 \/ \E x \in ToSet(line) : Before(x, z)
<1>1. /\ Ordered(RemoveAt(line, i)) /\ ToSet(RemoveAt(line, i)) = ToSet(line) \ {z}
      /\ z \in ToSet(line)
  BY LineIsMarked, OrderWithout
<1>2. line' = RemoveAt(line, i)
  BY DEF Lose
<1>3. Len(line) \in Nat /\ DOMAIN line = 1..Len(line) /\ \A j \in DOMAIN line : line[j] \in Marked
  BY LineItems, LineIsMarked, ElementOfSeq
<1>4. \A x \in ToSet(line) : x \in Marked /\ (x.n = z.n /\ x.k = z.k => x = z)
  <2> SUFFICES ASSUME NEW j \in DOMAIN line
               PROVE  line[j].n = z.n /\ line[j].k = z.k => line[j] = z
    BY <1>3 DEF ToSet
  <2>1. j = i \/ j < i \/ i < j
    BY <1>3
  <2>2. CASE j = i
    BY <2>2
  <2>3. CASE j < i \/ i < j
    <3>1. Before(line[j], z) \/ Before(z, line[j])
      BY <2>3 DEF Ordered
    <3>2. z.n \in Nat /\ z.k \in Nat /\ line[j].n \in Nat /\ line[j].k \in Nat
      BY <1>3, BeforeIsOrder
    <3> QED
      BY <3>1, <3>2 DEF Before
  <2> QED
    BY <2>1, <2>2, <2>3
<1>5. i = 1 \/ \E x \in ToSet(line) : Before(x, z)
  <2> SUFFICES ASSUME i # 1 PROVE \E x \in ToSet(line) : Before(x, z)
    OBVIOUS
  <2>1. 1 \in DOMAIN line /\ 1 < i
    BY <1>3
  <2>2. Before(line[1], z) /\ line[1] \in ToSet(line)
    BY <2>1 DEF Ordered, ToSet
  <2> QED
    BY <2>2
<1>6. ToSet(line)' = ToSet(line) \ {z} /\ Ordered(line)'
  BY <1>1, <1>2
<1>7. ASSUME NEW n \in Nat, NEW k \in Nat
      PROVE  OnLine(n, k)' <=> OnLine(n, k) /\ ~(n = z.n /\ k = z.k)
  BY <1>4, <1>6 DEF OnLine
<1> QED
  BY <1>1, <1>4, <1>5, <1>6, <1>7

LEMMA LoseInStep ==
  ASSUME LineInv, NEW d \in Nat, NEW p \in Nat, InStep(d, p),
         NEW i \in DOMAIN line, Lose(i), ~outOfStep'
  PROVE  InStep(d, p)'
<1>1. /\ Reached(d, p) /\ Ordered(line) /\ handled = Unharmed(d) /\ d \in 0..Len(sent)
      /\ \A x \in ToSet(line) : /\ x.n \in (d + 1)..Len(sent) /\ IsIn(x, sent[x.n])
                                /\ x.n = d + 1 => x.k > p
  BY DEF InStep, Reached, OfMessages
<1>2. PICK z : z = line[i]
  OBVIOUS
<1>3. /\ z \in ToSet(line) /\ z \in Marked
      /\ Ordered(line)' /\ ToSet(line)' = ToSet(line) \ {z}
      /\ \A n, k \in Nat : OnLine(n, k)' <=> OnLine(n, k) /\ ~(n = z.n /\ k = z.k)
      /\ i = 1 \/ \E x \in ToSet(line) : Before(x, z)
  BY <1>1, <1>2, LostByte
<1>4. /\ UNCHANGED <<reader, sent, handled>> /\ harmed' = harmed \cup {z.n}
      /\ z.b # START /\ (i = 1 => ~escaped) /\ (i # 1 => line[i - 1].b # ESC)
  BY <1>2 DEF Lose
<1>5. /\ Len(sent) \in Nat /\ \A n \in (d + 1)..Len(sent) : n \in Nat /\ sent[n] \in Message
      /\ \A n \in (d + 1)..Len(sent) : LastPlace(sent[n]) \in Nat
      /\ \A n \in (d + 1)..Len(sent) : \A k \in Places(sent[n]) : k \in Nat
  <2>1. Len(sent) \in Nat /\ \A n \in (d + 1)..Len(sent) : n \in Nat /\ sent[n] \in Message
    BY LenProperties, ElementOfSeq DEF LineInv
  <2> QED
    BY <2>1, PlacesOf
<1>6. /\ z.n \in (d + 1)..Len(sent) /\ z.n \in Nat /\ z.k \in Nat /\ z.k \in Places(sent[z.n])
      /\ z.k # 1 /\ z.k # LastPlace(sent[z.n])
      /\ z.n = d + 1 => z.k > p
  <2>1. z.n \in (d + 1)..Len(sent) /\ IsIn(z, sent[z.n]) /\ (z.n = d + 1 => z.k > p)
    BY <1>1, <1>3
  <2> QED
    BY <1>3, <1>4, <1>5, <2>1, PlacesOf, BeforeIsOrder
<1>7. OfMessages(d, p)'
  <2>1. \A x \in ToSet(line)' : /\ x.n \in (d + 1)..Len(sent') /\ IsIn(x, sent'[x.n])
                                /\ x.n = d + 1 => x.k > p
    BY <1>1, <1>3, <1>4
  <2> QED
    BY <1>3, <2>1 DEF OfMessages
<1>8. EndsThere(d, p)'
  <2>1. ASSUME NEW n \in (d + 1)..Len(sent), NEW last, last = LastPlace(sent[n])
        PROVE  /\ OnLine(n, last)'
               /\ n > d + 1 \/ p = 0 => OnLine(n, 1)'
    <3>1. OnLine(n, last) /\ (n > d + 1 \/ p = 0 => OnLine(n, 1))
      BY <1>1, <2>1 DEF Reached, EndsThere
    <3>2. ~(n = z.n /\ last = z.k) /\ 1 # z.k /\ n \in Nat /\ last \in Nat
      BY <1>5, <1>6, <2>1
    <3> QED
      BY <1>3, <3>1, <3>2
  <2> QED
    BY <1>4, <2>1 DEF EndsThere
<1>9. EscapedThere'
  <2>1. ASSUME NEW n \in Nat, NEW j \in Nat, OnLine(n, 2 * j)'
        PROVE  OnLine(n, 2 * j + 1)'
    <3>1. OnLine(n, 2 * j) /\ OnLine(n, 2 * j + 1) /\ 2 * j \in Nat /\ 2 * j + 1 \in Nat
      <4>1. OnLine(n, 2 * j)
        BY <1>3, <2>1
      <4> QED
        BY <1>1, <4>1 DEF Reached, EscapedThere
    <3>2. ASSUME n = z.n, 2 * j + 1 = z.k PROVE FALSE
      <4>1. PICK e \in ToSet(line) : e.n = n /\ e.k = 2 * j
        BY <3>1 DEF OnLine
      <4>2. e \in Marked /\ IsIn(e, sent[n]) /\ n \in (d + 1)..Len(sent) /\ sent[n] \in Message
        <5>1. e \in Marked
          BY <4>1, LineIsMarked, LenProperties, ElementOfSeq DEF ToSet
        <5> QED
          BY <1>1, <1>5, <4>1, <5>1
      <4>3. e.b = ESC
        <5>1. e.k # 1 /\ e.k # LastPlace(sent[n])
          <6>1. /\ LastPlace(sent[n]) = 2 * Len(Packet(sent[n])) + 3
                /\ Len(Packet(sent[n])) \in Nat
            BY <4>2, PlacesOf, PacketBytes
          <6> QED
            BY <4>1, <6>1
        <5>2. PICK l \in 1..Len(Packet(sent[n])) : IsOf(e, l, Packet(sent[n]))
          BY <4>2, <5>1, PlacesOf
        <5> QED
          BY <4>1, <5>2 DEF IsOf
      <4>4. Before(e, z)
        BY <3>1, <3>2, <4>1 DEF Before
      <4>5. i # 1
        <5> SUFFICES ASSUME i = 1 PROVE FALSE
          OBVIOUS
        <5>1. line # << >>
          BY LineItems, EmptySeq
        <5>2. e = z \/ Before(z, e)
          BY <1>1, <1>2, <4>1, <5>1, LineIsMarked, FirstOfOrder
        <5> QED
          BY <1>3, <4>2, <4>4, <5>2, BeforeIsOrder
      <4>6. /\ line[i - 1] \in ToSet(line) /\ Before(line[i - 1], z)
            /\ e = line[i - 1] \/ Before(e, line[i - 1])
        <5>1. /\ line[i - 1] \in ToSet(line)
              /\ e = line[i - 1] \/ Before(e, line[i - 1])
          BY <1>1, <1>2, <4>1, <4>4, <4>5, LineIsMarked, OrderWithout
        <5>2. i - 1 \in DOMAIN line /\ i - 1 < i
          BY <4>5, LineItems
        <5> QED
          BY <1>1, <1>2, <5>1, <5>2 DEF Ordered
      <4>7. line[i - 1].n \in Nat /\ line[i - 1].k \in Nat
        <5>1. line[i - 1] \in Marked
          BY <4>6, LineIsMarked, LenProperties, ElementOfSeq DEF ToSet
        <5> QED
          BY <5>1, BeforeIsOrder
      <4>8. e = line[i - 1]
        BY <3>1, <3>2, <4>1, <4>6, <4>7 DEF Before
      <4> QED
        BY <1>4, <4>3, <4>5, <4>8
    <3> QED
      BY <1>3, <3>1, <3>2
  <2> QED
    BY <2>1 DEF EscapedThere
<1>10. UnharmedThere(d, p)'
  <2>1. ASSUME NEW n \in (d + 1)..Len(sent), n \notin harmed', NEW k \in Places(sent[n]),
               n > d + 1 \/ k > p
        PROVE  OnLine(n, k)'
    <3>1. OnLine(n, k) /\ n # z.n /\ n \in Nat /\ k \in Nat
      BY <1>1, <1>4, <1>5, <2>1 DEF Reached, UnharmedThere
    <3> QED
      BY <1>3, <3>1
  <2> QED
    BY <1>4, <2>1 DEF UnharmedThere
<1>11. ~OnLine(z.n, z.k)' /\ z.k \in Places(sent[z.n])
  <2>1. PICK n, k : n = z.n /\ k = z.k
    OBVIOUS
  <2>2. ~OnLine(n, k)'
    BY <1>3, <1>6, <2>1
  <2> QED
    BY <1>6, <2>1, <2>2
<1>12. HarmedLack(d, p)'
  <2>1. ASSUME NEW n \in (d + 1)..Len(sent), n \in harmed', n > d + 1 \/ p = 0
        PROVE  \E k \in Places(sent[n]) : ~OnLine(n, k)'
    <3>1. CASE n = z.n
      BY <1>11, <3>1
    <3>2. CASE n \in harmed
      <4>1. PICK k \in Places(sent[n]) : ~OnLine(n, k)
        BY <1>1, <2>1, <3>2 DEF Reached, HarmedLack
      <4>2. n \in Nat /\ k \in Nat
        BY <1>5, <4>1
      <4> QED
        BY <1>3, <4>1, <4>2
    <3> QED
      BY <1>4, <2>1, <3>1, <3>2
  <2> QED
    BY <1>4, <2>1 DEF HarmedLack
<1>13. Reached(d, p)'
  BY <1>1, <1>4, <1>7, <1>8, <1>9, <1>10, <1>12 DEF Reached
<1>14. (handled = Unharmed(d))'
  <2>1. \A n \in 1..d : sent[n] = sent'[n] /\ (n \in harmed <=> n \in harmed')
    BY <1>1, <1>4, <1>6
  <2>2. Kept(d, sent, harmed) = Kept(d, sent', harmed')
    BY <2>1, SameKept
  <2> QED
    BY <1>1, <1>4, <2>2, UnharmedIsKept
<1>15. Between(p) => Between(p)'
  BY <1>4 DEF Between, reader
<1>16. ASSUME NEW u \in Nat, Within(d, p, u) PROVE Within(d, p, u)'
  <2>1. PICK m : m = sent[d + 1]
    OBVIOUS
  <2>2. /\ d < Len(sent) /\ rxserialbuf # << >> /\ rxserialbuf[1] = START
        /\ u \in 0..Len(Packet(m)) /\ LeftOfFirst(u, Packet(m), Tail(rxserialbuf))
        /\ AllOfFirst(u, Packet(m), Tail(rxserialbuf)) /\ d + 1 \in harmed =>
             \E k \in Places(m) : k > p /\ ~OnLine(d + 1, k)
        /\ d + 1 \notin harmed => AllOfFirst(u, Packet(m), Tail(rxserialbuf))
        /\ \/ ~escaped /\ p = 2 * u + 1
           \/ /\ escaped /\ p = 2 * u + 2 /\ OnLine(d + 1, 2 * u + 3)
              /\ u < Len(Packet(m)) /\ Packet(m)[u + 1] \in Special
    BY <1>16, <2>1 DEF Within
  <2>3. d + 1 \in (d + 1)..Len(sent) /\ d + 1 \in Nat
    BY <1>1, <1>5, <2>2
  <2>4. escaped => OnLine(d + 1, 2 * u + 3)'
    <3> SUFFICES ASSUME escaped PROVE OnLine(d + 1, 2 * u + 3)'
      OBVIOUS
    <3>1. p = 2 * u + 2 /\ OnLine(d + 1, 2 * u + 3)
      BY <2>2
    <3>2. PICK x \in ToSet(line) : Before(x, z)
      BY <1>3, <1>4
    <3>3. x.n \in (d + 1)..Len(sent) /\ (x.n = d + 1 => x.k > p) /\ x.k \in Nat
      <4>1. x \in Marked
        BY LineIsMarked, LenProperties, ElementOfSeq DEF ToSet
      <4> QED
        BY <1>1, <4>1, BeforeIsOrder
    <3>4. ~(d + 1 = z.n /\ 2 * u + 3 = z.k)
      BY <1>5, <3>1, <3>2, <3>3 DEF Before
    <3>5. 2 * u + 3 \in Nat
      OBVIOUS
    <3> QED
      BY <1>3, <2>3, <3>1, <3>4, <3>5
  <2>5. AllOfFirst(u, Packet(m), Tail(rxserialbuf)) /\ d + 1 \in harmed' =>
          \E k \in Places(m) : k > p /\ ~OnLine(d + 1, k)'
    <3> SUFFICES ASSUME AllOfFirst(u, Packet(m), Tail(rxserialbuf)), d + 1 \in harmed'
                 PROVE  \E k \in Places(m) : k > p /\ ~OnLine(d + 1, k)'
      OBVIOUS
    <3>1. CASE d + 1 = z.n
      BY <1>6, <1>11, <2>1, <3>1
    <3>2. CASE d + 1 \in harmed
      <4>1. PICK k \in Places(m) : k > p /\ ~OnLine(d + 1, k)
        BY <2>2, <3>2
      <4>2. k \in Nat
        BY <1>5, <2>1, <2>3, <4>1
      <4> QED
        BY <1>3, <2>3, <4>1, <4>2
    <3> QED
      BY <1>4, <3>1, <3>2
  <2>6. UNCHANGED <<rxserialbuf, escaped, sent>>
    BY <1>4 DEF reader
  <2>7. m = sent'[d + 1] /\ d < Len(sent')
    BY <2>1, <2>2, <2>6
  <2>8. \/ ~escaped' /\ p = 2 * u + 1
        \/ /\ escaped' /\ p = 2 * u + 2 /\ OnLine(d + 1, 2 * u + 3)'
           /\ u < Len(Packet(m)) /\ Packet(m)[u + 1] \in Special
    BY <2>2, <2>4, <2>6, Zenon
  <2>9. /\ (rxserialbuf # << >>)' /\ (rxserialbuf[1] = START)'
        /\ LeftOfFirst(u, Packet(m), Tail(rxserialbuf'))
        /\ AllOfFirst(u, Packet(m), Tail(rxserialbuf')) =>
             (d + 1 \in harmed' => \E k \in Places(m) : k > p /\ ~OnLine(d + 1, k)')
        /\ d + 1 \notin harmed' => AllOfFirst(u, Packet(m), Tail(rxserialbuf'))
    BY <1>4, <2>2, <2>5, <2>6
  <2> QED
    BY <2>2, <2>7, <2>8, <2>9 DEF Within
<1>17. Between(p) \/ \E u \in Nat : Within(d, p, u)
  BY DEF InStep
<1> QED
  BY <1>13, <1>14, <1>15, <1>16, <1>17 DEF InStep

(* The frame the sink begins with when it has restarted: message e + 1.         *)
LEMMA BeginsWith ==
  ASSUME LineInv, NEW d \in Nat, NEW p \in Nat, Reached(d, p),
         NEW j \in 0..Len(line), line' = SubSeq(line, j + 1, Len(line)), Begins(line')
  PROVE  \E e \in d..Len(sent) :
           /\ \A i \in 1..j : line[i].n <= e
           /\ \A x \in ToSet(line)' : x.n >= e + 1
           /\ e < Len(sent) => OnLine(e + 1, 1)'
           /\ e < Len(sent) /\ e = d => p = 0
<1>1. /\ Ordered(line) /\ d \in 0..Len(sent) /\ Len(sent) \in Nat
      /\ \A x \in ToSet(line) : /\ x.n \in (d + 1)..Len(sent) /\ IsIn(x, sent[x.n])
                                /\ x.n = d + 1 => x.k > p
  BY LenProperties DEF Reached, OfMessages, LineInv
<1>2. PICK r : r = SubSeq(line, j + 1, Len(line))
  OBVIOUS
<1>3. /\ r \in Seq(Marked) /\ Ordered(r)
      /\ ToSet(line) = {line[i] : i \in 1..j} \cup ToSet(r)
      /\ \A i \in 1..j : \A y \in ToSet(r) : Before(line[i], y)
  BY <1>1, <1>2, LineIsMarked, RestOfOrder
<1>4. r = line'
  BY <1>2
<1>5. \A i \in 1..j : line[i] \in ToSet(line) /\ line[i] \in Marked
  <2>1. \A i \in 1..j : i \in DOMAIN line /\ i \in 1..Len(line)
    BY LineItems
  <2> QED
    BY <2>1, LineIsMarked, ElementOfSeq DEF ToSet
<1>6. \A x \in ToSet(r) : x \in ToSet(line) /\ x \in Marked
  <2>1. \A x \in ToSet(r) : x \in Marked
    BY <1>3, LenProperties, ElementOfSeq DEF ToSet
  <2> QED
    BY <1>3, <2>1
<1>7. CASE r = << >>
  <2>1. ToSet(r) = {}
    BY <1>7, EmptySeq, LenProperties DEF ToSet
  <2>2. Len(sent) \in d..Len(sent) /\ \A i \in 1..j : line[i].n <= Len(sent)
    BY <1>1, <1>5
  <2>3. PICK e : e = Len(sent)
    OBVIOUS
  <2>4. /\ e \in d..Len(sent) /\ ~(e < Len(sent))
        /\ \A i \in 1..j : line[i].n <= e
        /\ \A x \in ToSet(line)' : x.n >= e + 1
    BY <1>1, <1>4, <2>1, <2>2, <2>3
  <2> QED
    BY <2>4
<1>8. CASE r # << >>
  <2>1. /\ r[1].b = START /\ Len(r) > 1 /\ r[2].n = r[1].n
    BY <1>4, <1>8 DEF Begins
  <2>2. PICK f : f = r[1]
    OBVIOUS
  <2>3. PICK g : g = r[2]
    OBVIOUS
  <2>4. 1 \in DOMAIN r /\ 2 \in DOMAIN r /\ 1 < 2
    BY <1>3, <2>1, LenProperties
  <2>5. /\ f \in ToSet(r) /\ g \in ToSet(r) /\ Before(f, g) /\ f.b = START /\ g.n = f.n
        /\ \A x \in ToSet(r) : x = f \/ Before(f, x)
    BY <1>3, <1>8, <2>1, <2>2, <2>3, <2>4, FirstOfOrder DEF Ordered, ToSet
  <2>6. PICK m : m = sent[f.n]
    OBVIOUS
  <2>7. /\ f \in Marked /\ g \in Marked /\ f.n \in (d + 1)..Len(sent)
        /\ IsIn(f, m) /\ IsIn(g, m)
        /\ f.n = d + 1 => f.k > p
    BY <1>1, <1>6, <2>5, <2>6
  <2>8. m \in Message
    BY <1>1, <2>6, <2>7, ElementOfSeq DEF LineInv
  <2>9. f.k = 1 \/ f.k = LastPlace(m)
    <3> SUFFICES ASSUME f.k # 1, f.k # LastPlace(m) PROVE FALSE
      OBVIOUS
    <3>1. PICK i \in 1..Len(Packet(m)) : IsOf(f, i, Packet(m))
      BY <2>7, <2>8, PlacesOf
    <3> QED
      BY <2>5, <3>1, Escapes DEF IsOf
  <2>10. f.k = 1
    <3>1. g.k <= LastPlace(m) /\ LastPlace(m) \in Nat
      BY <2>7, <2>8, PlacesOf
    <3>2. f.n \in Nat /\ f.k \in Nat /\ g.k \in Nat
      BY <2>7, BeforeIsOrder
    <3> QED
      BY <2>5, <2>9, <3>1, <3>2 DEF Before
  <2>11. PICK e : e = f.n - 1
    OBVIOUS
  <2>12. e \in d..Len(sent) /\ e + 1 = f.n
    BY <1>1, <2>7, <2>11
  <2>13. \A x \in ToSet(r) : x.n >= e + 1
    <3>1. \A x \in ToSet(r) : x.n \in Nat
      BY <1>6, BeforeIsOrder
    <3> QED
      BY <1>1, <2>5, <2>7, <2>12, <3>1 DEF Before
  <2>14. ASSUME NEW i \in 1..j PROVE line[i].n <= e
    <3>1. /\ Before(line[i], f) /\ line[i].n \in (d + 1)..Len(sent)
          /\ line[i] \in Marked /\ IsIn(line[i], sent[line[i].n])
      BY <1>1, <1>3, <1>5, <2>5
    <3>2. line[i].k >= 1 /\ line[i].k \in Nat
      <4>1. sent[line[i].n] \in Message
        BY <1>1, <3>1, ElementOfSeq DEF LineInv
      <4> QED
        BY <3>1, <4>1, PlacesOf
    <3> QED
      BY <1>1, <2>7, <2>10, <2>12, <3>1, <3>2 DEF Before
  <2>15. OnLine(e + 1, 1)'
    BY <1>4, <2>5, <2>10, <2>12 DEF OnLine
  <2>16. e = d => p = 0
    BY <2>7, <2>10, <2>12
  <2>17. \A x \in ToSet(line)' : x.n >= e + 1
    BY <1>4, <2>13
  <2> QED
    BY <2>12, <2>14, <2>15, <2>16, <2>17
<1> QED
  BY <1>7, <1>8

(* Missing bytes and beginning with a frame.                                   *)
LEMMA MissInStep ==
  ASSUME LineInv, NEW d \in Nat, NEW p \in Nat, InStep(d, p), MissBytes, ~outOfStep'
  PROVE  \E e \in Nat : InStep(e, 0)'
<1>1. /\ Reached(d, p) /\ Ordered(line) /\ handled = Unharmed(d) /\ d \in 0..Len(sent)
      /\ \A x \in ToSet(line) : /\ x.n \in (d + 1)..Len(sent) /\ IsIn(x, sent[x.n])
                                /\ x.n = d + 1 => x.k > p
  BY DEF InStep, Reached, OfMessages
<1>2. PICK j \in 0..Len(line) :
        /\ line' = SubSeq(line, j + 1, Len(line))
        /\ rxserialbuf' = << >> /\ escaped' = FALSE
        /\ harmed' = harmed \cup {line[i].n : i \in 1..j}
        /\ Begins(line')
        /\ UNCHANGED <<sent, handled>>
  BY DEF MissBytes
<1>3. PICK e \in d..Len(sent) :
        /\ \A i \in 1..j : line[i].n <= e
        /\ \A x \in ToSet(line)' : x.n >= e + 1
        /\ e < Len(sent) => OnLine(e + 1, 1)'
        /\ e < Len(sent) /\ e = d => p = 0
  BY <1>1, <1>2, BeginsWith
<1>4. /\ Len(sent) \in Nat /\ e \in Nat /\ d <= e /\ e <= Len(sent)
      /\ \A n \in (d + 1)..Len(sent) : n \in Nat /\ sent[n] \in Message
      /\ \A n \in (d + 1)..Len(sent) : LastPlace(sent[n]) \in Nat
      /\ \A n \in (d + 1)..Len(sent) : \A k \in Places(sent[n]) : k \in Nat /\ k >= 1
      /\ \A n \in (e + 1)..Len(sent) : n \in (d + 1)..Len(sent)
  <2>1. Len(sent) \in Nat /\ \A n \in (d + 1)..Len(sent) : n \in Nat /\ sent[n] \in Message
    BY LenProperties, ElementOfSeq DEF LineInv
  <2>2. \A n \in (d + 1)..Len(sent) : LastPlace(sent[n]) \in Nat
    BY <2>1, PlacesOf
  <2>3. \A n \in (d + 1)..Len(sent) : \A k \in Places(sent[n]) : k \in Nat /\ k >= 1
    BY <2>1, PlacesOf
  <2> QED
    BY <2>1, <2>2, <2>3
<1>5. /\ Ordered(line)' /\ ToSet(line) = {line[i] : i \in 1..j} \cup ToSet(line)'
      /\ \A x \in ToSet(line)' : x \in Marked
  <2>1. PICK r : r = SubSeq(line, j + 1, Len(line))
    OBVIOUS
  <2>2. /\ r \in Seq(Marked) /\ Ordered(r)
        /\ ToSet(line) = {line[i] : i \in 1..j} \cup ToSet(r)
    BY <1>1, <2>1, LineIsMarked, RestOfOrder
  <2>3. r = line'
    BY <1>2, <2>1
  <2>4. \A x \in ToSet(r) : x \in Marked
    BY <2>2, LenProperties, ElementOfSeq DEF ToSet
  <2> QED
    BY <2>2, <2>3, <2>4
<1>6. \A n, k : OnLine(n, k)' => OnLine(n, k) /\ n >= e + 1
  BY <1>3, <1>5 DEF OnLine
<1>7. ASSUME NEW n, NEW k, OnLine(n, k) PROVE OnLine(n, k)' \/ \E i \in 1..j : line[i].n = n
  BY <1>5, <1>7 DEF OnLine
<1>8. ASSUME NEW n \in Nat, NEW k, n >= e + 1 PROVE OnLine(n, k)' <=> OnLine(n, k)
  <2>1. ~\E i \in 1..j : line[i].n = n
    BY <1>3, <1>4, <1>8
  <2> QED
    BY <1>6, <1>7, <2>1
<1>9. \A n \in (e + 1)..Len(sent) : n \in (d + 1)..Len(sent) /\ n \in Nat /\ n >= e + 1
  BY <1>4
<1>10. \A n \in (e + 1)..Len(sent) : n > d + 1 \/ p = 0
  BY <1>3, <1>4
<1>11. OfMessages(e, 0)'
  <2>1. ASSUME NEW x \in ToSet(line)'
        PROVE  x.n \in (e + 1)..Len(sent) /\ IsIn(x, sent[x.n]) /\ x.k > 0
    <3>1. x.n \in (d + 1)..Len(sent) /\ IsIn(x, sent[x.n]) /\ x \in Marked
      BY <1>1, <1>5
    <3>2. x.k >= 1 /\ x.k \in Nat
      BY <1>4, <3>1, PlacesOf
    <3> QED
      BY <1>3, <1>4, <3>1, <3>2
  <2> QED
    BY <1>2, <1>5, <2>1 DEF OfMessages
<1>12. EndsThere(e, 0)'
  <2>1. ASSUME NEW n \in (e + 1)..Len(sent), NEW last, last = LastPlace(sent[n])
        PROVE  OnLine(n, last)' /\ OnLine(n, 1)'
    <3>1. OnLine(n, last) /\ (n > d + 1 \/ p = 0 => OnLine(n, 1))
      BY <1>1, <1>9, <2>1 DEF Reached, EndsThere
    <3> QED
      BY <1>8, <1>9, <1>10, <3>1
  <2> QED
    BY <1>2, <2>1 DEF EndsThere
<1>13. EscapedThere'
  <2>1. ASSUME NEW n \in Nat, NEW l \in Nat, OnLine(n, 2 * l)'
        PROVE  OnLine(n, 2 * l + 1)'
    <3>1. OnLine(n, 2 * l) /\ n >= e + 1
      BY <1>6, <2>1
    <3>2. OnLine(n, 2 * l + 1)
      BY <1>1, <3>1 DEF Reached, EscapedThere
    <3> QED
      BY <1>8, <3>1, <3>2
  <2> QED
    BY <2>1 DEF EscapedThere
<1>14. UnharmedThere(e, 0)'
  <2>1. ASSUME NEW n \in (e + 1)..Len(sent), n \notin harmed', NEW k \in Places(sent[n])
        PROVE  OnLine(n, k)'
    <3>1. n \notin harmed /\ (n > d + 1 \/ k > p)
      <4>1. k \in Nat /\ k >= 1
        BY <1>4, <1>9
      <4>2. n > d + 1 \/ p = 0
        BY <1>10
      <4> QED
        BY <1>2, <2>1, <4>1, <4>2
    <3>2. OnLine(n, k)
      BY <1>1, <1>9, <3>1 DEF Reached, UnharmedThere
    <3> QED
      BY <1>8, <1>9, <3>2
  <2> QED
    BY <1>2, <2>1 DEF UnharmedThere
<1>15. HarmedLack(e, 0)'
  <2>1. ASSUME NEW n \in (e + 1)..Len(sent), n \in harmed'
        PROVE  \E k \in Places(sent[n]) : ~OnLine(n, k)'
    <3>1. n \in harmed
      BY <1>2, <1>3, <1>4, <2>1
    <3>2. PICK k \in Places(sent[n]) : ~OnLine(n, k)
      BY <1>1, <1>9, <1>10, <3>1 DEF Reached, HarmedLack
    <3> QED
      BY <1>6, <3>2
  <2> QED
    BY <1>2, <2>1 DEF HarmedLack
<1>16. Reached(e, 0)'
  BY <1>2, <1>4, <1>11, <1>12, <1>13, <1>14, <1>15 DEF Reached
<1>17. (handled = Unharmed(e))'
  <2>1. ASSUME NEW n \in 1..d PROVE sent[n] = sent[n] /\ (n \in harmed <=> n \in harmed')
    <3>1. \A i \in 1..j : line[i].n \in (d + 1)..Len(sent)
      <4>1. \A i \in 1..j : line[i] \in ToSet(line)
        BY <1>5
      <4> QED
        BY <1>1, <4>1
    <3> QED
      BY <1>2, <3>1
  <2>2. Kept(d, sent, harmed) = Kept(d, sent, harmed')
    BY <2>1, SameKept
  <2>3. (d + 1)..e \subseteq harmed'
    <3> SUFFICES ASSUME NEW n \in (d + 1)..e PROVE n \in harmed'
      OBVIOUS
    <3>1. n \in (d + 1)..Len(sent) /\ ~(n >= e + 1)
      BY <1>4
    <3>2. PICK last : last = LastPlace(sent[n])
      OBVIOUS
    <3>3. OnLine(n, last)
      BY <1>1, <3>1, <3>2 DEF Reached, EndsThere
    <3>4. \E i \in 1..j : line[i].n = n
      BY <1>6, <1>7, <3>1, <3>3
    <3> QED
      BY <1>2, <3>4
  <2>4. Kept(e, sent, harmed') = Kept(d, sent, harmed')
    BY <2>3, KeptSkips DEF LineInv
  <2>5. handled' = Kept(e, sent', harmed')
    BY <1>1, <1>2, <2>2, <2>4, UnharmedIsKept
  <2> QED
    BY <2>5 DEF Unharmed, Kept
<1>18. Between(0)'
  BY <1>2 DEF Between
<1> QED
  BY <1>4, <1>16, <1>17, <1>18 DEF InStep
-----------------------------------------------------------------------------
(* StepInv: at first, kept by every step of the line, and what follows.       *)

\* The steps of the computer, the line and the reader.
LineStep ==
  \/ \E m \in Message : Send(m)
  \/ \E i \in DOMAIN line : Lose(i)
  \/ ReadByte \/ ReadNothing \/ \E m \in Message : ReadEnd(m)
  \/ MissBytes

LEMMA StepStarts == LineInit => StepInv
<1> SUFFICES ASSUME LineInit PROVE StepInv
  OBVIOUS
<1>1. InStep(0, 0) /\ 0 \in Nat
  BY InStepAtFirst
<1> QED
  BY <1>1 DEF StepInv

LEMMA LineInvKept ==
  ASSUME LineInv, LineStep PROVE LineInv'
BY SendKeeps, LossKeeps, ReadKeeps DEF LineStep

LEMMA StepKept ==
  ASSUME LineInv, NoneLeftOfAnother, StepInv, LineStep PROVE StepInv'
<1> SUFFICES ASSUME ~outOfStep' PROVE \E e, q \in Nat : InStep(e, q)'
  BY DEF StepInv
<1>1. ~outOfStep
  <2>1. CASE MissBytes \/ \E i \in DOMAIN line : Lose(i)
    BY <2>1 DEF Lose, MissBytes
  <2>2. CASE \/ \E m \in Message : Send(m)
             \/ ReadByte \/ ReadNothing \/ \E m \in Message : ReadEnd(m)
    <3>1. UNCHANGED harm
      BY <2>2 DEF Send, ReadByte, ReadNothing, ReadEnd
    <3> QED
      BY <3>1 DEF harm
  <2> QED
    BY <2>1, <2>2 DEF LineStep
<1>2. PICK d, p \in Nat : InStep(d, p)
  BY <1>1 DEF StepInv
<1>3. ASSUME NEW m \in Message, Send(m) PROVE InStep(d, p)'
  BY <1>2, <1>3, SendInStep
<1>4. ASSUME NEW i \in DOMAIN line, Lose(i) PROVE InStep(d, p)'
  BY <1>2, <1>4, LoseInStep
<1>5. CASE ReadByte \/ ReadNothing \/ \E m \in Message : ReadEnd(m)
  BY <1>2, <1>5, ReadInStep
<1>6. CASE MissBytes
  <2>1. (\E e \in Nat : InStep(e, 0)') /\ 0 \in Nat
    BY <1>2, <1>6, MissInStep
  <2> QED
    BY <2>1
<1> QED
  BY <1>2, <1>3, <1>4, <1>5, <1>6 DEF LineStep

(* What is handled is what was sent, without what was harmed.                 *)
LEMMA StepSuffices ==
  ASSUME LineInv, StepInv PROVE OneLossOneMessage
<1> SUFFICES ASSUME ~outOfStep
             PROVE  /\ IsPrefix(handled, Unharmed(Len(sent)))
                    /\ line = << >> /\ ~escaped => handled = Unharmed(Len(sent))
  BY DEF OneLossOneMessage
<1>1. PICK d, p \in Nat : InStep(d, p)
  BY DEF StepInv
<1>2. Len(sent) \in Nat /\ d \in 0..Len(sent) /\ Len(sent) \in d..Len(sent)
  BY <1>1, LenProperties DEF InStep, Reached, LineInv
<1>3. handled = Kept(d, sent, harmed) /\ Unharmed(Len(sent)) = Kept(Len(sent), sent, harmed)
  BY <1>1, UnharmedIsKept DEF InStep
<1>4. IsPrefix(handled, Unharmed(Len(sent)))
  BY <1>2, <1>3, KeptIsPrefix DEF LineInv
<1>5. ASSUME line = << >> PROVE d = Len(sent)
  <2>1. ToSet(line) = {}
    BY <1>5, LineItems, EmptySeq DEF ToSet
  <2>2. \A n \in (d + 1)..Len(sent) : OnLine(n, LastPlace(sent[n]))
    BY <1>1 DEF InStep, Reached, EndsThere
  <2>3. \A n \in (d + 1)..Len(sent) : FALSE
    BY <2>1, <2>2 DEF OnLine
  <2> QED
    BY <1>2, <2>3
<1> QED
  BY <1>3, <1>4, <1>5
=============================================================================
