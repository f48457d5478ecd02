---------------------------- MODULE MeshFifoProof ----------------------------
(***************************************************************************)
(* The proofs that the two rings of MeshLink implement first-in first-out   *)
(* buffers (module BoundedFifo), for every ring size: rxqueue always,       *)
(* txqueue as long as the timer interrupt does not send.                    *)
(***************************************************************************)
EXTENDS MeshLinkProof, SequenceTheorems

-----------------------------------------------------------------------------
(* What a ring holds.                                                       *)

\* The slot of the k-th item.
Place(r, k) == (r.front + k - 1) % RFQUENEMAX

(* Two turns of the ring are enough to see where an index ends up.           *)
LEMMA RemainderOf ==
  ASSUME NEW a \in 0..(2 * RFQUENEMAX - 1)
  PROVE  a % RFQUENEMAX = IF a < RFQUENEMAX THEN a ELSE a - RFQUENEMAX
BY QueueAssumption, SMT

(* How many slots are in use, without the remainder.                         *)
LEMMA UsedValue ==
  ASSUME NEW r \in Ring
  PROVE  /\ Used(r) \in 0..(RFQUENEMAX - 1)
         /\ Used(r) = IF r.front <= r.rear THEN r.rear - r.front
                      ELSE r.rear - r.front + RFQUENEMAX
<1>1. r.front \in 0..(RFQUENEMAX - 1) /\ r.rear \in 0..(RFQUENEMAX - 1)
  BY DEF Ring, Slot
<1>2. r.rear - r.front + RFQUENEMAX \in 0..(2 * RFQUENEMAX - 1)
  BY <1>1, QueueAssumption, SMT
<1> QED
  BY <1>1, <1>2, RemainderOf, QueueAssumption, SMT DEF Used

(* Where the items are, without the remainder.                               *)
LEMMA PlaceValue ==
  ASSUME NEW r \in Ring, NEW k \in 1..RFQUENEMAX
  PROVE  /\ Place(r, k) \in Slot
         /\ Place(r, k) = IF r.front + k - 1 < RFQUENEMAX THEN r.front + k - 1
                          ELSE r.front + k - 1 - RFQUENEMAX
<1>1. r.front \in 0..(RFQUENEMAX - 1)
  BY DEF Ring, Slot
<1>2. r.front + k - 1 \in 0..(2 * RFQUENEMAX - 1)
  BY <1>1, QueueAssumption, SMT
<1> QED
  BY <1>1, <1>2, RemainderOf, QueueAssumption, SMT DEF Place, Slot

(* The contents of a ring are a sequence of what is in its slots.            *)
LEMMA ContentsAreSeq ==
  ASSUME NEW S, NEW slots \in [Slot -> S], NEW r \in Ring
  PROVE  /\ Contents(r, slots) \in Seq(S)
         /\ Len(Contents(r, slots)) = Used(r)
         /\ \A k \in 1..Used(r) : Contents(r, slots)[k] = slots[Place(r, k)]
<1> DEFINE c == Contents(r, slots)
<1>1. Used(r) \in Nat /\ \A k \in 1..Used(r) : k \in 1..RFQUENEMAX
  BY UsedValue, QueueAssumption, SMT
<1>2. \A k \in 1..Used(r) : c[k] = slots[Place(r, k)] /\ c[k] \in S
  BY <1>1, PlaceValue DEF Contents, Place
<1>3. c \in [1..Used(r) -> S]
  BY <1>2 DEF Contents
<1>4. c \in Seq(S) /\ Len(c) = Used(r)
  BY <1>1, <1>3, SeqDef
<1> QED
  BY <1>2, <1>4

(* inqueue of an item appends it, and there was room for it.                 *)
LEMMA ContentsInqueue ==
  ASSUME NEW S, NEW slots \in [Slot -> S], NEW r \in Ring, ~Full(r),
         NEW q \in Ring, q.front = r.front, q.rear = After(r.rear),
         NEW filled \in [Slot -> S],
         \A i \in Slot \ {r.rear} : filled[i] = slots[i]
  PROVE  /\ Contents(q, filled) = Append(Contents(r, slots), filled[r.rear])
         /\ Len(Contents(r, slots)) < RFQUENEMAX - 1
<1> DEFINE x == filled[r.rear]
<1>0. x \in S
  BY DEF Ring
<1> HIDE DEF x
<1>1. /\ r.front \in 0..(RFQUENEMAX - 1) /\ r.rear \in 0..(RFQUENEMAX - 1)
      /\ q.front = r.front
      /\ q.rear = IF r.rear = RFQUENEMAX - 1 THEN 0 ELSE r.rear + 1
      /\ q.rear # r.front
  BY AfterValue DEF Ring, Slot, Full
<1>2. Used(q) = Used(r) + 1 /\ Used(r) \in Nat /\ Used(r) < RFQUENEMAX - 1
  <2>1. Used(r) \in Nat /\ Used(q) \in 0..(RFQUENEMAX - 1)
    BY UsedValue, QueueAssumption, SMT
  <2>2. Used(q) = Used(r) + 1
    BY <1>1, UsedValue, QueueAssumption, SMT
  <2> QED
    BY <2>1, <2>2, QueueAssumption, SMT
<1>3. Place(q, Used(r) + 1) = r.rear
  BY <1>1, <1>2, UsedValue, PlaceValue, QueueAssumption, SMT
<1>4. \A k \in 1..Used(r) : /\ Place(q, k) = Place(r, k)
                            /\ Place(r, k) \in Slot /\ Place(r, k) # r.rear
  <2> TAKE k \in 1..Used(r)
  <2>1. k \in 1..RFQUENEMAX
    BY <1>2, QueueAssumption, SMT
  <2>2. Place(q, k) = Place(r, k)
    BY <1>1 DEF Place
  <2>3. Place(r, k) \in Slot
    BY <2>1, PlaceValue
  <2>4. Place(r, k) # r.rear
    BY <1>1, <1>2, <2>1, UsedValue, PlaceValue, QueueAssumption, SMT
  <2> QED
    BY <2>2, <2>3, <2>4
<1> DEFINE c == Contents(r, slots)
           d == Contents(q, filled)
<1>5. /\ c \in Seq(S) /\ Len(c) = Used(r)
      /\ \A k \in 1..Used(r) : c[k] = slots[Place(r, k)]
  BY ContentsAreSeq
<1>6. /\ d \in Seq(S) /\ Len(d) = Used(r) + 1
      /\ \A k \in 1..(Used(r) + 1) : d[k] = filled[Place(q, k)]
  <2>1. /\ d \in Seq(S) /\ Len(d) = Used(q)
        /\ \A k \in 1..Used(q) : d[k] = filled[Place(q, k)]
    BY ContentsAreSeq
  <2>2. Used(q) = Used(r) + 1
    BY <1>2
  <2> HIDE DEF d
  <2> QED
    BY <2>1, <2>2
<1>7. /\ Append(c, x) \in Seq(S) /\ Len(Append(c, x)) = Used(r) + 1
      /\ \A k \in 1..Used(r) : Append(c, x)[k] = c[k]
      /\ Append(c, x)[Used(r) + 1] = x
  BY <1>0, <1>5, AppendProperties
<1> HIDE DEF c, d
<1>8. ASSUME NEW k \in 1..(Used(r) + 1) PROVE d[k] = Append(c, x)[k]
  <2>1. CASE k = Used(r) + 1
    BY <2>1, <1>3, <1>6, <1>7 DEF x
  <2>2. CASE k # Used(r) + 1
    <3>1. k \in 1..Used(r)
      BY <2>2, <1>2, SMT
    <3> QED
      BY <3>1, <1>4, <1>5, <1>6, <1>7
  <2> QED
    BY <2>1, <2>2
<1>9. d = Append(c, x)
  BY <1>6, <1>7, <1>8, SeqEqual
<1> QED
  BY <1>2, <1>5, <1>9 DEF c, d, x

(* dequeue removes the first item, which is in the slot at the front.        *)
LEMMA ContentsDequeue ==
  ASSUME NEW S, NEW slots \in [Slot -> S], NEW r \in Ring, ~Empty(r),
         NEW q \in Ring, q.front = After(r.front), q.rear = r.rear
  PROVE  /\ Contents(r, slots) # << >>
         /\ Head(Contents(r, slots)) = slots[r.front]
         /\ Contents(q, slots) = Tail(Contents(r, slots))
<1>1. /\ r.front \in 0..(RFQUENEMAX - 1) /\ r.rear \in 0..(RFQUENEMAX - 1)
      /\ r.front # r.rear /\ q.rear = r.rear
      /\ q.front = IF r.front = RFQUENEMAX - 1 THEN 0 ELSE r.front + 1
  BY AfterValue DEF Ring, Slot, Empty
<1>2. Used(r) \in Nat /\ Used(r) >= 1 /\ Used(r) < RFQUENEMAX
      /\ Used(q) = Used(r) - 1
  <2>1. Used(r) \in 0..(RFQUENEMAX - 1)
    BY UsedValue
  <2>2. Used(q) = Used(r) - 1 /\ Used(r) >= 1
    BY <1>1, UsedValue, QueueAssumption, SMT
  <2> QED
    BY <2>1, <2>2, QueueAssumption, SMT
<1>3. Place(r, 1) = r.front
  BY <1>1, PlaceValue, QueueAssumption, SMT
<1>4. \A k \in 1..(Used(r) - 1) : Place(q, k) = Place(r, k + 1)
  <2> TAKE k \in 1..(Used(r) - 1)
  <2>1. k \in 1..RFQUENEMAX /\ k + 1 \in 1..RFQUENEMAX
    BY <1>2, QueueAssumption, SMT
  <2> QED
    BY <1>1, <2>1, PlaceValue, QueueAssumption, SMT
<1> DEFINE c == Contents(r, slots)
           d == Contents(q, slots)
<1>5. /\ c \in Seq(S) /\ Len(c) = Used(r)
      /\ \A k \in 1..Used(r) : c[k] = slots[Place(r, k)]
  BY ContentsAreSeq
<1>6. /\ d \in Seq(S) /\ Len(d) = Used(r) - 1
      /\ \A k \in 1..(Used(r) - 1) : d[k] = slots[Place(q, k)]
  <2>1. /\ d \in Seq(S) /\ Len(d) = Used(q)
        /\ \A k \in 1..Used(q) : d[k] = slots[Place(q, k)]
    BY ContentsAreSeq
  <2>2. Used(q) = Used(r) - 1
    BY <1>2
  <2> HIDE DEF d
  <2> QED
    BY <2>1, <2>2
<1> HIDE DEF c, d
<1>7. c # << >>
  BY <1>2, <1>5, EmptySeq
<1>8. Head(c) = slots[r.front]
  <2>1. Head(c) = c[1]
    BY <1>5
  <2> QED
    BY <2>1, <1>2, <1>3, <1>5
<1>9. /\ Tail(c) \in Seq(S) /\ Len(Tail(c)) = Used(r) - 1
      /\ \A k \in 1..(Used(r) - 1) : Tail(c)[k] = c[k + 1]
  BY <1>5, <1>7, HeadTailProperties
<1>10. \A k \in 1..(Used(r) - 1) : k + 1 \in 1..Used(r)
  BY <1>2, SMT
<1>11. d = Tail(c)
  BY <1>4, <1>5, <1>6, <1>9, <1>10, SeqEqual
<1> QED
  BY <1>7, <1>8, <1>11 DEF c, d

(* A ring that begin() has set up is empty.                                  *)
LEMMA ContentsInit ==
  ASSUME NEW slots
  PROVE  Contents(init_queue, slots) = << >>
<1>1. init_queue \in Ring
  BY QueueAssumption, SMT DEF init_queue, Ring, Slot
<1>2. Used(init_queue) = 0
  BY <1>1, UsedValue DEF init_queue
<1> QED
  BY <1>2, SMT DEF Contents
-----------------------------------------------------------------------------
(* rxqueue.                                                                 *)

\* Every slot in the ring holds a frame, and so does the slot in hand.
RxSlotsFilled ==
  /\ \A i \in Slot : InUse(rxq, i) => rxslot[i] \in Frame
  /\ Handling => rxslot[rxindex] \in Frame

(* begin() leaves no slot in the ring and none in hand.                      *)
LEMMA InitRxFilled == Init => RxSlotsFilled
<1>1. \A i \in Slot : ~InUse(init_queue, i)
  BY QueueAssumption, SMT DEF init_queue, Slot, InUse
<1> QED
  BY <1>1 DEF Init, RxSlotsFilled, Handling

\* The steps that neither touch rxqueue nor enter or leave the work on a frame.
RxIdle ==
  /\ UNCHANGED <<rxq, rxslot>>
  /\ Handling' <=> Handling
  /\ Handling => rxindex' = rxindex

(* All steps but those of recievehandler, of handlerfrx and of a restart leave *)
(* rxqueue alone.                                                            *)
LEMMA RxIdleSteps ==
  ASSUME IInv, [Next]_vars
  PROVE  RxIdle \/ HearData \/ TakeFrame \/ HandleFrame \/ Reboot
<1> USE DEF RxIdle, Handling, rxvars, mainvars
<1>1. CASE AppSends \/ AppPolls \/ SendNothing \/ FillSlot
  <2>1. caller \in {"app", "handle"}
    BY DEF IInv, TypeOK
  <2> QED
    BY <1>1, <2>1 DEF AppSends, AppPolls, SendNothing, FillSlot, Return
<1>2. ASSUME NEW k \in Kind, ReadRear(k) PROVE RxIdle
  BY <1>2 DEF ReadRear
<1>3. CASE StoreRear \/ PeekPacket \/ Wakeup \/ SwitchToTx \/ SendFrame
  BY <1>3 DEF StoreRear, PeekPacket, Wakeup, SwitchToTx, SendFrame
<1>4. CASE WaitTxDone \/ CommandRx \/ RecordRx \/ Sent \/ CheckQueues
  BY <1>4 DEF WaitTxDone, CommandRx, RecordRx, Sent, CheckQueues
<1>5. CASE CheckWakeup \/ FallAsleep \/ WakeRadio \/ ForgetWakeup
  BY <1>5 DEF CheckWakeup, FallAsleep, WakeRadio, ForgetWakeup
<1>6. CASE HearWakeup \/ TimerTick
  BY <1>6 DEF HearWakeup, TimerTick
<1>7. ASSUME NEW ok \in BOOLEAN, TxEnd(ok) PROVE RxIdle
  BY <1>7 DEF TxEnd
<1>8. CASE UNCHANGED vars
  BY <1>8 DEF vars
<1> QED
  BY <1>1, <1>2, <1>3, <1>4, <1>5, <1>6, <1>7, <1>8 DEF Next, MainLoop, Interrupts

(* What recievehandler does to the ring when the frame fits.                 *)
LEMMA HearDataEffect ==
  ASSUME IInv, HearData, ~Full(rxq)
  PROVE  /\ rxq' \in Ring /\ rxq'.front = rxq.front /\ rxq'.rear = After(rxq.rear)
         /\ rxq.rear \in Slot /\ heard + 1 \in Frame
         /\ rxslot' \in [Slot -> Frame \cup {Nothing}]
         /\ rxslot'[rxq.rear] = heard + 1
         /\ \A i \in Slot \ {rxq.rear} : rxslot'[i] = rxslot[i]
         /\ \A i \in Slot : InUse(rxq', i) => InUse(rxq, i) \/ i = rxq.rear
         /\ pc' = pc /\ caller' = caller /\ rxindex' = rxindex
<1>1. rxq \in Ring /\ rxslot \in [Slot -> Frame \cup {Nothing}]
  BY DEF IInv, TypeOK
<1>2. rxq' = inqueue(rxq) /\ rxslot' = [rxslot EXCEPT ![rxq.rear] = heard + 1]
  BY DEF HearData, InSlot
<1>3. heard + 1 \in Frame
  BY LinkAssumption, SMT DEF HearData, IInv, TypeOK, Frame
<1>4. /\ inqueue(rxq) \in Ring /\ inqueue(rxq).front = rxq.front
      /\ inqueue(rxq).rear = After(rxq.rear) /\ rxq.rear \in Slot
      /\ \A i \in Slot : InUse(inqueue(rxq), i) => InUse(rxq, i) \/ i = rxq.rear
  BY <1>1, InqueueRing
<1>5. pc' = pc /\ caller' = caller /\ rxindex' = rxindex
  BY DEF HearData, mainvars
<1> QED
  BY <1>1, <1>2, <1>3, <1>4, <1>5

(* What handlerfrx's dequeue does to a ring that is not empty.               *)
LEMMA TakeFrameEffect ==
  ASSUME IInv, TakeFrame, ~Empty(rxq)
  PROVE  /\ rxq' \in Ring /\ rxq'.front = After(rxq.front) /\ rxq'.rear = rxq.rear
         /\ rxq.front \in Slot /\ rxindex' = rxq.front /\ InUse(rxq, rxq.front)
         /\ \A i \in Slot : InUse(rxq', i) => InUse(rxq, i)
         /\ rxslot' = rxslot /\ pc' = "handle"
<1>1. rxq \in Ring
  BY DEF IInv, TypeOK
<1>2. rxq' = dequeue(rxq) /\ rxindex' = peerqueue(rxq) /\ rxslot' = rxslot
      /\ pc' = "handle"
  BY DEF TakeFrame
<1> QED
  BY <1>1, <1>2, DequeueRing

(* No step leaves a slot in the ring, or in hand, without a frame.           *)
LEMMA StepRxFilled ==
  ASSUME IInv, RxSlotsFilled, [Next]_vars
  PROVE  RxSlotsFilled'
<1>1. CASE RxIdle
  BY <1>1 DEF RxIdle, RxSlotsFilled
<1>2. CASE HearData
  <2>1. CASE Full(rxq)
    BY <1>2, <2>1 DEF HearData, RxSlotsFilled, Handling, rxvars, mainvars
  <2>2. CASE ~Full(rxq)
    <3>1. /\ \A i \in Slot : InUse(rxq', i) => InUse(rxq, i) \/ i = rxq.rear
          /\ heard + 1 \in Frame /\ rxslot'[rxq.rear] = heard + 1
          /\ \A i \in Slot \ {rxq.rear} : rxslot'[i] = rxslot[i]
          /\ pc' = pc /\ caller' = caller /\ rxindex' = rxindex
      BY <1>2, <2>2, HearDataEffect
    <3>2. rxindex \in Slot
      BY DEF IInv, TypeOK
    <3> QED
      BY <3>1, <3>2 DEF RxSlotsFilled, Handling
  <2> QED
    BY <2>1, <2>2
<1>3. CASE TakeFrame
  <2>1. CASE Empty(rxq)
    BY <1>3, <2>1 DEF TakeFrame, RxSlotsFilled, Handling
  <2>2. CASE ~Empty(rxq)
    <3>1. /\ rxq.front \in Slot /\ rxindex' = rxq.front /\ InUse(rxq, rxq.front)
          /\ \A i \in Slot : InUse(rxq', i) => InUse(rxq, i)
          /\ rxslot' = rxslot
      BY <1>3, <2>2, TakeFrameEffect
    <3> QED
      BY <3>1 DEF RxSlotsFilled
  <2> QED
    BY <2>1, <2>2
<1>4. CASE HandleFrame
  BY <1>4 DEF HandleFrame, RxSlotsFilled, Handling, rxvars
<1>5. CASE Reboot
  <2>1. \A i \in Slot : ~InUse(init_queue, i)
    BY QueueAssumption, SMT DEF init_queue, Slot, InUse
  <2> QED
    BY <1>5, <2>1 DEF Reboot, RxSlotsFilled, Handling
<1> QED
  BY <1>1, <1>2, <1>3, <1>4, <1>5, RxIdleSteps

\* What RxFifo calls its buffer and its hand.
RxBuffer == Contents(rxq, rxslot)
RxHand == IF Handling THEN rxslot[rxindex] ELSE Nothing

(* Each step of the node is a step of the buffer of received frames, or      *)
(* leaves it as it is.                                                       *)
LEMMA StepServes ==
  ASSUME IInv, RxSlotsFilled, [Next]_vars
  PROVE  RxFifo!Served \/ UNCHANGED <<RxBuffer, RxHand>>
<1> USE DEF RxBuffer, RxHand
<1>1. rxq \in Ring /\ rxslot \in [Slot -> Frame \cup {Nothing}] /\ rxindex \in Slot
  BY DEF IInv, TypeOK
<1>2. CASE RxIdle
  <2>1. UNCHANGED RxBuffer
    BY <1>2 DEF RxIdle
  <2>2. UNCHANGED RxHand
    BY <1>2 DEF RxIdle
  <2> QED
    BY <2>1, <2>2
<1>3. CASE HearData
  <2>1. CASE Full(rxq)
    BY <1>3, <2>1 DEF HearData, Handling, rxvars, mainvars
  <2>2. CASE ~Full(rxq)
    <3>1. /\ rxq' \in Ring /\ rxq'.front = rxq.front /\ rxq'.rear = After(rxq.rear)
          /\ heard + 1 \in Frame
          /\ rxslot' \in [Slot -> Frame \cup {Nothing}]
          /\ rxslot'[rxq.rear] = heard + 1
          /\ \A i \in Slot \ {rxq.rear} : rxslot'[i] = rxslot[i]
          /\ pc' = pc /\ caller' = caller /\ rxindex' = rxindex
      BY <1>3, <2>2, HearDataEffect
    <3>2. /\ RxBuffer' = Append(RxBuffer, heard + 1)
          /\ Len(RxBuffer) < RFQUENEMAX - 1
      <4>1. /\ Contents(rxq', rxslot') = Append(RxBuffer, rxslot'[rxq.rear])
            /\ Len(RxBuffer) < RFQUENEMAX - 1
        <5>1. PICK q, filled, S : q = rxq' /\ filled = rxslot' /\ S = Frame \cup {Nothing}
          OBVIOUS
        <5>2. /\ rxslot \in [Slot -> S] /\ filled \in [Slot -> S] /\ rxq \in Ring
              /\ \A i \in Slot \ {rxq.rear} : filled[i] = rxslot[i]
              /\ q \in Ring /\ q.front = rxq.front /\ q.rear = After(rxq.rear)
          BY <1>1, <3>1, <5>1
        <5>3. /\ Contents(q, filled) = Append(RxBuffer, filled[rxq.rear])
              /\ Len(RxBuffer) < RFQUENEMAX - 1
          BY <2>2, <5>2, ContentsInqueue
        <5> QED
          BY <5>1, <5>3
      <4> QED
        BY <3>1, <4>1
    <3>3. Handling => rxslot'[rxindex] = rxslot[rxindex]
      <4>1. CASE Handling
        <5>1. Next /\ Handling'
          BY <1>3, <4>1, <3>1 DEF Handling, Next, Interrupts
        <5> QED
          BY <4>1, <5>1, StepFrameInHand
      <4> QED
        BY <4>1
    <3>4. UNCHANGED RxHand
      BY <3>1, <3>3 DEF Handling
    <3>5. RxFifo!Put(heard + 1)
      BY <3>2, <3>4 DEF RxFifo!Put
    <3> QED
      BY <3>1, <3>5 DEF RxFifo!Served
  <2> QED
    BY <2>1, <2>2
<1>4. CASE TakeFrame
  <2>1. CASE Empty(rxq)
    BY <1>4, <2>1 DEF TakeFrame, Handling
  <2>2. CASE ~Empty(rxq)
    <3>1. /\ rxq' \in Ring /\ rxq'.front = After(rxq.front) /\ rxq'.rear = rxq.rear
          /\ rxindex' = rxq.front /\ rxslot' = rxslot /\ pc' = "handle"
      BY <1>4, <2>2, TakeFrameEffect
    <3>2. /\ RxBuffer # << >> /\ Head(RxBuffer) = rxslot[rxq.front]
          /\ Contents(rxq', rxslot) = Tail(RxBuffer)
      BY <1>1, <2>2, <3>1, ContentsDequeue
    <3>3. RxHand' = Head(RxBuffer) /\ RxBuffer' = Tail(RxBuffer)
      BY <3>1, <3>2 DEF Handling
    <3>4. RxFifo!Take
      BY <3>2, <3>3 DEF RxFifo!Take
    <3> QED
      BY <3>4 DEF RxFifo!Served
  <2> QED
    BY <2>1, <2>2
<1>5. CASE HandleFrame
  <2>1. UNCHANGED RxBuffer /\ Handling /\ rxindex' = rxindex /\ rxslot' = rxslot
    BY <1>5 DEF HandleFrame, Handling, rxvars
  <2>2. CASE todo = 0
    <3>1. RxHand # Nothing
      BY <2>1, NothingAssumption DEF RxSlotsFilled
    <3>2. RxHand' = Nothing
      BY <1>5, <2>2 DEF HandleFrame, Handling
    <3>3. RxFifo!Release
      BY <2>1, <3>1, <3>2 DEF RxFifo!Release
    <3> QED
      BY <3>3 DEF RxFifo!Served
  <2>3. CASE todo # 0
    <3>1. Handling'
      BY <1>5, <2>3 DEF HandleFrame, Handling
    <3> QED
      BY <2>1, <3>1
  <2> QED
    BY <2>2, <2>3
<1>6. CASE Reboot
  <2>1. Rebooting
    BY <1>6 DEF Reboot, Rebooting
  <2>2. RxBuffer' = << >> /\ RxHand' = Nothing
    BY <1>6, ContentsInit DEF Reboot, Handling
  <2>3. RxFifo!Clear
    BY <2>1, <2>2 DEF RxFifo!Clear
  <2> QED
    BY <2>3 DEF RxFifo!Served
<1> QED
  BY <1>2, <1>3, <1>4, <1>5, <1>6, RxIdleSteps

(* Every slot that handlerfrx may come to read holds a frame.                *)
THEOREM RxSlotsHoldFrames == Spec => []RxSlotsFilled
<1>1. IInv /\ RxSlotsFilled /\ [Next]_vars => RxSlotsFilled'
  BY StepRxFilled
<1> QED
  BY <1>1, InitRxFilled, Inductive, PTL DEF Spec

(* recievehandler and handlerfrx share rxqueue without a lock, and           *)
(* handlerfrx reads its slot after dequeue has given it back; still they     *)
(* implement a bounded first-in first-out buffer with a hand.                *)
THEOREM RxImplementsFifo == Spec => FramesServedInOrder
<1>1. Init => RxFifo!Init
  BY ContentsInit DEF Init, RxFifo!Init, Handling
<1>2. IInv /\ RxSlotsFilled /\ [Next]_vars =>
        [RxFifo!Served]_<<RxBuffer, RxHand>>
  BY StepServes
<1> QED
  BY <1>1, <1>2, Inductive, RxSlotsHoldFrames, PTL
     DEF Spec, FramesServedInOrder, RxFifo!ServedSpec, RxBuffer, RxHand
-----------------------------------------------------------------------------
(* txqueue, when the main loop is the only sender.                          *)

\* The rear index that inqueue read is still the rear, there is still room, and
\* what will be written is not a wake-up frame.
ReservedAtRear ==
  /\ pc = "reserve" => slot = txq.rear /\ ~Full(txq)
  /\ pc \in {"reserve", "fill"} => ~packet.wake

\* The steps that leave txqueue and what sendbmeshdata will write alone.
TxIdle ==
  /\ UNCHANGED <<txq, txslot, slot, packet>>
  /\ {pc, pc'} \cap {"reserve", "fill"} # {} => pc' = pc

(* Without the timer's calls of sendbmeshdata, only six steps touch txqueue. *)
LEMMA TxIdleSteps ==
  ASSUME ~TimerSends, [Next]_vars
  PROVE  \/ TxIdle \/ StoreRear \/ FillSlot \/ Wakeup \/ Reboot
         \/ \E k \in Kind : ReadRear(k)
         \/ \E ok \in BOOLEAN : TxEnd(ok)
<1> USE DEF TxIdle, txvars, mainvars
<1>1. CASE AppSends \/ AppPolls \/ SendNothing \/ TakeFrame \/ HandleFrame
  BY <1>1 DEF AppSends, AppPolls, SendNothing, TakeFrame, HandleFrame, Return
<1>2. CASE PeekPacket \/ SwitchToTx \/ SendFrame
  BY <1>2 DEF PeekPacket, SwitchToTx, SendFrame
<1>3. CASE WaitTxDone \/ CommandRx \/ RecordRx \/ Sent \/ CheckQueues
  BY <1>3 DEF WaitTxDone, CommandRx, RecordRx, Sent, CheckQueues
<1>4. CASE CheckWakeup \/ FallAsleep \/ WakeRadio \/ ForgetWakeup
  BY <1>4 DEF CheckWakeup, FallAsleep, WakeRadio, ForgetWakeup
<1>5. CASE HearWakeup \/ HearData
  BY <1>5 DEF HearWakeup, HearData
<1>6. CASE UNCHANGED vars
  BY <1>6 DEF vars
<1>7. ~TimerTick
  BY DEF TimerTick
<1> QED
  BY <1>1, <1>2, <1>3, <1>4, <1>5, <1>6, <1>7 DEF Next, MainLoop, Interrupts

(* The end of a transmission removes the front of a ring that is not empty,  *)
(* while handlerftx waits, or leaves txqueue alone.                          *)
LEMMA TxEndEffect ==
  ASSUME IInv, NEW ok \in BOOLEAN, TxEnd(ok)
  PROVE  /\ txslot' = txslot /\ pc' = pc /\ slot' = slot /\ packet' = packet
         /\ \/ txq' = txq
            \/ /\ txq' \in Ring /\ ~Empty(txq) /\ pc \in Transmitting
               /\ txq'.front = After(txq.front) /\ txq'.rear = txq.rear
<1>1. txslot' = txslot /\ pc' = pc /\ slot' = slot /\ packet' = packet
  BY DEF TxEnd, mainvars
<1>2. CASE state # "TXAUTO" \/ ~needchecksenddone
  BY <1>1, <1>2 DEF TxEnd, onXmitDone
<1>3. CASE state = "TXAUTO" /\ needchecksenddone
  <2>1. txq' = txq \/ txq' = dequeue(txq)
    BY <1>3 DEF TxEnd, onXmitDone
  <2>2. pc \in Transmitting /\ ~Empty(txq) /\ txq \in Ring
    BY <1>3 DEF IInv, TypeOK, NotYetRemoved, PacketAtFront, Sending, Transmitting
  <2>3. /\ dequeue(txq) \in Ring /\ dequeue(txq).front = After(txq.front)
        /\ dequeue(txq).rear = txq.rear
    BY <2>2, DequeueRing
  <2> QED
    BY <1>1, <2>1, <2>2, <2>3
<1> QED
  BY <1>2, <1>3

(* The reservation lasts until it is used.                                   *)
LEMMA StepReserved ==
  ASSUME ~TimerSends, IInv, ReservedAtRear, [Next]_vars
  PROVE  ReservedAtRear'
<1> USE DEF ReservedAtRear
<1>1. CASE TxIdle
  BY <1>1 DEF TxIdle
<1>2. CASE StoreRear
  BY <1>2 DEF StoreRear
<1>3. CASE FillSlot \/ Wakeup \/ Reboot
  BY <1>3 DEF FillSlot, Wakeup, Reboot, Return
<1>4. ASSUME NEW k \in Kind, ReadRear(k) PROVE ReservedAtRear'
  BY <1>4 DEF ReadRear, InSlot, txvars
<1>5. ASSUME NEW ok \in BOOLEAN, TxEnd(ok) PROVE ReservedAtRear'
  BY <1>5, TxEndEffect DEF Transmitting
<1> QED
  BY <1>1, <1>2, <1>3, <1>4, <1>5, TxIdleSteps

\* What TxFifo calls its buffer.
TxBuffer == Contents(txq, TxView)

(* The view has a packet or Nothing for every slot.                          *)
LEMMA TxViewType ==
  ASSUME IInv
  PROVE  TxView \in [Slot -> Packet \cup {Nothing}]
<1>1. txslot \in [Slot -> Packet \cup {Nothing}]
  BY DEF IInv, TypeOK
<1>2. \A p \in Packet : Plain(p) \in Packet
  BY DEF Packet, Plain
<1>3. pc = "fill" => packet \in Packet
  BY DEF IInv, SlotsFilled
<1> QED
  BY <1>1, <1>2, <1>3 DEF TxView

(* Filling the reserved slot, and turning a packet into a wake-up frame and  *)
(* back, are not seen in the view.                                           *)
LEMMA TxViewStays ==
  ASSUME IInv, ReservedAtRear, FillSlot \/ Wakeup
  PROVE  TxView' = TxView
<1>1. txslot \in [Slot -> Packet \cup {Nothing}] /\ slot \in Slot /\ txindex \in Slot
  BY DEF IInv, TypeOK
<1>2. CASE FillSlot
  <2>1. packet \in Packet /\ ~packet.wake
    BY <1>2 DEF IInv, SlotsFilled, FillSlot, ReservedAtRear
  <2>2. Plain(packet) = packet
    BY <2>1 DEF Plain, Packet
  <2>3. packet # Nothing
    BY <2>1, NothingAssumption
  <2>4. pc' # "fill" /\ txslot' = [txslot EXCEPT ![slot] = packet] /\ pc = "fill"
    BY <1>2 DEF FillSlot, Return
  <2>5. \A i \in Slot : txslot'[i] = IF i = slot THEN packet ELSE txslot[i]
    BY <1>1, <2>4
  <2> QED
    BY <2>2, <2>3, <2>4, <2>5 DEF TxView
<1>3. CASE Wakeup
  <2>1. txslot[txindex] \in Packet
    BY <1>3 DEF IInv, SlotsFilled, Sending, Wakeup
  <2>2. PICK b \in BOOLEAN : txslot' = [txslot EXCEPT ![txindex].wake = b]
    BY <1>3 DEF Wakeup
  <2> DEFINE w == [txslot[txindex] EXCEPT !.wake = b]
  <2>3. w \in Packet /\ Plain(w) = Plain(txslot[txindex])
    BY <2>1, PlainOfWake DEF Packet
  <2>4. txslot' = [txslot EXCEPT ![txindex] = w]
    BY <2>2
  <2> HIDE DEF w
  <2>5. \A i \in Slot : txslot'[i] = IF i = txindex THEN w ELSE txslot[i]
    BY <1>1, <2>4
  <2>6. pc # "fill" /\ pc' # "fill"
    BY <1>3 DEF Wakeup
  <2> QED
    BY <2>1, <2>3, <2>5, <2>6, NothingAssumption DEF TxView
<1> QED
  BY <1>2, <1>3

(* Storing the rear index puts the packet into the view, filled or not.      *)
LEMMA TxViewStored ==
  ASSUME IInv, ReservedAtRear, StoreRear
  PROVE  /\ TxView' \in [Slot -> Packet \cup {Nothing}]
         /\ TxView'[slot] = packet
         /\ \A i \in Slot \ {slot} : TxView'[i] = TxView[i]
<1>1. /\ pc = "reserve" /\ pc' = "fill" /\ txslot' = txslot /\ slot' = slot
      /\ packet' = packet
  BY DEF StoreRear
<1>2. slot \in Slot /\ packet \in Packet
  BY <1>1 DEF IInv, TypeOK, SlotsFilled
<1>3. TxView \in [Slot -> Packet \cup {Nothing}]
  BY TxViewType
<1>4. \A i \in Slot : TxView'[i] = IF i = slot THEN packet ELSE TxView[i]
  BY <1>1 DEF TxView
<1>5. TxView' \in [Slot -> Packet \cup {Nothing}]
  <2>1. DOMAIN TxView' = Slot /\ TxView' = [i \in Slot |-> TxView'[i]]
    BY DEF TxView
  <2> QED
    BY <1>2, <1>3, <1>4, <2>1
<1> QED
  BY <1>2, <1>4, <1>5

(* Each step of the node is a step of the buffer of packets to send, or      *)
(* leaves it as it is.                                                       *)
LEMMA StepDrains ==
  ASSUME ~TimerSends, IInv, ReservedAtRear, [Next]_vars
  PROVE  TxFifo!Drained \/ UNCHANGED <<TxBuffer, Nothing>>
<1> USE DEF TxBuffer
<1>1. txq \in Ring /\ TxView \in [Slot -> Packet \cup {Nothing}]
  BY TxViewType DEF IInv, TypeOK
<1>2. CASE TxIdle
  BY <1>2 DEF TxIdle, TxView
<1>3. CASE StoreRear
  <2>1. slot = txq.rear /\ ~Full(txq) /\ packet \in Packet
    BY <1>3 DEF StoreRear, ReservedAtRear, IInv, SlotsFilled
  <2>2. txq' \in Ring /\ txq'.front = txq.front /\ txq'.rear = After(txq.rear)
    <3>1. txq' = [txq EXCEPT !.rear = After(slot)]
      BY <1>3 DEF StoreRear
    <3> QED
      BY <1>1, <2>1, <3>1, AfterValue DEF Ring
  <2>3. /\ TxView' \in [Slot -> Packet \cup {Nothing}]
        /\ TxView'[txq.rear] = packet
        /\ \A i \in Slot \ {txq.rear} : TxView'[i] = TxView[i]
    BY <1>3, <2>1, TxViewStored
  <2>4. /\ TxBuffer' = Append(TxBuffer, packet)
        /\ Len(TxBuffer) < RFQUENEMAX - 1
    <3>1. /\ Contents(txq', TxView') = Append(Contents(txq, TxView), TxView'[txq.rear])
          /\ Len(Contents(txq, TxView)) < RFQUENEMAX - 1
      <4>1. PICK q, r, filled, slots, S :
              /\ q = txq' /\ r = txq /\ filled = TxView' /\ slots = TxView
              /\ S = Packet \cup {Nothing}
        OBVIOUS
      <4>2. /\ slots \in [Slot -> S] /\ filled \in [Slot -> S] /\ r \in Ring /\ ~Full(r)
            /\ \A i \in Slot \ {r.rear} : filled[i] = slots[i]
            /\ q \in Ring /\ q.front = r.front /\ q.rear = After(r.rear)
        BY <1>1, <2>1, <2>2, <2>3, <4>1
      <4>3. /\ Contents(q, filled) = Append(Contents(r, slots), filled[r.rear])
            /\ Len(Contents(r, slots)) < RFQUENEMAX - 1
        BY <4>2, ContentsInqueue
      <4> QED
        BY <4>1, <4>3
    <3> QED
      BY <2>3, <3>1
  <2>5. TxFifo!Put(packet)
    BY <2>4 DEF TxFifo!Put
  <2> QED
    BY <2>1, <2>5 DEF TxFifo!Drained
<1>4. CASE FillSlot \/ Wakeup
  BY <1>4, TxViewStays DEF FillSlot, Wakeup
<1>5. CASE Reboot
  <2>1. Rebooting
    BY <1>5 DEF Reboot, Rebooting
  <2>2. TxBuffer' = << >>
    BY <1>5, ContentsInit DEF Reboot
  <2>3. TxFifo!Clear
    BY <2>1, <2>2 DEF TxFifo!Clear
  <2> QED
    BY <2>3 DEF TxFifo!Drained
<1>6. ASSUME NEW k \in Kind, ReadRear(k) PROVE UNCHANGED <<TxBuffer, Nothing>>
  BY <1>6 DEF ReadRear, TxView, txvars
<1>7. ASSUME NEW ok \in BOOLEAN, TxEnd(ok)
      PROVE  TxFifo!Drained \/ UNCHANGED <<TxBuffer, Nothing>>
  <2>1. /\ txslot' = txslot /\ pc' = pc /\ slot' = slot /\ packet' = packet
        /\ \/ txq' = txq
           \/ /\ txq' \in Ring /\ ~Empty(txq)
              /\ txq'.front = After(txq.front) /\ txq'.rear = txq.rear
    BY <1>7, TxEndEffect
  <2>2. TxView' = TxView
    BY <2>1 DEF TxView
  <2>3. CASE txq' = txq
    BY <2>2, <2>3
  <2>4. CASE txq' # txq
    <3>1. TxBuffer # << >> /\ Contents(txq', TxView) = Tail(TxBuffer)
      BY <1>1, <2>1, <2>4, ContentsDequeue
    <3>2. TxFifo!Remove
      BY <2>2, <3>1 DEF TxFifo!Remove
    <3> QED
      BY <3>2 DEF TxFifo!Drained
  <2> QED
    BY <2>3, <2>4
<1> QED
  BY <1>2, <1>3, <1>4, <1>5, <1>6, <1>7, TxIdleSteps

(* The main loop's unlocked inqueue, which stores a rear index it has read    *)
(* before and fills the slot afterwards, and the dequeue of the transmit-end *)
(* handler implement a bounded first-in first-out buffer, late ends of       *)
(* transmissions included: the driver ignores those that come while inqueue  *)
(* runs.  (With TimerSends they do not: two calls can get the same slot.)    *)
THEOREM TxImplementsFifo ==
  ASSUME ~TimerSends
  PROVE  Spec => PacketsDrainInOrder
<1>1. Init => TxFifo!Init /\ ReservedAtRear
  BY ContentsInit DEF Init, TxFifo!Init, ReservedAtRear
<1>2. IInv /\ ReservedAtRear /\ [Next]_vars => ReservedAtRear'
  BY StepReserved
<1>3. IInv /\ ReservedAtRear /\ [Next]_vars =>
        [TxFifo!Drained]_<<TxBuffer, Nothing>>
  BY StepDrains
<1> QED
  BY <1>1, <1>2, <1>3, Inductive, PTL
     DEF Spec, PacketsDrainInOrder, TxFifo!DrainedSpec, TxBuffer
=============================================================================
