---------------------------- MODULE MeshLinkProof ----------------------------
(***************************************************************************)
(* Proofs about MeshLink, for every ring size, every number of retries and  *)
(* both settings of TimerSends: the interrupt handlers may fill, drain and   *)
(* race with the main loop as they please.                                  *)
(***************************************************************************)
EXTENDS MeshLink, TLAPS

\* Where the driver may be in a transmit state.
Transmitting == {"started", "failed", "wait", "rxauto", "rxset"}

\* The slot in hand in handlerfrx is the one just before the front of rxqueue,
\* which inqueue never hands out.
FrameSlotFreed == Handling => rxq.front = After(rxindex)

\* The packet in hand in handlerftx is at the front, or was until its own end
\* removed it.
PacketAtFront == txq.front = txindex /\ ~Empty(txq)
PacketInHand == Sending => PacketAtFront \/ txq.front = After(txindex)

\* While an end can still remove something, nothing has been removed.
NotYetRemoved ==
  /\ state = "TXAUTO" => pc \in Transmitting
  /\ ~needchecksenddone => pc \in Transmitting \cup {"wakeup", "transmit"}
  /\ pc \in {"wakeup", "transmit"} => PacketAtFront
  /\ Sending /\ (state = "TXAUTO" \/ ~needchecksenddone) => PacketAtFront

\* The successor sendbmeshdata is about to store does not make the ring empty.
ReservedHasRoom == pc = "reserve" => txq.front # After(slot)

\* Every slot in the ring holds a packet, but for the one being filled; and so
\* it will be after a store of a stale rear index.
SlotsFilled ==
  /\ \A i \in Slot : InUse(txq, i) =>
       txslot[i] \in Packet \/ (pc = "fill" /\ i = slot)
  /\ pc = "reserve" =>
       /\ InUse([txq EXCEPT !.rear = After(slot)], slot)
       /\ \A i \in Slot : InUse([txq EXCEPT !.rear = slot], i) =>
            txslot[i] \in Packet
  /\ pc \in {"reserve", "fill"} => packet \in Packet
  /\ Sending => txslot[txindex] \in Packet

\* There are failures only of a packet that is still there.
FailuresOfAPacket == Empty(txq) => retrysend = 0

\* The awaited broadcast still has its mark, and the node that is about to
\* sleep has waited.
AwaitedIsMarked ==
  /\ awaiting => needrecieve
  /\ pc = "drowsy" /\ awaiting => delaycount > WAKE_POLLS

IInv ==
  /\ TypeOK
  /\ FrameSlotFreed
  /\ PacketInHand
  /\ NotYetRemoved
  /\ ReservedHasRoom
  /\ SlotsFilled
  /\ FailuresOfAPacket
  /\ AwaitedIsMarked
-----------------------------------------------------------------------------
(* The ring.                                                                *)

(* The successor of a slot, without the remainder.                          *)
LEMMA AfterValue ==
  ASSUME NEW i \in Slot
  PROVE  After(i) \in Slot /\ After(i) = IF i = RFQUENEMAX - 1 THEN 0 ELSE i + 1
BY QueueAssumption, SMT DEF After, Slot

(* inqueue keeps a ring a ring, and adds the slot it hands out and no other; *)
(* that slot is neither in use nor the one last taken.                       *)
LEMMA InqueueRing ==
  ASSUME NEW r \in Ring, ~Full(r)
  PROVE  /\ inqueue(r) \in Ring /\ ~Empty(inqueue(r))
         /\ InSlot(r) = r.rear /\ r.rear \in Slot
         /\ inqueue(r).front = r.front /\ inqueue(r).rear = After(r.rear)
         /\ \A i \in Slot : InUse(inqueue(r), i) => InUse(r, i) \/ i = r.rear
         /\ After(r.rear) # r.front
<1>1. r.front \in Slot /\ r.rear \in Slot
  BY DEF Ring
<1>2. inqueue(r) = [front |-> r.front, rear |-> After(r.rear)]
  BY DEF inqueue, Ring
<1>3. After(r.rear) \in Slot /\ After(r.rear) # r.front
  BY <1>1, AfterValue DEF Full
<1>4. \A i \in Slot : InUse(inqueue(r), i) => InUse(r, i) \/ i = r.rear
  BY <1>1, <1>2, <1>3, AfterValue, QueueAssumption, SMT DEF InUse, Slot
<1> QED
  BY <1>1, <1>2, <1>3, <1>4 DEF Ring, Empty, InSlot

(* dequeue of a ring that is not empty keeps it a ring and adds no slot.     *)
LEMMA DequeueRing ==
  ASSUME NEW r \in Ring, ~Empty(r)
  PROVE  /\ dequeue(r) \in Ring
         /\ peerqueue(r) = r.front /\ r.front \in Slot
         /\ dequeue(r).front = After(r.front) /\ dequeue(r).rear = r.rear
         /\ \A i \in Slot : InUse(dequeue(r), i) => InUse(r, i)
         /\ InUse(r, r.front)
<1>1. r.front \in Slot /\ r.rear \in Slot /\ r.front # r.rear
  BY DEF Ring, Empty
<1>2. dequeue(r) = [front |-> After(r.front), rear |-> r.rear]
  BY <1>1 DEF dequeue, Ring, Empty
<1>3. After(r.front) \in Slot
  BY <1>1, AfterValue
<1>4. \A i \in Slot : InUse(dequeue(r), i) => InUse(r, i)
  BY <1>1, <1>2, <1>3, AfterValue, QueueAssumption, SMT DEF InUse, Slot
<1>5. InUse(r, r.front)
  BY <1>1, QueueAssumption, SMT DEF InUse, Slot
<1> QED
  BY <1>1, <1>2, <1>3, <1>4, <1>5 DEF Ring, Empty, peerqueue

(* The slot handed out is in use once the rear index is stored.              *)
LEMMA InqueueUses ==
  ASSUME NEW r \in Ring, ~Full(r)
  PROVE  InUse([r EXCEPT !.rear = After(r.rear)], r.rear)
<1>1. r.front \in Slot /\ r.rear \in Slot /\ After(r.rear) # r.front
  BY DEF Ring, Full
<1> DEFINE q == [front |-> r.front, rear |-> After(r.rear)]
<1>2. [r EXCEPT !.rear = After(r.rear)] = q
  BY DEF Ring
<1>3. InUse(q, r.rear)
  BY <1>1, AfterValue, QueueAssumption, SMT DEF InUse, Slot
<1> QED
  BY <1>2, <1>3

(* A store of the successor of any slot adds that slot and no other.         *)
LEMMA StaleStore ==
  ASSUME NEW r \in Ring, NEW q \in Ring, NEW i \in Slot,
         q.front = r.front, q.rear = After(i), r.front # After(i)
  PROVE  \A j \in Slot : InUse(q, j) => InUse([r EXCEPT !.rear = i], j) \/ j = i
<1> DEFINE p == [front |-> r.front, rear |-> i]
<1>1. [r EXCEPT !.rear = i] = p
  BY DEF Ring
<1>2. r.front \in Slot
  BY DEF Ring
<1>3. \A j \in Slot : InUse(q, j) => InUse(p, j) \/ j = i
  BY <1>2, AfterValue, QueueAssumption, SMT DEF InUse, Slot
<1> QED
  BY <1>1, <1>3
-----------------------------------------------------------------------------
(* The inductive invariant.                                                 *)

(* begin() establishes it: both rings are empty.                             *)
LEMMA InitIInv == Init => IInv
<1> SUFFICES ASSUME Init PROVE IInv
  OBVIOUS
<1>1. init_queue \in Ring /\ Empty(init_queue) /\ 0 \in Slot
      /\ \A i \in Slot : ~InUse(init_queue, i)
  BY QueueAssumption, SMT DEF init_queue, Ring, Empty, Slot, InUse
<1>2. /\ rxslot \in [Slot -> Frame \cup {Nothing}]
      /\ txslot \in [Slot -> Packet \cup {Nothing}]
  BY DEF Init
<1>3. {needchecksenddone, needrecieve, islowpower, awaiting, txIsBusy, cutoff}
        \subseteq BOOLEAN
  BY Zenon DEF Init
<1>4. TypeOK
  BY <1>1, <1>2, <1>3, LinkAssumption, SMT DEF Init, TypeOK, Pc
<1> QED
  BY <1>1, <1>4, Zenon DEF Init, IInv, FrameSlotFreed, PacketInHand, NotYetRemoved,
     ReservedHasRoom, SlotsFilled, FailuresOfAPacket, AwaitedIsMarked, Handling,
     Sending, Transmitting, Packet

(* Every step of the main loop and every interrupt handler preserves it.     *)
LEMMA StepIInv == IInv /\ [Next]_vars => IInv'
<1> SUFFICES ASSUME IInv, [Next]_vars PROVE IInv'
  OBVIOUS
<1> USE LinkAssumption DEF IInv, FrameSlotFreed, PacketInHand, NotYetRemoved,
    ReservedHasRoom, SlotsFilled, FailuresOfAPacket, AwaitedIsMarked, Handling,
    Sending, Transmitting, PacketAtFront, rxvars, txvars, powervars, radiovars, donevars,
    mainvars, counts
<1>1. CASE HearWakeup
  BY <1>1, SMT DEF HearWakeup, TypeOK, Pc
<1>2. CASE HandleFrame
  BY <1>2, SMT DEF HandleFrame, TypeOK, Pc
<1>3. CASE AppSends
  BY <1>3, SMT DEF AppSends, TypeOK, Pc
<1>4. CASE AppPolls
  BY <1>4, SMT DEF AppPolls, TypeOK, Pc
<1>5. CASE SwitchToTx
  BY <1>5, SMT DEF SwitchToTx, TypeOK, Pc
<1>6. CASE SendFrame
  BY <1>6, SMT DEF SendFrame, TypeOK, Pc
<1>7. CASE WaitTxDone
  BY <1>7, SMT DEF WaitTxDone, TypeOK, Pc
<1>8. CASE CommandRx
  <2>1. cutoff' \in BOOLEAN
    BY <1>8, Zenon DEF CommandRx
  <2> QED
    BY <1>8, <2>1, SMT DEF CommandRx, TypeOK, Pc
<1>9. CASE Sent
  BY <1>9, SMT DEF Sent, TypeOK, Pc
<1>10. CASE CheckQueues
  BY <1>10, SMT DEF CheckQueues, TypeOK, Pc
<1>11. CASE CheckWakeup
  BY <1>11, SMT DEF CheckWakeup, TypeOK, Pc
<1>27. CASE FallAsleep
  BY <1>27, SMT DEF FallAsleep, TypeOK, Pc
<1>12. CASE WakeRadio
  <2>1. cutoff' \in BOOLEAN
    BY <1>12, Zenon DEF WakeRadio
  <2> QED
    BY <1>12, <2>1, SMT DEF WakeRadio, TypeOK, Pc
<1>13. CASE SendNothing
  BY <1>13, SMT DEF SendNothing, Return, TypeOK, Pc
<1>14. CASE ForgetWakeup
  <2>1. needrecieve' \in BOOLEAN /\ awaiting' \in BOOLEAN
    BY <1>14, Zenon DEF ForgetWakeup
  <2> QED
    BY <1>14, <2>1, SMT DEF ForgetWakeup, TypeOK, Pc
<1>15. CASE RecordRx
  <2>1. txIsBusy' \in BOOLEAN
    BY <1>15, Zenon DEF RecordRx
  <2> QED
    BY <1>15, <2>1, SMT DEF RecordRx, TypeOK, Pc
<1>16. CASE TakeFrame
  <2>1. CASE Empty(rxq)
    BY <1>16, <2>1, SMT DEF TakeFrame, TypeOK, Pc
  <2>2. CASE ~Empty(rxq)
    <3>1. /\ rxq' \in Ring /\ rxindex' \in Slot
          /\ rxq'.front = After(rxindex')
      BY <1>16, <2>2, DequeueRing DEF TakeFrame, TypeOK
    <3> QED
      BY <1>16, <2>2, <3>1, SMT DEF TakeFrame, TypeOK, Pc
  <2> QED
    BY <2>1, <2>2
<1>17. CASE HearData
  <2>1. CASE Full(rxq)
    BY <1>17, <2>1, SMT DEF HearData, TypeOK, Frame
  <2>2. CASE ~Full(rxq)
    <3>1. rxq' \in Ring /\ rxq'.front = rxq.front /\ heard + 1 \in Frame
      BY <1>17, <2>2, InqueueRing, SMT DEF HearData, TypeOK, Frame
    <3>2. rxslot' \in [Slot -> Frame \cup {Nothing}]
      BY <1>17, <2>2, <3>1, SMT DEF HearData, TypeOK
    <3>3. needrecieve' \in BOOLEAN /\ awaiting' \in BOOLEAN
      BY <1>17, <2>2, Zenon DEF HearData
    <3> QED
      BY <1>17, <2>2, <3>1, <3>2, <3>3, SMT DEF HearData, TypeOK
  <2> QED
    BY <2>1, <2>2
<1>18. ASSUME NEW k \in Kind, ReadRear(k) PROVE IInv'
  <2>1. /\ slot' \in Slot /\ slot' = txq.rear
        /\ txq.front # After(txq.rear)
    BY <1>18, InqueueRing DEF ReadRear, TypeOK
  <2>2. packet' \in Packet /\ made' \in 0..MaxPackets
    BY <1>18, SMT DEF ReadRear, TypeOK, Packet
  <2>3. InUse([txq EXCEPT !.rear = After(txq.rear)], txq.rear)
    BY <2>1, <1>18, InqueueUses DEF ReadRear, TypeOK
  <2>4. [txq EXCEPT !.rear = txq.rear] = txq
    BY DEF TypeOK, Ring
  <2> QED
    BY <1>18, <2>1, <2>2, <2>3, <2>4, SMT DEF ReadRear, TypeOK, Pc
<1>19. CASE StoreRear
  <2>1. txq' \in Ring /\ txq'.front = txq.front /\ txq'.rear = After(slot)
    BY <1>19, AfterValue DEF StoreRear, TypeOK, Ring
  <2>2. ~Empty(txq)'
    BY <1>19, <2>1 DEF StoreRear, Empty
  <2>3. \A i \in Slot : InUse(txq', i) =>
                           InUse([txq EXCEPT !.rear = slot], i) \/ i = slot
    <3>1. txq \in Ring /\ slot \in Slot /\ txq.front # After(slot)
      BY <1>19 DEF StoreRear, TypeOK
    <3> HIDE DEF ReservedHasRoom, SlotsFilled, IInv, PacketInHand, NotYetRemoved,
        FailuresOfAPacket
    <3> QED
      BY <2>1, <3>1, StaleStore
  <2> QED
    BY <1>19, <2>1, <2>2, <2>3, SMT DEF StoreRear, TypeOK, Pc
<1>20. CASE FillSlot
  <2>1. txslot' \in [Slot -> Packet \cup {Nothing}]
    BY <1>20, SMT DEF FillSlot, TypeOK
  <2> QED
    BY <1>20, <2>1, SMT DEF FillSlot, Return, TypeOK, Pc
<1>21. CASE PeekPacket
  <2>1. CASE Empty(txq)
    BY <1>21, <2>1, SMT DEF PeekPacket, TypeOK, Pc
  <2>2. CASE ~Empty(txq)
    <3>1. peerqueue(txq) = txq.front /\ txq.front \in Slot /\ InUse(txq, txq.front)
      BY <2>2, DequeueRing DEF TypeOK
    <3>2. txslot[txq.front] \in Packet
      BY <1>21, <3>1 DEF PeekPacket
    <3>3. needchecksenddone' \in BOOLEAN
      BY <1>21, <2>2, Zenon DEF PeekPacket
    <3>4. txindex' = txq.front /\ preamble' = 0
          /\ IF needchecksenddone' THEN pc' = "transmit" ELSE pc' = "wakeup"
      BY <1>21, <2>2, <3>1, Zenon DEF PeekPacket
    <3> QED
      BY <1>21, <2>2, <3>1, <3>2, <3>3, <3>4, SMT DEF PeekPacket, TypeOK, Pc
  <2> QED
    BY <2>1, <2>2
<1>22. CASE Wakeup
  <2>1. txslot[txindex] \in Packet
    BY <1>22 DEF Wakeup
  <2>2. PICK b \in BOOLEAN : txslot' = [txslot EXCEPT ![txindex].wake = b]
    BY <1>22, Zenon DEF Wakeup
  <2>3. txslot' = [txslot EXCEPT ![txindex] = [txslot[txindex] EXCEPT !.wake = b]]
    BY <2>2
  <2>4. [txslot[txindex] EXCEPT !.wake = b] \in Packet
    BY <2>1, <2>2 DEF Packet
  <2>5. /\ txslot' \in [Slot -> Packet \cup {Nothing}]
        /\ \A i \in Slot : txslot[i] \in Packet => txslot'[i] \in Packet
        /\ txslot'[txindex] \in Packet
    BY <2>3, <2>4 DEF TypeOK
  <2>6. needchecksenddone' \in BOOLEAN
    BY <1>22, Zenon DEF Wakeup, TypeOK
  <2>7. preamble' \in 0..Preambles
    BY <1>22, SMT DEF Wakeup, TypeOK
  <2> QED
    BY <1>22, <2>5, <2>6, <2>7, SMT DEF Wakeup, TypeOK, Pc
<1>23. CASE Reboot
  <2>1. init_queue \in Ring /\ Empty(init_queue) /\ 0 \in Slot
        /\ \A i \in Slot : ~InUse(init_queue, i)
    BY QueueAssumption, SMT DEF init_queue, Ring, Empty, Slot, InUse
  <2>2. /\ rxslot' \in [Slot -> Frame \cup {Nothing}]
        /\ txslot' \in [Slot -> Packet \cup {Nothing}]
    BY <1>23 DEF Reboot
  <2>3. {needchecksenddone', needrecieve', islowpower', awaiting', txIsBusy',
         cutoff'} \subseteq BOOLEAN
    BY <1>23, Zenon DEF Reboot
  <2>4. TypeOK'
    BY <1>23, <2>1, <2>2, <2>3, SMT DEF Reboot, TypeOK, Pc
  <2> QED
    BY <1>23, <2>1, <2>4, Zenon DEF Reboot
<1>24. ASSUME NEW ok \in BOOLEAN, TxEnd(ok) PROVE IInv'
  <2>1. CASE state # "TXAUTO"
    BY <1>24, <2>1, SMT DEF TxEnd, TypeOK
  <2>2. CASE state = "TXAUTO" /\ ~needchecksenddone
    <3>1. txIsBusy' \in BOOLEAN /\ cutoff' \in BOOLEAN
      BY <1>24, <2>2, Zenon DEF TxEnd
    <3> QED
      BY <1>24, <2>2, <3>1, SMT DEF TxEnd, onXmitDone, TypeOK
  <2>3. CASE state = "TXAUTO" /\ needchecksenddone
    <3>1. txIsBusy' \in BOOLEAN /\ cutoff' \in BOOLEAN /\ state' = "OFF" /\ chip' = "OFF" /\ air' = Nothing
          /\ UNCHANGED <<rxvars, txslot, powervars, needchecksenddone, mainvars, counts>>
      BY <1>24, <2>3, Zenon DEF TxEnd
    <3>2. PacketAtFront
      BY <2>3
    <3>3. CASE ok \/ retrysend = RETRYSEND_MAX
      <4>1. txq' = dequeue(txq) /\ retrysend' = 0
        BY <1>24, <2>3, <3>3, Zenon DEF TxEnd, onXmitDone
      <4>2. /\ txq' \in Ring /\ txq'.front = After(txindex)
            /\ \A i \in Slot : InUse(txq', i) => InUse(txq, i)
        BY <3>2, <4>1, DequeueRing DEF TypeOK
      <4> QED
        BY <2>3, <3>1, <3>2, <4>1, <4>2, SMT DEF TypeOK
    <3>4. CASE ~ok /\ retrysend # RETRYSEND_MAX
      <4>1. txq' = txq /\ retrysend' = retrysend + 1
        BY <1>24, <2>3, <3>4, Zenon DEF TxEnd, onXmitDone
      <4> QED
        BY <2>3, <3>1, <3>2, <3>4, <4>1, SMT DEF TypeOK
    <3> QED
      BY <3>3, <3>4
  <2> QED
    BY <2>1, <2>2, <2>3
<1>25. CASE TimerTick
  <2>1. PICK k \in Kind : TimerEnqueues(k)
    BY <1>25 DEF TimerTick, Kind
  <2>2. CASE Full(txq) \/ made = MaxPackets
    BY <1>25, <2>1, <2>2, SMT DEF TimerTick, TimerEnqueues, TypeOK
  <2>3. CASE ~Full(txq) /\ made # MaxPackets
    <3> DEFINE p == [id |-> made + 1, kind |-> k, wake |-> FALSE]
    <3>1. p \in Packet
      BY <2>3, SMT DEF TypeOK, Packet
    <3>2. /\ txq' \in Ring /\ txq'.front = txq.front
          /\ txq'.rear = After(txq.rear) /\ ~Empty(txq)'
          /\ txq.rear \in Slot
          /\ \A i \in Slot : InUse(txq', i) => InUse(txq, i) \/ i = txq.rear
      BY <2>1, <2>3, InqueueRing DEF TimerEnqueues, TypeOK, Empty
    <3>3. txslot' = [txslot EXCEPT ![txq.rear] = p]
      BY <2>1, <2>3 DEF TimerEnqueues, InSlot
    <3>4. /\ txslot' \in [Slot -> Packet \cup {Nothing}]
          /\ \A i \in Slot : txslot[i] \in Packet => txslot'[i] \in Packet
          /\ txslot'[txq.rear] \in Packet
      BY <3>1, <3>2, <3>3 DEF TypeOK
    <3>5. made' \in 0..MaxPackets
      BY <2>1, <2>3, SMT DEF TimerEnqueues, TypeOK
    <3>6. UNCHANGED <<rxvars, powervars, radiovars, donevars, mainvars, heard>>
      BY <1>25 DEF TimerTick
    <3>7. /\ [txq' EXCEPT !.rear = slot] = [txq EXCEPT !.rear = slot]
          /\ [txq' EXCEPT !.rear = After(slot)] = [txq EXCEPT !.rear = After(slot)]
      BY <3>2 DEF TypeOK, Ring
    <3>8. TypeOK'
      BY <3>2, <3>4, <3>5, <3>6, SMT DEF TypeOK
    <3>9. FrameSlotFreed' /\ PacketInHand' /\ NotYetRemoved'
          /\ FailuresOfAPacket' /\ AwaitedIsMarked'
      BY <3>2, <3>6, SMT
    <3>10. ReservedHasRoom'
      BY <3>2, <3>6
    <3>11. \A i \in Slot : InUse(txq', i) =>
             txslot'[i] \in Packet \/ (pc' = "fill" /\ i = slot')
      BY <3>2, <3>4, <3>6
    <3>12. pc' = "reserve" =>
             /\ InUse([txq' EXCEPT !.rear = After(slot')], slot')
             /\ \A i \in Slot : InUse([txq' EXCEPT !.rear = slot'], i) =>
                  txslot'[i] \in Packet
      BY <3>4, <3>6, <3>7
    <3>13. SlotsFilled'
      BY <3>4, <3>6, <3>11, <3>12 DEF TypeOK
    <3> QED
      BY <3>8, <3>9, <3>10, <3>13
  <2> QED
    BY <2>2, <2>3
<1>26. CASE UNCHANGED vars
  BY <1>26, SMT DEF vars, TypeOK
<1> QED
  BY <1>1, <1>2, <1>3, <1>4, <1>5, <1>6, <1>7, <1>8, <1>9, <1>10, <1>11,
     <1>12, <1>13, <1>14, <1>15, <1>16, <1>17, <1>18, <1>19, <1>20, <1>21,
     <1>22, <1>23, <1>24, <1>25, <1>26, <1>27
     DEF Next, MainLoop, Interrupts

(* Every step keeps the frame in hand: recievehandler writes the slot at the *)
(* rear, whose successor is not the front.                                   *)
LEMMA StepFrameInHand ==
  ASSUME IInv, Next, Handling, Handling'
  PROVE  rxindex' = rxindex /\ rxslot'[rxindex] = rxslot[rxindex]
<1> USE DEF Handling, rxvars, mainvars
<1>1. CASE HearData
  <2>1. rxindex' = rxindex
    BY <1>1 DEF HearData
  <2>2. CASE Full(rxq)
    BY <1>1, <2>1, <2>2 DEF HearData
  <2>3. CASE ~Full(rxq)
    <3>1. rxslot' = [rxslot EXCEPT ![rxq.rear] = heard + 1]
      BY <1>1, <2>3 DEF HearData, InSlot
    <3>2. After(rxq.rear) # After(rxindex)
      BY <2>3 DEF IInv, FrameSlotFreed, Full
    <3>3. rxq.rear # rxindex /\ rxindex \in Slot
      BY <3>2 DEF IInv, TypeOK
    <3> QED
      BY <2>1, <3>1, <3>3 DEF IInv, TypeOK
  <2> QED
    BY <2>2, <2>3
<1>2. CASE TakeFrame \/ Reboot
  BY <1>2 DEF TakeFrame, Reboot
<1>3. CASE ~HearData /\ ~TakeFrame /\ ~Reboot
  BY <1>3, SMT DEF Next, MainLoop, Interrupts, AppSends, AppPolls, HandleFrame,
     SendNothing, StoreRear, FillSlot, ReadRear, PeekPacket, Wakeup, SwitchToTx,
     SendFrame, WaitTxDone, CommandRx, RecordRx, Sent, CheckQueues, CheckWakeup,
     FallAsleep, WakeRadio, ForgetWakeup, HearWakeup, TxEnd, TimerTick
<1> QED
  BY <1>1, <1>2, <1>3

(* A packet differs from its wake-up copy in the type byte alone.            *)
LEMMA PlainOfWake ==
  ASSUME NEW p \in Packet, NEW b \in BOOLEAN
  PROVE  Plain([p EXCEPT !.wake = b]) = Plain(p)
BY DEF Packet, Plain

(* Every step keeps the packet handlerftx works on: the slot the timer's     *)
(* sendbmeshdata writes is the rear, which is not the front while the packet *)
(* is there, nor just before the front once it was removed.                  *)
LEMMA StepSentSlot ==
  ASSUME IInv, Next, Sending, Sending'
  PROVE  /\ txindex' = txindex
         /\ Plain(txslot'[txindex]) = Plain(txslot[txindex])
<1> USE DEF Sending, txvars, mainvars
<1>1. CASE TimerTick
  <2>1. PICK k \in Kind : TimerEnqueues(k)
    BY <1>1 DEF TimerTick, Kind
  <2>2. txindex' = txindex
    BY <1>1 DEF TimerTick
  <2>3. CASE Full(txq) \/ made = MaxPackets
    BY <2>1, <2>2, <2>3 DEF TimerEnqueues
  <2>4. CASE ~Full(txq) /\ made # MaxPackets
    <3> DEFINE p == [id |-> made + 1, kind |-> k, wake |-> FALSE]
    <3>1. txslot' = [txslot EXCEPT ![txq.rear] = p]
      BY <2>1, <2>4 DEF TimerEnqueues, InSlot
    <3>2. After(txq.rear) # txq.front
      BY <2>4 DEF Full
    <3>3. txq.rear # txindex /\ txindex \in Slot
      BY <3>2 DEF IInv, TypeOK, PacketInHand, PacketAtFront, Empty
    <3> QED
      BY <2>2, <3>1, <3>3 DEF IInv, TypeOK
  <2> QED
    BY <2>3, <2>4
<1>2. CASE Wakeup
  <2>1. txslot[txindex] \in Packet /\ txindex \in Slot /\ txindex' = txindex
    BY <1>2 DEF IInv, TypeOK, SlotsFilled, Wakeup
  <2>2. PICK b \in BOOLEAN : txslot' = [txslot EXCEPT ![txindex].wake = b]
    BY <1>2 DEF Wakeup
  <2>3. txslot'[txindex] = [txslot[txindex] EXCEPT !.wake = b]
    BY <2>1, <2>2 DEF IInv, TypeOK
  <2> QED
    BY <2>1, <2>3, PlainOfWake
<1>3. CASE FillSlot \/ PeekPacket \/ Reboot
  BY <1>3 DEF FillSlot, PeekPacket, Reboot
<1>4. CASE ~TimerTick /\ ~Wakeup /\ ~FillSlot /\ ~PeekPacket /\ ~Reboot
  BY <1>4, SMT DEF Next, MainLoop, Interrupts, AppSends, AppPolls, TakeFrame,
     HandleFrame, SendNothing, StoreRear, ReadRear, SwitchToTx, SendFrame,
     WaitTxDone, CommandRx, RecordRx, Sent, CheckQueues, CheckWakeup,
     FallAsleep, WakeRadio, ForgetWakeup, HearWakeup, HearData, TxEnd
<1> QED
  BY <1>1, <1>2, <1>3, <1>4
-----------------------------------------------------------------------------
(* The theorems.                                                            *)

(* The inductive invariant holds of every reachable state, whatever the      *)
(* handlers interrupt.                                                       *)
THEOREM Inductive == Spec => []IInv
BY InitIInv, StepIInv, PTL DEF Spec

(* Every variable keeps its type: no index leaves the ring, and retrysend    *)
(* never exceeds RETRYSEND_MAX.                                              *)
THEOREM TypeCorrect == Spec => []TypeOK
<1>1. IInv => TypeOK
  BY DEF IInv
<1> QED
  BY <1>1, Inductive, PTL

(* Nobody writes the slot handlerftx transmits from before handlerftx is     *)
(* done with it, even after onXmitDone has given the slot back.              *)
THEOREM SentSlotIsStable == Spec => SentSlotStays
<1>1. IInv /\ [Next]_vars =>
        [Sending /\ Sending' =>
           /\ txindex' = txindex
           /\ Plain(txslot'[txindex]) = Plain(txslot[txindex])]_vars
  BY StepSentSlot
<1> QED
  BY <1>1, Inductive, PTL DEF Spec, SentSlotStays
-----------------------------------------------------------------------------
(***************************************************************************)
(* MeshLink's transceiver: what is on the air, when the node listens, and   *)
(* what the end of a transmission removes and counts, whether it ends while *)
(* waitTxDone waits, within radio_set_state(STATE_RXAUTO) or at any later   *)
(* place of the main loop.                                                  *)
(***************************************************************************)

\* What is on the air is the front of txqueue, even when handlerftx has left
\* its transmission behind; a broadcast it does not leave behind.
OnAirIsFront ==
  /\ air # Nothing => ~Empty(txq) /\ air = txslot[txq.front]
  /\ air # Nothing /\ air.kind = "bcast" => pc = "wait" /\ txIsBusy
  /\ air # Nothing /\ pc \in {"reserve", "fill"} => slot # txq.front

\* Only the slot in hand of handlerftx holds a wake-up copy, that of a broadcast,
\* and only as long as the ends of its transmissions do not count.
WakeCopyInHand ==
  /\ \A i \in Slot : txslot[i] \in Packet /\ txslot[i].wake =>
       i = txindex /\ Sending /\ ~needchecksenddone
  /\ pc \in {"reserve", "fill"} => ~packet.wake
  /\ pc = "wakeup" => ~needchecksenddone
  /\ Sending /\ ~needchecksenddone => txslot[txindex].kind = "bcast"

\* What the transceiver was commanded to do and what the driver believes,
\* along the main loop's way through endTransmission and sleep.
CommandedState ==
  /\ pc \notin Deaf => state = "RXAUTO"
  /\ pc \notin Deaf \ {"rxset"} => chip = "RXAUTO" \/ cutoff
  /\ pc = "started" => air = Nothing /\ txIsBusy /\ state = "TXAUTO"

RadioInv == OnAirIsFront /\ WakeCopyInHand /\ CommandedState
-----------------------------------------------------------------------------
(* begin() leaves the receiver on and nothing on the air.                    *)
LEMMA InitRadioInv == Init => RadioInv
BY NothingAssumption
   DEF Init, RadioInv, OnAirIsFront, WakeCopyInHand, CommandedState, Deaf, Sending

(* The timer's sendbmeshdata writes neither the slot of a packet that is on  *)
(* the air, which is the front, nor the one handlerftx sends wake-up copies  *)
(* of: the rear is elsewhere.                                                *)
LEMMA TimerSparesAir ==
  ASSUME IInv, RadioInv, TimerTick
  PROVE  RadioInv'
<1> USE DEF RadioInv, OnAirIsFront, WakeCopyInHand, CommandedState
<1>1. PICK k \in Kind : TimerEnqueues(k)
  BY DEF TimerTick, Kind
<1>2. UNCHANGED <<rxvars, powervars, radiovars, donevars, mainvars, heard>>
  BY DEF TimerTick
<1> USE DEF rxvars, powervars, radiovars, donevars, mainvars
<1>3. CASE Full(txq) \/ made = MaxPackets
  BY <1>1, <1>2, <1>3, SMT DEF TimerEnqueues, txvars, Sending
<1>4. CASE ~Full(txq) /\ made # MaxPackets
  <2> DEFINE p == [id |-> made + 1, kind |-> k, wake |-> FALSE]
  <2>1. txslot' = [txslot EXCEPT ![txq.rear] = p] /\ ~p.wake
    BY <1>1, <1>4 DEF TimerEnqueues, InSlot
  <2>2. /\ txq'.front = txq.front /\ ~Empty(txq)' /\ txq.rear \in Slot
        /\ txq.front \in Slot
    BY <1>1, <1>4, InqueueRing DEF TimerEnqueues, IInv, TypeOK, Empty, Ring
  <2>3. ~Empty(txq) => txslot'[txq.front] = txslot[txq.front]
    BY <2>1, <2>2 DEF Empty, IInv, TypeOK
  <2>4. OnAirIsFront'
    BY <1>2, <2>2, <2>3
  <2>5. \A i \in Slot : txslot'[i] = txslot[i] \/ ~txslot'[i].wake
    BY <2>1, <2>2 DEF IInv, TypeOK
  <2>6. Sending /\ ~needchecksenddone => txslot'[txindex] = txslot[txindex]
    BY <2>3 DEF IInv, NotYetRemoved, PacketAtFront
  <2>7. WakeCopyInHand'
    BY <1>2, <2>5, <2>6 DEF Sending, IInv, TypeOK
  <2> QED
    BY <1>2, <2>4, <2>7
<1> QED
  BY <1>3, <1>4

(* Neither does handlerftx, whose packet is a broadcast where it writes its  *)
(* slot, and so not one that was left behind on the air.                     *)
LEMMA WakeupSparesAir ==
  ASSUME IInv, RadioInv, Wakeup
  PROVE  RadioInv'
<1> USE DEF RadioInv, OnAirIsFront, WakeCopyInHand, CommandedState
<1>1. /\ txindex \in Slot /\ txslot[txindex] \in Packet /\ pc = "wakeup"
      /\ txslot \in [Slot -> Packet \cup {Nothing}] /\ air \in Packet \cup {Nothing}
      /\ PacketAtFront /\ ~needchecksenddone /\ txslot[txindex].kind = "bcast"
  BY DEF IInv, TypeOK, NotYetRemoved, SlotsFilled, Sending, Wakeup
<1>2. air = Nothing
  BY <1>1 DEF PacketAtFront
<1>3. PICK b \in BOOLEAN : /\ txslot' = [txslot EXCEPT ![txindex].wake = b]
                           /\ b => needchecksenddone' = needchecksenddone
  BY Zenon DEF Wakeup
<1>4. /\ txslot'[txindex] = [txslot[txindex] EXCEPT !.wake = b]
      /\ \A i \in Slot \ {txindex} : txslot'[i] = txslot[i]
  BY <1>1, <1>3
<1>5. txslot'[txindex].wake = b /\ txslot'[txindex].kind = "bcast"
  BY <1>1, <1>4 DEF Packet
<1>6. /\ pc' = "transmit" /\ txindex' = txindex
      /\ UNCHANGED <<radiovars, txq, packet>>
  BY DEF Wakeup
<1> QED
  BY <1>1, <1>2, <1>3, <1>4, <1>5, <1>6 DEF radiovars, Sending, Deaf

(* Every step of the main loop and every handler preserves it.               *)
LEMMA StepRadioInv ==
  ASSUME IInv, RadioInv, [Next]_vars
  PROVE  RadioInv'
<1> USE DEF RadioInv, OnAirIsFront, WakeCopyInHand, CommandedState, Deaf, Sending,
    rxvars, txvars, powervars, radiovars, donevars, mainvars, counts
<1>1. CASE TimerTick
  BY <1>1, TimerSparesAir
<1>2. CASE SwitchToTx
  BY <1>2 DEF SwitchToTx
<1>3. CASE SendFrame
  <2>1. pc = "started" => ~Empty(txq) /\ txindex = txq.front
    BY <1>3 DEF SendFrame, IInv, NotYetRemoved, PacketAtFront
  <2> QED
    BY <1>3, <2>1 DEF SendFrame
<1>4. CASE WaitTxDone
  BY <1>4 DEF WaitTxDone
<1>5. CASE CommandRx \/ RecordRx
  BY <1>5 DEF CommandRx, RecordRx
<1>6. CASE Sent
  BY <1>6 DEF Sent, IInv, NotYetRemoved, Transmitting
<1>14. CASE Reboot
  BY <1>14, NothingAssumption DEF Reboot
<1>7. CASE CheckQueues \/ CheckWakeup \/ FallAsleep \/ WakeRadio \/ ForgetWakeup
  BY <1>7 DEF CheckQueues, CheckWakeup, FallAsleep, WakeRadio, ForgetWakeup
<1>8. ASSUME NEW ok \in BOOLEAN, TxEnd(ok) PROVE RadioInv'
  BY <1>8 DEF TxEnd
<1>9. CASE HearWakeup \/ HearData
  BY <1>9 DEF HearWakeup, HearData
<1>10. CASE TakeFrame \/ HandleFrame \/ AppSends \/ AppPolls \/ SendNothing
  BY <1>10 DEF TakeFrame, HandleFrame, AppSends, AppPolls, SendNothing, Return
<1>11. CASE StoreRear
  <2>1. txq'.front = txq.front /\ ~Empty(txq)'
    BY <1>11 DEF StoreRear, IInv, TypeOK, Ring, ReservedHasRoom, Empty
  <2> QED
    BY <1>11, <2>1 DEF StoreRear
<1>15. CASE FillSlot
  <2>1. /\ slot \in Slot /\ txslot' = [txslot EXCEPT ![slot] = packet]
        /\ txslot \in [Slot -> Packet \cup {Nothing}] /\ txq.front \in Slot
    BY <1>15 DEF FillSlot, IInv, TypeOK, Ring
  <2> QED
    BY <1>15, <2>1 DEF FillSlot, Return
<1>16. CASE PeekPacket
  BY <1>16 DEF PeekPacket
<1>17. CASE Wakeup
  BY <1>17, WakeupSparesAir
<1>12. ASSUME NEW k \in Kind, ReadRear(k) PROVE RadioInv'
  BY <1>12 DEF ReadRear, InSlot, Empty
<1>13. CASE UNCHANGED vars
  BY <1>13 DEF vars
<1> QED
  BY <1>1, <1>2, <1>3, <1>4, <1>5, <1>6, <1>7, <1>8, <1>9, <1>10, <1>11, <1>12,
     <1>13, <1>14, <1>15, <1>16, <1>17 DEF Next, MainLoop, Interrupts

(* It holds of every reachable state, however long transmissions last.       *)
THEOREM RadioInvariant == Spec => []RadioInv
<1>1. IInv /\ RadioInv /\ [Next]_vars => RadioInv'
  BY StepRadioInv
<1> QED
  BY <1>1, InitRadioInv, Inductive, PTL DEF Spec

(* The transmit-end handler leaves the transceiver off, endTransmission      *)
(* ignores a failure of radio_set_state, and a transmission may end whenever *)
(* it likes: outside endTransmission and sleep the receiver is on and the    *)
(* driver knows, or an end fell between its command and its record.          *)
THEOREM ListensButForTheRace == Spec => []Listening
<1>1. RadioInv => Listening
  BY DEF RadioInv, CommandedState, Listening
<1> QED
  BY <1>1, RadioInvariant, PTL

(* A step that moves the front of txqueue, or counts a failure, is the end of *)
(* a transmission the driver heeds, or a restart.                            *)
LEMMA FrontMovers ==
  ASSUME IInv, Next, txq'.front # txq.front \/ retrysend' # retrysend
  PROVE  Reboot \/ \E ok \in BOOLEAN : TxEnd(ok)
<1> USE DEF rxvars, txvars, powervars, radiovars, donevars, mainvars, counts
<1>1. CASE TimerTick
  <2>1. PICK k \in Kind : TimerEnqueues(k)
    BY <1>1 DEF TimerTick, Kind
  <2>2. txq' = txq \/ txq'.front = txq.front
    BY <2>1, InqueueRing DEF TimerEnqueues, IInv, TypeOK
  <2> QED
    BY <1>1, <2>2 DEF TimerTick
<1>2. CASE StoreRear
  BY <1>2 DEF StoreRear, IInv, TypeOK, Ring
<1> QED
  BY <1>1, <1>2, SMT DEF Next, MainLoop, Interrupts, AppSends, AppPolls,
     TakeFrame, HandleFrame, SendNothing, FillSlot, ReadRear, PeekPacket, Wakeup,
     SwitchToTx, SendFrame, WaitTxDone, CommandRx, RecordRx, Sent, CheckQueues,
     CheckWakeup, FallAsleep, WakeRadio, ForgetWakeup, HearWakeup, HearData

(* The end that onXmitDone counts, one way or the other, is that of the       *)
(* packet at the front.                                                      *)
LEMMA EndIsOfTheFront ==
  ASSUME IInv, RadioInv, NEW ok \in BOOLEAN, TxEnd(ok),
         txq' # txq \/ retrysend' # retrysend
  PROVE  air = txslot[txq.front] /\ ~air.wake
<1>1. air # Nothing /\ needchecksenddone
  BY DEF TxEnd, onXmitDone
<1>2. air \in Packet /\ air = txslot[txq.front] /\ txq.front \in Slot
  BY <1>1 DEF IInv, TypeOK, Ring, RadioInv, OnAirIsFront
<1> QED
  BY <1>1, <1>2 DEF RadioInv, WakeCopyInHand

(* onXmitDone removes the very packet whose transmission ended: whatever the *)
(* timer queued behind it, though handlerftx sends wake-up copies of it, and *)
(* though the end may come when handlerftx already transmits it again.       *)
THEOREM RemovesWhatWasOnAir == Spec => RemovedWasOnAir
<1>1. ASSUME IInv, RadioInv, Next, txq'.front # txq.front, pc' = pc
      PROVE  air = txslot[txq.front] /\ ~air.wake
  <2>1. ~Reboot
    BY <1>1 DEF Reboot
  <2>2. PICK ok \in BOOLEAN : TxEnd(ok)
    BY <1>1, <2>1, FrontMovers
  <2> QED
    BY <1>1, <2>2, EndIsOfTheFront
<1>2. IInv /\ RadioInv /\ [Next]_vars =>
        [txq'.front # txq.front /\ pc' = pc =>
           air = txslot[txq.front] /\ ~air.wake]_vars
  BY <1>1
<1> QED
  BY <1>2, Inductive, RadioInvariant, PTL DEF Spec, RemovedWasOnAir

(* A packet that comes to the front starts without failures, and only failed *)
(* transmissions of the front are counted, late ones included.               *)
THEOREM FailuresAreTheFronts == Spec => FailuresOfTheFront
<1>1. ASSUME IInv, RadioInv, Next
      PROVE  /\ txq'.front # txq.front => retrysend' = 0
             /\ retrysend' > retrysend => air = txslot[txq.front] /\ ~air.wake
  <2>1. CASE txq'.front = txq.front /\ retrysend' = retrysend
    BY <1>1, <2>1 DEF IInv, TypeOK
  <2>2. CASE Reboot
    BY <1>1, <2>2 DEF Reboot, IInv, TypeOK
  <2>3. ASSUME NEW ok \in BOOLEAN, TxEnd(ok)
        PROVE  /\ txq'.front # txq.front => retrysend' = 0
               /\ retrysend' > retrysend => air = txslot[txq.front] /\ ~air.wake
    <3>1. txq' # txq => retrysend' = 0
      BY <2>3, Zenon DEF TxEnd, onXmitDone
    <3>2. retrysend' > retrysend => retrysend' # retrysend
      BY <1>1 DEF IInv, TypeOK
    <3> QED
      BY <1>1, <2>3, <3>1, <3>2, EndIsOfTheFront
  <2> QED
    BY <1>1, <2>1, <2>2, <2>3, FrontMovers
<1>2. IInv /\ RadioInv /\ [Next]_vars =>
        [/\ txq'.front # txq.front => retrysend' = 0
         /\ retrysend' > retrysend => air = txslot[txq.front] /\ ~air.wake]_vars
  BY <1>1
<1> QED
  BY <1>2, Inductive, RadioInvariant, PTL DEF Spec, FailuresOfTheFront

(* A node that heard a wake-up frame before it made up its mind to sleep has *)
(* queued a data frame since, or counted all its polls, when it sleeps: for  *)
(* all numbers of polls, and whatever it relays and transmits meanwhile.     *)
THEOREM BroadcastsAreAwaited == Spec => WaitsForBroadcast
<1>1. ASSUME IInv, Next, pc # "asleep", pc' = "asleep", awaiting
      PROVE  delaycount > WAKE_POLLS
  <2>1. ~(HearWakeup \/ HearData \/ TimerTick \/ \E ok \in BOOLEAN : TxEnd(ok))
    BY <1>1 DEF HearWakeup, HearData, TimerTick, TxEnd, mainvars
  <2>2. ~(AppSends \/ AppPolls \/ TakeFrame \/ HandleFrame \/ SendNothing \/ Reboot)
    BY <1>1 DEF AppSends, AppPolls, TakeFrame, HandleFrame, SendNothing, Reboot, Return
  <2>3. ~(StoreRear \/ FillSlot \/ PeekPacket \/ Wakeup \/ SwitchToTx \/ SendFrame)
    BY <1>1 DEF StoreRear, FillSlot, PeekPacket, Wakeup, SwitchToTx, SendFrame, Return
  <2>4. ~(WaitTxDone \/ CommandRx \/ RecordRx \/ Sent \/ CheckQueues \/ CheckWakeup)
    BY <1>1 DEF WaitTxDone, CommandRx, RecordRx, Sent, CheckQueues, CheckWakeup
  <2>5. ~(WakeRadio \/ ForgetWakeup \/ \E k \in Kind : ReadRear(k))
    BY <1>1 DEF WakeRadio, ForgetWakeup, ReadRear
  <2>6. pc = "drowsy"
    BY <1>1, <2>1, <2>2, <2>3, <2>4, <2>5 DEF Next, MainLoop, Interrupts, FallAsleep
  <2> QED
    BY <1>1, <2>6 DEF IInv, AwaitedIsMarked
<1>2. IInv /\ [Next]_vars =>
        [pc # "asleep" /\ pc' = "asleep" /\ awaiting => delaycount > WAKE_POLLS]_vars
  BY <1>1
<1> QED
  BY <1>2, Inductive, PTL DEF Spec, WaitsForBroadcast
=============================================================================
