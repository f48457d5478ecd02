------------------------------ MODULE MeshLink ------------------------------
(***************************************************************************)
(* The link layer of one mesh node (src/MxBmesh/MxBmesh.cpp on top of       *)
(* src/MxRadio): the main loop, which takes received frames from rxqueue,   *)
(* fills txqueue and transmits its front, and the three interrupt handlers  *)
(* that run between any two of its steps: frame received, transmission      *)
(* ended, timer.                                                            *)
(*                                                                          *)
(* The main loop is one sequential program: pc says where it is.  One step  *)
(* of it is a stretch of code in which no interrupt can be told from one    *)
(* just before or just after.  A handler is one step, because AVR handlers  *)
(* are not interrupted.                                                     *)
(*                                                                          *)
(* What a received frame makes the node do (handlerfrx's switch) is the     *)
(* subject of MeshRoute.  Here a handled frame makes any number of calls of *)
(* sendbmeshdata up to two, the most one frame causes, and may switch the   *)
(* low-power mode.                                                          *)
(***************************************************************************)
EXTENDS Queue, FiniteSets

CONSTANTS
  RETRYSEND_MAX,  \* failed transmissions a packet survives (10)
  WAKE_POLLS,     \* polls spent awake for a broadcast (125/3 + 1)
  Preambles,      \* bound: wake-up frames sent before a low-power broadcast
  MaxPackets,     \* bound: packets this node queues
  MaxFrames,      \* bound: data frames it receives
  IsSink,         \* localAddress = SINKADDRESS
  TimerSends,     \* broadcastInterval or dataupload_interval is not 0
  Nothing         \* an empty slot, no frame

ASSUME LinkAssumption ==
  /\ RETRYSEND_MAX \in Nat /\ WAKE_POLLS \in Nat /\ Preambles \in Nat
  /\ MaxPackets \in Nat /\ MaxFrames \in Nat
  /\ {IsSink, TimerSends} \subseteq BOOLEAN

\* A queued packet: a broadcast, a unicast, or the unicast answer to the
\* reboot command.  "wake" is the rewritten type byte of a wake-up frame.
Kind == {"bcast", "uni", "reboot"}
Packet == [id : 1..MaxPackets, kind : Kind, wake : BOOLEAN]
Plain(p) == [p EXCEPT !.wake = FALSE]
Frame == 1..MaxFrames

ASSUME NothingAssumption == Nothing \notin Packet /\ Nothing \notin Frame

VARIABLES
  rxq, rxslot,  \* rxqueue: its ring and its slots
  txq, txslot,  \* txqueue
  retrysend,    \* failed transmissions of the front of txqueue
  needchecksenddone, \* a transmission that ends is one of the front of txqueue
  needrecieve,  \* needrecievebroadcastdata: a wake-up frame was heard
  delaycount,   \* needrecievebroadcastdatadelaycount
  islowpower,
  awaiting,     \* for the properties: a wake-up frame was heard before the node
                \* made up its mind to sleep, and no data frame queued since
  state,        \* radiostatus.state: what the driver believes
  chip,         \* the state last commanded to the transceiver
  air,          \* the frame being transmitted, or Nothing
  txIsBusy,
  cutoff,       \* for the properties: a transmission ended after the receiver
                \* was commanded back on, and before the driver recorded it
  pc,           \* where the main loop is
  caller,       \* who called sendbmeshdata
  rxindex,      \* packdataindex_rx
  todo,         \* calls of sendbmeshdata the frame in hand still makes
  slot, packet, \* packdataindex_tx of sendbmeshdata, and what it will write
  txindex,      \* packdataindex_tx of handlerftx
  preamble,     \* wake-up frames sent of the current broadcast
  made, heard   \* packets made and data frames received so far

rxvars == <<rxq, rxslot>>
txvars == <<txq, txslot>>
powervars == <<needrecieve, delaycount, islowpower, awaiting>>
radiovars == <<state, chip, air, txIsBusy, cutoff>>
donevars == <<retrysend, needchecksenddone>>
mainvars == <<pc, caller, rxindex, todo, slot, packet, txindex, preamble>>
counts == <<made, heard>>
vars == <<rxvars, txvars, powervars, radiovars, donevars, mainvars, counts>>

Pc == {"app", "frx", "handle", "enqueue", "reserve", "fill", "ftx", "wakeup",
       "transmit", "started", "failed", "wait", "rxauto", "rxset", "sent",
       "power", "power2", "drowsy", "asleep", "woken"}

TypeOK ==
  /\ rxq \in Ring /\ rxslot \in [Slot -> Frame \cup {Nothing}]
  /\ txq \in Ring /\ txslot \in [Slot -> Packet \cup {Nothing}]
  /\ retrysend \in 0..RETRYSEND_MAX
  /\ needchecksenddone \in BOOLEAN
  /\ needrecieve \in BOOLEAN /\ delaycount \in 0..(WAKE_POLLS + 1)
  /\ islowpower \in BOOLEAN /\ awaiting \in BOOLEAN
  /\ state \in {"RXAUTO", "TXAUTO", "OFF", "SLEEP"}
  /\ chip \in {"RXAUTO", "TXAUTO", "OFF", "SLEEP"}
  /\ air \in Packet \cup {Nothing}
  /\ txIsBusy \in BOOLEAN /\ cutoff \in BOOLEAN
  /\ pc \in Pc /\ caller \in {"app", "handle"}
  /\ rxindex \in Slot /\ txindex \in Slot /\ slot \in Slot
  /\ todo \in 0..2
  /\ packet \in Packet \cup {Nothing}
  /\ preamble \in 0..Preambles
  /\ made \in 0..MaxPackets /\ heard \in 0..MaxFrames

\* What the statics and begin() leave; a restart goes through them again (Reboot).
Init ==
  /\ rxq = init_queue /\ txq = init_queue
  /\ rxslot = [i \in Slot |-> Nothing] /\ txslot = [i \in Slot |-> Nothing]
  /\ retrysend = 0 /\ needchecksenddone = TRUE
  /\ needrecieve = FALSE /\ delaycount = 0 /\ islowpower \in BOOLEAN
  /\ awaiting = FALSE
  /\ state = "RXAUTO" /\ chip = "RXAUTO" /\ air = Nothing
  /\ txIsBusy = FALSE /\ cutoff = FALSE
  /\ pc = "app" /\ caller = "app" /\ rxindex = 0 /\ todo = 0
  /\ slot = 0 /\ packet = Nothing /\ txindex = 0 /\ preamble = 0
  /\ made = 0 /\ heard = 0
-----------------------------------------------------------------------------
(* Received frames.                                                         *)

\* recievehandler on a frame that is a wake-up frame.
HearWakeup ==
  /\ chip = "RXAUTO" /\ air = Nothing
  /\ needrecieve' = TRUE
  /\ awaiting' = (awaiting \/ pc \notin {"drowsy", "woken"})
  /\ UNCHANGED <<rxvars, txvars, delaycount, islowpower, radiovars, donevars,
                 mainvars, counts>>

\* recievehandler on a data frame: it is lost when rxqueue is full.
HearData ==
  /\ chip = "RXAUTO" /\ air = Nothing
  /\ heard < MaxFrames /\ heard' = heard + 1
  /\ IF Full(rxq) THEN UNCHANGED <<rxvars, needrecieve, awaiting>>
     ELSE /\ rxslot' = [rxslot EXCEPT ![InSlot(rxq)] = heard + 1]
          /\ rxq' = inqueue(rxq)
          /\ needrecieve' = FALSE /\ awaiting' = FALSE
  /\ UNCHANGED <<txvars, delaycount, islowpower, radiovars, donevars, mainvars,
                 made>>

\* handlerfrx takes the front of rxqueue, if any, out of the ring ...
TakeFrame ==
  /\ pc = "frx"
  /\ IF Empty(rxq) THEN pc' = "ftx" /\ UNCHANGED <<rxq, rxindex, todo>>
     ELSE /\ pc' = "handle"
          /\ rxindex' = peerqueue(rxq)
          /\ rxq' = dequeue(rxq)
          /\ todo' \in 0..2
  /\ UNCHANGED <<rxslot, txvars, powervars, radiovars, donevars, caller, slot,
                 packet, txindex, preamble, counts>>

\* ... and works on the slot it has taken: sends, or is done with it.
HandleFrame ==
  /\ pc = "handle"
  /\ IF todo = 0 THEN pc' = "ftx" /\ islowpower' \in BOOLEAN
     ELSE pc' = "enqueue" /\ UNCHANGED islowpower
  /\ todo' = IF todo = 0 THEN 0 ELSE todo - 1
  /\ caller' = "handle"
  /\ UNCHANGED <<rxvars, txvars, needrecieve, delaycount, awaiting, radiovars,
                 donevars, rxindex, slot, packet, txindex, preamble, counts>>
-----------------------------------------------------------------------------
(* sendbmeshdata, called by the main loop: three steps, between which the   *)
(* interrupt handlers run.                                                  *)

\* The application calls it between two polls, or not.
AppSends ==
  /\ pc = "app"
  /\ pc' = "enqueue" /\ caller' = "app"
  /\ UNCHANGED <<rxvars, txvars, powervars, radiovars, donevars, rxindex, todo,
                 slot, packet, txindex, preamble, counts>>

AppPolls ==
  /\ pc = "app" /\ pc' = "frx"
  /\ UNCHANGED <<rxvars, txvars, powervars, radiovars, donevars, caller,
                 rxindex, todo, slot, packet, txindex, preamble, counts>>

Return == IF caller = "app" THEN "frx" ELSE "handle"

\* The packet is not queued: it is for this node, has no path, or finds the
\* ring full.
SendNothing ==
  /\ pc = "enqueue" /\ pc' = Return
  /\ UNCHANGED <<rxvars, txvars, powervars, radiovars, donevars, caller,
                 rxindex, todo, slot, packet, txindex, preamble, counts>>

\* inqueue reads the rear index ...
ReadRear(k) ==
  /\ pc = "enqueue" /\ ~Full(txq) /\ made < MaxPackets
  /\ k = "reboot" => caller = "handle"
  /\ pc' = "reserve"
  /\ slot' = InSlot(txq)
  /\ made' = made + 1
  /\ packet' = [id |-> made + 1, kind |-> k, wake |-> FALSE]
  /\ UNCHANGED <<rxvars, txvars, powervars, radiovars, donevars, caller,
                 rxindex, todo, txindex, preamble, heard>>

\* ... and stores its successor, computed from what it read.
StoreRear ==
  /\ pc = "reserve" /\ pc' = "fill"
  /\ txq' = [txq EXCEPT !.rear = After(slot)]
  /\ UNCHANGED <<rxvars, txslot, powervars, radiovars, donevars, caller,
                 rxindex, todo, slot, packet, txindex, preamble, counts>>

\* Then the slot is filled.
FillSlot ==
  /\ pc = "fill" /\ pc' = Return
  /\ txslot' = [txslot EXCEPT ![slot] = packet]
  /\ packet' = Nothing
  /\ UNCHANGED <<rxvars, txq, powervars, radiovars, donevars, caller, rxindex,
                 todo, slot, txindex, preamble, counts>>

\* sendbmeshdata called by timer2function: a whole call is one step.
TimerEnqueues(k) ==
  IF Full(txq) \/ made = MaxPackets THEN UNCHANGED <<txvars, made>>
  ELSE /\ made' = made + 1
       /\ txslot' = [txslot EXCEPT ![InSlot(txq)] =
                       [id |-> made + 1, kind |-> k, wake |-> FALSE]]
       /\ txq' = inqueue(txq)

\* The neighbour broadcast, which is not sent while a broadcast is awaited,
\* or the data upload.  (When both intervals elapse at one tick the second
\* follows with no main-loop step in between.)
TimerTick ==
  /\ TimerSends
  /\ \/ ~needrecieve /\ TimerEnqueues("bcast")
     \/ ~IsSink /\ TimerEnqueues("uni")
  /\ UNCHANGED <<rxvars, powervars, radiovars, donevars, mainvars, heard>>
-----------------------------------------------------------------------------
(* handlerftx and MxRadio.endTransmission.                                  *)

\* Nothing to send, or the front of txqueue, which stays in the ring.  Under
\* low power a broadcast is preceded by wake-up frames.
PeekPacket ==
  /\ pc = "ftx"
  /\ IF Empty(txq)
     THEN pc' = "power" /\ UNCHANGED <<txindex, needchecksenddone, preamble>>
     ELSE LET p == txslot[peerqueue(txq)]
              wakes == islowpower /\ p.kind = "bcast"
          IN /\ txindex' = peerqueue(txq)
             /\ needchecksenddone' = ~wakes
             /\ preamble' = 0
             /\ pc' = IF wakes THEN "wakeup" ELSE "transmit"
  /\ UNCHANGED <<rxvars, txvars, powervars, radiovars, retrysend, caller,
                 rxindex, todo, slot, packet, counts>>

\* The loop that sends wake-up frames until the preamble time is over, then the
\* broadcast itself.
Wakeup ==
  /\ pc = "wakeup" /\ pc' = "transmit"
  /\ \/ /\ preamble < Preambles /\ preamble' = preamble + 1
        /\ txslot' = [txslot EXCEPT ![txindex].wake = TRUE]
        /\ UNCHANGED needchecksenddone
     \/ /\ preamble > 0 /\ UNCHANGED preamble
        /\ txslot' = [txslot EXCEPT ![txindex].wake = FALSE]
        /\ needchecksenddone' = TRUE
  /\ UNCHANGED <<rxvars, txq, powervars, radiovars, retrysend, caller, rxindex,
                 todo, slot, packet, txindex, counts>>

\* endTransmission up to radio_set_state(STATE_TXAUTO), which may fail because
\* the transceiver is busy; the driver records the new state all the same.
SwitchToTx ==
  /\ pc = "transmit"
  /\ pc' \in IF air = Nothing THEN {"started", "failed"} ELSE {"failed"}
  /\ txIsBusy' = TRUE
  /\ chip' = "TXAUTO" /\ state' = "TXAUTO"
  /\ UNCHANGED <<rxvars, txvars, powervars, air, cutoff, donevars, caller,
                 rxindex, todo, slot, packet, txindex, preamble, counts>>

\* radio_send_frame: a transceiver that is not ready to transmit ignores it.
SendFrame ==
  /\ pc \in {"started", "failed"} /\ pc' = "wait"
  /\ air' = IF pc = "started" /\ chip = "TXAUTO" THEN txslot[txindex] ELSE air
  /\ UNCHANGED <<rxvars, txvars, powervars, state, chip, txIsBusy, cutoff,
                 donevars, caller, rxindex, todo, slot, packet, txindex, preamble, counts>>

\* waitTxDone(0xFFFF): the transmission has ended, or the count ran out, as it
\* may while a unicast is repeated for want of an acknowledgement (begin() asks
\* the transceiver for 15 repetitions).  A broadcast is sent once.
WaitTxDone ==
  /\ pc = "wait" /\ pc' = "rxauto"
  /\ txIsBusy /\ air # Nothing => air.kind # "bcast"
  /\ UNCHANGED <<rxvars, txvars, powervars, radiovars, donevars, caller, rxindex,
                 todo, slot, packet, txindex, preamble, counts>>

\* Mutant: the receiver is not commanded back on.
CommandRxNot ==
  /\ pc = "rxauto" /\ pc' = "rxset"
  /\ UNCHANGED <<rxvars, txvars, powervars, radiovars, donevars,
                 caller, rxindex, todo, slot, packet, txindex, preamble, counts>>

\* radio_set_state(STATE_RXAUTO) commands the transceiver, polls it, and then
\* records the state.
CommandRx ==
  /\ pc = "rxauto" /\ pc' = "rxset"
  /\ chip' = "RXAUTO" /\ cutoff' = FALSE
  /\ UNCHANGED <<rxvars, txvars, powervars, state, air, txIsBusy, donevars,
                 caller, rxindex, todo, slot, packet, txindex, preamble, counts>>

RecordRx ==
  /\ pc = "rxset"
  /\ pc' = IF needchecksenddone THEN "sent" ELSE "wakeup"
  /\ state' = "RXAUTO" /\ txIsBusy' = FALSE
  /\ UNCHANGED <<rxvars, txvars, powervars, chip, air, cutoff, donevars, caller,
                 rxindex, todo, slot, packet, txindex, preamble, counts>>

\* The end of handlerftx: the answer to a reboot command, looked up in the slot
\* that was transmitted, restarts the node.
Sent ==
  /\ pc = "sent"
  /\ txslot[txindex].kind # "reboot"
  /\ pc' = "power"
  /\ UNCHANGED <<rxvars, txvars, powervars, radiovars, donevars, caller, rxindex,
                 todo, slot, packet, txindex, preamble, counts>>

Reboot ==
  /\ pc = "sent"
  /\ txslot[txindex].kind = "reboot"
  /\ rxq' = init_queue /\ txq' = init_queue
  /\ rxslot' = [i \in Slot |-> Nothing] /\ txslot' = [i \in Slot |-> Nothing]
  /\ retrysend' = 0 /\ needchecksenddone' = TRUE
  /\ needrecieve' = FALSE /\ delaycount' = 0 /\ islowpower' \in BOOLEAN
  /\ awaiting' = FALSE
  /\ state' = "RXAUTO" /\ chip' = "RXAUTO" /\ air' = Nothing
  /\ txIsBusy' = FALSE /\ cutoff' = FALSE
  /\ pc' = "app" /\ caller' = "app" /\ rxindex' = 0 /\ todo' = 0
  /\ slot' = 0 /\ packet' = Nothing /\ txindex' = 0 /\ preamble' = 0
  /\ UNCHANGED counts

\* Mutants of onXmitDone: it counts one failure too many; keeps the count of a
\* packet that was sent; counts the ends of wake-up frames; never gives up.
onXmitDoneOneMore(ok) ==
  IF ~needchecksenddone THEN UNCHANGED <<txq, retrysend>>
  ELSE IF ok \/ retrysend > RETRYSEND_MAX
  THEN txq' = dequeue(txq) /\ retrysend' = 0
  ELSE retrysend' = retrysend + 1 /\ UNCHANGED txq
onXmitDoneKeepsCount(ok) ==
  IF ~needchecksenddone THEN UNCHANGED <<txq, retrysend>>
  ELSE IF ok \/ retrysend = RETRYSEND_MAX
  THEN txq' = dequeue(txq) /\ retrysend' = IF ok THEN retrysend ELSE 0
  ELSE retrysend' = retrysend + 1 /\ UNCHANGED txq
onXmitDoneAlways(ok) ==
  IF ok \/ retrysend = RETRYSEND_MAX
  THEN txq' = dequeue(txq) /\ retrysend' = 0
  ELSE retrysend' = retrysend + 1 /\ UNCHANGED txq
onXmitDoneForever(ok) ==
  IF needchecksenddone /\ ok
  THEN txq' = dequeue(txq) /\ retrysend' = 0
  ELSE UNCHANGED <<txq, retrysend>>

\* onXmitDone: the front of txqueue is removed once it was sent, or has failed
\* RETRYSEND_MAX + 1 times.  The end of a wake-up frame does not count.
onXmitDone(ok) ==
  IF ~needchecksenddone THEN UNCHANGED <<txq, retrysend>>
  ELSE IF ok \/ retrysend = RETRYSEND_MAX
  THEN txq' = dequeue(txq) /\ retrysend' = 0
  ELSE retrysend' = retrysend + 1 /\ UNCHANGED txq

\* The transmission on air ends.  A broadcast is not acknowledged: it fails only
\* for want of a free channel.  The handler heeds the end only in a transmit
\* state, and leaves the transceiver off.
TxEnd(ok) ==
  /\ air # Nothing /\ air' = Nothing
  /\ IF state = "TXAUTO"
     THEN /\ txIsBusy' = FALSE
          /\ state' = "OFF" /\ chip' = "OFF"
          /\ cutoff' = (pc = "rxset")
          /\ onXmitDone(ok)
     ELSE UNCHANGED <<state, chip, txIsBusy, cutoff, txq, retrysend>>
  /\ UNCHANGED <<rxvars, txslot, powervars, needchecksenddone, mainvars, counts>>
-----------------------------------------------------------------------------
(* The end of poll: a low-power node sleeps.                                *)

\* It does not when there is something to do ...
CheckQueues ==
  /\ pc = "power"
  /\ pc' = IF IsSink \/ ~Empty(txq) \/ ~Empty(rxq) \/ ~islowpower
           THEN "app" ELSE "power2"
  /\ UNCHANGED <<rxvars, txvars, powervars, radiovars, donevars, caller, rxindex,
                 todo, slot, packet, txindex, preamble, counts>>

\* Mutant: the mark of a wake-up frame is not looked at.
CheckWakeupNot ==
  /\ pc = "power2" /\ pc' = "drowsy"
  /\ UNCHANGED <<rxvars, txvars, powervars, radiovars, donevars,
                 caller, rxindex, todo, slot, packet, txindex, preamble, counts>>

\* ... or, for some polls, when a wake-up frame was heard ...
CheckWakeup ==
  /\ pc = "power2"
  /\ IF needrecieve /\ delaycount <= WAKE_POLLS
     THEN pc' = "app" /\ delaycount' = delaycount + 1
     ELSE pc' = "drowsy" /\ UNCHANGED delaycount
  /\ UNCHANGED <<rxvars, txvars, needrecieve, islowpower, awaiting, radiovars,
                 donevars, caller, rxindex, todo, slot, packet, txindex, preamble, counts>>

\* ... but once it has looked it goes to sleep, whatever was heard since.
FallAsleep ==
  /\ pc = "drowsy" /\ pc' = "asleep"
  /\ state' = "SLEEP" /\ chip' = "SLEEP"
  /\ UNCHANGED <<rxvars, txvars, powervars, air, txIsBusy, cutoff, donevars,
                 caller, rxindex, todo, slot, packet, txindex, preamble, counts>>

\* MxTimer2::sleepms returns and the receiver is switched on ...
WakeRadio ==
  /\ pc = "asleep" /\ pc' = "woken"
  /\ state' = "RXAUTO" /\ chip' = "RXAUTO" /\ cutoff' = FALSE
  /\ UNCHANGED <<rxvars, txvars, powervars, air, txIsBusy, donevars, caller,
                 rxindex, todo, slot, packet, txindex, preamble, counts>>

\* ... before the mark of a wake-up frame is cleared.
ForgetWakeup ==
  /\ pc = "woken" /\ pc' = "app"
  /\ needrecieve' = FALSE /\ delaycount' = 0 /\ awaiting' = FALSE
  /\ UNCHANGED <<rxvars, txvars, islowpower, radiovars, donevars, caller, rxindex,
                 todo, slot, packet, txindex, preamble, counts>>
-----------------------------------------------------------------------------
MainLoop ==
  \/ AppSends \/ AppPolls
  \/ TakeFrame \/ HandleFrame
  \/ SendNothing \/ StoreRear \/ FillSlot
  \/ \E k \in Kind : ReadRear(k)
  \/ PeekPacket \/ Wakeup \/ SwitchToTx \/ SendFrame \/ WaitTxDone
  \/ CommandRx \/ RecordRx \/ Sent \/ Reboot
  \/ CheckQueues \/ CheckWakeup \/ FallAsleep \/ WakeRadio \/ ForgetWakeup

Interrupts ==
  \/ HearWakeup \/ HearData
  \/ \E ok \in BOOLEAN : TxEnd(ok)
  \/ TimerTick

Next == MainLoop \/ Interrupts

Spec == Init /\ [][Next]_vars

(* The main loop never stops, a transmission ends, and the transceiver is   *)
(* not busy with a reception each and every time it is asked to transmit a  *)
(* packet (rather than a wake-up copy of it).                               *)
FairSpec ==
  /\ Spec
  /\ WF_vars(MainLoop)
  /\ WF_vars(\E ok \in BOOLEAN : TxEnd(ok))
  /\ SF_vars(SwitchToTx /\ needchecksenddone /\ pc' = "started")
-----------------------------------------------------------------------------
(* Properties.                                                              *)

\* The main loop is inside handlerfrx, on the slot it took from rxqueue.
Handling ==
  \/ pc = "handle"
  \/ pc \in {"enqueue", "reserve", "fill"} /\ caller = "handle"

\* The main loop is about to restart the node.
Rebooting == pc = "sent" /\ txslot[txindex].kind = "reboot"

RxFifo == INSTANCE BoundedFifo WITH
  Item <- Frame, Capacity <- RFQUENEMAX - 1,
  buffer <- Contents(rxq, rxslot),
  hand <- IF Handling THEN rxslot[rxindex] ELSE Nothing,
  reset <- Rebooting

(* recievehandler and handlerfrx share rxqueue without a lock, and handlerfrx *)
(* reads its slot after dequeue has given it back.  Still every frame that    *)
(* fits is handled once, in the order of reception, and the slot in hand is   *)
(* not overwritten while it is read.                                          *)
FramesServedInOrder == RxFifo!ServedSpec

(* A node that has heard a wake-up frame waits for the broadcast behind it    *)
(* (MxBmesh.h:60-64): if it heard the frame before it made up its mind to     *)
(* sleep, it does not sleep before a data frame was queued or WAKE_POLLS      *)
(* polls have been counted, whatever it relays, sends and loses meanwhile.    *)
(* One that is heard after the last look at the mark, before the radio is     *)
(* switched off, the code sleeps over and forgets (MxBmesh.cpp:916-925).      *)
WaitsForBroadcast ==
  [][pc # "asleep" /\ pc' = "asleep" /\ awaiting => delaycount > WAKE_POLLS]_vars

\* What is queued for transmission; a reserved slot counts as filled.
TxView ==
  [i \in Slot |-> IF pc = "fill" /\ i = slot THEN packet
                  ELSE IF txslot[i] = Nothing THEN Nothing
                  ELSE Plain(txslot[i])]

TxFifo == INSTANCE BoundedFifo WITH
  Item <- Packet, Capacity <- RFQUENEMAX - 1,
  buffer <- Contents(txq, TxView),
  hand <- Nothing,
  reset <- Rebooting

(* txqueue, filled by sendbmeshdata in the main loop and emptied by           *)
(* onXmitDone in an interrupt, is a first-in first-out buffer: no packet that *)
(* was accepted is overwritten, repeated or passed.                           *)
PacketsDrainInOrder == TxFifo!DrainedSpec

\* The main loop is inside handlerftx, on the slot it looked up.
Sending == pc \in {"wakeup", "transmit", "started", "failed", "wait", "rxauto",
                   "rxset", "sent"}

(* handlerftx transmits its slot, again and again as a wake-up frame, and     *)
(* looks into it afterwards for the reboot answer, when onXmitDone may have   *)
(* given it back: until then nobody else writes the slot.                     *)
SentSlotStays ==
  [][Sending /\ Sending' => /\ txindex' = txindex
                            /\ Plain(txslot'[txindex]) = Plain(txslot[txindex])]_vars

(* onXmitDone removes the front of txqueue without looking at it: it is the   *)
(* very packet whose transmission ended, not a wake-up copy of it and not the *)
(* packet behind it, even if that transmission began two polls ago.           *)
RemovedWasOnAir ==
  [][txq'.front # txq.front /\ pc' = pc => air = txslot[txq.front] /\ ~air.wake]_vars

\* Where the main loop is inside endTransmission, or asleep.
Deaf == {"started", "failed", "wait", "rxauto", "rxset", "asleep"}

(* Outside endTransmission and sleep the node can hear its neighbours: the    *)
(* transmit-end handler leaves the transceiver off, and the main loop always  *)
(* switches it back.  One race alone leaves the receiver off: a transmission  *)
(* that outlasts waitTxDone and ends inside radio_set_state(STATE_RXAUTO).    *)
Listening ==
  pc \notin Deaf => state = "RXAUTO" /\ (chip = "RXAUTO" \/ cutoff)

(* The one failure counter is about the packet at the front: the packet that  *)
(* takes its place, in an emptied ring or not, starts with no failure, and    *)
(* only a failed transmission of the front itself is counted, neither one of  *)
(* a wake-up copy nor a late one of a packet before it.                       *)
FailuresOfTheFront ==
  [][/\ txq'.front # txq.front => retrysend' = 0
     /\ retrysend' > retrysend => air = txslot[txq.front] /\ ~air.wake]_vars

InTxQueue(i) == \E k \in DOMAIN Contents(txq, txslot) :
                  /\ Contents(txq, txslot)[k] # Nothing
                  /\ Contents(txq, txslot)[k].id = i
InRxQueue(f) == \E k \in DOMAIN Contents(rxq, rxslot) : Contents(rxq, rxslot)[k] = f

\* A transmission ends while the driver's state still says it transmits, so that
\* the handler heeds the end (radio_rfa.c:125).
EndIsHeeded == air # Nothing /\ air' = Nothing => state = "TXAUTO"

(* A packet does not stay in txqueue for ever, acknowledged or not: it is      *)
(* given up after RETRYSEND_MAX repetitions (MxBmeshConfig.h:48), unless ends  *)
(* of transmissions that outlast waitTxDone are ignored again and again, and   *)
(* so are not counted.                                                        *)
EveryPacketLeaves ==
  <>[][EndIsHeeded]_vars
    => \A i \in 1..MaxPackets : InTxQueue(i) ~> ~InTxQueue(i)

(* A received frame does not wait in rxqueue for ever, even when the node     *)
(* sleeps in between.                                                         *)
EveryFrameHandled == \A f \in Frame : InRxQueue(f) ~> ~InRxQueue(f)
=============================================================================
