----------------------------- MODULE MeshRoute -----------------------------
(***************************************************************************)
(* The mesh: handlerfrx and sendbmeshdata (src/MxBmesh/MxBmesh.cpp) on every *)
(* node, and the computer on the sink's serial line, which floods route     *)
(* broadcasts (RB) and sends commands down explicit paths.  A node answers   *)
(* and uploads along the one path to the sink that it last recorded.        *)
(*                                                                          *)
(* rxqueue and txqueue are the first-in first-out buffers that MeshLink      *)
(* shows them to be, so one handled frame and one transmission are a step   *)
(* each.  A frame may be lost, and a unicast whose acknowledgement is lost   *)
(* is sent again.  Payloads are left out but for the type a CMD_ACK answers *)
(* and the interval RD carries; so is the neighbour table, which no routing *)
(* decision reads (it is the subject of MeshNeighbours).                    *)
(***************************************************************************)
EXTENDS Integers, Sequences, FiniteSets, SequencesExt

CONSTANTS
  Node,          \* addresses in use, the sink's among them
  Link,          \* pairs of nodes that hear each other, in both orders
  Computer,      \* what the computer does, in this order: a sequence of Task
  Uploads,       \* pairs <<node, type>>: what the applications upload, in any order
  RFQUENEMAX,    \* slots of a queue, one of which stays empty
  RETRYSEND_MAX, \* failed transmissions a packet survives
  MAX_ROUTER,    \* hop limit
  FirstSeq,      \* the sequence number the computer starts with
  PowerMode,     \* the power mode the sketch gives begin()
  Lossy,         \* frames and acknowledgements may be lost
  MaxReset       \* bound: resets by the watchdog

SINKADDRESS == 0
BROADCASTADDR == 255

\* Message types.  The commands a node answers and otherwise only obeys in the
\* parts left out here (CLRNEIGBOUR, GETCONFIG) behave as "CLRNEIGBOUR".
Command == {"RD", "LOWPOWER", "HIGHPOWER", "CLRNEIGBOUR", "REBOOT"}
Upload == {"DU", "DU_NEEDACK", "DU_NEEDAPPACK"}
\* The uploads that want an acknowledgement.
Awaited == {"DU_NEEDACK", "DU_NEEDAPPACK"}
Unicast == Command \cup Upload \cup {"RU", "DU_ACK", "DD", "DD_NEEDACK", "CMD_ACK"}
Type == Unicast \cup {"RB"}

\* A route broadcast, or a packet for the last node of a path: an order, data, or
\* the answer to its DU_NEEDAPPACK.
Task == [type : {"RB"}] \cup
        [type : Command \cup {"DD", "DD_NEEDACK", "DU_ACK"},
         nodes : Seq(Node \ {SINKADDRESS}) \ {<< >>}]

ASSUME RouteAssumption ==
  /\ SINKADDRESS \in Node /\ Node \subseteq 0..253 /\ IsFiniteSet(Node)
  /\ Link \subseteq Node \X Node
  /\ \A l \in Link : l[1] # l[2] /\ <<l[2], l[1]>> \in Link
  /\ Computer \in Seq(Task)
  /\ Uploads \subseteq (Node \ {SINKADDRESS}) \X Upload
  /\ RFQUENEMAX \in 2..255 /\ RETRYSEND_MAX \in Nat /\ MAX_ROUTER \in Nat
  /\ FirstSeq \in 0..255 /\ PowerMode \in BOOLEAN
  /\ Lossy \in BOOLEAN /\ MaxReset \in Nat

VARIABLES
  rxqueue, txqueue, \* per node: frames received, packets to transmit
  retrysend,        \* per node: failed transmissions of the front of txqueue
  pathnode,         \* per node: next hop first, the sink last; empty is no path
  lasthandledseq,   \* per node and source
  lastrbseq,        \* per node
  sendpacketseq,    \* per node
  islowpower,       \* per node
  interval,         \* per node: dataupload_interval
  uploaddataAcked,  \* per node
  saving,           \* per node: SaveCONFIG is writing the EEPROM, for an RD
  saved,            \* per node: what LoadCONFIG makes of the EEPROM
  tasks, uploads,   \* what is left of Computer and of Uploads
  serialseq,        \* the sequence number the computer uses next
  resets,           \* resets so far
  torn,             \* per node, for the properties: a reset cut SaveCONFIG short
                    \* and LoadCONFIG refuses what it left
  handled, again    \* likewise: the packets it has handled, and those it has
                    \* handled more than once

queues == <<rxqueue, txqueue, retrysend>>
routing == <<pathnode, lasthandledseq, lastrbseq, sendpacketseq>>
eeprom == <<saving, saved, torn>>
config == <<islowpower, interval, eeprom>>
outside == <<tasks, uploads, serialseq, resets>>
history == <<handled, again>>
vars == <<queues, routing, config, uploaddataAcked, outside, history>>

Neighbours(n) == {m \in Node : <<n, m>> \in Link}
Seqno == 0..255
Next256(s) == (s + 1) % 256
NoArg == "none"
OldInterval == 0
NewInterval == 10

\* A packet, the frame that carries it to a node, and its place in txqueue.
Packet(type, src, dest, seq, nodes, arg) ==
  [type |-> type, src |-> src, dest |-> dest, seq |-> seq, nodes |-> nodes,
   arg |-> arg]
IsPacket(p) ==
  /\ p.type \in Type /\ p.src \in Node /\ p.dest \in Node \cup {BROADCASTADDR}
  /\ p.seq \in Seqno /\ p.arg \in Type \cup {NoArg}
  /\ \A i \in DOMAIN p.nodes : p.nodes[i] \in Node \cup {BROADCASTADDR}

TypeOK ==
  /\ \A n \in Node :
       /\ Len(rxqueue[n]) < RFQUENEMAX /\ Len(txqueue[n]) < RFQUENEMAX
       /\ \A i \in DOMAIN rxqueue[n] :
            rxqueue[n][i].from \in Neighbours(n) /\ IsPacket(rxqueue[n][i].packet)
       /\ \A i \in DOMAIN txqueue[n] :
            /\ txqueue[n][i].to \in (Node \ {n}) \cup {BROADCASTADDR}
            /\ IsPacket(txqueue[n][i].packet)
       /\ \A i \in DOMAIN pathnode[n] : pathnode[n][i] \in Node
       /\ pathnode[n] # << >> => Last(pathnode[n]) = SINKADDRESS
  /\ retrysend \in [Node -> 0..RETRYSEND_MAX]
  /\ lasthandledseq \in [Node -> [Node -> Seqno]]
  /\ lastrbseq \in [Node -> Seqno] /\ sendpacketseq \in [Node -> Seqno]
  /\ {islowpower, uploaddataAcked, saving, torn} \subseteq [Node -> BOOLEAN]
  /\ interval \in [Node -> {OldInterval, NewInterval}]
  /\ uploads \subseteq Uploads /\ serialseq \in Seqno /\ resets \in 0..MaxReset

\* What LoadCONFIG leaves when it refuses the EEPROM, and begin() saves when there
\* is nothing in it.
NoConfig == [path |-> << >>, low |-> PowerMode, interval |-> OldInterval]

\* The statics and begin().
Init ==
  /\ rxqueue = [n \in Node |-> << >>] /\ txqueue = [n \in Node |-> << >>]
  /\ retrysend = [n \in Node |-> 0]
  /\ pathnode = [n \in Node |-> << >>]
  /\ lasthandledseq = [n \in Node |-> [m \in Node |-> 0]]
  /\ lastrbseq = [n \in Node |-> 0] /\ sendpacketseq = [n \in Node |-> 255]
  /\ islowpower = [n \in Node |-> PowerMode]
  /\ interval = [n \in Node |-> OldInterval]
  /\ saving = [n \in Node |-> FALSE] /\ saved = [n \in Node |-> NoConfig]
  /\ torn = [n \in Node |-> FALSE]
  /\ uploaddataAcked = [n \in Node |-> FALSE]
  /\ tasks = Computer /\ uploads = Uploads /\ serialseq = FirstSeq /\ resets = 0
  /\ handled = [n \in Node |-> {}] /\ again = [n \in Node |-> {}]
-----------------------------------------------------------------------------
(* sendbmeshdata.                                                           *)

Room(q) == Len(q) < RFQUENEMAX - 1
PutAlways(q, x) == Append(q, x)        \* mutant: no check for room
Put(q, x) == IF Room(q) THEN Append(q, x) ELSE q

\* sendbmeshdata(to, ..., withheader = true) of node n whose txqueue is q and
\* whose path is path: the queue it leaves.  A node sends nothing to itself, and
\* nothing to the sink while it has no path, not even somebody else's packet.
Forwarded(n, q, path, to, p) ==
  IF to = n \/ (to = SINKADDRESS /\ path = << >>) THEN q
  ELSE Put(q, [to |-> to, packet |-> p])

\* sendbmeshdata(SINKADDRESS, type, ...), which writes the header, with the path:
\* whether it queues a packet, and the queue it leaves.
CanUpload(n, q, path) == n # SINKADDRESS /\ path # << >> /\ Room(q)
Uploaded(n, q, path, type, arg) ==
  IF CanUpload(n, q, path)
  THEN Append(q, [to |-> Head(path),
                  packet |-> Packet(type, n, SINKADDRESS, sendpacketseq[n], path, arg)])
  ELSE q
SeqAfterUpload(n, q, path) ==
  IF CanUpload(n, q, path) THEN [sendpacketseq EXCEPT ![n] = Next256(@)]
  ELSE sendpacketseq

\* An upload that wants an acknowledgement, and likewise the relaying of one,
\* forgets the last acknowledgement if it finds room.
AckedAtOnce(n, type, sent) ==          \* mutant: sent is taken for acknowledged
  IF sent /\ type = "DU_NEEDACK"
  THEN [uploaddataAcked EXCEPT ![n] = TRUE] ELSE uploaddataAcked
AckedAfter(n, type, sent) ==
  IF sent /\ type \in Awaited
  THEN [uploaddataAcked EXCEPT ![n] = FALSE] ELSE uploaddataAcked

\* An application uploads.
AppUploads(n, type) ==
  /\ <<n, type>> \in uploads /\ uploads' = uploads \ {<<n, type>>}
  /\ txqueue' = [txqueue EXCEPT ![n] = Uploaded(n, @, pathnode[n], type, NoArg)]
  /\ sendpacketseq' = SeqAfterUpload(n, txqueue[n], pathnode[n])
  /\ uploaddataAcked' =
       AckedAfter(n, type, CanUpload(n, txqueue[n], pathnode[n]))
  /\ UNCHANGED <<rxqueue, retrysend, pathnode, lasthandledseq, lastrbseq, config,
                 tasks, serialseq, resets, history>>

\* The computer answers no upload it has not got.
Due(t) ==
  t.type = "DU_ACK" =>
    \E r \in handled[SINKADDRESS] :
      r.type = "DU_NEEDAPPACK" /\ r.src = Last(t.nodes)

\* package_recieve: the sink passes on what the computer sends, which numbers its
\* packets itself, and obeys the two power commands too.
SerialTask ==
  /\ tasks # << >> /\ tasks' = Tail(tasks) /\ Due(Head(tasks))
  /\ serialseq' = Next256(serialseq)
  /\ LET t == Head(tasks)
         s == SINKADDRESS
         p == IF t.type = "RB"
              THEN Packet("RB", s, BROADCASTADDR, serialseq, <<BROADCASTADDR>>, NoArg)
              ELSE Packet(t.type, s, Last(t.nodes), serialseq, t.nodes, NoArg)
     IN /\ txqueue' = [txqueue EXCEPT ![s] =
                         Forwarded(s, @, pathnode[s], Head(p.nodes), p)]
        /\ islowpower' = IF t.type \in {"LOWPOWER", "HIGHPOWER"}
                         THEN [islowpower EXCEPT ![s] = (t.type = "LOWPOWER")]
                         ELSE islowpower
  /\ UNCHANGED <<rxqueue, retrysend, routing, interval, eeprom, uploaddataAcked,
                 uploads, resets, history>>
-----------------------------------------------------------------------------
(* handlerfrx.                                                              *)

\* Where a node finds itself in a packet's list, 1 being the first hop; the list
\* of a broadcast ends with BROADCASTADDR, which stands for everybody.
NodeIndex(n, p) ==
  LET here == {i \in DOMAIN p.nodes : p.nodes[i] \in {n, BROADCASTADDR}}
  IN IF here = {} THEN Len(p.nodes) + 1
     ELSE CHOOSE i \in here : \A j \in here : i <= j

\* The frames handlerfrx does not refuse at sight.
WellFormed(n, p) ==
  /\ p.dest # BROADCASTADDR =>
       Len(p.nodes) \in 1..MAX_ROUTER /\ p.dest = Last(p.nodes)
  /\ NodeIndex(n, p) <= MAX_ROUTER

\* The last packet handled of each source is not handled again.
AlwaysFresh(n, p) == TRUE              \* mutant: no check for duplicates
FreshLater(n, p) == lasthandledseq[n][p.src] < p.seq   \* mutant: no wrap-around
Fresh(n, p) == lasthandledseq[n][p.src] # p.seq

\* The frame at the front of rxqueue.
Current(n) == Head(rxqueue[n]).packet
From(n) == Head(rxqueue[n]).from

DropFrame(n) ==
  /\ rxqueue[n] # << >> /\ rxqueue' = [rxqueue EXCEPT ![n] = Tail(@)]
  /\ ~(WellFormed(n, Current(n)) /\ Fresh(n, Current(n)))
  /\ UNCHANGED <<txqueue, retrysend, routing, config, uploaddataAcked, outside,
                 history>>

\* What is done with every frame that is handled.
Handle(n, arg) ==
  LET p == Current(n)
      r == [type |-> p.type, src |-> p.src, seq |-> p.seq, arg |-> arg]
  IN /\ WellFormed(n, p) /\ Fresh(n, p)
     /\ rxqueue' = [rxqueue EXCEPT ![n] = Tail(@)]
     /\ lasthandledseq' = [lasthandledseq EXCEPT ![n][p.src] = p.seq]
     /\ handled' = [handled EXCEPT ![n] = @ \cup {r}]
     /\ again' = [again EXCEPT ![n] = @ \cup ({r} \cap handled[n])]

\* Mutant: the nodes in between stay in low power.
LightNobody(n) == islowpower
\* A command to leave low power is obeyed by every node that relays it.
Light(n) == [islowpower EXCEPT ![n] = FALSE]

\* A packet for another node goes to the next one in its list, unless that is
\* where it came from.
RelayPacket(n) ==
  /\ rxqueue[n] # << >>
  /\ Current(n).dest \notin {n, BROADCASTADDR}
  /\ Handle(n, Current(n).arg)
  /\ LET p == Current(n)
         next == p.nodes[NodeIndex(n, p) + 1]
         back == next = From(n)
     IN /\ txqueue' = IF back THEN txqueue
                      ELSE [txqueue EXCEPT ![n] =
                              Forwarded(n, @, pathnode[n], next, p)]
        /\ uploaddataAcked' = AckedAfter(n, p.type, txqueue' # txqueue)
        /\ islowpower' = IF ~back /\ p.type = "HIGHPOWER" THEN Light(n)
                         ELSE islowpower
  /\ UNCHANGED <<retrysend, pathnode, lastrbseq, sendpacketseq, interval, eeprom,
                 outside>>

\* Mutant: the node the broadcast came from is not recorded.
RouteBackNoFrom(nodes, from) ==
  LET mynodehop == Len(nodes)
  IN [k \in 1..mynodehop |->
        IF k = mynodehop THEN SINKADDRESS ELSE nodes[mynodehop - k]]
\* The path an RB with this list leaves in pathnode, when it came from "from".
\* The list starts with the sink, and BROADCASTADDR ends it.
RouteBack(nodes, from) ==
  LET mynodehop == Len(nodes)
  IN [k \in 1..mynodehop |->
        IF k = mynodehop THEN SINKADDRESS
        ELSE IF k = 1 THEN from ELSE nodes[mynodehop - k]]

\* Mutants: every broadcast that gets here is new; none is.
NewAlways(n, p) == n # SINKADDRESS
NewNever(n, p) == FALSE
NewRB(n, p) == n # SINKADDRESS /\ lastrbseq[n] # p.seq

\* A route broadcast: a node other than the sink that has not seen its sequence
\* number last records the path, passes the broadcast on with the path in it,
\* and sends its neighbours up.
HandleRB(n) ==
  /\ rxqueue[n] # << >> /\ Current(n).type = "RB"
  /\ LET p == Current(n)
         new == NewRB(n, p)
         path == RouteBack(p.nodes, From(n))
         on == [p EXCEPT !.nodes = Front(@) \o <<From(n), BROADCASTADDR>>]
         queue == Forwarded(n, txqueue[n], path, BROADCASTADDR, on)
     IN /\ Handle(n, IF new THEN "RB" ELSE NoArg)
        /\ IF new
           THEN /\ lastrbseq' = [lastrbseq EXCEPT ![n] = p.seq]
                /\ pathnode' = [pathnode EXCEPT ![n] = path]
                /\ txqueue' = [txqueue EXCEPT ![n] =
                                 Uploaded(n, queue, path, "RU", NoArg)]
                /\ sendpacketseq' = SeqAfterUpload(n, queue, path)
           ELSE UNCHANGED <<lastrbseq, pathnode, txqueue, sendpacketseq>>
  /\ UNCHANGED <<retrysend, config, uploaddataAcked, outside>>

\* The path a list of hops that ends with a node leaves in its pathnode.
RouteUp(nodes) ==
  [k \in 1..Len(nodes) |->
     IF k = Len(nodes) THEN SINKADDRESS ELSE nodes[Len(nodes) - k]]

\* What a command changes besides the path it teaches.  RD alone saves the
\* configuration.
Obey(n, type) ==
  /\ islowpower' = IF type \in {"LOWPOWER", "HIGHPOWER"}
                   THEN [islowpower EXCEPT ![n] = (type = "LOWPOWER")]
                   ELSE islowpower
  /\ interval' = IF type = "RD" THEN [interval EXCEPT ![n] = NewInterval] ELSE interval
  /\ saving' = [saving EXCEPT ![n] = (type = "RD")]
  /\ UNCHANGED <<saved, torn>>

\* A command for this node.  RD is answered when the configuration is saved.
ObeyCommand(n) ==
  /\ rxqueue[n] # << >> /\ Current(n).dest = n /\ Current(n).type \in Command
  /\ Handle(n, Current(n).arg)
  /\ LET p == Current(n)
         path == RouteUp(SubSeq(p.nodes, 1, NodeIndex(n, p)))
         answers == p.type # "RD" /\ NodeIndex(n, p) = Len(p.nodes)
     IN /\ pathnode' = [pathnode EXCEPT ![n] = path]
        /\ Obey(n, p.type)
        /\ IF answers
           THEN /\ txqueue' = [txqueue EXCEPT ![n] =
                                 Uploaded(n, @, path, "CMD_ACK", p.type)]
                /\ sendpacketseq' = SeqAfterUpload(n, txqueue[n], path)
           ELSE UNCHANGED <<txqueue, sendpacketseq>>
  /\ UNCHANGED <<retrysend, lastrbseq, uploaddataAcked, outside>>

\* What SaveCONFIG writes.
Configuration(n) ==
  [path |-> pathnode[n], low |-> islowpower[n], interval |-> interval[n]]

\* Mutant: the configuration stored before is kept.
SaveCONFIGNot(n) ==
  /\ saving' = [saving EXCEPT ![n] = FALSE]
  /\ UNCHANGED <<saved, torn>>
\* SaveCONFIG comes to its end.
SaveCONFIG(n) ==
  /\ saving' = [saving EXCEPT ![n] = FALSE]
  /\ saved' = [saved EXCEPT ![n] = Configuration(n)]
  /\ torn' = [torn EXCEPT ![n] = FALSE]

\* RD goes on after SaveCONFIG: it is answered.
AnswerRD(n) ==
  /\ saving[n] /\ SaveCONFIG(n)
  /\ txqueue' = [txqueue EXCEPT ![n] = Uploaded(n, @, pathnode[n], "CMD_ACK", "RD")]
  /\ sendpacketseq' = SeqAfterUpload(n, txqueue[n], pathnode[n])
  /\ UNCHANGED <<rxqueue, retrysend, pathnode, lasthandledseq, lastrbseq,
                 islowpower, interval, uploaddataAcked, outside, history>>

\* Data or an acknowledgement for this node.
TakeDown(n) ==
  /\ rxqueue[n] # << >> /\ Current(n).dest = n
  /\ Current(n).type \in {"DD", "DD_NEEDACK", "DU_ACK"}
  /\ Handle(n, Current(n).arg)
  /\ LET p == Current(n)
         answers == p.type = "DD_NEEDACK" /\ NodeIndex(n, p) = Len(p.nodes)
     IN IF answers
        THEN /\ txqueue' = [txqueue EXCEPT ![n] =
                              Uploaded(n, @, pathnode[n], "CMD_ACK", p.type)]
             /\ sendpacketseq' = SeqAfterUpload(n, txqueue[n], pathnode[n])
        ELSE UNCHANGED <<txqueue, sendpacketseq>>
  /\ uploaddataAcked' = IF Current(n).type = "DU_ACK"
                        THEN [uploaddataAcked EXCEPT ![n] = TRUE]
                        ELSE uploaddataAcked
  /\ UNCHANGED <<retrysend, pathnode, lastrbseq, config, outside>>

\* A packet for the sink goes to the computer (a CMD_ACK only when the sink is in
\* its list but once); some are acknowledged, down the path they came along.
TakeUp ==
  LET n == SINKADDRESS
      p == Current(n)
      down == RouteUp(p.nodes)
      back == [down EXCEPT ![Len(down)] = p.src]
  IN /\ rxqueue[n] # << >> /\ p.dest = n
     /\ Handle(n, IF p.type = "CMD_ACK" /\ NodeIndex(n, p) # Len(p.nodes)
                  THEN NoArg ELSE p.arg)
     /\ IF p.type = "DU_NEEDACK"
        THEN /\ txqueue' = [txqueue EXCEPT ![n] =
                   Forwarded(n, @, pathnode[n], Head(back),
                     Packet("DU_ACK", n, p.src, sendpacketseq[n], back, NoArg))]
             /\ sendpacketseq' = [sendpacketseq EXCEPT ![n] = Next256(@)]
        ELSE UNCHANGED <<txqueue, sendpacketseq>>
     /\ UNCHANGED <<retrysend, pathnode, lastrbseq, config, uploaddataAcked, outside>>
-----------------------------------------------------------------------------
(* Transmission and restart.                                                *)

\* Node n restarts, with these received frames everywhere: it comes back with
\* what LoadCONFIG makes of the EEPROM.
Restarts(n, rx) ==
  /\ rxqueue' = [rx EXCEPT ![n] = << >>]
  /\ txqueue' = [txqueue EXCEPT ![n] = << >>]
  /\ retrysend' = [retrysend EXCEPT ![n] = 0]
  /\ pathnode' = [pathnode EXCEPT ![n] = saved'[n].path]
  /\ lasthandledseq' = [lasthandledseq EXCEPT ![n] = [m \in Node |-> 0]]
  /\ lastrbseq' = [lastrbseq EXCEPT ![n] = 0]
  /\ sendpacketseq' = [sendpacketseq EXCEPT ![n] = 255]
  /\ islowpower' = [islowpower EXCEPT ![n] = saved'[n].low]
  /\ interval' = [interval EXCEPT ![n] = saved'[n].interval]
  /\ uploaddataAcked' = [uploaddataAcked EXCEPT ![n] = FALSE]
  /\ saving' = [saving EXCEPT ![n] = FALSE]

\* onXmitDone on the front of txqueue.
Sent(n) ==
  /\ txqueue' = [txqueue EXCEPT ![n] = Tail(@)]
  /\ retrysend' = [retrysend EXCEPT ![n] = 0]
FailedForever(n) == UNCHANGED <<txqueue, retrysend>>   \* mutant: never given up
Failed(n) ==
  IF retrysend[n] = RETRYSEND_MAX THEN Sent(n)
  ELSE retrysend' = [retrysend EXCEPT ![n] = @ + 1] /\ UNCHANGED txqueue

\* handlerftx on a broadcast: every neighbour may miss it, or lack the room.
TransmitBroadcast(n) ==
  /\ txqueue[n] # << >> /\ Head(txqueue[n]).to = BROADCASTADDR
  /\ \E R \in SUBSET Neighbours(n) :
       /\ ~Lossy => R = Neighbours(n)
       /\ rxqueue' = [m \in Node |->
                        IF m \in R
                        THEN Put(rxqueue[m], [from |-> n, packet |-> Head(txqueue[n]).packet])
                        ELSE rxqueue[m]]
  /\ Sent(n)
  /\ UNCHANGED <<routing, config, uploaddataAcked, outside, history>>

\* handlerftx on a unicast.  The receiver's transceiver acknowledges it, whether
\* rxqueue has room or not; without an acknowledgement the packet stays at the
\* front, but for the last retry.  The answer to a reboot command restarts the
\* node that transmits it, its own or not, whatever became of the transmission.
TransmitUnicast(n) ==
  /\ txqueue[n] # << >> /\ Head(txqueue[n]).to # BROADCASTADDR
  /\ \E heard \in BOOLEAN, acked \in BOOLEAN :
       LET f == Head(txqueue[n])
           rx == IF heard
                 THEN [rxqueue EXCEPT ![f.to] = Put(@, [from |-> n, packet |-> f.packet])]
                 ELSE rxqueue
       IN /\ acked => heard
          /\ heard => f.to \in Neighbours(n)
          /\ ~Lossy => acked = (f.to \in Neighbours(n)) /\ heard = acked
          /\ IF f.packet.type = "CMD_ACK" /\ f.packet.arg = "REBOOT"
             THEN UNCHANGED <<saved, torn>> /\ Restarts(n, rx)
             ELSE /\ rxqueue' = rx
                  /\ IF acked THEN Sent(n) ELSE Failed(n)
                  /\ UNCHANGED <<routing, config, uploaddataAcked>>
  /\ UNCHANGED <<outside, history>>

\* What a reset leaves in the EEPROM.  SaveCONFIG writes the bytes that differ, one
\* after the other and the checksum last: nothing yet, everything, or a mixture
\* that LoadCONFIG refuses.  (One whose checksum is right by chance is left to
\* NodeConfig.)
Stored(n) ==
  \/ UNCHANGED <<saved, torn>>
  \/ /\ saving[n]
     /\ saved' = [saved EXCEPT ![n] = Configuration(n)]
     /\ torn' = [torn EXCEPT ![n] = FALSE]
  \/ /\ saving[n] /\ saved[n] # Configuration(n)
     /\ saved' = [saved EXCEPT ![n] = NoConfig]
     /\ torn' = [torn EXCEPT ![n] = TRUE]

WatchdogReset(n) ==
  /\ resets < MaxReset /\ resets' = resets + 1
  /\ Stored(n) /\ Restarts(n, rxqueue)
  /\ UNCHANGED <<tasks, uploads, serialseq, history>>
-----------------------------------------------------------------------------
(* The main loop of a node, which waits for SaveCONFIG.                      *)

FrameHandlers(n) ==
  \/ AnswerRD(n)
  \/ /\ ~saving[n]
     /\ \/ DropFrame(n) \/ RelayPacket(n) \/ HandleRB(n) \/ ObeyCommand(n)
        \/ TakeDown(n)
Transmitters(n) == ~saving[n] /\ (TransmitBroadcast(n) \/ TransmitUnicast(n))

Next ==
  \/ \E n \in Node : FrameHandlers(n) \/ Transmitters(n)
  \/ TakeUp
  \/ \E u \in Uploads : AppUploads(u[1], u[2])
  \/ SerialTask
  \/ \E n \in Node : WatchdogReset(n)

Spec == Init /\ [][Next]_vars

(* Every node polls for ever, and the computer sends what it has to send.    *)
FairSpec ==
  /\ Spec
  /\ \A n \in Node : WF_vars(FrameHandlers(n)) /\ WF_vars(Transmitters(n))
  /\ WF_vars(TakeUp) /\ WF_vars(SerialTask)
-----------------------------------------------------------------------------
(* Properties.                                                              *)

(* The path a node has recorded, from a route broadcast or from a command, is *)
(* a chain of links from the node to the sink (MxBMeshConfig.cpp:9).          *)
RecordedPathIsRoute ==
  \A n \in Node : \A i \in DOMAIN pathnode[n] :
    <<IF i = 1 THEN n ELSE pathnode[n][i - 1], pathnode[n][i]>> \in Link

(* A unicast packet is handled at most once by each node, as a relay or as    *)
(* the destination, although every hop may repeat it.                         *)
HandledOnce == \A n \in Node : \A r \in again[n] : r.type = "RB"

(* Every node passes a route broadcast on one time (MxBmesh.cpp:442).         *)
BroadcastOnce ==
  \A n \in Node : \A r \in again[n] : ~(r.type = "RB" /\ r.arg = "RB")

\* The computer has got the answer of node n to a command of this type.
Answered(n, type) ==
  \E r \in handled[SINKADDRESS] : r.type = "CMD_ACK" /\ r.src = n /\ r.arg = type

Orders(type) == {t \in ToSet(Computer) : t.type = type}

(* When a HIGHPOWER command has been answered, every node on the way has left *)
(* low power (unless a LOWPOWER command was sent too).                        *)
HighPowerLightsPath ==
  Orders("LOWPOWER") = {} =>
    \A t \in Orders("HIGHPOWER") :
      Answered(Last(t.nodes), "HIGHPOWER") =>
        \A i \in DOMAIN t.nodes : ~islowpower[t.nodes[i]]

(* When an RD command has been answered, every node on the way has handled it *)
(* (MxBmesh.cpp:481).                                                         *)
RouteDownHandledByAll ==
  \A t \in Orders("RD") :
    Answered(Last(t.nodes), "RD") =>
      \A i \in DOMAIN t.nodes : interval[t.nodes[i]] = NewInterval

(* An RD command that was answered was obeyed, and survives restarts; only a  *)
(* reset in the middle of the saving for a later RD, of something else than   *)
(* is stored, loses it (MxBMeshConfig.cpp:77-105).                            *)
RouteDownIsDurable ==
  \A t \in Orders("RD") :
    LET n == Last(t.nodes)
    IN Answered(n, "RD") =>
         torn[n] \/ (interval[n] = NewInterval /\ pathnode[n] # << >>)

(* A node believes an upload of its own acknowledged only if the computer has *)
(* got one, be the acknowledgement the sink's or the computer's.              *)
AckedUploadArrived ==
  \A n \in Node : uploaddataAcked[n] =>
    \E r \in handled[SINKADDRESS] : r.type \in Awaited /\ r.src = n

(* When nothing is lost, every node takes a path from a route broadcast and   *)
(* passes it on, whatever commands overtake its copies.                       *)
FloodReachesAll ==
  Orders("RB") # {} =>
    <>(\A n \in Node \ {SINKADDRESS} :
         \E r \in handled[n] : r.type = "RB" /\ r.arg = "RB")

(* When nothing is lost, every command is answered.                           *)
CommandsAnswered ==
  \A t \in ToSet(Computer) : t.type \in Command => <>Answered(Last(t.nodes), t.type)

(* The mesh falls silent: no packet is passed around for ever.                *)
Settles ==
  <>[](\A n \in Node : rxqueue[n] = << >> /\ txqueue[n] = << >>)
=============================================================================
