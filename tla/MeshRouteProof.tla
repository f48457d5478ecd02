--------------------------- MODULE MeshRouteProof ---------------------------
(***************************************************************************)
(* Proofs about the mesh of MeshRoute, for any network, any orders of the   *)
(* computer, any uploads, losses and resets.                                *)
(***************************************************************************)
EXTENDS MeshRoute, SequenceTheorems, WellFoundedInduction, TLAPS

(* What the proofs use of the constants.                                     *)
LEMMA Constants ==
  /\ SINKADDRESS \in Node /\ BROADCASTADDR \notin Node /\ SINKADDRESS # BROADCASTADDR
  /\ \A n, m \in Node : <<n, m>> \in Link => n # m /\ <<m, n>> \in Link
  /\ Computer \in Seq(Task)
  /\ RFQUENEMAX \in Nat /\ RFQUENEMAX >= 2 /\ RETRYSEND_MAX \in Nat
  /\ FirstSeq \in 0..255 /\ PowerMode \in BOOLEAN
  /\ MaxReset \in Nat /\ "RB" \notin Unicast /\ Command \subseteq Unicast
<1>1. BROADCASTADDR \notin Node /\ SINKADDRESS # BROADCASTADDR
  BY RouteAssumption DEF BROADCASTADDR, SINKADDRESS
<1>2. ASSUME NEW n \in Node, NEW m \in Node, <<n, m>> \in Link
      PROVE  n # m /\ <<m, n>> \in Link
  <2> DEFINE l == <<n, m>>
  <2>1. l[1] # l[2] /\ <<l[2], l[1]>> \in Link
    BY <1>2, RouteAssumption
  <2> QED
    BY <2>1
<1>3. "RB" \notin Unicast /\ Command \subseteq Unicast
  BY DEF Unicast, Command, Upload
<1>4. RFQUENEMAX \in Nat /\ RFQUENEMAX >= 2
  BY RouteAssumption
<1> QED
  BY <1>1, <1>2, <1>3, <1>4, RouteAssumption
-----------------------------------------------------------------------------
(* Queues and lists of hops.                                                *)

IsQueue(q, S) == q \in Seq(S) /\ Len(q) < RFQUENEMAX

(* A packet is put in a queue, or there is no room.                          *)
LEMMA PutQueue ==
  ASSUME NEW S, NEW q, IsQueue(q, S), NEW x \in S
  PROVE  IsQueue(Put(q, x), S) /\ ToSet(Put(q, x)) \subseteq ToSet(q) \cup {x}
<1>1. q \in Seq(S) /\ Len(q) \in Nat /\ Len(q) < RFQUENEMAX /\ DOMAIN q = 1..Len(q)
  BY LenProperties DEF IsQueue
<1>2. CASE Room(q)
  <2> DEFINE r == Append(q, x)
  <2>1. /\ r \in Seq(S) /\ Len(r) = Len(q) + 1 /\ r[Len(q) + 1] = x
        /\ \A i \in 1..Len(q) : r[i] = q[i]
    BY <1>1, AppendProperties
  <2>2. Put(q, x) = r
    BY <1>2 DEF Put
  <2> HIDE DEF r
  <2>3. Len(r) < RFQUENEMAX
    BY <1>1, <1>2, <2>1, Constants DEF Room
  <2>4. DOMAIN r = 1..(Len(q) + 1)
    BY <2>1, LenProperties
  <2>5. ToSet(r) \subseteq ToSet(q) \cup {x}
    BY <1>1, <2>1, <2>4 DEF ToSet
  <2> QED
    BY <2>1, <2>2, <2>3, <2>5 DEF IsQueue
<1>3. CASE ~Room(q)
  BY <1>1, <1>3 DEF Put, IsQueue
<1> QED
  BY <1>2, <1>3

(* One is taken.                                                             *)
LEMMA TailQueue ==
  ASSUME NEW S, NEW q, IsQueue(q, S), q # << >>
  PROVE  /\ IsQueue(Tail(q), S) /\ ToSet(Tail(q)) \subseteq ToSet(q)
         /\ Head(q) \in S /\ Head(q) \in ToSet(q)
<1> DEFINE r == Tail(q)
<1>1. /\ q \in Seq(S) /\ Len(q) \in Nat \ {0} /\ Len(q) < RFQUENEMAX
      /\ DOMAIN q = 1..Len(q)
  BY LenProperties, EmptySeq DEF IsQueue
<1>2. /\ r \in Seq(S) /\ Len(r) = Len(q) - 1
      /\ \A i \in 1..Len(r) : r[i] = q[i + 1]
      /\ Head(q) = q[1] /\ Head(q) \in S
  BY <1>1, HeadTailProperties
<1> HIDE DEF r
<1>3. DOMAIN r = 1..(Len(q) - 1)
  BY <1>2, LenProperties
<1>4. ASSUME NEW i \in DOMAIN r PROVE r[i] \in ToSet(q)
  <2>1. i + 1 \in DOMAIN q /\ r[i] = q[i + 1]
    BY <1>1, <1>2, <1>3
  <2> QED
    BY <2>1 DEF ToSet
<1>5. ToSet(r) \subseteq ToSet(q)
  BY <1>4 DEF ToSet
<1>6. Len(r) < RFQUENEMAX
  BY <1>1, <1>2, Constants
<1>7. Head(q) \in ToSet(q)
  BY <1>1, <1>2 DEF ToSet
<1> QED
  BY <1>2, <1>5, <1>6, <1>7 DEF r, IsQueue

(* An empty queue.                                                           *)
LEMMA NoQueue ==
  ASSUME NEW S PROVE IsQueue(<< >>, S) /\ ToSet(<< >>) = {}
<1>1. << >> \in Seq(S) /\ Len(<< >>) = 0
  OBVIOUS
<1> QED
  BY <1>1, Constants DEF IsQueue, ToSet

(* What is in a queue.                                                       *)
LEMMA InQueue ==
  ASSUME NEW S, NEW q, IsQueue(q, S)
  PROVE  /\ \A x \in ToSet(q) : x \in S
         /\ \A i \in DOMAIN q : q[i] \in S /\ q[i] \in ToSet(q)
<1>1. q \in Seq(S) /\ DOMAIN q = 1..Len(q)
  BY LenProperties DEF IsQueue
<1>2. \A i \in DOMAIN q : q[i] \in S
  BY <1>1, ElementOfSeq
<1> QED
  BY <1>2 DEF ToSet

(* A set of positions has a least one.                                       *)
LEMMA LeastPosition ==
  ASSUME NEW I, I \subseteq Nat, I # {}
  PROVE  \E x \in I : \A y \in I : x <= y
<1> DEFINE R == {ss \in Nat \X Nat : ss[1] < ss[2]}
<1>1. IsWellFoundedOn(R, Nat)
  BY NatLessThanWellFounded DEF OpToRel
<1>2. \A x, y \in Nat : y < x => <<y, x>> \in R
  OBVIOUS
<1> HIDE DEF R
<1>3. PICK x \in I : \A y \in I : ~(<<y, x>> \in R)
  BY <1>1, WFMin, Zenon
<1>4. ASSUME NEW y \in I PROVE x <= y
  <2>1. x \in Nat /\ y \in Nat
    OBVIOUS
  <2>2. ~(y < x)
    BY <1>2, <1>3, <2>1, Zenon
  <2> QED
    BY <2>1, <2>2
<1> QED
  BY <1>4
-----------------------------------------------------------------------------
(* Types.                                                                   *)

\* A unicast packet lists the nodes on its way, its destination last; a route
\* broadcast, those it has passed, and then BROADCASTADDR.
Unicasts ==
  {p \in [type : Unicast, src : Node, dest : Node, seq : Seqno, nodes : Seq(Node),
          arg : Type \cup {NoArg}] :
     p.nodes # << >> /\ p.dest = Last(p.nodes)}
Floods ==
  {p \in [type : {"RB"}, src : Node, dest : {BROADCASTADDR}, seq : Seqno,
          nodes : Seq(Node \cup {BROADCASTADDR}), arg : Type \cup {NoArg}] :
     /\ p.nodes # << >> /\ Last(p.nodes) = BROADCASTADDR
     /\ \A i \in 1..(Len(p.nodes) - 1) : p.nodes[i] \in Node}

\* What may be in the queues of node n: a unicast frame gets to no node but those
\* it lists.
RxFrames(n) ==
  [from : Neighbours(n), packet : Floods \cup {p \in Unicasts : n \in ToSet(p.nodes)}]
TxEntries(n) ==
  [to : {BROADCASTADDR}, packet : Floods] \cup
  {e \in [to : Node \ {n}, packet : Unicasts] : e.to \in ToSet(e.packet.nodes)}

\* What may be in its pathnode.
Paths(n) ==
  {s \in Seq(Node) :
     s # << >> => Last(s) = SINKADDRESS /\ (n # SINKADDRESS => Head(s) # n)}

Saved == [path : Seq(Node), low : BOOLEAN, interval : {OldInterval, NewInterval}]

QueuesOK ==
  /\ DOMAIN rxqueue = Node /\ DOMAIN txqueue = Node
  /\ \A n \in Node :
       IsQueue(rxqueue[n], RxFrames(n)) /\ IsQueue(txqueue[n], TxEntries(n))
PathsOK ==
  /\ DOMAIN pathnode = Node /\ saved \in [Node -> Saved]
  /\ \A n \in Node : pathnode[n] \in Paths(n) /\ saved[n].path \in Paths(n)
RegistersOK ==
  /\ retrysend \in [Node -> 0..RETRYSEND_MAX]
  /\ lasthandledseq \in [Node -> [Node -> Seqno]]
  /\ lastrbseq \in [Node -> Seqno] /\ sendpacketseq \in [Node -> Seqno]
  /\ islowpower \in [Node -> BOOLEAN] /\ uploaddataAcked \in [Node -> BOOLEAN]
  /\ interval \in [Node -> {OldInterval, NewInterval}]
  /\ saving \in [Node -> BOOLEAN] /\ torn \in [Node -> BOOLEAN]
OutsideOK ==
  /\ tasks \in Seq(Task) /\ uploads \subseteq Uploads
  /\ serialseq \in Seqno /\ resets \in 0..MaxReset
  /\ DOMAIN handled = Node

(* The inductive invariant behind TypeOK.  It says more of a packet than its  *)
(* type: whom it may be with, and where its list ends, for the next hop is    *)
(* read from the list.                                                        *)
RouteInv == QueuesOK /\ PathsOK /\ RegistersOK /\ OutsideOK

(* What a node has that LoadCONFIG gives nothing.                             *)
LEMMA NoConfigSaved == NoConfig \in Saved
BY Constants DEF NoConfig, Saved

(* The initial state.                                                         *)
LEMMA InitRoute ==
  ASSUME Init PROVE RouteInv
<1>1. QueuesOK
  BY NoQueue DEF Init, QueuesOK
<1>2. PathsOK
  <2>1. << >> \in Seq(Node) /\ \A n \in Node : << >> \in Paths(n)
    BY DEF Paths
  <2> QED
    BY <2>1, NoConfigSaved DEF Init, PathsOK, NoConfig
<1>3. RegistersOK
  BY Constants DEF Init, RegistersOK, Seqno
<1>4. OutsideOK
  BY Constants DEF Init, OutsideOK, Seqno
<1> QED
  BY <1>1, <1>2, <1>3, <1>4 DEF RouteInv

(* A node finds itself where it is first in the list of a unicast packet, and *)
(* the destination alone can be at its end.                                   *)
LEMMA NodeFound ==
  ASSUME NEW n \in Node, NEW p \in Unicasts, n \in ToSet(p.nodes)
  PROVE  /\ NodeIndex(n, p) \in 1..Len(p.nodes) /\ Len(p.nodes) \in Nat
         /\ p.nodes[NodeIndex(n, p)] = n
         /\ \A j \in 1..(NodeIndex(n, p) - 1) : p.nodes[j] # n
         /\ n # p.dest => NodeIndex(n, p) < Len(p.nodes)
<1>1. /\ p.nodes \in Seq(Node) /\ DOMAIN p.nodes = 1..Len(p.nodes)
      /\ Len(p.nodes) \in Nat /\ p.dest = p.nodes[Len(p.nodes)]
  BY LenProperties DEF Unicasts, Last
<1> DEFINE here == {i \in DOMAIN p.nodes : p.nodes[i] \in {n, BROADCASTADDR}}
           x == NodeIndex(n, p)
<1>2. \A i \in 1..Len(p.nodes) : p.nodes[i] # BROADCASTADDR
  BY <1>1, ElementOfSeq, Constants
<1>3. here # {} /\ here \subseteq Nat
  BY <1>1 DEF ToSet
<1>4. PICK y \in here : \A j \in here : y <= j
  BY <1>3, LeastPosition
<1>5. x = CHOOSE i \in here : \A j \in here : i <= j
  BY <1>3 DEF NodeIndex
<1>6. x \in here /\ \A j \in here : x <= j
  BY <1>4, <1>5
<1> HIDE DEF x
<1>7. x \in 1..Len(p.nodes) /\ p.nodes[x] = n
  BY <1>1, <1>2, <1>6
<1>8. ASSUME NEW j \in 1..(x - 1) PROVE p.nodes[j] # n
  BY <1>1, <1>6, <1>7
<1>9. n # p.dest => x < Len(p.nodes)
  BY <1>1, <1>7
<1> QED
  BY <1>1, <1>7, <1>8, <1>9 DEF x

(* The path taken from a list of hops is a path.                              *)
LEMMA RouteUpIsPath ==
  ASSUME NEW n \in Node, NEW s \in Seq(Node), s # << >>,
         \A j \in 1..(Len(s) - 1) : s[j] # n
  PROVE  RouteUp(s) \in Paths(n) /\ RouteUp(s) # << >> /\ Len(RouteUp(s)) = Len(s)
<1> DEFINE r == RouteUp(s)
<1>1. Len(s) \in Nat \ {0} /\ \A i \in 1..Len(s) : s[i] \in Node
  BY LenProperties, EmptySeq, ElementOfSeq
<1>2. r = [k \in 1..Len(s) |-> IF k = Len(s) THEN SINKADDRESS ELSE s[Len(s) - k]]
  BY DEF RouteUp
<1>3. \A k \in 1..Len(s) : r[k] = IF k = Len(s) THEN SINKADDRESS ELSE s[Len(s) - k]
  BY <1>2
<1>4. r \in Seq(Node) /\ Len(r) = Len(s)
  <2>1. \A k \in 1..Len(s) : r[k] \in Node
    <3> TAKE k \in 1..Len(s)
    <3>1. CASE k = Len(s)
      BY <1>3, <3>1, Constants
    <3>2. CASE k # Len(s)
      <4>1. Len(s) - k \in 1..Len(s)
        BY <1>1, <3>2
      <4> QED
        BY <1>1, <1>3, <3>2, <4>1
    <3> QED
      BY <3>1, <3>2
  <2>2. r \in [1..Len(s) -> Node]
    BY <1>2, <2>1
  <2> HIDE DEF r
  <2> QED
    BY <1>1, <2>2, SeqDef
<1> HIDE DEF r
<1>5. r # << >> /\ Head(r) = r[1] /\ Last(r) = r[Len(s)]
  BY <1>1, <1>4, EmptySeq, HeadTailProperties DEF Last
<1>6. Last(r) = SINKADDRESS
  BY <1>1, <1>3, <1>5
<1>7. n # SINKADDRESS => Head(r) # n
  <2>1. CASE Len(s) = 1
    BY <1>1, <1>3, <1>5, <2>1
  <2>2. CASE Len(s) # 1
    BY <1>1, <1>3, <1>5, <2>2
  <2> QED
    BY <2>1, <2>2
<1> QED
  BY <1>4, <1>5, <1>6, <1>7 DEF Paths, r

(* So is the path taken from a route broadcast.                               *)
LEMMA RouteBackIsPath ==
  ASSUME NEW n \in Node, n # SINKADDRESS, NEW p \in Floods, NEW m \in Neighbours(n)
  PROVE  RouteBack(p.nodes, m) \in Paths(n) /\ RouteBack(p.nodes, m) # << >>
<1> DEFINE s == p.nodes
           r == RouteBack(s, m)
<1>1. /\ Len(s) \in Nat \ {0} /\ \A i \in 1..(Len(s) - 1) : s[i] \in Node
      /\ m \in Node /\ m # n
  BY LenProperties, EmptySeq, Constants DEF Floods, Neighbours
<1> HIDE DEF s
<1>2. r = [k \in 1..Len(s) |->
             IF k = Len(s) THEN SINKADDRESS ELSE IF k = 1 THEN m ELSE s[Len(s) - k]]
  BY DEF RouteBack
<1>3. \A k \in 1..Len(s) :
        r[k] = IF k = Len(s) THEN SINKADDRESS ELSE IF k = 1 THEN m ELSE s[Len(s) - k]
  BY <1>2
<1>4. r \in Seq(Node) /\ Len(r) = Len(s)
  <2>1. \A k \in 1..Len(s) : r[k] \in Node
    BY <1>1, <1>3, Constants
  <2>2. r \in [1..Len(s) -> Node]
    BY <1>2, <2>1
  <2> HIDE DEF r
  <2> QED
    BY <1>1, <2>2, SeqDef
<1> HIDE DEF r
<1>5. r # << >> /\ Head(r) = r[1] /\ Last(r) = r[Len(s)]
  BY <1>1, <1>4, EmptySeq, HeadTailProperties DEF Last
<1>6. Last(r) = SINKADDRESS /\ Head(r) # n
  BY <1>1, <1>3, <1>5
<1> QED
  BY <1>4, <1>5, <1>6 DEF Paths, r, s

(* sendbmeshdata queues a packet of somebody else's for its next hop, or not.  *)
LEMMA ForwardOther ==
  ASSUME NEW n \in Node, NEW q, IsQueue(q, TxEntries(n)), NEW path,
         NEW to, NEW p, to # n => [to |-> to, packet |-> p] \in TxEntries(n)
  PROVE  /\ IsQueue(Forwarded(n, q, path, to, p), TxEntries(n))
         /\ ToSet(Forwarded(n, q, path, to, p)) \subseteq
              ToSet(q) \cup {[to |-> to, packet |-> p]}
         /\ Forwarded(n, q, path, to, p) # q => to # n
<1>1. CASE to = n \/ (to = SINKADDRESS /\ path = << >>)
  BY <1>1 DEF Forwarded
<1>2. CASE ~(to = n \/ (to = SINKADDRESS /\ path = << >>))
  <2> DEFINE x == [to |-> to, packet |-> p]
  <2>1. x \in TxEntries(n) /\ Forwarded(n, q, path, to, p) = Put(q, x)
    BY <1>2 DEF Forwarded
  <2> HIDE DEF x
  <2>2. IsQueue(Put(q, x), TxEntries(n)) /\ ToSet(Put(q, x)) \subseteq ToSet(q) \cup {x}
    BY <2>1, PutQueue
  <2> QED
    BY <1>2, <2>1, <2>2 DEF x
<1> QED
  BY <1>1, <1>2

\* The packet an upload makes, and its place in txqueue.
UploadEntry(n, path, type, arg) ==
  [to |-> Head(path), packet |-> Packet(type, n, SINKADDRESS, sendpacketseq[n], path, arg)]

(* And one of the node's own, along its path.                                 *)
LEMMA UploadOwn ==
  ASSUME RouteInv, NEW n \in Node, NEW q, IsQueue(q, TxEntries(n)),
         NEW path \in Paths(n), NEW type \in Unicast, NEW arg \in Type \cup {NoArg}
  PROVE  /\ IsQueue(Uploaded(n, q, path, type, arg), TxEntries(n))
         /\ ToSet(Uploaded(n, q, path, type, arg)) \subseteq
              ToSet(q) \cup {UploadEntry(n, path, type, arg)}
<1> DEFINE x == UploadEntry(n, path, type, arg)
<1>1. CASE CanUpload(n, q, path)
  <2>1. /\ n # SINKADDRESS /\ path # << >> /\ Room(q)
        /\ path \in Seq(Node) /\ Last(path) = SINKADDRESS /\ Head(path) # n
    BY <1>1 DEF CanUpload, Paths
  <2>2. Head(path) \in Node /\ Head(path) \in ToSet(path)
    <3>1. Len(path) \in Nat \ {0} /\ Head(path) = path[1] /\ DOMAIN path = 1..Len(path)
      BY <2>1, LenProperties, EmptySeq, HeadTailProperties
    <3> QED
      BY <2>1, <3>1, ElementOfSeq DEF ToSet
  <2>3. Packet(type, n, SINKADDRESS, sendpacketseq[n], path, arg) \in Unicasts
    <3>1. sendpacketseq[n] \in Seqno /\ SINKADDRESS \in Node
      BY Constants DEF RouteInv, RegistersOK
    <3> QED
      BY <2>1, <3>1 DEF Unicasts, Packet
  <2>4. x \in TxEntries(n)
    <3> DEFINE P == Packet(type, n, SINKADDRESS, sendpacketseq[n], path, arg)
    <3>1. P.nodes = path /\ x = [to |-> Head(path), packet |-> P]
      BY DEF Packet, UploadEntry
    <3> HIDE DEF P, x
    <3> QED
      BY <2>1, <2>2, <2>3, <3>1 DEF TxEntries, P
  <2>5. Uploaded(n, q, path, type, arg) = Put(q, x)
    BY <1>1, <2>1 DEF Uploaded, Put, UploadEntry
  <2> HIDE DEF x
  <2>6. IsQueue(Put(q, x), TxEntries(n)) /\ ToSet(Put(q, x)) \subseteq ToSet(q) \cup {x}
    BY <2>4, PutQueue
  <2> QED
    BY <2>5, <2>6 DEF x
<1>2. CASE ~CanUpload(n, q, path)
  BY <1>2 DEF Uploaded
<1> QED
  BY <1>1, <1>2

(* The sequence numbers of uploads stay in their byte.                         *)
LEMMA SeqOwn ==
  ASSUME RouteInv, NEW n \in Node, NEW q, NEW path
  PROVE  SeqAfterUpload(n, q, path) \in [Node -> Seqno]
<1>1. sendpacketseq \in [Node -> Seqno]
  BY DEF RouteInv, RegistersOK
<1>2. Next256(sendpacketseq[n]) \in Seqno
  BY <1>1 DEF Next256, Seqno
<1> QED
  BY <1>1, <1>2 DEF SeqAfterUpload
-----------------------------------------------------------------------------
(* What a handler does to the queues.                                       *)

\* The frame at the front of node n's rxqueue is gone, and nothing else.
Taken(n) ==
  /\ DOMAIN rxqueue' = Node /\ rxqueue'[n] = Tail(rxqueue[n])
  /\ \A m \in Node \ {n} : rxqueue'[m] = rxqueue[m]

\* Of E, and nothing else, something may have been put in its txqueue.
Added(n, E) ==
  /\ DOMAIN txqueue' = Node /\ \A m \in Node \ {n} : txqueue'[m] = txqueue[m]
  /\ IsQueue(txqueue'[n], TxEntries(n))
  /\ ToSet(txqueue'[n]) \subseteq ToSet(txqueue[n]) \cup E

\* What follows for the packets in all the queues.
Moved(n, E) ==
  /\ \A m \in Node : ToSet(rxqueue'[m]) \subseteq ToSet(rxqueue[m])
  /\ \A m \in Node : ToSet(txqueue'[m]) \subseteq
                       ToSet(txqueue[m]) \cup IF m = n THEN E ELSE {}

(* A handler keeps the queues what they are.                                  *)
LEMMA HandlerQueues ==
  ASSUME RouteInv, NEW n \in Node, rxqueue[n] # << >>, Taken(n), NEW E, Added(n, E)
  PROVE  QueuesOK' /\ Moved(n, E)
<1>1. \A m \in Node : IsQueue(rxqueue[m], RxFrames(m)) /\ IsQueue(txqueue[m], TxEntries(m))
  BY DEF RouteInv, QueuesOK
<1>2. IsQueue(rxqueue'[n], RxFrames(n)) /\ ToSet(rxqueue'[n]) \subseteq ToSet(rxqueue[n])
  BY <1>1, TailQueue DEF Taken
<1>3. QueuesOK'
  BY <1>1, <1>2 DEF Taken, Added, QueuesOK
<1>4. Moved(n, E)
  BY <1>2 DEF Taken, Added, Moved
<1> QED
  BY <1>3, <1>4

(* Nothing is queued.                                                         *)
LEMMA NothingAdded ==
  ASSUME RouteInv, NEW n \in Node, UNCHANGED txqueue
  PROVE  Added(n, {})
BY DEF RouteInv, QueuesOK, Added

\* What the node has handled of p, for the properties.
Noted(p, arg) == [type |-> p.type, src |-> p.src, seq |-> p.seq, arg |-> arg]

(* The part that all handlers share.                                          *)
LEMMA HandleStep ==
  ASSUME RouteInv, NEW n \in Node, rxqueue[n] # << >>, NEW arg, Handle(n, arg)
  PROVE  /\ Taken(n) /\ Head(rxqueue[n]) \in ToSet(rxqueue[n])
         /\ Current(n) \in Floods \cup {p \in Unicasts : n \in ToSet(p.nodes)}
         /\ From(n) \in Neighbours(n)
         /\ lasthandledseq' \in [Node -> [Node -> Seqno]]
         /\ DOMAIN handled' = Node
         /\ handled'[n] = handled[n] \cup {Noted(Current(n), arg)}
         /\ \A m \in Node \ {n} : handled'[m] = handled[m]
<1>1. IsQueue(rxqueue[n], RxFrames(n)) /\ DOMAIN rxqueue = Node
  BY DEF RouteInv, QueuesOK
<1>2. Head(rxqueue[n]) \in RxFrames(n) /\ Head(rxqueue[n]) \in ToSet(rxqueue[n])
  BY <1>1, TailQueue
<1>3. /\ Current(n) \in Floods \cup {p \in Unicasts : n \in ToSet(p.nodes)}
      /\ From(n) \in Neighbours(n)
  BY <1>2 DEF Current, From, RxFrames
<1>4. Taken(n)
  BY <1>1 DEF Handle, Taken
<1>5. lasthandledseq' \in [Node -> [Node -> Seqno]]
  <2>1. Current(n).src \in Node /\ Current(n).seq \in Seqno
    BY <1>3 DEF Floods, Unicasts
  <2>2. lasthandledseq \in [Node -> [Node -> Seqno]]
    BY DEF RouteInv, RegistersOK
  <2>3. lasthandledseq' = [lasthandledseq EXCEPT ![n][Current(n).src] = Current(n).seq]
    BY DEF Handle
  <2> QED
    BY <2>1, <2>2, <2>3
<1>6. /\ DOMAIN handled' = Node
      /\ handled'[n] = handled[n] \cup {Noted(Current(n), arg)}
      /\ \A m \in Node \ {n} : handled'[m] = handled[m]
  <2>1. DOMAIN handled = Node
    BY DEF RouteInv, OutsideOK
  <2>2. handled' = [handled EXCEPT ![n] = @ \cup {Noted(Current(n), arg)}]
    BY DEF Handle, Noted
  <2> QED
    BY <2>1, <2>2
<1> QED
  BY <1>2, <1>3, <1>4, <1>5, <1>6

(* An acknowledgement remembered or forgotten.                                *)
LEMMA AckedIsBoolean ==
  ASSUME RouteInv, NEW n \in Node, NEW type, NEW sent
  PROVE  /\ AckedAfter(n, type, sent) \in [Node -> BOOLEAN]
         /\ \A m \in Node : AckedAfter(n, type, sent)[m] => uploaddataAcked[m]
<1>1. uploaddataAcked \in [Node -> BOOLEAN]
  BY DEF RouteInv, RegistersOK
<1> QED
  BY <1>1 DEF AckedAfter

(* A frame is refused.                                                        *)
LEMMA DropRoute ==
  ASSUME RouteInv, NEW n \in Node, DropFrame(n)
  PROVE  RouteInv' /\ Moved(n, {})
<1>1. rxqueue[n] # << >> /\ Taken(n)
  BY DEF DropFrame, Taken, RouteInv, QueuesOK
<1>2. QueuesOK' /\ Moved(n, {})
  BY <1>1, NothingAdded, HandlerQueues DEF DropFrame
<1>3. PathsOK' /\ RegistersOK' /\ OutsideOK'
  BY DEF DropFrame, RouteInv, PathsOK, RegistersOK, OutsideOK, routing, config, eeprom,
         outside, history
<1> QED
  BY <1>2, <1>3 DEF RouteInv

\* Where a relay sends a packet on to.
NextHop(n, p) == p.nodes[NodeIndex(n, p) + 1]

(* A packet is relayed.                                                       *)
LEMMA RelayRoute ==
  ASSUME RouteInv, NEW n \in Node, RelayPacket(n)
  PROVE  /\ RouteInv' /\ Current(n) \in Unicasts /\ n \in ToSet(Current(n).nodes)
         /\ n # Current(n).dest
         /\ Moved(n, {[to |-> NextHop(n, Current(n)), packet |-> Current(n)]})
<1>1. PICK p : p = Current(n)
  OBVIOUS
<1>2. /\ rxqueue[n] # << >> /\ p.dest \notin {n, BROADCASTADDR} /\ Handle(n, p.arg)
      /\ UNCHANGED <<retrysend, pathnode, lastrbseq, sendpacketseq, interval, eeprom, outside>>
  BY <1>1 DEF RelayPacket
<1>3. /\ Taken(n) /\ From(n) \in Neighbours(n)
      /\ p \in Floods \cup {v \in Unicasts : n \in ToSet(v.nodes)}
      /\ lasthandledseq' \in [Node -> [Node -> Seqno]] /\ DOMAIN handled' = Node
  BY <1>1, <1>2, HandleStep
<1>4. p \in Unicasts /\ n \in ToSet(p.nodes)
  BY <1>2, <1>3 DEF Floods
<1> DEFINE x == [to |-> NextHop(n, p), packet |-> p]
<1>5. NextHop(n, p) # n => x \in TxEntries(n)
  <2>1. NodeIndex(n, p) \in 1..Len(p.nodes) /\ NodeIndex(n, p) < Len(p.nodes)
    BY <1>2, <1>4, NodeFound
  <2>2. p.nodes \in Seq(Node) /\ DOMAIN p.nodes = 1..Len(p.nodes) /\ Len(p.nodes) \in Nat
    BY <1>4, LenProperties DEF Unicasts
  <2>3. NodeIndex(n, p) + 1 \in DOMAIN p.nodes
    BY <2>1, <2>2
  <2>4. NextHop(n, p) \in Node /\ NextHop(n, p) \in ToSet(p.nodes)
    BY <2>2, <2>3, ElementOfSeq DEF NextHop, ToSet
  <2> QED
    BY <1>4, <2>4 DEF TxEntries
<1>6. IsQueue(txqueue[n], TxEntries(n)) /\ DOMAIN txqueue = Node
  BY DEF RouteInv, QueuesOK
<1> DEFINE q == Forwarded(n, txqueue[n], pathnode[n], NextHop(n, p), p)
<1>7. IsQueue(q, TxEntries(n)) /\ ToSet(q) \subseteq ToSet(txqueue[n]) \cup {x}
  BY <1>5, <1>6, ForwardOther
<1>8. txqueue' = txqueue \/ txqueue' = [txqueue EXCEPT ![n] = q]
  BY <1>1 DEF RelayPacket, NextHop
<1> HIDE DEF x, q
<1>9. Added(n, {x})
  BY <1>6, <1>7, <1>8 DEF Added
<1>10. QueuesOK' /\ Moved(n, {x})
  BY <1>2, <1>3, <1>9, HandlerQueues
<1>11. PathsOK'
  BY <1>2 DEF RouteInv, PathsOK, eeprom
<1>12. RegistersOK'
  <2>1. islowpower' \in [Node -> BOOLEAN]
    <3>1. islowpower' = islowpower \/ islowpower' = [islowpower EXCEPT ![n] = FALSE]
      BY <1>1 DEF RelayPacket, Light
    <3> QED
      BY <3>1 DEF RouteInv, RegistersOK
  <2>2. uploaddataAcked' \in [Node -> BOOLEAN]
    BY AckedIsBoolean DEF RelayPacket
  <2> QED
    BY <1>2, <1>3, <2>1, <2>2 DEF RouteInv, RegistersOK, eeprom
<1>13. OutsideOK'
  BY <1>2, <1>3 DEF RouteInv, OutsideOK, outside
<1> QED
  BY <1>1, <1>2, <1>4, <1>10, <1>11, <1>12, <1>13 DEF RouteInv, x

\* What a node makes of route broadcast b: the same one, which has passed a node.
FloodsOn(b, p) ==
  /\ p.type \in {"RB", "RU"}
  /\ p.type = "RB" => p.seq = b.seq /\ Len(p.nodes) # 1

(* A route broadcast is handled: what it queues is the broadcast and RU.      *)
LEMMA FloodRoute ==
  ASSUME RouteInv, NEW n \in Node, HandleRB(n)
  PROVE  /\ RouteInv' /\ Current(n) \in Floods
         /\ \E E : Moved(n, E) /\ \A e \in E : FloodsOn(Current(n), e.packet)
         /\ pathnode[n] # << >> => pathnode'[n] # << >>
         /\ pathnode'[n] \in {pathnode[n], RouteBack(Current(n).nodes, From(n))}
         /\ \A m \in Node \ {n} : pathnode'[m] = pathnode[m]
<1>1. PICK p : p = Current(n)
  OBVIOUS
<1>2. /\ rxqueue[n] # << >> /\ p.type = "RB"
      /\ UNCHANGED <<retrysend, config, uploaddataAcked, outside>>
  BY <1>1 DEF HandleRB
<1>3. /\ Taken(n) /\ From(n) \in Neighbours(n)
      /\ p \in Floods \cup {v \in Unicasts : n \in ToSet(v.nodes)}
      /\ lasthandledseq' \in [Node -> [Node -> Seqno]] /\ DOMAIN handled' = Node
  <2>1. Handle(n, IF NewRB(n, p) THEN "RB" ELSE NoArg)
    BY <1>1 DEF HandleRB
  <2> QED
    BY <1>1, <1>2, <2>1, HandleStep
<1>4. p \in Floods
  BY <1>2, <1>3, Constants DEF Unicasts
<1>5. IsQueue(txqueue[n], TxEntries(n)) /\ DOMAIN txqueue = Node
  BY DEF RouteInv, QueuesOK
<1>6. PICK from \in Neighbours(n) : from = From(n)
  BY <1>3
<1>7. OutsideOK'
  BY <1>2, <1>3 DEF RouteInv, OutsideOK, outside
<1>8. CASE NewRB(n, p)
  <2> DEFINE path == RouteBack(p.nodes, from)
             on == [p EXCEPT !.nodes = Front(p.nodes) \o <<from, BROADCASTADDR>>]
             x == [to |-> BROADCASTADDR, packet |-> on]
             y == UploadEntry(n, path, "RU", NoArg)
             q == Forwarded(n, txqueue[n], path, BROADCASTADDR, on)
             u == Uploaded(n, q, path, "RU", NoArg)
  <2>1. n # SINKADDRESS /\ path \in Paths(n) /\ path # << >>
    BY <1>4, <1>8, RouteBackIsPath DEF NewRB
  <2>2. /\ lastrbseq' = [lastrbseq EXCEPT ![n] = p.seq]
        /\ pathnode' = [pathnode EXCEPT ![n] = path]
        /\ txqueue' = [txqueue EXCEPT ![n] = u]
        /\ sendpacketseq' = SeqAfterUpload(n, q, path)
    BY <1>1, <1>6, <1>8 DEF HandleRB
  <2>3. on \in Floods /\ on.seq = p.seq /\ Len(on.nodes) # 1
    <3> DEFINE s == p.nodes
               t == Front(s)
               w == <<from, BROADCASTADDR>>
               r == t \o w
    <3>1. /\ s \in Seq(Node \cup {BROADCASTADDR}) /\ Len(s) \in Nat \ {0}
          /\ \A i \in 1..(Len(s) - 1) : s[i] \in Node
      BY <1>4, LenProperties, EmptySeq DEF Floods
    <3>2. t \in Seq(Node) /\ Len(t) = Len(s) - 1
      <4>1. t = SubSeq(s, 1, Len(s) - 1)
        BY DEF Front
      <4> HIDE DEF s, t
      <4>2. /\ SubSeq(s, 1, Len(s) - 1) \in Seq(Node)
            /\ Len(SubSeq(s, 1, Len(s) - 1)) =
                 IF 1 <= Len(s) - 1 THEN (Len(s) - 1) - 1 + 1 ELSE 0
        BY <3>1, SubSeqProperties
      <4>3. t \in Seq(Node) /\ Len(t) = IF 1 <= Len(s) - 1 THEN (Len(s) - 1) - 1 + 1 ELSE 0
        BY <4>1, <4>2, Zenon
      <4>4. \A k \in Nat \ {0} : (IF 1 <= k - 1 THEN (k - 1) - 1 + 1 ELSE 0) = k - 1
        OBVIOUS
      <4>5. Len(s) \in Nat \ {0}
        BY <3>1
      <4> QED
        BY <4>3, <4>4, <4>5, Zenon
    <3>3. from \in Node /\ w \in Seq(Node \cup {BROADCASTADDR}) /\ Len(w) = 2
          /\ w[1] = from /\ w[2] = BROADCASTADDR
      BY DEF Neighbours
    <3> HIDE DEF s, t, w
    <3>4. t \in Seq(Node \cup {BROADCASTADDR}) /\ \A i \in 1..Len(t) : t[i] \in Node
      <4>1. \A i \in 1..Len(t) : t[i] \in Node
        BY <3>2, ElementOfSeq
      <4>2. t \in [1..Len(t) -> Node \cup {BROADCASTADDR}] /\ Len(t) \in Nat
        BY <3>2, <4>1, LenProperties
      <4> QED
        BY <4>1, <4>2, SeqDef
    <3>5. /\ r \in Seq(Node \cup {BROADCASTADDR}) /\ Len(r) = Len(t) + 2
          /\ \A i \in 1..(Len(t) + 2) : r[i] = IF i <= Len(t) THEN t[i] ELSE w[i - Len(t)]
      <4>1. /\ r \in Seq(Node \cup {BROADCASTADDR}) /\ Len(r) = Len(t) + Len(w)
            /\ \A i \in 1..(Len(t) + Len(w)) :
                 r[i] = IF i <= Len(t) THEN t[i] ELSE w[i - Len(t)]
        <5>1. /\ t \in Seq(Node \cup {BROADCASTADDR})
              /\ w \in Seq(Node \cup {BROADCASTADDR})
          BY <3>3, <3>4
        <5> QED
          BY <5>1, ConcatProperties, Zenon
      <4> HIDE DEF r
      <4> QED
        BY <3>3, <4>1
    <3> HIDE DEF r
    <3>6. Len(t) \in Nat
      BY <3>1, <3>2
    <3>7. r # << >> /\ Last(r) = BROADCASTADDR
      BY <3>3, <3>5, <3>6 DEF Last
    <3>8. ASSUME NEW i \in 1..(Len(r) - 1) PROVE r[i] \in Node
      BY <3>3, <3>4, <3>5, <3>6
    <3>9. on = [p EXCEPT !.nodes = r]
      BY DEF r, t, s, w
    <3> HIDE DEF on
    <3>10. /\ on.nodes = r /\ on.seq = p.seq
           /\ on \in [type : {"RB"}, src : Node, dest : {BROADCASTADDR}, seq : Seqno,
                      nodes : Seq(Node \cup {BROADCASTADDR}), arg : Type \cup {NoArg}]
      BY <1>4, <3>5, <3>9 DEF Floods
    <3>11. Len(r) # 1
      BY <3>5, <3>6
    <3> QED
      BY <1>4, <3>5, <3>7, <3>8, <3>10, <3>11 DEF Floods
  <2> HIDE DEF path, on
  <2>4. x \in TxEntries(n)
    BY <2>3 DEF TxEntries
  <2>5. IsQueue(q, TxEntries(n)) /\ ToSet(q) \subseteq ToSet(txqueue[n]) \cup {x}
    BY <1>5, <2>4, ForwardOther
  <2> HIDE DEF q
  <2>6. IsQueue(u, TxEntries(n)) /\ ToSet(u) \subseteq ToSet(q) \cup {y}
    <3>1. "RU" \in Unicast
      BY DEF Unicast
    <3> QED
      BY <2>1, <2>5, <3>1, UploadOwn
  <2>7. FloodsOn(p, x.packet) /\ FloodsOn(p, y.packet)
    BY <2>3 DEF UploadEntry, Packet, Floods, FloodsOn
  <2> HIDE DEF u, x, y
  <2>8. Added(n, {x, y})
    BY <1>5, <2>2, <2>5, <2>6 DEF Added
  <2>9. QueuesOK' /\ Moved(n, {x, y})
    BY <1>2, <1>3, <2>8, HandlerQueues
  <2>10. \E E : Moved(n, E) /\ \A e \in E : FloodsOn(p, e.packet)
    BY <2>7, <2>9
  <2>11. /\ DOMAIN pathnode' = Node /\ pathnode'[n] = path
         /\ \A m \in Node \ {n} : pathnode'[m] = pathnode[m]
    BY <2>2 DEF RouteInv, PathsOK
  <2>12. PathsOK'
    BY <1>2, <2>1, <2>11 DEF RouteInv, PathsOK, config, eeprom
  <2>13. RegistersOK'
    <3>1. sendpacketseq' \in [Node -> Seqno]
      BY <2>2, SeqOwn
    <3>2. lastrbseq' \in [Node -> Seqno]
      BY <1>4, <2>2 DEF RouteInv, RegistersOK, Floods
    <3> QED
      BY <1>2, <1>3, <3>1, <3>2 DEF RouteInv, RegistersOK, config, eeprom
  <2>14. path = RouteBack(Current(n).nodes, From(n))
    BY <1>1, <1>6 DEF path
  <2> QED
    BY <1>1, <1>4, <1>7, <2>1, <2>9, <2>10, <2>11, <2>12, <2>13, <2>14 DEF RouteInv
<1>9. CASE ~NewRB(n, p)
  <2>1. UNCHANGED <<lastrbseq, pathnode, txqueue, sendpacketseq>>
    BY <1>1, <1>9 DEF HandleRB
  <2>2. QueuesOK' /\ Moved(n, {})
    BY <1>2, <1>3, <2>1, NothingAdded, HandlerQueues
  <2>3. PathsOK' /\ RegistersOK'
    BY <1>2, <1>3, <2>1 DEF RouteInv, PathsOK, RegistersOK, config, eeprom
  <2> QED
    BY <1>1, <1>4, <1>7, <2>1, <2>2, <2>3 DEF RouteInv
<1> QED
  BY <1>8, <1>9

\* The hops to node n in a packet's list.
Hops(n, p) == SubSeq(p.nodes, 1, NodeIndex(n, p))

(* They teach it a path.                                                      *)
LEMMA HopsTaught ==
  ASSUME NEW n \in Node, NEW p \in Unicasts, n \in ToSet(p.nodes)
  PROVE  /\ Hops(n, p) \in Seq(Node) /\ Len(Hops(n, p)) = NodeIndex(n, p)
         /\ \A i \in 1..NodeIndex(n, p) : Hops(n, p)[i] = p.nodes[i]
         /\ RouteUp(Hops(n, p)) \in Paths(n) /\ RouteUp(Hops(n, p)) # << >>
<1> DEFINE x == NodeIndex(n, p)
           s == p.nodes
           h == SubSeq(s, 1, x)
<1>1. /\ x \in 1..Len(s) /\ Len(s) \in Nat
      /\ \A j \in 1..(x - 1) : s[j] # n
  BY NodeFound
<1>2. \A i \in 1..Len(s) : s[i] \in Node
  BY ElementOfSeq DEF Unicasts
<1> HIDE DEF x, s
<1>3. \A i \in 1..x : s[i] \in Node
  BY <1>1, <1>2
<1>4. /\ h \in Seq(Node) /\ Len(h) = IF 1 <= x THEN x - 1 + 1 ELSE 0
      /\ \A i \in 1..(x - 1 + 1) : h[i] = s[1 + i - 1]
  BY <1>1, <1>3, SubSeqProperties
<1> HIDE DEF h
<1>5. x \in Nat /\ 1 <= x /\ x - 1 + 1 = x /\ \A i \in Nat : 1 + i - 1 = i
  BY <1>1
<1>6. Len(h) = x /\ \A i \in 1..x : h[i] = s[i]
  BY <1>4, <1>5
<1>7. h # << >> /\ \A j \in 1..(Len(h) - 1) : h[j] # n
  BY <1>1, <1>5, <1>6
<1>8. RouteUp(h) \in Paths(n) /\ RouteUp(h) # << >>
  BY <1>4, <1>7, RouteUpIsPath
<1> QED
  BY <1>4, <1>6, <1>8 DEF Hops, h, s, x

\* It answers a command for which it is first in the list where it is last, unless
\* it has to save the configuration before.
Answers(n, p) == p.type # "RD" /\ NodeIndex(n, p) = Len(p.nodes)

(* A command is obeyed: what it queues is its answer.                         *)
LEMMA ObeyRoute ==
  ASSUME RouteInv, NEW n \in Node, ObeyCommand(n)
  PROVE  /\ RouteInv' /\ Current(n) \in Unicasts /\ n \in ToSet(Current(n).nodes)
         /\ \E E : /\ Moved(n, E)
                   /\ \A e \in E : /\ e.packet.type = "CMD_ACK" /\ e.packet.src = n
                                   /\ e.packet.arg = Current(n).type
                                   /\ Answers(n, Current(n))
         /\ pathnode'[n] = RouteUp(Hops(n, Current(n))) /\ pathnode'[n] # << >>
         /\ \A m \in Node \ {n} : pathnode'[m] = pathnode[m]
<1>1. PICK p : p = Current(n)
  OBVIOUS
<1> DEFINE path == RouteUp(Hops(n, p))
           u == Uploaded(n, txqueue[n], path, "CMD_ACK", p.type)
<1>2. /\ rxqueue[n] # << >> /\ p.dest = n /\ p.type \in Command /\ Handle(n, p.arg)
      /\ pathnode' = [pathnode EXCEPT ![n] = path]
      /\ Obey(n, p.type)
      /\ UNCHANGED <<retrysend, lastrbseq, uploaddataAcked, outside>>
  BY <1>1 DEF ObeyCommand, Hops
<1>3. \/ txqueue' = [txqueue EXCEPT ![n] = u]
         /\ sendpacketseq' = SeqAfterUpload(n, txqueue[n], path)
         /\ Answers(n, p)
      \/ UNCHANGED <<txqueue, sendpacketseq>>
  BY <1>1 DEF ObeyCommand, Hops, Answers
<1>4. /\ Taken(n) /\ p \in Floods \cup {v \in Unicasts : n \in ToSet(v.nodes)}
      /\ lasthandledseq' \in [Node -> [Node -> Seqno]] /\ DOMAIN handled' = Node
  BY <1>1, <1>2, HandleStep
<1>5. p \in Unicasts /\ n \in ToSet(p.nodes)
  BY <1>2, <1>4, Constants DEF Floods
<1>6. path \in Paths(n) /\ path # << >>
  BY <1>5, HopsTaught
<1> HIDE DEF path, u
<1>7. IsQueue(txqueue[n], TxEntries(n)) /\ DOMAIN txqueue = Node
  BY DEF RouteInv, QueuesOK
<1> DEFINE y == UploadEntry(n, path, "CMD_ACK", p.type)
<1>8. IsQueue(u, TxEntries(n)) /\ ToSet(u) \subseteq ToSet(txqueue[n]) \cup {y}
  <2>1. "CMD_ACK" \in Unicast /\ p.type \in Type \cup {NoArg}
    BY <1>5 DEF Unicast, Type, Unicasts
  <2> HIDE DEF y
  <2> QED
    BY <1>6, <1>7, <2>1, UploadOwn DEF u, y
<1>9. y.packet.type = "CMD_ACK" /\ y.packet.src = n /\ y.packet.arg = p.type
  BY DEF UploadEntry, Packet
<1> HIDE DEF y
<1>10. QueuesOK' /\ \E E : Moved(n, E) /\ \A e \in E : e = y /\ Answers(n, p)
  <2>1. CASE UNCHANGED txqueue
    BY <1>2, <1>4, <2>1, NothingAdded, HandlerQueues
  <2>2. CASE txqueue' = [txqueue EXCEPT ![n] = u] /\ Answers(n, p)
    <3>1. Added(n, {y})
      BY <1>7, <1>8, <2>2 DEF Added
    <3>2. QueuesOK' /\ Moved(n, {y})
      BY <1>2, <1>4, <3>1, HandlerQueues
    <3> QED
      BY <2>2, <3>2
  <2> QED
    BY <1>3, <2>1, <2>2
<1>11. /\ DOMAIN pathnode' = Node /\ pathnode'[n] = path
       /\ \A m \in Node \ {n} : pathnode'[m] = pathnode[m]
  BY <1>2 DEF RouteInv, PathsOK
<1>12. /\ islowpower' \in [Node -> BOOLEAN]
       /\ interval' \in [Node -> {OldInterval, NewInterval}]
       /\ saving' \in [Node -> BOOLEAN] /\ torn' \in [Node -> BOOLEAN]
  <2>1. (p.type = "LOWPOWER") \in BOOLEAN /\ (p.type = "RD") \in BOOLEAN
    OBVIOUS
  <2>2. saving' = [saving EXCEPT ![n] = (p.type = "RD")] /\ torn' = torn
    BY <1>2 DEF Obey
  <2>3. saving' \in [Node -> BOOLEAN] /\ torn' \in [Node -> BOOLEAN]
    BY <2>1, <2>2 DEF RouteInv, RegistersOK
  <2> QED
    BY <1>2, <2>1, <2>3 DEF Obey, RouteInv, RegistersOK
<1>13. PathsOK'
  BY <1>2, <1>6, <1>11 DEF Obey, RouteInv, PathsOK
<1>14. RegistersOK'
  <2>1. sendpacketseq' \in [Node -> Seqno]
    BY <1>3, SeqOwn DEF RouteInv, RegistersOK
  <2> QED
    BY <1>2, <1>4, <1>12, <2>1 DEF RouteInv, RegistersOK
<1>15. OutsideOK'
  BY <1>2, <1>4 DEF RouteInv, OutsideOK, outside
<1>16. \E E : /\ Moved(n, E)
              /\ \A e \in E : /\ e.packet.type = "CMD_ACK" /\ e.packet.src = n
                              /\ e.packet.arg = p.type /\ Answers(n, p)
  BY <1>9, <1>10
<1> QED
  BY <1>1, <1>5, <1>6, <1>10, <1>11, <1>13, <1>14, <1>15, <1>16 DEF RouteInv, path

(* What a node writes into its EEPROM.                                        *)
LEMMA ConfigurationSaved ==
  ASSUME RouteInv, NEW n \in Node
  PROVE  /\ Configuration(n) \in Saved /\ Configuration(n).path = pathnode[n]
         /\ Configuration(n).interval = interval[n]
BY DEF Configuration, Saved, RouteInv, PathsOK, RegistersOK, Paths

(* The configuration is saved: what is queued is the answer to RD.            *)
LEMMA SaveRoute ==
  ASSUME RouteInv, NEW n \in Node, AnswerRD(n)
  PROVE  /\ RouteInv' /\ UNCHANGED <<rxqueue, pathnode, interval>>
         /\ saved'[n] = Configuration(n) /\ \A m \in Node \ {n} : saved'[m] = saved[m]
         /\ \A m \in Node \ {n} : torn'[m] = torn[m]
         /\ \A m \in Node : saving'[m] => saving[m]
         /\ \E E : /\ Moved(n, E)
                   /\ \A e \in E : /\ e.packet.type = "CMD_ACK" /\ e.packet.src = n
                                   /\ e.packet.arg = "RD"
<1> DEFINE u == Uploaded(n, txqueue[n], pathnode[n], "CMD_ACK", "RD")
           y == UploadEntry(n, pathnode[n], "CMD_ACK", "RD")
<1>1. /\ txqueue' = [txqueue EXCEPT ![n] = u]
      /\ sendpacketseq' = SeqAfterUpload(n, txqueue[n], pathnode[n])
      /\ saving' = [saving EXCEPT ![n] = FALSE]
      /\ saved' = [saved EXCEPT ![n] = Configuration(n)]
      /\ torn' = [torn EXCEPT ![n] = FALSE]
      /\ UNCHANGED <<rxqueue, retrysend, pathnode, lasthandledseq, lastrbseq,
                     islowpower, interval, uploaddataAcked, outside, history>>
  BY DEF AnswerRD, SaveCONFIG
<1>2. /\ DOMAIN rxqueue = Node /\ DOMAIN txqueue = Node
      /\ \A m \in Node : IsQueue(rxqueue[m], RxFrames(m)) /\ IsQueue(txqueue[m], TxEntries(m))
  BY DEF RouteInv, QueuesOK
<1>3. IsQueue(u, TxEntries(n)) /\ ToSet(u) \subseteq ToSet(txqueue[n]) \cup {y}
  <2>1. "CMD_ACK" \in Unicast /\ "RD" \in Type \cup {NoArg} /\ pathnode[n] \in Paths(n)
    BY DEF Unicast, Command, Type, RouteInv, PathsOK
  <2> HIDE DEF y
  <2> QED
    BY <1>2, <2>1, UploadOwn DEF u, y
<1>4. y.packet.type = "CMD_ACK" /\ y.packet.src = n /\ y.packet.arg = "RD"
  BY DEF UploadEntry, Packet
<1> HIDE DEF u, y
<1>5. QueuesOK' /\ Moved(n, {y})
  BY <1>1, <1>2, <1>3 DEF QueuesOK, Moved
<1>6. /\ saved' \in [Node -> Saved] /\ saved'[n] = Configuration(n)
      /\ \A m \in Node \ {n} : saved'[m] = saved[m]
  BY <1>1, ConfigurationSaved DEF RouteInv, PathsOK
<1>7. PathsOK'
  BY <1>1, <1>6, ConfigurationSaved DEF RouteInv, PathsOK
<1>8. /\ saving' \in [Node -> BOOLEAN] /\ torn' \in [Node -> BOOLEAN]
      /\ \A m \in Node \ {n} : torn'[m] = torn[m]
      /\ \A m \in Node : saving'[m] => saving[m]
  BY <1>1 DEF RouteInv, RegistersOK
<1>9. RegistersOK'
  <2>1. sendpacketseq' \in [Node -> Seqno]
    BY <1>1, SeqOwn
  <2> QED
    BY <1>1, <1>8, <2>1 DEF RouteInv, RegistersOK
<1>10. OutsideOK'
  BY <1>1 DEF RouteInv, OutsideOK, outside, history
<1> QED
  BY <1>1, <1>4, <1>5, <1>6, <1>7, <1>8, <1>9, <1>10 DEF RouteInv

(* Data or an acknowledgement comes down to its destination.                  *)
LEMMA DownRoute ==
  ASSUME RouteInv, NEW n \in Node, TakeDown(n)
  PROVE  /\ RouteInv'
         /\ \E E : /\ Moved(n, E)
                   /\ \A e \in E : e.packet.type = "CMD_ACK" /\ e.packet.arg = "DD_NEEDACK"
<1>1. PICK p : p = Current(n)
  OBVIOUS
<1> DEFINE u == Uploaded(n, txqueue[n], pathnode[n], "CMD_ACK", p.type)
<1>2. /\ rxqueue[n] # << >> /\ p.dest = n /\ Handle(n, p.arg)
      /\ UNCHANGED <<retrysend, pathnode, lastrbseq, config, outside>>
      /\ p.type \in {"DD", "DD_NEEDACK", "DU_ACK"}
  BY <1>1 DEF TakeDown
<1>3. \/ /\ txqueue' = [txqueue EXCEPT ![n] = u] /\ p.type = "DD_NEEDACK"
         /\ sendpacketseq' = SeqAfterUpload(n, txqueue[n], pathnode[n])
      \/ UNCHANGED <<txqueue, sendpacketseq>>
  BY <1>1 DEF TakeDown
<1>4. /\ Taken(n) /\ DOMAIN handled' = Node
      /\ lasthandledseq' \in [Node -> [Node -> Seqno]]
  BY <1>1, <1>2, HandleStep
<1> HIDE DEF u
<1>5. IsQueue(txqueue[n], TxEntries(n)) /\ DOMAIN txqueue = Node
  BY DEF RouteInv, QueuesOK
<1> DEFINE y == UploadEntry(n, pathnode[n], "CMD_ACK", p.type)
<1>6. IsQueue(u, TxEntries(n)) /\ ToSet(u) \subseteq ToSet(txqueue[n]) \cup {y}
  <2>1. "CMD_ACK" \in Unicast /\ p.type \in Type \cup {NoArg}
    BY <1>2 DEF Unicast, Type
  <2>2. pathnode[n] \in Paths(n)
    BY DEF RouteInv, PathsOK
  <2> HIDE DEF y
  <2> QED
    BY <1>5, <2>1, <2>2, UploadOwn DEF u, y
<1>7. y.packet.type = "CMD_ACK" /\ y.packet.arg = p.type
  BY DEF UploadEntry, Packet
<1> HIDE DEF y
<1>8. \E E : /\ Added(n, E)
             /\ \A e \in E : e.packet.type = "CMD_ACK" /\ e.packet.arg = "DD_NEEDACK"
  <2>1. CASE UNCHANGED txqueue
    BY <2>1, NothingAdded
  <2>2. CASE txqueue' = [txqueue EXCEPT ![n] = u] /\ p.type = "DD_NEEDACK"
    <3>1. Added(n, {y})
      BY <1>5, <1>6, <2>2 DEF Added
    <3> QED
      BY <1>7, <2>2, <3>1
  <2> QED
    BY <1>3, <2>1, <2>2
<1>9. QueuesOK' /\ \E E : /\ Moved(n, E)
                          /\ \A e \in E : /\ e.packet.type = "CMD_ACK"
                                          /\ e.packet.arg = "DD_NEEDACK"
  BY <1>2, <1>4, <1>8, HandlerQueues
<1>10. PathsOK' /\ OutsideOK'
  BY <1>2, <1>4 DEF RouteInv, PathsOK, OutsideOK, outside, config, eeprom
<1>11. RegistersOK'
  <2>1. sendpacketseq' \in [Node -> Seqno]
    BY <1>3, SeqOwn DEF RouteInv, RegistersOK
  <2>2. uploaddataAcked' \in [Node -> BOOLEAN]
    BY DEF TakeDown, RouteInv, RegistersOK
  <2> QED
    BY <1>2, <1>4, <2>1, <2>2 DEF RouteInv, RegistersOK, config, eeprom
<1> QED
  BY <1>9, <1>10, <1>11 DEF RouteInv

(* The sink takes what comes up, and acknowledges some of it.                 *)
LEMMA UpRoute ==
  ASSUME RouteInv, TakeUp
  PROVE  /\ RouteInv' /\ Current(SINKADDRESS) \in Unicasts
         /\ \E E : /\ Moved(SINKADDRESS, E)
                   /\ \A e \in E : /\ Current(SINKADDRESS).type = "DU_NEEDACK"
                                   /\ e.packet.type = "DU_ACK"
                                   /\ e.packet.dest = Current(SINKADDRESS).src
<1> DEFINE n == SINKADDRESS
<1>1. PICK p : p = Current(n)
  OBVIOUS
<1> DEFINE down == RouteUp(p.nodes)
           back == [down EXCEPT ![Len(down)] = p.src]
           a == Packet("DU_ACK", n, p.src, sendpacketseq[n], back, NoArg)
           q == Forwarded(n, txqueue[n], pathnode[n], Head(back), a)
           y == [to |-> Head(back), packet |-> a]
<1>2. /\ n \in Node /\ rxqueue[n] # << >> /\ p.dest = n
      /\ UNCHANGED <<retrysend, pathnode, lastrbseq, config, uploaddataAcked, outside>>
  BY <1>1, Constants DEF TakeUp
<1>3. \/ /\ txqueue' = [txqueue EXCEPT ![n] = q] /\ p.type = "DU_NEEDACK"
         /\ sendpacketseq' = [sendpacketseq EXCEPT ![n] = Next256(@)]
      \/ UNCHANGED <<txqueue, sendpacketseq>>
  BY <1>1 DEF TakeUp
<1>4. /\ Taken(n) /\ DOMAIN handled' = Node
      /\ lasthandledseq' \in [Node -> [Node -> Seqno]]
      /\ p \in Floods \cup {v \in Unicasts : n \in ToSet(v.nodes)}
  <2>1. \E arg : Handle(n, arg)
    BY DEF TakeUp
  <2> QED
    BY <1>1, <1>2, <2>1, HandleStep
<1>5. p \in Unicasts
  BY <1>2, <1>4, Constants DEF Floods
<1>6. /\ back \in Seq(Node) /\ back # << >> /\ Last(back) = p.src
      /\ Head(back) \in Node /\ Head(back) \in ToSet(back) /\ p.src \in Node
  <2>1. p.nodes \in Seq(Node) /\ Len(p.nodes) \in Nat \ {0} /\ p.src \in Node
    BY <1>5, LenProperties, EmptySeq DEF Unicasts
  <2>2. down \in Seq(Node) /\ Len(down) = Len(p.nodes)
    <3>1. \A i \in 1..Len(p.nodes) : p.nodes[i] \in Node
      BY <2>1, ElementOfSeq
    <3>2. \A k \in 1..Len(p.nodes) :
            (IF k = Len(p.nodes) THEN SINKADDRESS ELSE p.nodes[Len(p.nodes) - k]) \in Node
      BY <2>1, <3>1, Constants
    <3>3. down \in [1..Len(p.nodes) -> Node]
      BY <3>2 DEF RouteUp
    <3> HIDE DEF down
    <3> QED
      BY <2>1, <3>3, SeqDef
  <2> HIDE DEF down
  <2>3. down \in [1..Len(down) -> Node] /\ Len(down) \in Nat \ {0}
    BY <2>1, <2>2, LenProperties
  <2>4. back \in [1..Len(down) -> Node] /\ back[Len(down)] = p.src
    BY <2>1, <2>3
  <2> HIDE DEF back
  <2>5. back \in Seq(Node) /\ Len(back) = Len(down) /\ DOMAIN back = 1..Len(down)
    BY <2>3, <2>4, SeqDef
  <2>6. back # << >> /\ Head(back) = back[1] /\ Last(back) = p.src
    BY <2>3, <2>4, <2>5, EmptySeq, HeadTailProperties DEF Last
  <2> QED
    BY <2>1, <2>3, <2>5, <2>6, ElementOfSeq DEF ToSet
<1> HIDE DEF back
<1>7. sendpacketseq[n] \in Seqno
  BY <1>2 DEF RouteInv, RegistersOK
<1>8. a \in Unicasts /\ a.nodes = back /\ a.type = "DU_ACK" /\ a.dest = p.src
  <2>1. "DU_ACK" \in Unicast
    BY DEF Unicast
  <2> QED
    BY <1>2, <1>6, <1>7, <2>1 DEF Unicasts, Packet
<1> HIDE DEF a
<1>9. Head(back) # n => y \in TxEntries(n)
  BY <1>6, <1>8 DEF TxEntries
<1>10. IsQueue(txqueue[n], TxEntries(n)) /\ DOMAIN txqueue = Node
  BY <1>2 DEF RouteInv, QueuesOK
<1>11. IsQueue(q, TxEntries(n)) /\ ToSet(q) \subseteq ToSet(txqueue[n]) \cup {y}
  BY <1>2, <1>9, <1>10, ForwardOther
<1>12. y.packet.type = "DU_ACK" /\ y.packet.dest = p.src
  BY <1>8
<1> HIDE DEF q, y, n
<1>13. \E E : /\ Added(n, E)
              /\ \A e \in E : /\ p.type = "DU_NEEDACK" /\ e.packet.type = "DU_ACK"
                              /\ e.packet.dest = p.src
  <2>1. CASE UNCHANGED txqueue
    BY <1>2, <2>1, NothingAdded
  <2>2. CASE txqueue' = [txqueue EXCEPT ![n] = q] /\ p.type = "DU_NEEDACK"
    <3>1. Added(n, {y})
      BY <1>2, <1>10, <1>11, <2>2 DEF Added
    <3> QED
      BY <1>12, <2>2, <3>1
  <2> QED
    BY <1>3, <2>1, <2>2
<1>14. QueuesOK' /\ \E E : /\ Moved(n, E)
                           /\ \A e \in E : /\ p.type = "DU_NEEDACK"
                                           /\ e.packet.type = "DU_ACK"
                                           /\ e.packet.dest = p.src
  BY <1>2, <1>4, <1>13, HandlerQueues
<1>15. PathsOK' /\ OutsideOK'
  BY <1>2, <1>4 DEF RouteInv, PathsOK, OutsideOK, outside, config, eeprom
<1>16. RegistersOK'
  <2>1. Next256(sendpacketseq[n]) \in Seqno
    BY <1>7 DEF Next256, Seqno
  <2>2. sendpacketseq' \in [Node -> Seqno]
    BY <1>2, <1>3, <2>1 DEF RouteInv, RegistersOK
  <2> QED
    BY <1>2, <1>4, <2>2 DEF RouteInv, RegistersOK, config, eeprom
<1> QED
  BY <1>1, <1>5, <1>14, <1>15, <1>16 DEF RouteInv, n
-----------------------------------------------------------------------------
(* What applications, the computer, the radio and restarts do to the queues. *)

(* An application uploads.                                                    *)
LEMMA AppRoute ==
  ASSUME RouteInv, NEW n \in Node, NEW type \in Upload, AppUploads(n, type)
  PROVE  /\ RouteInv' /\ UNCHANGED rxqueue
         /\ \E E : Moved(n, E) /\ \A e \in E : e.packet.type = type
<1> DEFINE u == Uploaded(n, txqueue[n], pathnode[n], type, NoArg)
           y == UploadEntry(n, pathnode[n], type, NoArg)
<1>1. /\ txqueue' = [txqueue EXCEPT ![n] = u]
      /\ sendpacketseq' = SeqAfterUpload(n, txqueue[n], pathnode[n])
      /\ UNCHANGED <<rxqueue, retrysend, pathnode, lasthandledseq, lastrbseq, config,
                     tasks, serialseq, resets, history>>
      /\ uploads' = uploads \ {<<n, type>>}
  BY DEF AppUploads
<1>2. /\ DOMAIN rxqueue = Node /\ DOMAIN txqueue = Node
      /\ \A m \in Node : IsQueue(rxqueue[m], RxFrames(m)) /\ IsQueue(txqueue[m], TxEntries(m))
  BY DEF RouteInv, QueuesOK
<1>3. IsQueue(u, TxEntries(n)) /\ ToSet(u) \subseteq ToSet(txqueue[n]) \cup {y}
  <2>1. type \in Unicast /\ pathnode[n] \in Paths(n)
    BY DEF Unicast, RouteInv, PathsOK
  <2> HIDE DEF y
  <2> QED
    BY <1>2, <2>1, UploadOwn DEF u, y
<1>4. y.packet.type = type
  BY DEF UploadEntry, Packet
<1> HIDE DEF u, y
<1>5. QueuesOK' /\ Moved(n, {y})
  BY <1>1, <1>2, <1>3 DEF QueuesOK, Moved
<1>6. RegistersOK'
  <2>1. sendpacketseq' \in [Node -> Seqno]
    BY <1>1, SeqOwn
  <2>2. uploaddataAcked' \in [Node -> BOOLEAN]
    BY AckedIsBoolean DEF AppUploads
  <2> QED
    BY <1>1, <2>1, <2>2 DEF RouteInv, RegistersOK, config, eeprom
<1>7. PathsOK' /\ OutsideOK'
  BY <1>1 DEF RouteInv, PathsOK, OutsideOK, config, eeprom, history
<1> QED
  BY <1>1, <1>4, <1>5, <1>6, <1>7 DEF RouteInv

\* What the sink makes of an order.
OrderPacket(t) ==
  IF t.type = "RB"
  THEN Packet("RB", SINKADDRESS, BROADCASTADDR, serialseq, <<BROADCASTADDR>>, NoArg)
  ELSE Packet(t.type, SINKADDRESS, Last(t.nodes), serialseq, t.nodes, NoArg)

(* The computer gives an order.                                               *)
LEMMA SerialRoute ==
  ASSUME RouteInv, SerialTask
  PROVE  /\ RouteInv' /\ UNCHANGED rxqueue /\ Head(tasks) \in Task
         /\ Moved(SINKADDRESS, {[to |-> Head(OrderPacket(Head(tasks)).nodes),
                                 packet |-> OrderPacket(Head(tasks))]})
<1> DEFINE n == SINKADDRESS
<1>1. PICK t : t = Head(tasks)
  OBVIOUS
<1> DEFINE p == OrderPacket(t)
           x == [to |-> Head(p.nodes), packet |-> p]
           q == Forwarded(n, txqueue[n], pathnode[n], Head(p.nodes), p)
<1>2. n \in Node /\ BROADCASTADDR \notin Node /\ BROADCASTADDR # n
  BY Constants
<1>3. t \in Task /\ tasks' \in Seq(Task)
  <2>1. tasks \in Seq(Task) /\ tasks # << >> /\ tasks' = Tail(tasks)
    BY DEF SerialTask, RouteInv, OutsideOK
  <2> QED
    BY <1>1, <2>1, HeadTailProperties
<1>4. /\ txqueue' = [txqueue EXCEPT ![n] = q]
      /\ serialseq' = Next256(serialseq)
      /\ UNCHANGED <<rxqueue, retrysend, routing, interval, eeprom, uploaddataAcked,
                     uploads, resets, history>>
  BY <1>1 DEF SerialTask, OrderPacket
<1>5. islowpower' \in [Node -> BOOLEAN]
  <2>1. (t.type = "LOWPOWER") \in BOOLEAN
    OBVIOUS
  <2> QED
    BY <1>1, <2>1 DEF SerialTask, RouteInv, RegistersOK
<1>6. serialseq \in Seqno
  BY DEF RouteInv, OutsideOK
<1>7. x \in TxEntries(n)
  <2>1. CASE t.type = "RB"
    <3>1. PICK s : s = <<BROADCASTADDR>>
      OBVIOUS
    <3>2. /\ s \in Seq(Node \cup {BROADCASTADDR}) /\ s # << >> /\ Len(s) = 1
          /\ Head(s) = BROADCASTADDR /\ Last(s) = BROADCASTADDR
      BY <3>1 DEF Last
    <3>3. p = Packet("RB", n, BROADCASTADDR, serialseq, s, NoArg)
      BY <2>1, <3>1 DEF OrderPacket
    <3>4. \A i \in 1..(Len(s) - 1) : s[i] \in Node
      BY <3>2
    <3>5. p \in Floods /\ p.nodes = s
      <4> HIDE DEF p
      <4>1. p = [type |-> "RB", src |-> n, dest |-> BROADCASTADDR, seq |-> serialseq,
                 nodes |-> s, arg |-> NoArg]
        BY <3>3 DEF Packet
      <4> QED
        BY <1>2, <1>6, <3>2, <3>4, <4>1 DEF Floods
    <3> QED
      BY <3>2, <3>5 DEF TxEntries
  <2>2. CASE t.type # "RB"
    <3>1. /\ t.type \in Unicast /\ t.nodes \in Seq(Node \ {n}) /\ t.nodes # << >>
      BY <1>3, <2>2 DEF Task, Unicast
    <3>2. /\ Len(t.nodes) \in Nat \ {0} /\ Head(t.nodes) = t.nodes[1]
          /\ DOMAIN t.nodes = 1..Len(t.nodes)
          /\ \A i \in 1..Len(t.nodes) : t.nodes[i] \in Node \ {n}
      BY <3>1, LenProperties, EmptySeq, HeadTailProperties, ElementOfSeq
    <3>3. /\ t.nodes \in Seq(Node) /\ Last(t.nodes) \in Node
          /\ Head(t.nodes) \in Node \ {n} /\ Head(t.nodes) \in ToSet(t.nodes)
      <4>1. t.nodes \in [1..Len(t.nodes) -> Node]
        BY <3>1, <3>2, LenProperties
      <4>2. t.nodes \in Seq(Node)
        BY <3>2, <4>1, SeqDef
      <4> QED
        BY <3>2, <4>2 DEF Last, ToSet
    <3>4. p = Packet(t.type, n, Last(t.nodes), serialseq, t.nodes, NoArg)
      BY <2>2 DEF OrderPacket
    <3>5. p \in Unicasts /\ p.nodes = t.nodes
      BY <1>2, <1>6, <3>1, <3>3, <3>4 DEF Unicasts, Packet
    <3> QED
      BY <3>3, <3>5 DEF TxEntries
  <2> QED
    BY <2>1, <2>2
<1>8. /\ DOMAIN rxqueue = Node /\ DOMAIN txqueue = Node
      /\ \A m \in Node : IsQueue(rxqueue[m], RxFrames(m)) /\ IsQueue(txqueue[m], TxEntries(m))
  BY DEF RouteInv, QueuesOK
<1> HIDE DEF p
<1>9. IsQueue(q, TxEntries(n)) /\ ToSet(q) \subseteq ToSet(txqueue[n]) \cup {x}
  BY <1>2, <1>7, <1>8, ForwardOther
<1> HIDE DEF q, x, n
<1>10. QueuesOK' /\ Moved(n, {x})
  BY <1>2, <1>4, <1>8, <1>9 DEF QueuesOK, Moved
<1>11. PathsOK' /\ RegistersOK'
  BY <1>4, <1>5 DEF RouteInv, PathsOK, RegistersOK, routing, eeprom
<1>12. OutsideOK'
  <2>1. serialseq' \in Seqno
    BY <1>4, <1>6 DEF Next256, Seqno
  <2> QED
    BY <1>3, <1>4, <2>1 DEF RouteInv, OutsideOK, history
<1> QED
  BY <1>1, <1>3, <1>4, <1>10, <1>11, <1>12 DEF RouteInv, n, x, p

\* What a transmission of node n does to the queues: a copy of an entry of its
\* txqueue may be with a neighbour that it is for.
Carried(n) ==
  /\ \A m \in Node : ToSet(txqueue'[m]) \subseteq ToSet(txqueue[m])
  /\ \A m \in Node : \A f \in ToSet(rxqueue'[m]) :
       \/ f \in ToSet(rxqueue[m])
       \/ /\ m \in Neighbours(n) /\ f.from = n
          /\ \E e \in ToSet(txqueue[n]) :
               e.to \in {m, BROADCASTADDR} /\ f.packet = e.packet

(* What is heard of the front of txqueue fits the queue of the hearer.        *)
LEMMA Heard ==
  ASSUME RouteInv, NEW n \in Node, txqueue[n] # << >>,
         NEW m \in Neighbours(n), Head(txqueue[n]).to \in {m, BROADCASTADDR}
  PROVE  LET f == [from |-> n, packet |-> Head(txqueue[n]).packet]
         IN  /\ IsQueue(Put(rxqueue[m], f), RxFrames(m))
             /\ ToSet(Put(rxqueue[m], f)) \subseteq ToSet(rxqueue[m]) \cup {f}
<1> DEFINE e == Head(txqueue[n])
           f == [from |-> n, packet |-> e.packet]
<1>1. /\ m \in Node /\ n \in Neighbours(m)
  BY Constants DEF Neighbours
<1>2. e \in TxEntries(n)
  BY TailQueue DEF RouteInv, QueuesOK
<1> HIDE DEF e
<1>3. e.packet \in Floods \cup {p \in Unicasts : m \in ToSet(p.nodes)}
  BY <1>1, <1>2, Constants DEF TxEntries, e
<1>4. f \in RxFrames(m)
  BY <1>1, <1>3 DEF RxFrames
<1> HIDE DEF f
<1>5. IsQueue(rxqueue[m], RxFrames(m))
  BY <1>1 DEF RouteInv, QueuesOK
<1>6. /\ IsQueue(Put(rxqueue[m], f), RxFrames(m))
      /\ ToSet(Put(rxqueue[m], f)) \subseteq ToSet(rxqueue[m]) \cup {f}
  BY <1>4, <1>5, PutQueue
<1> QED
  BY <1>6 DEF f, e

(* The front of txqueue is done with.                                         *)
LEMMA SentRoute ==
  ASSUME RouteInv, NEW n \in Node, txqueue[n] # << >>, Sent(n)
  PROVE  /\ DOMAIN txqueue' = Node
         /\ \A m \in Node : /\ IsQueue(txqueue'[m], TxEntries(m))
                            /\ ToSet(txqueue'[m]) \subseteq ToSet(txqueue[m])
         /\ retrysend' \in [Node -> 0..RETRYSEND_MAX]
<1>1. /\ DOMAIN txqueue = Node
      /\ \A m \in Node : IsQueue(txqueue[m], TxEntries(m))
  BY DEF RouteInv, QueuesOK
<1>2. /\ IsQueue(Tail(txqueue[n]), TxEntries(n))
      /\ ToSet(Tail(txqueue[n])) \subseteq ToSet(txqueue[n])
  BY <1>1, TailQueue
<1>3. retrysend' \in [Node -> 0..RETRYSEND_MAX]
  BY Constants DEF Sent, RouteInv, RegistersOK
<1> QED
  BY <1>1, <1>2, <1>3 DEF Sent

(* A broadcast is transmitted.                                                *)
LEMMA BroadcastRoute ==
  ASSUME RouteInv, NEW n \in Node, TransmitBroadcast(n)
  PROVE  RouteInv' /\ Carried(n)
<1> DEFINE e == Head(txqueue[n])
<1>1. /\ txqueue[n] # << >> /\ e.to = BROADCASTADDR /\ Sent(n)
      /\ UNCHANGED <<routing, config, uploaddataAcked, outside, history>>
  BY DEF TransmitBroadcast
<1>2. /\ DOMAIN txqueue = Node
      /\ \A m \in Node : IsQueue(txqueue[m], TxEntries(m)) /\ IsQueue(rxqueue[m], RxFrames(m))
  BY DEF RouteInv, QueuesOK
<1>3. e \in ToSet(txqueue[n])
  BY <1>1, <1>2, TailQueue
<1> DEFINE f == [from |-> n, packet |-> e.packet]
<1>4. \A m \in Neighbours(n) :
        /\ IsQueue(Put(rxqueue[m], f), RxFrames(m))
        /\ ToSet(Put(rxqueue[m], f)) \subseteq ToSet(rxqueue[m]) \cup {f}
  BY <1>1, Heard
<1>5. PICK R \in SUBSET Neighbours(n) :
        rxqueue' = [m \in Node |-> IF m \in R THEN Put(rxqueue[m], f) ELSE rxqueue[m]]
  BY DEF TransmitBroadcast
<1>6. f.from = n /\ f.packet = e.packet
  OBVIOUS
<1> HIDE DEF e, f
<1>7. /\ DOMAIN rxqueue' = Node
      /\ \A m \in Node :
           /\ IsQueue(rxqueue'[m], RxFrames(m))
           /\ \A g \in ToSet(rxqueue'[m]) :
                g \in ToSet(rxqueue[m]) \/ (m \in Neighbours(n) /\ g = f)
  BY <1>2, <1>4, <1>5
<1>8. /\ DOMAIN txqueue' = Node
      /\ \A m \in Node : /\ IsQueue(txqueue'[m], TxEntries(m))
                         /\ ToSet(txqueue'[m]) \subseteq ToSet(txqueue[m])
      /\ retrysend' \in [Node -> 0..RETRYSEND_MAX]
  BY <1>1, SentRoute
<1>9. QueuesOK' /\ Carried(n)
  BY <1>1, <1>3, <1>6, <1>7, <1>8 DEF QueuesOK, Carried
<1>10. PathsOK' /\ RegistersOK' /\ OutsideOK'
  BY <1>1, <1>8 DEF RouteInv, PathsOK, RegistersOK, OutsideOK, routing, config, eeprom,
     outside, history
<1> QED
  BY <1>9, <1>10 DEF RouteInv

(* A node restarts with what its EEPROM holds.                                *)
LEMMA RestartsRoute ==
  ASSUME RouteInv, NEW n \in Node, NEW rx, Restarts(n, rx), DOMAIN rx = Node,
         \A m \in Node : IsQueue(rx[m], RxFrames(m)),
         saved' \in [Node -> Saved], \A m \in Node : saved'[m].path \in Paths(m),
         torn' \in [Node -> BOOLEAN],
         UNCHANGED <<tasks, uploads, serialseq, history>>, resets' \in 0..MaxReset
  PROVE  /\ RouteInv'
         /\ \A m \in Node : /\ ToSet(txqueue'[m]) \subseteq ToSet(txqueue[m])
                            /\ ToSet(rxqueue'[m]) \subseteq ToSet(rx[m])
<1>1. /\ DOMAIN txqueue = Node /\ \A m \in Node : IsQueue(txqueue[m], TxEntries(m))
  BY DEF RouteInv, QueuesOK
<1>2. /\ rxqueue' = [rx EXCEPT ![n] = << >>]
      /\ txqueue' = [txqueue EXCEPT ![n] = << >>]
  BY DEF Restarts
<1>3. /\ DOMAIN rxqueue' = Node /\ rxqueue'[n] = << >>
      /\ \A m \in Node \ {n} : rxqueue'[m] = rx[m]
      /\ DOMAIN txqueue' = Node /\ txqueue'[n] = << >>
      /\ \A m \in Node \ {n} : txqueue'[m] = txqueue[m]
  BY <1>1, <1>2
<1>4. QueuesOK'
  BY <1>1, <1>3, NoQueue DEF QueuesOK
<1>5. PathsOK'
  <2>1. /\ pathnode' = [pathnode EXCEPT ![n] = saved'[n].path]
        /\ DOMAIN pathnode = Node
    BY DEF Restarts, RouteInv, PathsOK
  <2>2. /\ DOMAIN pathnode' = Node /\ pathnode'[n] = saved'[n].path
        /\ \A m \in Node \ {n} : pathnode'[m] = pathnode[m]
    BY <2>1
  <2> QED
    BY <2>1, <2>2 DEF RouteInv, PathsOK
<1>6. RegistersOK'
  <2>1. /\ saved'[n].low \in BOOLEAN /\ saved'[n].interval \in {OldInterval, NewInterval}
    BY DEF Saved
  <2>2. islowpower' \in [Node -> BOOLEAN] /\ uploaddataAcked' \in [Node -> BOOLEAN]
    BY <2>1 DEF Restarts, RouteInv, RegistersOK
  <2>3. interval' \in [Node -> {OldInterval, NewInterval}]
    BY <2>1 DEF Restarts, RouteInv, RegistersOK
  <2>6. saving' \in [Node -> BOOLEAN]
    BY DEF Restarts, RouteInv, RegistersOK
  <2>4. /\ retrysend' \in [Node -> 0..RETRYSEND_MAX] /\ lastrbseq' \in [Node -> Seqno]
        /\ sendpacketseq' \in [Node -> Seqno]
    <3>1. 0 \in 0..RETRYSEND_MAX /\ 0 \in Seqno /\ 255 \in Seqno
      BY Constants DEF Seqno
    <3>2. /\ retrysend \in [Node -> 0..RETRYSEND_MAX] /\ lastrbseq \in [Node -> Seqno]
          /\ sendpacketseq \in [Node -> Seqno]
      BY DEF RouteInv, RegistersOK
    <3>3. retrysend' \in [Node -> 0..RETRYSEND_MAX]
      BY <3>1, <3>2 DEF Restarts
    <3>4. lastrbseq' \in [Node -> Seqno]
      BY <3>1, <3>2 DEF Restarts
    <3>5. sendpacketseq' \in [Node -> Seqno]
      BY <3>1, <3>2 DEF Restarts
    <3> QED
      BY <3>3, <3>4, <3>5
  <2>5. lasthandledseq' \in [Node -> [Node -> Seqno]]
    <3>1. 0 \in Seqno
      BY DEF Seqno
    <3>2. lasthandledseq \in [Node -> [Node -> Seqno]]
      BY DEF RouteInv, RegistersOK
    <3>3. [m \in Node |-> 0] \in [Node -> Seqno]
      BY <3>1
    <3>4. lasthandledseq' = [lasthandledseq EXCEPT ![n] = [m \in Node |-> 0]]
      BY DEF Restarts
    <3> QED
      BY <3>2, <3>3, <3>4
  <2> QED
    BY <2>2, <2>3, <2>4, <2>5, <2>6 DEF RegistersOK
<1>7. OutsideOK'
  BY DEF RouteInv, OutsideOK, history
<1>8. \A m \in Node : /\ ToSet(txqueue'[m]) \subseteq ToSet(txqueue[m])
                      /\ ToSet(rxqueue'[m]) \subseteq ToSet(rx[m])
  BY <1>3, NoQueue
<1> QED
  BY <1>4, <1>5, <1>6, <1>7, <1>8 DEF RouteInv

(* A unicast is transmitted.                                                  *)
LEMMA UnicastRoute ==
  ASSUME RouteInv, NEW n \in Node, TransmitUnicast(n)
  PROVE  RouteInv' /\ Carried(n)
<1> DEFINE e == Head(txqueue[n])
           f == [from |-> n, packet |-> e.packet]
<1>1. txqueue[n] # << >> /\ e.to # BROADCASTADDR /\ UNCHANGED <<outside, history>>
  BY DEF TransmitUnicast
<1>2. /\ DOMAIN txqueue = Node /\ DOMAIN rxqueue = Node
      /\ \A m \in Node : IsQueue(txqueue[m], TxEntries(m)) /\ IsQueue(rxqueue[m], RxFrames(m))
  BY DEF RouteInv, QueuesOK
<1>3. e \in ToSet(txqueue[n])
  BY <1>1, <1>2, TailQueue
<1>4. e.to \in Neighbours(n) =>
        /\ IsQueue(Put(rxqueue[e.to], f), RxFrames(e.to))
        /\ ToSet(Put(rxqueue[e.to], f)) \subseteq ToSet(rxqueue[e.to]) \cup {f}
  BY <1>1, Heard
<1>5. PICK rx :
        /\ \/ rx = rxqueue
           \/ /\ rx = [rxqueue EXCEPT ![e.to] = Put(@, f)]
              /\ e.to \in Neighbours(n)
        /\ \/ Restarts(n, rx) /\ UNCHANGED <<saved, torn>>
           \/ /\ rxqueue' = rx /\ (Sent(n) \/ Failed(n))
              /\ UNCHANGED <<routing, config, uploaddataAcked>>
  <2>1. PICK heard \in BOOLEAN, acked \in BOOLEAN :
          LET rx == IF heard THEN [rxqueue EXCEPT ![e.to] = Put(@, f)] ELSE rxqueue
          IN  /\ heard => e.to \in Neighbours(n)
              /\ \/ Restarts(n, rx) /\ UNCHANGED <<saved, torn>>
                 \/ /\ rxqueue' = rx /\ (Sent(n) \/ Failed(n))
                    /\ UNCHANGED <<routing, config, uploaddataAcked>>
    BY DEF TransmitUnicast
  <2> QED
    BY <2>1
<1>6. f.from = n /\ f.packet = e.packet
  OBVIOUS
<1> HIDE DEF e, f
<1>7. /\ DOMAIN rx = Node
      /\ \A m \in Node :
           /\ IsQueue(rx[m], RxFrames(m))
           /\ \A g \in ToSet(rx[m]) :
                g \in ToSet(rxqueue[m]) \/ (m \in Neighbours(n) /\ e.to = m /\ g = f)
  <2>1. CASE rx = rxqueue
    BY <1>2, <2>1
  <2>2. CASE rx = [rxqueue EXCEPT ![e.to] = Put(@, f)] /\ e.to \in Neighbours(n)
    <3>1. /\ DOMAIN rx = Node /\ rx[e.to] = Put(rxqueue[e.to], f)
          /\ \A m \in Node \ {e.to} : rx[m] = rxqueue[m]
      BY <1>2, <2>2 DEF Neighbours
    <3> QED
      BY <1>2, <1>4, <2>2, <3>1
  <2> QED
    BY <1>5, <2>1, <2>2
<1>8. CASE Restarts(n, rx) /\ UNCHANGED <<saved, torn>>
  <2>1. /\ UNCHANGED <<tasks, uploads, serialseq, history>>
        /\ resets' \in 0..MaxReset
        /\ saved' \in [Node -> Saved] /\ \A m \in Node : saved'[m].path \in Paths(m)
        /\ torn' \in [Node -> BOOLEAN]
    BY <1>1, <1>8 DEF outside, RouteInv, OutsideOK, PathsOK, RegistersOK
  <2>2. /\ RouteInv'
        /\ \A m \in Node : /\ ToSet(txqueue'[m]) \subseteq ToSet(txqueue[m])
                           /\ ToSet(rxqueue'[m]) \subseteq ToSet(rx[m])
    BY <1>7, <1>8, <2>1, RestartsRoute
  <2>3. Carried(n)
    BY <1>3, <1>6, <1>7, <2>2 DEF Carried
  <2> QED
    BY <2>2, <2>3
<1>9. CASE /\ rxqueue' = rx /\ (Sent(n) \/ Failed(n))
           /\ UNCHANGED <<routing, config, uploaddataAcked>>
  <2>1. /\ DOMAIN txqueue' = Node
        /\ \A m \in Node : /\ IsQueue(txqueue'[m], TxEntries(m))
                           /\ ToSet(txqueue'[m]) \subseteq ToSet(txqueue[m])
        /\ retrysend' \in [Node -> 0..RETRYSEND_MAX]
    <3>1. CASE Sent(n)
      BY <1>1, <3>1, SentRoute
    <3>2. CASE retrysend[n] # RETRYSEND_MAX /\ UNCHANGED txqueue
               /\ retrysend' = [retrysend EXCEPT ![n] = @ + 1]
      <4>1. retrysend \in [Node -> 0..RETRYSEND_MAX]
        BY DEF RouteInv, RegistersOK
      <4>2. retrysend[n] + 1 \in 0..RETRYSEND_MAX
        BY <3>2, <4>1, Constants
      <4> QED
        BY <1>2, <3>2, <4>1, <4>2
    <3> QED
      BY <1>9, <3>1, <3>2 DEF Failed
  <2>2. QueuesOK' /\ Carried(n)
    BY <1>3, <1>6, <1>7, <1>9, <2>1 DEF QueuesOK, Carried
  <2>3. PathsOK' /\ RegistersOK' /\ OutsideOK'
    BY <1>1, <1>9, <2>1 DEF RouteInv, PathsOK, RegistersOK, OutsideOK, routing, config, eeprom,
       outside, history
  <2> QED
    BY <2>2, <2>3 DEF RouteInv
<1> QED
  BY <1>5, <1>8, <1>9

(* What a reset leaves in the EEPROM is what was there, the configuration, or *)
(* nothing that LoadCONFIG takes.                                             *)
LEMMA StoredRoute ==
  ASSUME RouteInv, NEW n \in Node, Stored(n)
  PROVE  /\ saved' \in [Node -> Saved] /\ \A m \in Node : saved'[m].path \in Paths(m)
         /\ torn' \in [Node -> BOOLEAN]
         /\ \A m \in Node \ {n} : saved'[m] = saved[m] /\ torn'[m] = torn[m]
         /\ \/ saved'[n] = saved[n] /\ torn'[n] = torn[n]
            \/ saving[n] /\ saved'[n] = Configuration(n)
            \/ torn'[n] /\ saved'[n] = NoConfig
<1>1. /\ saved \in [Node -> Saved] /\ \A m \in Node : saved[m].path \in Paths(m)
      /\ torn \in [Node -> BOOLEAN] /\ pathnode[n] \in Paths(n)
  BY DEF RouteInv, PathsOK, RegistersOK
<1>2. NoConfig.path \in Paths(n)
  <2>1. NoConfig.path = << >> /\ << >> \in Seq(Node)
    BY DEF NoConfig
  <2> QED
    BY <2>1 DEF Paths
<1>3. ASSUME NEW c \in Saved, c.path \in Paths(n), NEW b \in BOOLEAN,
             saved' = [saved EXCEPT ![n] = c], torn' = [torn EXCEPT ![n] = b]
      PROVE  /\ saved' \in [Node -> Saved] /\ \A m \in Node : saved'[m].path \in Paths(m)
             /\ torn' \in [Node -> BOOLEAN] /\ saved'[n] = c /\ torn'[n] = b
             /\ \A m \in Node \ {n} : saved'[m] = saved[m] /\ torn'[m] = torn[m]
  BY <1>1, <1>3
<1>4. CASE UNCHANGED <<saved, torn>>
  BY <1>1, <1>4
<1>5. CASE /\ saving[n] /\ saved' = [saved EXCEPT ![n] = Configuration(n)]
           /\ torn' = [torn EXCEPT ![n] = FALSE]
  BY <1>1, <1>3, <1>5, ConfigurationSaved
<1>6. CASE /\ saved' = [saved EXCEPT ![n] = NoConfig]
           /\ torn' = [torn EXCEPT ![n] = TRUE]
  BY <1>2, <1>3, <1>6, NoConfigSaved
<1> QED
  BY <1>4, <1>5, <1>6 DEF Stored

(* The watchdog resets a node.                                                *)
LEMMA ResetRoute ==
  ASSUME RouteInv, NEW n \in Node, WatchdogReset(n)
  PROVE  RouteInv' /\ Carried(n)
<1>1. /\ DOMAIN rxqueue = Node /\ \A m \in Node : IsQueue(rxqueue[m], RxFrames(m))
      /\ resets' \in 0..MaxReset
  BY Constants DEF RouteInv, QueuesOK, OutsideOK, WatchdogReset
<1>2. /\ RouteInv'
      /\ \A m \in Node : /\ ToSet(txqueue'[m]) \subseteq ToSet(txqueue[m])
                         /\ ToSet(rxqueue'[m]) \subseteq ToSet(rxqueue[m])
  BY <1>1, StoredRoute, RestartsRoute DEF WatchdogReset
<1> QED
  BY <1>2 DEF Carried

(* Uploads are of nodes, of the types of an upload.                           *)
LEMMA UploadsTyped ==
  ASSUME NEW u \in Uploads PROVE u[1] \in Node /\ u[2] \in Upload
BY RouteAssumption

(* Nothing moves.                                                             *)
LEMMA StutterRoute ==
  ASSUME RouteInv, UNCHANGED vars PROVE RouteInv'
BY DEF RouteInv, QueuesOK, PathsOK, RegistersOK, OutsideOK, vars, queues, routing,
   config, eeprom, outside, history

(* Every step.                                                                *)
LEMMA NextRoute ==
  ASSUME RouteInv, [Next]_vars PROVE RouteInv'
<1>1. CASE \E n \in Node : FrameHandlers(n)
  BY <1>1, DropRoute, RelayRoute, FloodRoute, ObeyRoute, DownRoute, SaveRoute
     DEF FrameHandlers
<1>2. CASE \E n \in Node : Transmitters(n)
  BY <1>2, BroadcastRoute, UnicastRoute DEF Transmitters
<1>3. CASE \E u \in Uploads : AppUploads(u[1], u[2])
  BY <1>3, AppRoute, UploadsTyped
<1> QED
  BY <1>1, <1>2, <1>3, UpRoute, SerialRoute, ResetRoute, StutterRoute DEF Next

(* The inductive invariant implies the types.                                 *)
LEMMA RouteInvTypes == RouteInv => TypeOK
<1> SUFFICES ASSUME RouteInv PROVE TypeOK
  OBVIOUS
<1>1. ASSUME NEW p \in Unicasts \cup Floods PROVE IsPacket(p)
  <2>1. CASE p \in Unicasts
    <3>1. p.nodes \in Seq(Node)
      BY <2>1 DEF Unicasts
    <3>2. \A i \in DOMAIN p.nodes : p.nodes[i] \in Node \cup {BROADCASTADDR}
      BY <3>1, LenProperties, ElementOfSeq
    <3> QED
      BY <2>1, <3>2 DEF Unicasts, IsPacket, Type
  <2>2. CASE p \in Floods
    <3>1. p.nodes \in Seq(Node \cup {BROADCASTADDR})
      BY <2>2 DEF Floods
    <3>2. \A i \in DOMAIN p.nodes : p.nodes[i] \in Node \cup {BROADCASTADDR}
      BY <3>1, LenProperties, ElementOfSeq
    <3> QED
      BY <2>2, <3>2 DEF Floods, IsPacket, Type
  <2> QED
    BY <2>1, <2>2
<1>2. ASSUME NEW n \in Node
      PROVE  /\ Len(rxqueue[n]) < RFQUENEMAX /\ Len(txqueue[n]) < RFQUENEMAX
             /\ \A i \in DOMAIN rxqueue[n] :
                  rxqueue[n][i].from \in Neighbours(n) /\ IsPacket(rxqueue[n][i].packet)
             /\ \A i \in DOMAIN txqueue[n] :
                  /\ txqueue[n][i].to \in (Node \ {n}) \cup {BROADCASTADDR}
                  /\ IsPacket(txqueue[n][i].packet)
             /\ \A i \in DOMAIN pathnode[n] : pathnode[n][i] \in Node
             /\ pathnode[n] # << >> => Last(pathnode[n]) = SINKADDRESS
  <2>1. IsQueue(rxqueue[n], RxFrames(n)) /\ IsQueue(txqueue[n], TxEntries(n))
    BY DEF RouteInv, QueuesOK
  <2>2. /\ \A i \in DOMAIN rxqueue[n] : rxqueue[n][i] \in RxFrames(n)
        /\ \A i \in DOMAIN txqueue[n] : txqueue[n][i] \in TxEntries(n)
    BY <2>1, InQueue
  <2>3. \A f \in RxFrames(n) : f.from \in Neighbours(n) /\ IsPacket(f.packet)
    BY <1>1 DEF RxFrames
  <2>4. \A e \in TxEntries(n) :
          e.to \in (Node \ {n}) \cup {BROADCASTADDR} /\ IsPacket(e.packet)
    BY <1>1 DEF TxEntries
  <2>5. pathnode[n] \in Seq(Node) /\ (pathnode[n] # << >> => Last(pathnode[n]) = SINKADDRESS)
    BY DEF RouteInv, PathsOK, Paths
  <2>6. \A i \in DOMAIN pathnode[n] : pathnode[n][i] \in Node
    BY <2>5, LenProperties, ElementOfSeq
  <2>7. Len(rxqueue[n]) < RFQUENEMAX /\ Len(txqueue[n]) < RFQUENEMAX
    BY <2>1 DEF IsQueue
  <2> QED
    BY <2>2, <2>3, <2>4, <2>5, <2>6, <2>7
<1>3. RegistersOK /\ OutsideOK
  BY DEF RouteInv
<1>4. {islowpower, uploaddataAcked} \subseteq [Node -> BOOLEAN]
  BY <1>3 DEF RegistersOK
<1> QED
  BY <1>2, <1>3, <1>4 DEF TypeOK, RegistersOK, OutsideOK

(* The queues never hold more than their slots, a frame is from a neighbour,   *)
(* the next hop of every packet, whoever relays it, is read from within its    *)
(* list and never the relay itself, and every recorded path ends at the sink.  *)
THEOREM RouteTypes == Spec => []TypeOK
<1>1. RouteInv /\ [Next]_vars => RouteInv'
  BY NextRoute
<1> QED
  BY <1>1, InitRoute, RouteInvTypes, PTL DEF Spec
-----------------------------------------------------------------------------
(* Where packets come from, and what is handled.                             *)

\* A copy of p is in some queue.
InFlight(p) ==
  \E n \in Node : \/ \E f \in ToSet(rxqueue[n]) : f.packet = p
                 \/ \E e \in ToSet(txqueue[n]) : e.packet = p

(* The packet a node handles is in flight.                                    *)
LEMMA CurrentInFlight ==
  ASSUME RouteInv, NEW n \in Node, rxqueue[n] # << >>
  PROVE  InFlight(Current(n))
<1>1. Head(rxqueue[n]) \in ToSet(rxqueue[n])
  BY TailQueue DEF RouteInv, QueuesOK
<1> QED
  BY <1>1 DEF InFlight, Current

\* No packet of this type is in flight.
Never(type) == \A p : InFlight(p) => p.type # type

(* A handler puts nothing in flight but E.                                    *)
LEMMA MovedInFlight ==
  ASSUME NEW n \in Node, NEW E, Moved(n, E), NEW p, InFlight(p)'
  PROVE  InFlight(p) \/ \E e \in E : e.packet = p
<1>1. PICK m \in Node : \/ \E f \in ToSet(rxqueue'[m]) : f.packet = p
                       \/ \E e \in ToSet(txqueue'[m]) : e.packet = p
  BY DEF InFlight
<1>2. CASE \E f \in ToSet(rxqueue'[m]) : f.packet = p
  BY <1>2 DEF InFlight, Moved
<1>3. CASE \E e \in ToSet(txqueue'[m]) : e.packet = p
  <2>1. PICK e \in ToSet(txqueue'[m]) : e.packet = p
    BY <1>3
  <2>2. e \in ToSet(txqueue[m]) \/ e \in E
    BY <2>1 DEF Moved
  <2> QED
    BY <2>1, <2>2 DEF InFlight
<1> QED
  BY <1>1, <1>2, <1>3

(* A transmission, nothing.                                                   *)
LEMMA CarriedInFlight ==
  ASSUME NEW n \in Node, Carried(n), NEW p, InFlight(p)'
  PROVE  InFlight(p)
<1>1. PICK m \in Node : \/ \E f \in ToSet(rxqueue'[m]) : f.packet = p
                       \/ \E e \in ToSet(txqueue'[m]) : e.packet = p
  BY DEF InFlight
<1>2. CASE \E f \in ToSet(rxqueue'[m]) : f.packet = p
  BY <1>2 DEF InFlight, Carried
<1>3. CASE \E e \in ToSet(txqueue'[m]) : e.packet = p
  BY <1>3 DEF InFlight, Carried
<1> QED
  BY <1>1, <1>2, <1>3

(* Every packet that was not in flight is made by one of these.               *)
LEMMA NewPacket ==
  ASSUME RouteInv, Next, NEW p, InFlight(p)'
  PROVE  \/ InFlight(p)
         \/ p.type \in Upload \cup {"RU"}
         \/ p.type = "RB" /\ \E q : InFlight(q) /\ q.type = "RB" /\ q.seq = p.seq
         \/ p.type = "CMD_ACK" /\ p.arg = "DD_NEEDACK"
         \/ /\ p.type = "CMD_ACK" /\ p.src \in Node /\ ObeyCommand(p.src)
            /\ p.arg = Current(p.src).type /\ Answers(p.src, Current(p.src))
         \/ p.type = "CMD_ACK" /\ p.src \in Node /\ AnswerRD(p.src) /\ p.arg = "RD"
         \/ /\ TakeUp /\ Current(SINKADDRESS).type = "DU_NEEDACK"
            /\ p.type = "DU_ACK" /\ p.dest = Current(SINKADDRESS).src
         \/ /\ SerialTask /\ p.type \in Command \cup {"DD", "DD_NEEDACK", "DU_ACK", "RB"}
            /\ Head(tasks) \in Task /\ p = OrderPacket(Head(tasks))
<1>1. ASSUME NEW n \in Node, FrameHandlers(n), ~InFlight(p)
      PROVE  \/ p.type = "RU"
             \/ p.type = "RB" /\ \E q : InFlight(q) /\ q.type = "RB" /\ q.seq = p.seq
             \/ p.type = "CMD_ACK" /\ p.arg = "DD_NEEDACK"
             \/ /\ p.type = "CMD_ACK" /\ p.src \in Node /\ ObeyCommand(p.src)
                /\ p.arg = Current(p.src).type /\ Answers(p.src, Current(p.src))
             \/ p.type = "CMD_ACK" /\ p.src \in Node /\ AnswerRD(p.src) /\ p.arg = "RD"
  <2>1. CASE DropFrame(n)
    BY <1>1, <2>1, DropRoute, MovedInFlight
  <2>2. CASE RelayPacket(n)
    <3> DEFINE E == {[to |-> NextHop(n, Current(n)), packet |-> Current(n)]}
    <3>1. Moved(n, E) /\ \A e \in E : e.packet = Current(n)
      BY <2>2, RelayRoute
    <3>2. InFlight(Current(n))
      BY <2>2, CurrentInFlight DEF RelayPacket
    <3> HIDE DEF E
    <3> QED
      BY <1>1, <3>1, <3>2, MovedInFlight
  <2>3. CASE HandleRB(n)
    <3>1. InFlight(Current(n)) /\ Current(n).type = "RB"
      BY <2>3, CurrentInFlight DEF HandleRB
    <3>2. FloodsOn(Current(n), p)
      BY <1>1, <2>3, FloodRoute, MovedInFlight
    <3> QED
      BY <3>1, <3>2 DEF FloodsOn
  <2>4. CASE ObeyCommand(n)
    <3>1. PICK E : /\ Moved(n, E)
                   /\ \A e \in E : /\ e.packet.type = "CMD_ACK" /\ e.packet.src = n
                                   /\ e.packet.arg = Current(n).type
                                   /\ Answers(n, Current(n))
      BY <2>4, ObeyRoute
    <3>2. /\ p.type = "CMD_ACK" /\ p.src = n /\ p.arg = Current(n).type
          /\ Answers(n, Current(n))
      BY <1>1, <3>1, MovedInFlight
    <3> QED
      BY <2>4, <3>2
  <2>5. CASE TakeDown(n)
    BY <1>1, <2>5, DownRoute, MovedInFlight
  <2>6. CASE AnswerRD(n)
    <3>1. PICK E : /\ Moved(n, E)
                   /\ \A e \in E : /\ e.packet.type = "CMD_ACK" /\ e.packet.src = n
                                   /\ e.packet.arg = "RD"
      BY <2>6, SaveRoute
    <3>2. p.type = "CMD_ACK" /\ p.src = n /\ p.arg = "RD"
      BY <1>1, <3>1, MovedInFlight
    <3> QED
      BY <2>6, <3>2
  <2> QED
    BY <1>1, <2>1, <2>2, <2>3, <2>4, <2>5, <2>6 DEF FrameHandlers
<1>2. ASSUME NEW n \in Node, Transmitters(n) \/ WatchdogReset(n)
      PROVE  InFlight(p)
  BY <1>2, BroadcastRoute, UnicastRoute, ResetRoute, CarriedInFlight DEF Transmitters
<1>3. ASSUME TakeUp, ~InFlight(p)
      PROVE  /\ Current(SINKADDRESS).type = "DU_NEEDACK"
             /\ p.type = "DU_ACK" /\ p.dest = Current(SINKADDRESS).src
  BY <1>3, UpRoute, MovedInFlight, Constants
<1>4. ASSUME NEW u \in Uploads, AppUploads(u[1], u[2]), ~InFlight(p)
      PROVE  p.type \in Upload
  <2>1. u[1] \in Node /\ u[2] \in Upload
    BY UploadsTyped
  <2>2. PICK n \in Node, type \in Upload : n = u[1] /\ type = u[2]
    BY <2>1
  <2>3. \E E : Moved(n, E) /\ \A e \in E : e.packet.type = type
    BY <1>4, <2>2, AppRoute
  <2> QED
    BY <1>4, <2>2, <2>3, MovedInFlight
<1>5. ASSUME SerialTask, ~InFlight(p)
      PROVE  /\ p.type \in Command \cup {"DD", "DD_NEEDACK", "DU_ACK", "RB"}
             /\ Head(tasks) \in Task /\ p = OrderPacket(Head(tasks))
  <2>1. PICK t \in Task : t = Head(tasks)
    BY <1>5, SerialRoute
  <2> DEFINE E == {[to |-> Head(OrderPacket(t).nodes), packet |-> OrderPacket(t)]}
  <2>2. Moved(SINKADDRESS, E) /\ \A e \in E : e.packet = OrderPacket(t)
    BY <1>5, <2>1, SerialRoute
  <2> HIDE DEF E
  <2>3. p = OrderPacket(t)
    BY <1>5, <2>2, MovedInFlight, Constants
  <2>4. OrderPacket(t).type = t.type
    BY DEF OrderPacket, Packet
  <2> QED
    BY <2>1, <2>3, <2>4 DEF Task
<1> QED
  BY <1>1, <1>2, <1>3, <1>4, <1>5 DEF Next

(* What has been handled stays so, and what is handled was in flight.         *)
LEMMA NewHandled ==
  ASSUME RouteInv, Next, NEW m \in Node
  PROVE  /\ handled[m] \subseteq handled'[m]
         /\ \A r \in handled'[m] :
              \/ r \in handled[m]
              \/ \E p : /\ InFlight(p) /\ r.type = p.type /\ r.src = p.src
                       /\ r.arg \in {p.arg, "RB", NoArg}
<1>1. ASSUME NEW n \in Node, rxqueue[n] # << >>, NEW arg, Handle(n, arg),
             arg \in {Current(n).arg, "RB", NoArg}
      PROVE  /\ handled[m] \subseteq handled'[m]
             /\ \A r \in handled'[m] :
                  \/ r \in handled[m]
                  \/ \E p : /\ InFlight(p) /\ r.type = p.type /\ r.src = p.src
                           /\ r.arg \in {p.arg, "RB", NoArg}
  <2>1. PICK p : p = Current(n) /\ InFlight(p)
    BY <1>1, CurrentInFlight
  <2>2. /\ handled'[n] = handled[n] \cup {Noted(p, arg)}
        /\ \A k \in Node \ {n} : handled'[k] = handled[k]
    BY <1>1, <2>1, HandleStep
  <2>3. /\ Noted(p, arg).type = p.type /\ Noted(p, arg).src = p.src
        /\ Noted(p, arg).arg = arg
    BY DEF Noted
  <2> QED
    BY <1>1, <2>1, <2>2, <2>3
<1>2. ASSUME NEW n \in Node, FrameHandlers(n)
      PROVE  \/ UNCHANGED handled
             \/ /\ rxqueue[n] # << >>
                /\ \E arg \in {Current(n).arg, "RB", NoArg} : Handle(n, arg)
  BY <1>2 DEF FrameHandlers, DropFrame, history, RelayPacket, HandleRB, ObeyCommand,
     TakeDown, AnswerRD
<1>3. ASSUME TakeUp
      PROVE  /\ rxqueue[SINKADDRESS] # << >> /\ SINKADDRESS \in Node
             /\ \E arg \in {Current(SINKADDRESS).arg, "RB", NoArg} : Handle(SINKADDRESS, arg)
  BY <1>3, Constants DEF TakeUp
<1>4. CASE UNCHANGED handled
  BY <1>4
<1>5. \/ UNCHANGED handled
      \/ \E n \in Node : FrameHandlers(n)
      \/ TakeUp
  BY DEF Next, Transmitters, TransmitBroadcast, TransmitUnicast, AppUploads, SerialTask,
     WatchdogReset, history
<1> QED
  BY <1>1, <1>2, <1>3, <1>4, <1>5
-----------------------------------------------------------------------------
(* Acknowledged uploads.                                                     *)

\* The computer has an upload of node n that wanted an acknowledgement.
Arrived(n) ==
  \E r \in handled[SINKADDRESS] : r.type \in Awaited /\ r.src = n

(* An acknowledgement in flight, like one remembered, is of an upload that the *)
(* computer has: relays, restarts and repeated frames only copy it.           *)
AckedInv ==
  /\ \A p : InFlight(p) /\ p.type = "DU_ACK" => Arrived(p.dest)
  /\ \A n \in Node : uploaddataAcked[n] => Arrived(n)

(* A node takes its upload for acknowledged at an acknowledgement only.       *)
LEMMA NewAcked ==
  ASSUME RouteInv, Next, NEW n \in Node, uploaddataAcked'[n]
  PROVE  \/ uploaddataAcked[n]
         \/ \E p : InFlight(p) /\ p.type = "DU_ACK" /\ p.dest = n
<1>1. uploaddataAcked \in [Node -> BOOLEAN]
  BY DEF RouteInv, RegistersOK
<1>2. ASSUME NEW m \in Node, NEW type, NEW sent, uploaddataAcked' = AckedAfter(m, type, sent)
      PROVE  uploaddataAcked[n]
  <2>1. AckedAfter(m, type, sent)[n]
    BY <1>2
  <2> QED
    BY <2>1, AckedIsBoolean
<1>3. ASSUME NEW m \in Node, FrameHandlers(m)
      PROVE  \/ uploaddataAcked[n]
             \/ \E p : InFlight(p) /\ p.type = "DU_ACK" /\ p.dest = n
  <2>1. CASE DropFrame(m) \/ HandleRB(m) \/ ObeyCommand(m) \/ AnswerRD(m)
    BY <2>1 DEF DropFrame, HandleRB, ObeyCommand, AnswerRD
  <2>2. CASE RelayPacket(m)
    BY <1>2, <2>2 DEF RelayPacket
  <2>3. CASE TakeDown(m)
    <3>1. PICK p : p = Current(m) /\ InFlight(p)
      BY <2>3, CurrentInFlight DEF TakeDown
    <3>2. /\ p.dest = m
          /\ uploaddataAcked' = IF p.type = "DU_ACK" THEN [uploaddataAcked EXCEPT ![m] = TRUE]
                                ELSE uploaddataAcked
      BY <2>3, <3>1 DEF TakeDown
    <3> QED
      BY <1>1, <3>1, <3>2
  <2> QED
    BY <1>3, <2>1, <2>2, <2>3 DEF FrameHandlers
<1>4. ASSUME NEW m \in Node, NEW rx, Restarts(m, rx)
      PROVE  uploaddataAcked[n]
  BY <1>1, <1>4 DEF Restarts
<1>5. ASSUME NEW m \in Node, Transmitters(m) \/ WatchdogReset(m)
      PROVE  uploaddataAcked[n]
  <2>1. \/ UNCHANGED uploaddataAcked
        \/ \E rx : Restarts(m, rx)
    BY <1>5 DEF Transmitters, TransmitBroadcast, TransmitUnicast, WatchdogReset
  <2> QED
    BY <1>4, <2>1
<1>6. ASSUME NEW u \in Uploads, AppUploads(u[1], u[2])
      PROVE  uploaddataAcked[n]
  <2>1. u[1] \in Node
    BY UploadsTyped
  <2> QED
    BY <1>2, <1>6, <2>1 DEF AppUploads
<1>7. CASE TakeUp \/ SerialTask
  BY <1>7 DEF TakeUp, SerialTask
<1> QED
  BY <1>3, <1>5, <1>6, <1>7 DEF Next

(* Every step keeps it.                                                       *)
LEMMA NextAcked ==
  ASSUME RouteInv, AckedInv, [Next]_vars PROVE AckedInv'
<1>1. CASE Next
  <2>1. SINKADDRESS \in Node /\ handled[SINKADDRESS] \subseteq handled'[SINKADDRESS]
    BY <1>1, Constants, NewHandled
  <2>2. ASSUME NEW n, Arrived(n) PROVE Arrived(n)'
    BY <2>1, <2>2 DEF Arrived
  <2>3. ASSUME NEW p, InFlight(p)', p.type = "DU_ACK" PROVE Arrived(p.dest)'
    <3>1. CASE InFlight(p)
      BY <2>2, <2>3, <3>1 DEF AckedInv
    <3>2. CASE /\ TakeUp /\ Current(SINKADDRESS).type = "DU_NEEDACK"
               /\ p.dest = Current(SINKADDRESS).src
      <4>1. PICK q : q = Current(SINKADDRESS)
        OBVIOUS
      <4>2. PICK arg : Handle(SINKADDRESS, arg) /\ rxqueue[SINKADDRESS] # << >>
        BY <3>2 DEF TakeUp
      <4>3. Noted(q, arg) \in handled'[SINKADDRESS]
        BY <2>1, <4>1, <4>2, HandleStep
      <4>4. Noted(q, arg).type = "DU_NEEDACK" /\ Noted(q, arg).src = p.dest
        BY <3>2, <4>1 DEF Noted
      <4> QED
        BY <4>3, <4>4 DEF Arrived, Awaited
    <3>3. CASE SerialTask /\ p = OrderPacket(Head(tasks))
      <4>1. PICK t : t = Head(tasks)
        OBVIOUS
      <4>2. t.type = "DU_ACK" /\ p.dest = Last(t.nodes) /\ Due(t)
        BY <2>3, <3>3, <4>1 DEF OrderPacket, Packet, SerialTask
      <4>3. Arrived(p.dest)
        BY <4>2 DEF Due, Arrived, Awaited
      <4> QED
        BY <2>2, <4>3
    <3> QED
      BY <1>1, <2>3, <3>1, <3>2, <3>3, NewPacket DEF Upload, Command
  <2>4. ASSUME NEW n \in Node, uploaddataAcked'[n] PROVE Arrived(n)'
    BY <1>1, <2>2, <2>4, NewAcked DEF AckedInv
  <2> QED
    BY <2>3, <2>4 DEF AckedInv
<1>2. CASE UNCHANGED vars
  BY <1>2 DEF AckedInv, InFlight, Arrived, vars, queues, history
<1> QED
  BY <1>1, <1>2

(* A node believes an upload acknowledged only if the computer has one of its *)
(* own, whoever acknowledged it, and whatever is lost, repeated, relayed over  *)
(* other nodes or reset.                                                      *)
THEOREM AckedUploadsArrive == Spec => []AckedUploadArrived
<1>1. Init => AckedInv
  <2> SUFFICES ASSUME Init PROVE AckedInv
    OBVIOUS
  <2>1. \A n \in Node : rxqueue[n] = << >> /\ txqueue[n] = << >> /\ ~uploaddataAcked[n]
    BY DEF Init
  <2> QED
    BY <2>1, NoQueue DEF AckedInv, InFlight
<1>2. RouteInv /\ AckedInv /\ [Next]_vars => RouteInv' /\ AckedInv'
  BY NextRoute, NextAcked
<1>3. AckedInv => AckedUploadArrived
  BY DEF AckedInv, Arrived, AckedUploadArrived
<1> QED
  BY <1>1, <1>2, <1>3, InitRoute, PTL DEF Spec
-----------------------------------------------------------------------------
(* Answered RD commands.                                                     *)

\* What RD has done to node n, and what a restart keeps of it, unless a reset tore it.
Durable(n) ==
  \/ torn[n]
  \/ /\ interval[n] = NewInterval /\ pathnode[n] # << >>
     /\ saved[n].interval = NewInterval /\ saved[n].path # << >>

\* Node n has answered an RD command.
AnswersRD(n, p) == p.type = "CMD_ACK" /\ p.src = n /\ p.arg = "RD"

\* What is being saved is what RD has told.
SavesRD ==
  \A n \in Node : saving[n] => interval[n] = NewInterval /\ pathnode[n] # << >>

(* An answer, on its way or with the computer, is of a node that has saved    *)
(* what it was told.                                                          *)
DurableInv ==
  /\ SavesRD
  /\ \A n \in Node :
       Answered(n, "RD") \/ (\E p : InFlight(p) /\ AnswersRD(n, p)) => Durable(n)

(* What the variables are functions on.                                       *)
LEMMA ConfigDomains ==
  ASSUME RouteInv
  PROVE  /\ DOMAIN interval = Node /\ DOMAIN pathnode = Node /\ DOMAIN saved = Node
         /\ DOMAIN torn = Node /\ DOMAIN saving = Node /\ OldInterval # NewInterval
BY DEF RouteInv, RegistersOK, PathsOK, OldInterval, NewInterval

(* While a node saves its configuration, its main loop changes nothing of it.  *)
LEMMA NextSaves ==
  ASSUME RouteInv, SavesRD, Next PROVE SavesRD'
<1> SUFFICES ASSUME NEW n \in Node, saving'[n]
             PROVE  interval'[n] = NewInterval /\ pathnode'[n] # << >>
  BY DEF SavesRD
<1>1. ASSUME UNCHANGED <<interval, pathnode, saving>>
      PROVE  interval'[n] = NewInterval /\ pathnode'[n] # << >>
  BY <1>1 DEF SavesRD
<1>2. ASSUME NEW m \in Node, HandleRB(m)
      PROVE  interval'[n] = NewInterval /\ pathnode'[n] # << >>
  <2>1. UNCHANGED <<interval, saving>>
    BY <1>2 DEF HandleRB, config, eeprom
  <2>2. pathnode[n] # << >> => pathnode'[n] # << >>
    BY <1>2, FloodRoute
  <2> QED
    BY <2>1, <2>2 DEF SavesRD
<1>3. ASSUME NEW m \in Node, ObeyCommand(m)
      PROVE  interval'[n] = NewInterval /\ pathnode'[n] # << >>
  <2>1. PICK type : type = Current(m).type
    OBVIOUS
  <2>2. /\ pathnode'[m] # << >>
        /\ interval' = IF type = "RD" THEN [interval EXCEPT ![m] = NewInterval] ELSE interval
        /\ saving' = [saving EXCEPT ![m] = (type = "RD")]
        /\ \A k \in Node \ {m} : pathnode'[k] = pathnode[k]
    BY <1>3, <2>1, ObeyRoute DEF ObeyCommand, Obey
  <2>3. CASE m = n
    BY <2>2, <2>3, ConfigDomains
  <2>4. CASE m # n
    BY <2>2, <2>4, ConfigDomains DEF SavesRD
  <2> QED
    BY <2>3, <2>4
<1>4. ASSUME NEW m \in Node, AnswerRD(m)
      PROVE  interval'[n] = NewInterval /\ pathnode'[n] # << >>
  BY <1>4, SaveRoute DEF SavesRD
<1>5. ASSUME NEW m \in Node, NEW rx, Restarts(m, rx)
      PROVE  interval'[n] = NewInterval /\ pathnode'[n] # << >>
  BY <1>5, ConfigDomains DEF Restarts, SavesRD
<1>6. ASSUME NEW m \in Node, DropFrame(m) \/ RelayPacket(m) \/ TakeDown(m)
      PROVE  UNCHANGED <<interval, pathnode, saving>>
  BY <1>6 DEF DropFrame, RelayPacket, TakeDown, routing, config, eeprom
<1>7. ASSUME NEW m \in Node, FrameHandlers(m)
      PROVE  interval'[n] = NewInterval /\ pathnode'[n] # << >>
  BY <1>1, <1>2, <1>3, <1>4, <1>6, <1>7 DEF FrameHandlers
<1>8. ASSUME NEW m \in Node, Transmitters(m) \/ WatchdogReset(m)
      PROVE  UNCHANGED <<interval, pathnode, saving>> \/ \E rx : Restarts(m, rx)
  BY <1>8 DEF Transmitters, TransmitBroadcast, TransmitUnicast, WatchdogReset, routing,
     config, eeprom
<1>9. ASSUME TakeUp \/ SerialTask \/ \E u \in Uploads : AppUploads(u[1], u[2])
      PROVE  UNCHANGED <<interval, pathnode, saving>>
  BY <1>9 DEF TakeUp, SerialTask, AppUploads, routing, config, eeprom
<1> QED
  BY <1>1, <1>5, <1>7, <1>8, <1>9 DEF Next

(* What RD did is not undone, by other commands, broadcasts or restarts, but   *)
(* for what is torn.                                                          *)
LEMMA StaysDurable ==
  ASSUME RouteInv, SavesRD, Next, NEW n \in Node, Durable(n) PROVE Durable(n)'
<1>1. ASSUME UNCHANGED <<interval, pathnode, saved, torn>> PROVE Durable(n)'
  BY <1>1 DEF Durable
<1>2. ASSUME NEW m \in Node, HandleRB(m) PROVE Durable(n)'
  <2>1. UNCHANGED <<interval, saved, torn>>
    BY <1>2 DEF HandleRB, config, eeprom
  <2>2. pathnode[n] # << >> => pathnode'[n] # << >>
    BY <1>2, FloodRoute
  <2> QED
    BY <2>1, <2>2 DEF Durable
<1>3. ASSUME NEW m \in Node, ObeyCommand(m) PROVE Durable(n)'
  <2>1. pathnode[n] # << >> => pathnode'[n] # << >>
    BY <1>3, ObeyRoute
  <2>2. interval[n] = NewInterval => interval'[n] = NewInterval
    BY <1>3, ConfigDomains DEF ObeyCommand, Obey
  <2>3. UNCHANGED <<saved, torn>>
    BY <1>3 DEF ObeyCommand, Obey
  <2> QED
    BY <2>1, <2>2, <2>3 DEF Durable
<1>4. ASSUME NEW m \in Node, AnswerRD(m) PROVE Durable(n)'
  <2>1. /\ UNCHANGED <<pathnode, interval>> /\ saved'[m] = Configuration(m) /\ saving[m]
        /\ \A k \in Node \ {m} : saved'[k] = saved[k] /\ torn'[k] = torn[k]
    BY <1>4, SaveRoute DEF AnswerRD
  <2>2. CASE m = n
    BY <2>1, <2>2, ConfigurationSaved DEF SavesRD, Durable
  <2>3. CASE m # n
    BY <2>1, <2>3 DEF Durable
  <2> QED
    BY <2>2, <2>3
<1>5. ASSUME NEW m \in Node, NEW rx, Restarts(m, rx),
             saved'[n] = saved[n], torn'[n] = torn[n]
      PROVE  Durable(n)'
  BY <1>5, ConfigDomains DEF Restarts, Durable
<1>6. ASSUME NEW m \in Node, WatchdogReset(m) PROVE Durable(n)'
  <2>1. Restarts(m, rxqueue) /\ Stored(m)
    BY <1>6 DEF WatchdogReset
  <2>2. CASE saved'[n] = saved[n] /\ torn'[n] = torn[n]
    BY <1>5, <2>1, <2>2
  <2>3. CASE torn'[n]
    BY <2>3 DEF Durable
  <2>4. CASE m = n /\ saving[n] /\ saved'[n] = Configuration(n)
    <3>1. /\ saved'[n].interval = NewInterval /\ saved'[n].path # << >>
      BY <2>4, ConfigurationSaved DEF SavesRD
    <3>2. interval'[n] = saved'[n].interval /\ pathnode'[n] = saved'[n].path
      BY <2>1, <2>4, ConfigDomains DEF Restarts
    <3> QED
      BY <3>1, <3>2 DEF Durable
  <2> QED
    BY <2>1, <2>2, <2>3, <2>4, StoredRoute
<1>7. ASSUME NEW m \in Node, FrameHandlers(m) PROVE Durable(n)'
  <2>1. CASE DropFrame(m) \/ RelayPacket(m) \/ TakeDown(m)
    BY <1>1, <2>1 DEF DropFrame, RelayPacket, TakeDown, routing, config, eeprom
  <2> QED
    BY <1>2, <1>3, <1>4, <1>7, <2>1 DEF FrameHandlers
<1>8. ASSUME NEW m \in Node, Transmitters(m) PROVE Durable(n)'
  <2>1. \/ UNCHANGED <<interval, pathnode, saved, torn>>
        \/ (\E rx : Restarts(m, rx)) /\ UNCHANGED <<saved, torn>>
    BY <1>8 DEF Transmitters, TransmitBroadcast, TransmitUnicast, routing, config, eeprom
  <2> QED
    BY <1>1, <1>5, <2>1
<1>9. CASE TakeUp \/ SerialTask \/ \E u \in Uploads : AppUploads(u[1], u[2])
  BY <1>1, <1>9 DEF TakeUp, SerialTask, AppUploads, routing, config, eeprom
<1> QED
  BY <1>6, <1>7, <1>8, <1>9 DEF Next

(* Every step keeps it.                                                       *)
LEMMA NextDurable ==
  ASSUME RouteInv, DurableInv, [Next]_vars PROVE DurableInv'
<1>1. CASE Next
  <2>0. SavesRD /\ SavesRD'
    BY <1>1, NextSaves DEF DurableInv
  <2> SUFFICES ASSUME NEW n \in Node,
                      Answered(n, "RD")' \/ \E p : InFlight(p)' /\ AnswersRD(n, p)
               PROVE  Durable(n)'
    BY <2>0 DEF DurableInv, AnswersRD
  <2>1. CASE Answered(n, "RD")'
    <3>1. PICK r \in handled'[SINKADDRESS] :
            r.type = "CMD_ACK" /\ r.src = n /\ r.arg = "RD"
      BY <2>1 DEF Answered
    <3>2. \/ r \in handled[SINKADDRESS]
          \/ \E p : /\ InFlight(p) /\ r.type = p.type /\ r.src = p.src
                   /\ r.arg \in {p.arg, "RB", NoArg}
      BY <1>1, <3>1, Constants, NewHandled
    <3>3. \/ Answered(n, "RD")
          \/ \E p : InFlight(p) /\ AnswersRD(n, p)
      BY <3>1, <3>2 DEF Answered, AnswersRD, NoArg
    <3> QED
      BY <1>1, <2>0, <3>3, StaysDurable DEF DurableInv
  <2>2. CASE \E p : InFlight(p)' /\ AnswersRD(n, p)
    <3>1. PICK p : InFlight(p)' /\ AnswersRD(n, p)
      BY <2>2
    <3>2. CASE InFlight(p)
      BY <1>1, <2>0, <3>1, <3>2, StaysDurable DEF DurableInv
    <3>3. CASE AnswerRD(n)
      <4>1. /\ UNCHANGED <<pathnode, interval>> /\ saved'[n] = Configuration(n) /\ saving[n]
        BY <3>3, SaveRoute DEF AnswerRD
      <4> QED
        BY <2>0, <4>1, ConfigurationSaved DEF SavesRD, Durable
    <3> QED
      BY <1>1, <3>1, <3>2, <3>3, NewPacket DEF Upload, Command, AnswersRD, Answers
  <2> QED
    BY <2>1, <2>2
<1>2. CASE UNCHANGED vars
  BY <1>2 DEF DurableInv, SavesRD, InFlight, AnswersRD, Answered, Durable, vars, queues, routing,
     config, eeprom, history
<1> QED
  BY <1>1, <1>2

(* An RD command that was answered was obeyed, and no reset, reboot, later    *)
(* command or broadcast takes from the node the interval it was given or      *)
(* leaves it without a path: none but a reset that came while a later RD was  *)
(* saving something else, after which LoadCONFIG refuses the EEPROM.          *)
THEOREM AnsweredRDIsDurable == Spec => []RouteDownIsDurable
<1>1. Init => DurableInv
  <2> SUFFICES ASSUME Init PROVE DurableInv
    OBVIOUS
  <2>1. /\ \A n \in Node : rxqueue[n] = << >> /\ txqueue[n] = << >> /\ ~saving[n]
        /\ handled[SINKADDRESS] = {}
    BY Constants DEF Init
  <2> QED
    BY <2>1, NoQueue DEF DurableInv, SavesRD, InFlight, Answered
<1>2. RouteInv /\ DurableInv /\ [Next]_vars => RouteInv' /\ DurableInv'
  BY NextRoute, NextDurable
<1>3. DurableInv => RouteDownIsDurable
  <2> SUFFICES ASSUME DurableInv, NEW t \in Orders("RD"), Answered(Last(t.nodes), "RD")
               PROVE  \/ torn[Last(t.nodes)]
                      \/ /\ interval[Last(t.nodes)] = NewInterval
                         /\ pathnode[Last(t.nodes)] # << >>
    BY DEF RouteDownIsDurable
  <2>1. t \in Task /\ t.type = "RD"
    <3>1. Computer \in Seq(Task) /\ DOMAIN Computer = 1..Len(Computer)
      BY Constants, LenProperties
    <3> QED
      BY <3>1, ElementOfSeq DEF Orders, ToSet
  <2>2. t.nodes \in Seq(Node \ {SINKADDRESS}) /\ t.nodes # << >>
    BY <2>1 DEF Task
  <2>3. Last(t.nodes) \in Node
    BY <2>2, LenProperties, EmptySeq, ElementOfSeq DEF Last
  <2> QED
    BY <2>3 DEF DurableInv, Durable
<1> QED
  BY <1>1, <1>2, <1>3, InitRoute, PTL DEF Spec
-----------------------------------------------------------------------------
(* Paths that are routes.                                                    *)

\* The first k hops of a list, from the sink on, are links.
Reached(nodes, k) ==
  \A i \in 1..k : <<IF i = 1 THEN SINKADDRESS ELSE nodes[i - 1], nodes[i]>> \in Link
\* A path of node n is a chain of links.
IsRoute(n, s) ==
  \A i \in DOMAIN s : <<IF i = 1 THEN n ELSE s[i - 1], s[i]>> \in Link

\* A command is only where its list has led it link by link, and only the sink
\* sends a route broadcast that has passed nobody.
CameTo(n, from, p) ==
  /\ p.type \in Command => Reached(p.nodes, NodeIndex(n, p))
  /\ p.type = "RB" /\ Len(p.nodes) = 1 => from = SINKADDRESS
GoesTo(n, to, p) ==
  /\ p.type \in Command =>
       \E k \in 1..Len(p.nodes) :
         /\ p.nodes[k] = to /\ Reached(p.nodes, k - 1)
         /\ n = IF k = 1 THEN SINKADDRESS ELSE p.nodes[k - 1]
  /\ p.type = "RB" /\ Len(p.nodes) = 1 => n = SINKADDRESS
QueuesLed ==
  \A n \in Node : /\ \A f \in ToSet(rxqueue[n]) : CameTo(n, f.from, f.packet)
                  /\ \A e \in ToSet(txqueue[n]) : GoesTo(n, e.to, e.packet)

\* A path begins with a link, if there is one.
Begins(n, s) == s # << >> => <<n, s[1]>> \in Link
PathsBegin == \A n \in Node : Begins(n, pathnode[n]) /\ Begins(n, saved[n].path)

(* Every path begins with a link.                                             *)
BeginInv == QueuesLed /\ PathsBegin

PathsLed == \A n \in Node : IsRoute(n, pathnode[n]) /\ IsRoute(n, saved[n].path)
TasksLeft == \A t \in ToSet(tasks) : t \in ToSet(Computer)

(* Every hop of every path is one, as long as there are commands alone.        *)
LedInv == QueuesLed /\ PathsLed /\ Never("RB") /\ TasksLeft

(* A list that has led a command to a node teaches the node a route.          *)
LEMMA LedTeaches ==
  ASSUME NEW n \in Node, NEW p \in Unicasts, n \in ToSet(p.nodes),
         Reached(p.nodes, NodeIndex(n, p))
  PROVE  IsRoute(n, RouteUp(Hops(n, p)))
<1>1. PICK x : x = NodeIndex(n, p)
  OBVIOUS
<1>2. PICK s : s = p.nodes
  OBVIOUS
<1>3. PICK h : h = Hops(n, p)
  OBVIOUS
<1>4. x \in 1..Len(s) /\ Len(s) \in Nat /\ s[x] = n
  BY <1>1, <1>2, NodeFound
<1>5. Len(h) = x /\ \A i \in 1..x : h[i] = s[i]
  BY <1>1, <1>2, <1>3, HopsTaught
<1>6. x \in Nat /\ 1 <= x
  BY <1>4
<1>7. PICK r : r = RouteUp(h)
  OBVIOUS
<1>8. /\ DOMAIN r = 1..x
      /\ \A k \in 1..x : r[k] = IF k = x THEN SINKADDRESS ELSE h[x - k]
  BY <1>5, <1>7 DEF RouteUp
<1>9. \A i \in 1..x :
        <<IF i = 1 THEN SINKADDRESS ELSE s[i - 1], s[i]>> \in Link
  BY <1>1, <1>2 DEF Reached
<1>10. ASSUME NEW i \in 1..x
       PROVE  <<IF i = 1 THEN n ELSE r[i - 1], r[i]>> \in Link
  <2>1. PICK j \in 1..x : j = x - i + 1
    BY <1>6
  <2>2. PICK a : a = IF i = 1 THEN n ELSE r[i - 1]
    OBVIOUS
  <2>3. PICK b : b = r[i]
    OBVIOUS
  <2>4. a = s[j]
    <3>1. CASE i = 1
      BY <1>4, <1>6, <2>1, <2>2, <3>1
    <3>2. CASE i # 1
      <4>1. i - 1 \in 1..x /\ i - 1 # x /\ x - (i - 1) = j
        BY <1>6, <2>1, <3>2
      <4>2. r[i - 1] = h[j]
        BY <1>8, <4>1
      <4> QED
        BY <1>5, <2>1, <2>2, <3>2, <4>2
    <3> QED
      BY <3>1, <3>2
  <2>5. b = IF j = 1 THEN SINKADDRESS ELSE s[j - 1]
    <3>1. CASE i = x
      <4>1. j = 1
        BY <1>6, <2>1, <3>1
      <4> QED
        BY <1>8, <2>3, <3>1, <4>1
    <3>2. CASE i # x
      <4>1. j # 1 /\ j - 1 \in 1..x /\ x - i = j - 1
        BY <1>6, <2>1, <3>2
      <4>2. r[i] = h[j - 1]
        BY <1>8, <3>2, <4>1
      <4> QED
        BY <1>5, <2>3, <4>1, <4>2
    <3> QED
      BY <3>1, <3>2
  <2>6. <<b, a>> \in Link
    BY <1>9, <2>4, <2>5
  <2>7. <<a, b>> \in Link
    <3>1. a \in Node /\ b \in Node
      BY <2>6, RouteAssumption
    <3> QED
      BY <2>6, <3>1, Constants
  <2> QED
    BY <2>2, <2>3, <2>7
<1> QED
  BY <1>3, <1>7, <1>8, <1>10 DEF IsRoute

(* A handler that queues only what goes where it should keeps the queues so.   *)
LEMMA MovedLed ==
  ASSUME QueuesLed, NEW n \in Node, NEW E, Moved(n, E),
         \A e \in E : GoesTo(n, e.to, e.packet)
  PROVE  QueuesLed'
<1>1. ASSUME NEW m \in Node, NEW f \in ToSet(rxqueue'[m]) PROVE CameTo(m, f.from, f.packet)
  BY DEF Moved, QueuesLed
<1>2. ASSUME NEW m \in Node, NEW e \in ToSet(txqueue'[m]) PROVE GoesTo(m, e.to, e.packet)
  BY DEF Moved, QueuesLed
<1> QED
  BY <1>1, <1>2 DEF QueuesLed, CameTo, GoesTo, Reached, NodeIndex

(* A neighbour that hears a packet is one link further down its list.          *)
LEMMA CarriedLed ==
  ASSUME RouteInv, QueuesLed, NEW n \in Node, Carried(n)
  PROVE  QueuesLed'
<1>1. ASSUME NEW m \in Node, NEW f \in ToSet(rxqueue'[m]) PROVE CameTo(m, f.from, f.packet)
  <2>1. CASE f \in ToSet(rxqueue[m])
    BY <2>1 DEF QueuesLed
  <2>2. CASE /\ m \in Neighbours(n) /\ f.from = n
             /\ \E e \in ToSet(txqueue[n]) :
                  e.to \in {m, BROADCASTADDR} /\ f.packet = e.packet
    <3>1. PICK e \in ToSet(txqueue[n]) :
            e.to \in {m, BROADCASTADDR} /\ f.packet = e.packet
      BY <2>2
    <3>2. GoesTo(n, e.to, e.packet) /\ e \in TxEntries(n)
      BY <3>1, InQueue DEF QueuesLed, RouteInv, QueuesOK
    <3>3. PICK p : p = e.packet
      OBVIOUS
    <3>4. ASSUME p.type \in Command
          PROVE  p \in Unicasts /\ e.to = m /\ m \in ToSet(p.nodes)
      <4>1. e \notin [to : {BROADCASTADDR}, packet : Floods]
        BY <3>3, <3>4, Constants DEF Floods
      <4>2. e.to \in Node /\ e.packet \in Unicasts /\ e.to \in ToSet(e.packet.nodes)
        BY <3>2, <4>1 DEF TxEntries
      <4> QED
        BY <3>1, <3>3, <4>2, Constants
    <3>5. ASSUME p.type \in Command PROVE Reached(p.nodes, NodeIndex(m, p))
      <4>1. PICK k \in 1..Len(p.nodes) :
              /\ p.nodes[k] = m /\ Reached(p.nodes, k - 1)
              /\ n = IF k = 1 THEN SINKADDRESS ELSE p.nodes[k - 1]
        BY <3>2, <3>3, <3>4, <3>5 DEF GoesTo
      <4>2. PICK x : x = NodeIndex(m, p)
        OBVIOUS
      <4>3. /\ x \in 1..Len(p.nodes) /\ Len(p.nodes) \in Nat
            /\ \A j \in 1..(x - 1) : p.nodes[j] # m
        BY <3>4, <3>5, <4>2, NodeFound
      <4>4. x <= k
        BY <4>1, <4>3
      <4>5. <<n, m>> \in Link
        BY <2>2 DEF Neighbours
      <4>6. ASSUME NEW i \in 1..k
            PROVE  <<IF i = 1 THEN SINKADDRESS ELSE p.nodes[i - 1], p.nodes[i]>> \in Link
        <5>1. CASE i = k
          BY <4>1, <4>5, <5>1
        <5>2. CASE i # k
          <6>1. i \in 1..(k - 1)
            BY <5>2
          <6> QED
            BY <4>1, <6>1 DEF Reached
        <5> QED
          BY <5>1, <5>2
      <4>7. \A i \in 1..x : i \in 1..k
        BY <4>3, <4>4
      <4> QED
        BY <4>2, <4>6, <4>7 DEF Reached
    <3>6. p.type = "RB" /\ Len(p.nodes) = 1 => f.from = SINKADDRESS
      BY <2>2, <3>2, <3>3 DEF GoesTo
    <3> QED
      BY <3>1, <3>3, <3>5, <3>6 DEF CameTo
  <2> QED
    BY <2>1, <2>2 DEF Carried
<1>2. ASSUME NEW m \in Node, NEW e \in ToSet(txqueue'[m]) PROVE GoesTo(m, e.to, e.packet)
  BY DEF Carried, QueuesLed
<1> QED
  BY <1>1, <1>2 DEF QueuesLed, CameTo, GoesTo, Reached, NodeIndex

(* Every step keeps a command where its list has led it.                      *)
LEMMA NextQueuesLed ==
  ASSUME RouteInv, QueuesLed, Next
  PROVE  QueuesLed'
<1>1. /\ SINKADDRESS \in Node /\ "RB" \notin Command
      /\ \A x \in Upload \cup {"CMD_ACK", "DU_ACK", "RU"} : x \notin Command /\ x # "RB"
  BY Constants DEF Command, Upload
<1>2. ASSUME NEW n \in Node, NEW to, NEW p, p.type \in Upload \cup {"CMD_ACK", "DU_ACK", "RU"}
      PROVE  GoesTo(n, to, p)
  BY <1>1, <1>2 DEF GoesTo
<1>3. ASSUME NEW n \in Node, rxqueue[n] # << >> PROVE CameTo(n, From(n), Current(n))
  <2>1. Head(rxqueue[n]) \in ToSet(rxqueue[n])
    BY <1>3, TailQueue DEF RouteInv, QueuesOK
  <2> QED
    BY <2>1 DEF QueuesLed, Current, From
<1>4. ASSUME NEW n \in Node, DropFrame(n) PROVE QueuesLed'
  BY <1>4, DropRoute, MovedLed
<1>5. ASSUME NEW n \in Node, RelayPacket(n) PROVE QueuesLed'
  <2>1. PICK p : p = Current(n)
    OBVIOUS
  <2> DEFINE e == [to |-> NextHop(n, p), packet |-> p]
  <2>2. Moved(n, {e}) /\ p \in Unicasts /\ n \in ToSet(p.nodes) /\ n # p.dest
    BY <1>5, <2>1, RelayRoute
  <2>3. CameTo(n, From(n), p) /\ p.type # "RB"
    BY <1>3, <1>5, <2>1, <2>2, Constants DEF RelayPacket, Unicasts
  <2>4. PICK x : x = NodeIndex(n, p)
    OBVIOUS
  <2>5. x \in 1..Len(p.nodes) /\ Len(p.nodes) \in Nat /\ x < Len(p.nodes) /\ p.nodes[x] = n
    BY <2>2, <2>4, NodeFound
  <2>6. x + 1 \in 1..Len(p.nodes) /\ (x + 1) - 1 = x /\ x + 1 # 1
    BY <2>5
  <2>7. ASSUME p.type \in Command PROVE Reached(p.nodes, (x + 1) - 1)
    BY <2>3, <2>4, <2>6, <2>7 DEF CameTo
  <2>8. GoesTo(n, NextHop(n, p), p)
    BY <2>3, <2>4, <2>5, <2>6, <2>7 DEF CameTo, GoesTo, NextHop
  <2>9. \A d \in {e} : GoesTo(n, d.to, d.packet)
    BY <2>8
  <2> HIDE DEF e
  <2> QED
    BY <2>2, <2>9, MovedLed
<1>6. ASSUME NEW n \in Node, HandleRB(n) PROVE QueuesLed'
  <2>1. PICK E : Moved(n, E) /\ \A e \in E : FloodsOn(Current(n), e.packet)
    BY <1>6, FloodRoute
  <2>2. \A e \in E : GoesTo(n, e.to, e.packet)
    BY <1>1, <2>1 DEF GoesTo, FloodsOn
  <2> QED
    BY <2>1, <2>2, MovedLed
<1>7. ASSUME NEW n \in Node, ObeyCommand(n) PROVE QueuesLed'
  <2>1. PICK E : Moved(n, E) /\ \A e \in E : e.packet.type = "CMD_ACK"
    BY <1>7, ObeyRoute
  <2> QED
    BY <1>2, <2>1, MovedLed
<1>8. ASSUME NEW n \in Node, TakeDown(n) PROVE QueuesLed'
  <2>1. PICK E : Moved(n, E) /\ \A e \in E : e.packet.type = "CMD_ACK"
    BY <1>8, DownRoute
  <2> QED
    BY <1>2, <2>1, MovedLed
<1>9. ASSUME TakeUp PROVE QueuesLed'
  <2>1. PICK E : Moved(SINKADDRESS, E) /\ \A e \in E : e.packet.type = "DU_ACK"
    BY <1>9, UpRoute
  <2> QED
    BY <1>1, <1>2, <2>1, MovedLed
<1>10. ASSUME NEW n \in Node, NEW type \in Upload, AppUploads(n, type) PROVE QueuesLed'
  <2>1. PICK E : Moved(n, E) /\ \A e \in E : e.packet.type = type
    BY <1>10, AppRoute
  <2> QED
    BY <1>2, <2>1, MovedLed
<1>11. ASSUME SerialTask PROVE QueuesLed'
  <2>1. PICK t \in Task : t = Head(tasks)
    BY <1>11, SerialRoute
  <2> DEFINE e == [to |-> Head(OrderPacket(t).nodes), packet |-> OrderPacket(t)]
  <2>2. Moved(SINKADDRESS, {e})
    BY <1>11, <2>1, SerialRoute
  <2>3. ASSUME t.type # "RB" PROVE GoesTo(SINKADDRESS, Head(OrderPacket(t).nodes), OrderPacket(t))
    <3>1. PICK s : s = t.nodes /\ OrderPacket(t).nodes = s
      BY <2>3 DEF OrderPacket, Packet
    <3>2. s \in Seq(Node \ {SINKADDRESS}) /\ s # << >> /\ OrderPacket(t).type # "RB"
      BY <2>3, <3>1 DEF Task, OrderPacket, Packet
    <3>3. 1 \in 1..Len(s) /\ Head(s) = s[1]
      BY <3>2, LenProperties, EmptySeq, HeadTailProperties
    <3>4. Reached(s, 1 - 1)
      BY DEF Reached
    <3> QED
      BY <3>1, <3>2, <3>3, <3>4 DEF GoesTo
  <2>4. ASSUME t.type = "RB" PROVE GoesTo(SINKADDRESS, Head(OrderPacket(t).nodes), OrderPacket(t))
    <3>1. OrderPacket(t).type = "RB"
      BY <2>4 DEF OrderPacket, Packet
    <3> QED
      BY <1>1, <3>1 DEF GoesTo
  <2>5. \A d \in {e} : GoesTo(SINKADDRESS, d.to, d.packet)
    BY <2>3, <2>4
  <2> HIDE DEF e
  <2> QED
    BY <1>1, <2>2, <2>5, MovedLed
<1>12. ASSUME NEW n \in Node, Transmitters(n) \/ WatchdogReset(n) PROVE QueuesLed'
  BY <1>12, BroadcastRoute, UnicastRoute, ResetRoute, CarriedLed DEF Transmitters
<1>15. ASSUME NEW n \in Node, AnswerRD(n) PROVE QueuesLed'
  <2>1. PICK E : Moved(n, E) /\ \A e \in E : e.packet.type = "CMD_ACK"
    BY <1>15, SaveRoute
  <2> QED
    BY <1>2, <2>1, MovedLed
<1>13. ASSUME NEW n \in Node, FrameHandlers(n) PROVE QueuesLed'
  BY <1>4, <1>5, <1>6, <1>7, <1>8, <1>13, <1>15 DEF FrameHandlers
<1>14. ASSUME NEW u \in Uploads, AppUploads(u[1], u[2]) PROVE QueuesLed'
  BY <1>10, <1>14, UploadsTyped
<1> QED
  BY <1>9, <1>11, <1>12, <1>13, <1>14 DEF Next

(* The path a command teaches is a route; the one of a route broadcast begins  *)
(* with a link.  Other paths are kept or come back from the EEPROM.            *)
LEMMA NextPaths ==
  ASSUME RouteInv, QueuesLed, Next, NEW n \in Node
  PROVE  /\ \/ pathnode'[n] \in {pathnode[n], saved[n].path, << >>}
            \/ IsRoute(n, pathnode'[n]) /\ pathnode'[n] # << >>
            \/ /\ Begins(n, pathnode'[n])
               /\ \E p : InFlight(p) /\ p.type = "RB"
         /\ saved'[n].path \in {saved[n].path, pathnode[n], << >>}
<1> DEFINE Kept == pathnode'[n] = pathnode[n] /\ saved'[n].path = saved[n].path
<1>1. DOMAIN pathnode = Node /\ DOMAIN saved = Node
  BY DEF RouteInv, PathsOK
<1>2. ASSUME NEW m \in Node, rxqueue[m] # << >>
      PROVE  CameTo(m, From(m), Current(m))
  <2>1. Head(rxqueue[m]) \in ToSet(rxqueue[m])
    BY <1>2, TailQueue DEF RouteInv, QueuesOK
  <2> QED
    BY <2>1 DEF QueuesLed, Current, From
<1>3. ASSUME HandleRB(n)
      PROVE  /\ \/ pathnode'[n] = pathnode[n]
                \/ /\ Begins(n, pathnode'[n])
                   /\ \E p : InFlight(p) /\ p.type = "RB"
             /\ saved'[n].path = saved[n].path
  <2>1. PICK p : p = Current(n)
    OBVIOUS
  <2>2. PICK from : from = From(n)
    OBVIOUS
  <2>3. /\ InFlight(p) /\ p.type = "RB" /\ CameTo(n, from, p) /\ saved' = saved
    BY <1>2, <1>3, <2>1, <2>2, CurrentInFlight DEF HandleRB, config, eeprom
  <2>4. /\ p \in Floods /\ <<n, from>> \in Link
        /\ pathnode'[n] \in {pathnode[n], RouteBack(p.nodes, from)}
    <3>1. rxqueue[n] # << >> /\ \E arg : Handle(n, arg)
      BY <1>3 DEF HandleRB
    <3> QED
      BY <1>3, <2>1, <2>2, <3>1, FloodRoute, HandleStep DEF Neighbours
  <2>5. Len(p.nodes) \in Nat \ {0}
    BY <2>4, LenProperties, EmptySeq DEF Floods
  <2>6. RouteBack(p.nodes, from)[1] = from
    BY <2>3, <2>5 DEF RouteBack, CameTo
  <2> QED
    BY <2>3, <2>4, <2>6 DEF Begins
<1>4. ASSUME ObeyCommand(n)
      PROVE  /\ IsRoute(n, pathnode'[n]) /\ pathnode'[n] # << >>
             /\ saved'[n].path = saved[n].path
  <2>1. PICK p : p = Current(n)
    OBVIOUS
  <2>2. /\ p \in Unicasts /\ n \in ToSet(p.nodes) /\ p.type \in Command
        /\ pathnode'[n] = RouteUp(Hops(n, p)) /\ pathnode'[n] # << >>
    BY <1>4, <2>1, ObeyRoute DEF ObeyCommand
  <2>3. CameTo(n, From(n), p)
    BY <1>2, <1>4, <2>1 DEF ObeyCommand
  <2>4. IsRoute(n, RouteUp(Hops(n, p)))
    BY <2>2, <2>3, LedTeaches DEF CameTo
  <2>5. saved'[n].path = saved[n].path
    BY <1>4 DEF ObeyCommand, Obey
  <2> QED
    BY <2>2, <2>4, <2>5
<1>5. ASSUME NEW m \in Node \ {n}, HandleRB(m) \/ ObeyCommand(m) PROVE Kept
  BY <1>1, <1>5, FloodRoute, ObeyRoute DEF HandleRB, ObeyCommand, Obey, config, eeprom
<1>6. ASSUME NEW m \in Node, NEW rx, Restarts(m, rx)
      PROVE  pathnode'[n] \in {pathnode[n], saved'[n].path}
  BY <1>1, <1>6 DEF Restarts
<1>7. ASSUME NEW m \in Node, Transmitters(m) \/ WatchdogReset(m)
      PROVE  /\ pathnode'[n] \in {pathnode[n], saved[n].path, << >>}
             /\ saved'[n].path \in {saved[n].path, pathnode[n], << >>}
  <2>1. CASE Transmitters(m)
    <3>1. \/ UNCHANGED <<pathnode, saved>>
          \/ (\E rx : Restarts(m, rx)) /\ UNCHANGED saved
      BY <2>1 DEF Transmitters, TransmitBroadcast, TransmitUnicast, routing, config, eeprom
    <3> QED
      BY <1>6, <3>1
  <2>2. CASE WatchdogReset(m)
    <3>1. saved'[n].path \in {saved[n].path, pathnode[n], << >>}
      BY <2>2, StoredRoute, ConfigurationSaved DEF WatchdogReset, NoConfig
    <3> QED
      BY <1>6, <2>2, <3>1 DEF WatchdogReset
  <2> QED
    BY <1>7, <2>1, <2>2
<1>12. ASSUME NEW m \in Node, AnswerRD(m)
       PROVE  /\ pathnode'[n] = pathnode[n]
              /\ saved'[n].path \in {saved[n].path, pathnode[n]}
  BY <1>12, SaveRoute, ConfigurationSaved
<1>8. ASSUME NEW m \in Node, DropFrame(m) \/ RelayPacket(m) \/ TakeDown(m) PROVE Kept
  BY <1>8 DEF DropFrame, RelayPacket, TakeDown, routing, config, eeprom
<1>9. CASE TakeUp \/ SerialTask \/ \E u \in Uploads : AppUploads(u[1], u[2])
  BY <1>9 DEF TakeUp, SerialTask, AppUploads, routing, config, eeprom
<1> HIDE DEF Kept
<1>10. ASSUME NEW m \in Node, FrameHandlers(m)
       PROVE  Kept \/ AnswerRD(m) \/ (m = n /\ (HandleRB(m) \/ ObeyCommand(m)))
  BY <1>5, <1>8, <1>10 DEF FrameHandlers
<1>11. CASE \E m \in Node : FrameHandlers(m)
  BY <1>3, <1>4, <1>10, <1>11, <1>12 DEF Kept
<1> QED
  BY <1>7, <1>9, <1>11 DEF Next

(* The computer sends its orders from the first to the last.                   *)
LEMMA OrderGiven ==
  ASSUME RouteInv, TasksLeft, SerialTask
  PROVE  /\ Head(tasks) \in ToSet(Computer)
         /\ 1 \in DOMAIN tasks /\ Head(tasks) = tasks[1]
         /\ \A i \in DOMAIN tasks' : i + 1 \in DOMAIN tasks /\ tasks'[i] = tasks[i + 1]
<1>1. PICK s : s = tasks
  OBVIOUS
<1>2. s \in Seq(Task) /\ s # << >> /\ tasks' = Tail(s)
  BY <1>1 DEF SerialTask, RouteInv, OutsideOK
<1>3. /\ DOMAIN s = 1..Len(s) /\ Len(s) \in Nat \ {0} /\ Head(s) = s[1]
      /\ Tail(s) \in Seq(Task) /\ Len(Tail(s)) = Len(s) - 1
      /\ \A i \in 1..Len(Tail(s)) : Tail(s)[i] = s[i + 1]
  BY <1>2, LenProperties, EmptySeq, HeadTailProperties
<1>4. DOMAIN Tail(s) = 1..(Len(s) - 1)
  BY <1>3, LenProperties
<1>5. \A i \in DOMAIN Tail(s) : i + 1 \in DOMAIN s /\ Tail(s)[i] = s[i + 1]
  BY <1>3, <1>4
<1>6. 1 \in DOMAIN s /\ s[1] \in ToSet(s)
  BY <1>3 DEF ToSet
<1>7. \A t \in ToSet(s) : t \in ToSet(Computer)
  BY <1>1 DEF TasksLeft
<1> QED
  BY <1>1, <1>2, <1>3, <1>5, <1>6, <1>7

(* Nobody but the computer's side takes an order.                             *)
LEMMA TasksAreTheComputers ==
  ASSUME Next PROVE SerialTask \/ UNCHANGED tasks
<1>1. ASSUME NEW n \in Node, FrameHandlers(n) PROVE UNCHANGED tasks
  BY <1>1 DEF FrameHandlers, DropFrame, RelayPacket, HandleRB, ObeyCommand, TakeDown,
     AnswerRD, outside
<1>2. ASSUME NEW n \in Node, TransmitBroadcast(n) PROVE UNCHANGED tasks
  BY <1>2 DEF TransmitBroadcast, outside
<1>3. ASSUME NEW n \in Node, TransmitUnicast(n) PROVE UNCHANGED tasks
  BY <1>3 DEF TransmitUnicast, outside
<1>4. ASSUME NEW n \in Node, WatchdogReset(n) PROVE UNCHANGED tasks
  BY <1>4 DEF WatchdogReset
<1>5. ASSUME TakeUp PROVE UNCHANGED tasks
  BY <1>5 DEF TakeUp, outside
<1>6. ASSUME NEW u \in Uploads, AppUploads(u[1], u[2]) PROVE UNCHANGED tasks
  BY <1>6 DEF AppUploads
<1> QED
  BY <1>1, <1>2, <1>3, <1>4, <1>5, <1>6 DEF Next, Transmitters

(* What is left of them are orders.                                            *)
LEMMA NextTasks ==
  ASSUME RouteInv, TasksLeft, Next PROVE TasksLeft'
<1>1. CASE SerialTask
  <2>1. \A i \in DOMAIN tasks' : i + 1 \in DOMAIN tasks /\ tasks'[i] = tasks[i + 1]
    BY <1>1, OrderGiven
  <2>2. \A i \in DOMAIN tasks : tasks[i] \in ToSet(Computer)
    BY DEF TasksLeft, ToSet
  <2>3. \A i \in DOMAIN tasks' : tasks'[i] \in ToSet(Computer)
    BY <2>1, <2>2
  <2>4. PICK q : q = tasks'
    OBVIOUS
  <2>5. \A t \in ToSet(q) : t \in ToSet(Computer)
    BY <2>3, <2>4 DEF ToSet
  <2> QED
    BY <2>4, <2>5 DEF TasksLeft
<1>2. ASSUME UNCHANGED tasks PROVE TasksLeft'
  BY <1>2 DEF TasksLeft
<1>3. SerialTask \/ UNCHANGED tasks
  BY TasksAreTheComputers
<1> QED
  BY <1>1, <1>2, <1>3

(* Without an order for one there never is a packet of such a type.            *)
LEMMA NextNever ==
  ASSUME RouteInv, TasksLeft, Next, NEW type \in Command \cup {"RB"},
         Orders(type) = {}, Never(type)
  PROVE  Never(type)'
<1>1. ASSUME SerialTask, NEW p, p = OrderPacket(Head(tasks)) PROVE p.type # type
  <2>1. PICK t \in ToSet(Computer) : t = Head(tasks)
    BY <1>1, OrderGiven
  <2> QED
    BY <1>1, <2>1 DEF Orders, OrderPacket, Packet
<1>2. ASSUME NEW p, InFlight(p)' PROVE p.type # type
  BY <1>1, <1>2, NewPacket DEF Never, Upload, Command
<1> QED
  BY <1>2 DEF Never

(* Every step keeps BeginInv.                                                  *)
LEMMA NextBegin ==
  ASSUME RouteInv, BeginInv, [Next]_vars PROVE BeginInv'
<1>1. CASE Next
  <2>1. ASSUME NEW n \in Node PROVE Begins(n, pathnode'[n]) /\ Begins(n, saved'[n].path)
    <3>1. Begins(n, pathnode[n]) /\ Begins(n, saved[n].path)
      BY DEF BeginInv, PathsBegin
    <3>2. ASSUME IsRoute(n, pathnode'[n]), pathnode'[n] # << >>
          PROVE  Begins(n, pathnode'[n])
      <4>1. PICK s : s = pathnode'[n]
        OBVIOUS
      <4>2. s \in Seq(Node)
        BY <1>1, <4>1, NextRoute DEF RouteInv, PathsOK, Paths
      <4>3. 1 \in DOMAIN s
        BY <3>2, <4>1, <4>2, LenProperties, EmptySeq
      <4> QED
        BY <3>2, <4>1, <4>3 DEF IsRoute, Begins
    <3>3. Begins(n, << >>)
      BY DEF Begins
    <3>4. Begins(n, pathnode'[n])
      BY <1>1, <3>1, <3>2, <3>3, NextPaths DEF BeginInv
    <3> QED
      BY <1>1, <3>1, <3>3, <3>4, NextPaths DEF BeginInv
  <2>2. PathsBegin'
    BY <2>1 DEF PathsBegin, Begins
  <2> QED
    BY <1>1, <2>2, NextQueuesLed DEF BeginInv
<1>2. CASE UNCHANGED vars
  BY <1>2 DEF BeginInv, QueuesLed, PathsBegin, Begins, CameTo, GoesTo, Reached, NodeIndex,
     vars, queues, routing, config, eeprom
<1> QED
  BY <1>1, <1>2

(* Initially the queues are empty and no node has a path.                      *)
LEMMA InitLed ==
  ASSUME Init PROVE BeginInv /\ LedInv
<1>1. /\ \A n \in Node : /\ rxqueue[n] = << >> /\ txqueue[n] = << >>
                         /\ pathnode[n] = << >> /\ saved[n].path = << >>
      /\ tasks = Computer
  BY DEF Init, NoConfig
<1>2. \A n \in Node : IsRoute(n, << >>) /\ Begins(n, << >>)
  BY DEF IsRoute, Begins
<1> QED
  BY <1>1, <1>2, NoQueue DEF BeginInv, LedInv, QueuesLed, PathsBegin, PathsLed, Never,
     InFlight, TasksLeft

(* Whatever broadcasts cross whatever commands, a node with a path has a       *)
(* neighbour as its next hop, so that what it uploads can be heard by the node *)
(* it is for.  (The hops after it can be wrong: see RecordedPathIsRoute.)      *)
THEOREM NextHopIsNeighbour ==
  Spec => [](\A n \in Node : pathnode[n] # << >> => pathnode[n][1] \in Neighbours(n))
<1>1. ASSUME NEW n \in Node, NEW m, <<n, m>> \in Link PROVE m \in Neighbours(n)
  <2>1. <<n, m>> \in Node \X Node
    BY <1>1, RouteAssumption
  <2> QED
    BY <1>1, <2>1 DEF Neighbours
<1>2. BeginInv => \A n \in Node : pathnode[n] # << >> => pathnode[n][1] \in Neighbours(n)
  BY <1>1 DEF BeginInv, PathsBegin, Begins
<1>3. RouteInv /\ BeginInv /\ [Next]_vars => RouteInv' /\ BeginInv'
  BY NextRoute, NextBegin
<1> QED
  BY <1>2, <1>3, InitRoute, InitLed, PTL DEF Spec

(* When the computer sends commands and no route broadcast, every path a node *)
(* holds, in its memory or its EEPROM, is a chain of links that leads to the  *)
(* sink.  (A route broadcast records a path that is off by one from the       *)
(* second hop on, so the condition cannot be dropped.)                        *)
THEOREM CommandsTeachRoutes ==
  ASSUME Orders("RB") = {}
  PROVE  Spec => []RecordedPathIsRoute
<1>1. RouteInv /\ LedInv /\ [Next]_vars => RouteInv' /\ LedInv'
  <2> SUFFICES ASSUME RouteInv, LedInv, [Next]_vars PROVE LedInv'
    BY NextRoute
  <2>1. CASE Next
    <3>1. ASSUME NEW n \in Node PROVE IsRoute(n, pathnode'[n]) /\ IsRoute(n, saved'[n].path)
      <4>1. IsRoute(n, << >>)
        BY DEF IsRoute
      <4>2. IsRoute(n, pathnode'[n])
        BY <2>1, <4>1, NextPaths DEF LedInv, PathsLed, Never
      <4> QED
        BY <2>1, <4>1, <4>2, NextPaths DEF LedInv, PathsLed
    <3>2. PathsLed'
      BY <3>1 DEF PathsLed, IsRoute
    <3> QED
      BY <2>1, <3>2, NextQueuesLed, NextTasks, NextNever DEF LedInv
  <2>2. CASE UNCHANGED vars
    BY <2>2 DEF LedInv, QueuesLed, PathsLed, Never, InFlight, TasksLeft, CameTo, GoesTo,
       Reached, NodeIndex, IsRoute, vars, queues, routing, config, eeprom, outside
  <2> QED
    BY <2>1, <2>2
<1>2. LedInv => RecordedPathIsRoute
  BY DEF LedInv, PathsLed, IsRoute, RecordedPathIsRoute
<1> QED
  BY <1>1, <1>2, InitRoute, InitLed, PTL DEF Spec
-----------------------------------------------------------------------------
(* Without restarts: what one order does everywhere.                         *)

\* Nobody is told to reboot, and nobody answers that he will.
NoReboot ==
  /\ Never("REBOOT")
  /\ \A p : InFlight(p) /\ p.type = "CMD_ACK" => p.arg # "REBOOT"

(* Without an order for it, that remains so.                                  *)
LEMMA NextNoReboot ==
  ASSUME RouteInv, NoReboot, TasksLeft, Orders("REBOOT") = {}, Next
  PROVE  NoReboot'
<1>1. "REBOOT" \in Command
  BY DEF Command
<1>2. ASSUME NEW n \in Node, ObeyCommand(n) PROVE Current(n).type # "REBOOT"
  BY <1>2, CurrentInFlight DEF ObeyCommand, NoReboot, Never
<1>3. ASSUME NEW p, InFlight(p)', p.type = "CMD_ACK" PROVE p.arg # "REBOOT"
  BY <1>2, <1>3, NewPacket DEF NoReboot, Upload, Command
<1> QED
  BY <1>1, <1>3, NextNever DEF NoReboot

(* A transmission then changes nothing but queues, and the watchdog is quiet. *)
LEMMA NoRestart ==
  ASSUME RouteInv, NoReboot, MaxReset = 0, NEW n \in Node
  PROVE  /\ Transmitters(n) => UNCHANGED <<routing, config, history>>
         /\ ~WatchdogReset(n)
<1>1. ~WatchdogReset(n)
  BY DEF WatchdogReset, RouteInv, OutsideOK
<1>2. ASSUME TransmitBroadcast(n) PROVE UNCHANGED <<routing, config, history>>
  BY <1>2 DEF TransmitBroadcast
<1>3. ASSUME TransmitUnicast(n) PROVE UNCHANGED <<routing, config, history>>
  <2>1. Head(txqueue[n]) \in ToSet(txqueue[n])
    BY <1>3, TailQueue DEF TransmitUnicast, RouteInv, QueuesOK
  <2>2. LET f == Head(txqueue[n]) IN ~(f.packet.type = "CMD_ACK" /\ f.packet.arg = "REBOOT")
    BY <2>1 DEF NoReboot, InFlight
  <2> QED
    BY <1>3, <2>2 DEF TransmitUnicast
<1> QED
  BY <1>1, <1>2, <1>3 DEF Transmitters

\* The node has passed a route broadcast on.
Passed(n) == \E r \in handled[n] : r.type = "RB" /\ r.arg = "RB"

\* At most one of these is an order for a route broadcast.
OneRB(s) ==
  \A i, j \in DOMAIN s : s[i].type = "RB" /\ s[j].type = "RB" => i = j

(* There is one sequence number of route broadcasts, which a node that has    *)
(* passed one on remembers.                                                   *)
FloodInv ==
  /\ OneRB(tasks)
  /\ \A p : InFlight(p) /\ p.type = "RB" =>
       /\ \A q : InFlight(q) /\ q.type = "RB" => q.seq = p.seq
       /\ \A n \in Node : Passed(n) => lastrbseq[n] = p.seq
  /\ (\E i \in DOMAIN tasks : tasks[i].type = "RB") =>
       Never("RB") /\ \A n \in Node : ~Passed(n)
  /\ DOMAIN again = Node /\ BroadcastOnce

(* What a node has passed on, and more than once.                             *)
LEMMA NewPassed ==
  ASSUME RouteInv, FloodInv, NoReboot, MaxReset = 0, Next, NEW n \in Node
  PROVE  /\ DOMAIN again' = Node
         /\ \A r \in again'[n] : ~(r.type = "RB" /\ r.arg = "RB")
         /\ \/ /\ Passed(n)' => Passed(n)
               /\ lastrbseq'[n] = lastrbseq[n]
            \/ \E p : InFlight(p) /\ p.type = "RB" /\ lastrbseq'[n] = p.seq
<1>1. /\ DOMAIN again = Node /\ DOMAIN lastrbseq = Node /\ SINKADDRESS \in Node
      /\ \A m \in Node : \A r \in again[m] : ~(r.type = "RB" /\ r.arg = "RB")
  BY Constants DEF FloodInv, BroadcastOnce, RouteInv, RegistersOK
<1>2. ASSUME NEW m \in Node, rxqueue[m] # << >>, NEW arg, Handle(m, arg),
             Current(m).type # "RB" \/ arg # "RB" \/ ~Passed(m)
      PROVE  /\ DOMAIN again' = Node
             /\ \A r \in again'[n] : ~(r.type = "RB" /\ r.arg = "RB")
  <2>1. PICK r : r = Noted(Current(m), arg)
    OBVIOUS
  <2>2. again' = [again EXCEPT ![m] = @ \cup ({r} \cap handled[m])]
    BY <1>2, <2>1 DEF Handle, Noted
  <2>3. r \in handled[m] => ~(r.type = "RB" /\ r.arg = "RB")
    BY <1>2, <2>1 DEF Noted, Passed
  <2> QED
    BY <1>1, <2>2, <2>3
<1>3. ASSUME NEW m \in Node, rxqueue[m] # << >>, NEW arg, Handle(m, arg),
             Current(m).type # "RB" \/ arg # "RB" \/ m # n
      PROVE  Passed(n)' => Passed(n)
  <2>1. /\ handled'[m] = handled[m] \cup {Noted(Current(m), arg)}
        /\ \A k \in Node \ {m} : handled'[k] = handled[k]
    BY <1>3, HandleStep
  <2> QED
    BY <1>3, <2>1 DEF Passed, Noted
<1>4. ASSUME NEW m \in Node, HandleRB(m)
      PROVE  /\ DOMAIN again' = Node
             /\ \A r \in again'[n] : ~(r.type = "RB" /\ r.arg = "RB")
             /\ \/ /\ Passed(n)' => Passed(n)
                   /\ lastrbseq'[n] = lastrbseq[n]
                \/ \E p : InFlight(p) /\ p.type = "RB" /\ lastrbseq'[n] = p.seq
  <2>1. PICK p : p = Current(m) /\ InFlight(p) /\ p.type = "RB" /\ rxqueue[m] # << >>
    BY <1>4, CurrentInFlight DEF HandleRB
  <2>2. CASE NewRB(m, p)
    <3>1. Handle(m, "RB") /\ lastrbseq' = [lastrbseq EXCEPT ![m] = p.seq]
      BY <1>4, <2>1, <2>2 DEF HandleRB
    <3>2. ~Passed(m)
      BY <2>1, <2>2 DEF NewRB, FloodInv
    <3>3. CASE m = n
      BY <1>1, <1>2, <2>1, <3>1, <3>2, <3>3
    <3>4. CASE m # n
      BY <1>1, <1>2, <1>3, <2>1, <3>1, <3>2, <3>4
    <3> QED
      BY <3>3, <3>4
  <2>3. CASE ~NewRB(m, p)
    <3>1. Handle(m, NoArg) /\ lastrbseq' = lastrbseq /\ NoArg # "RB"
      BY <1>4, <2>1, <2>3 DEF HandleRB, NoArg
    <3> QED
      BY <1>2, <1>3, <2>1, <3>1
  <2> QED
    BY <2>2, <2>3
<1>5. ASSUME NEW m \in Node, RelayPacket(m) \/ ObeyCommand(m) \/ TakeDown(m) \/ (TakeUp /\ m = SINKADDRESS)
      PROVE  /\ rxqueue[m] # << >> /\ lastrbseq' = lastrbseq /\ \E arg : Handle(m, arg)
             /\ Current(m).type # "RB"
  <2>1. rxqueue[m] # << >> /\ lastrbseq' = lastrbseq /\ \E arg : Handle(m, arg)
    BY <1>5 DEF RelayPacket, ObeyCommand, TakeDown, TakeUp
  <2>2. Current(m).type # "RB"
    <3>1. CASE TakeDown(m)
      BY <3>1 DEF TakeDown
    <3>2. CASE ~TakeDown(m)
      <4>1. Current(m) \in Unicasts
        BY <1>5, <3>2, RelayRoute, ObeyRoute, UpRoute
      <4> QED
        BY <4>1, Constants DEF Unicasts
    <3> QED
      BY <3>1, <3>2
  <2> QED
    BY <2>1, <2>2
<1>6. ASSUME NEW m \in Node, RelayPacket(m) \/ ObeyCommand(m) \/ TakeDown(m) \/ (TakeUp /\ m = SINKADDRESS)
      PROVE  /\ DOMAIN again' = Node
             /\ \A r \in again'[n] : ~(r.type = "RB" /\ r.arg = "RB")
             /\ Passed(n)' => Passed(n)
             /\ lastrbseq'[n] = lastrbseq[n]
  BY <1>2, <1>3, <1>5, <1>6
<1>7. ASSUME UNCHANGED <<handled, again, lastrbseq>>
      PROVE  /\ DOMAIN again' = Node
             /\ \A r \in again'[n] : ~(r.type = "RB" /\ r.arg = "RB")
             /\ Passed(n)' => Passed(n)
             /\ lastrbseq'[n] = lastrbseq[n]
  BY <1>1, <1>7 DEF Passed
<1>8. \/ UNCHANGED <<handled, again, lastrbseq>>
      \/ \E m \in Node : HandleRB(m)
      \/ \E m \in Node : RelayPacket(m) \/ ObeyCommand(m) \/ TakeDown(m)
      \/ TakeUp
  <2>1. ASSUME NEW m \in Node,
               DropFrame(m) \/ AnswerRD(m) \/ Transmitters(m) \/ WatchdogReset(m)
        PROVE  UNCHANGED <<handled, again, lastrbseq>>
    BY <2>1, NoRestart DEF DropFrame, AnswerRD, history, routing
  <2>2. CASE SerialTask \/ \E u \in Uploads : AppUploads(u[1], u[2])
    BY <2>2 DEF SerialTask, AppUploads, routing, history
  <2> QED
    BY <2>1, <2>2 DEF Next, FrameHandlers
<1> QED
  BY <1>1, <1>4, <1>6, <1>7, <1>8

(* Every step keeps it.                                                       *)
LEMMA NextFloodInv ==
  ASSUME RouteInv, FloodInv, NoReboot, TasksLeft, MaxReset = 0, [Next]_vars
  PROVE  FloodInv'
<1>1. CASE Next
  <2>1. CASE SerialTask
    <3>1. /\ 1 \in DOMAIN tasks /\ Head(tasks) = tasks[1]
          /\ \A i \in DOMAIN tasks' : i + 1 \in DOMAIN tasks /\ tasks'[i] = tasks[i + 1]
          /\ DOMAIN tasks' \subseteq Nat
      <4>1. tasks' \in Seq(Task)
        BY <1>1, NextRoute DEF RouteInv, OutsideOK
      <4>2. DOMAIN tasks' \subseteq Nat
        BY <4>1, LenProperties
      <4> QED
        BY <2>1, <4>2, OrderGiven
    <3>2. UNCHANGED <<handled, again, lastrbseq>>
      BY <2>1 DEF SerialTask, routing, history
    <3>3. OneRB(tasks)'
      <4>1. ASSUME NEW i \in DOMAIN tasks', NEW j \in DOMAIN tasks',
                   tasks'[i].type = "RB", tasks'[j].type = "RB"
            PROVE  i = j
        <5>1. i + 1 \in DOMAIN tasks /\ j + 1 \in DOMAIN tasks
              /\ tasks[i + 1].type = "RB" /\ tasks[j + 1].type = "RB"
          BY <3>1, <4>1
        <5>2. i + 1 = j + 1
          BY <5>1 DEF FloodInv, OneRB
        <5> QED
          BY <3>1, <5>2
      <4> QED
        BY <4>1 DEF OneRB
    <3>4. \A n \in Node : Passed(n)' <=> Passed(n)
      BY <3>2 DEF Passed
    <3>5. PICK o : o = OrderPacket(Head(tasks))
      OBVIOUS
    <3>6. ASSUME NEW p, InFlight(p)', p.type = "RB"
          PROVE  InFlight(p) \/ (p = o /\ Head(tasks).type = "RB")
      <4>1. Moved(SINKADDRESS, {[to |-> Head(o.nodes), packet |-> o]})
        BY <2>1, <3>5, SerialRoute
      <4>2. InFlight(p) \/ p = o
        <5> DEFINE E == {[to |-> Head(o.nodes), packet |-> o]}
        <5>1. \A e \in E : e.packet = o
          OBVIOUS
        <5>2. Moved(SINKADDRESS, E)
          BY <4>1
        <5> HIDE DEF E
        <5> QED
          BY <3>6, <5>1, <5>2, MovedInFlight, Constants
      <4>3. o.type = Head(tasks).type
        BY <3>5 DEF OrderPacket, Packet
      <4> QED
        BY <3>6, <4>2, <4>3
    <3>7. CASE Head(tasks).type = "RB"
      <4>1. Never("RB") /\ \A n \in Node : ~Passed(n)
        BY <3>1, <3>7 DEF FloodInv
      <4>2. \A i \in DOMAIN tasks' : tasks'[i].type # "RB"
        <5>1. ASSUME NEW i \in DOMAIN tasks', tasks'[i].type = "RB" PROVE FALSE
          <6>1. i + 1 \in DOMAIN tasks /\ tasks[i + 1].type = "RB" /\ tasks[1].type = "RB"
            BY <3>1, <3>7, <5>1
          <6>2. i + 1 = 1
            BY <3>1, <6>1 DEF FloodInv, OneRB
          <6>3. i \in Nat \ {0}
            <7>1. tasks' \in Seq(Task)
              BY <1>1, NextRoute DEF RouteInv, OutsideOK
            <7> QED
              BY <7>1, LenProperties
          <6> QED
            BY <6>2, <6>3
        <5> QED
          BY <5>1
      <4>3. \A p : InFlight(p)' /\ p.type = "RB" => p = o
        BY <3>6, <4>1 DEF Never
      <4> QED
        BY <3>2, <3>3, <3>4, <4>1, <4>2, <4>3 DEF FloodInv, BroadcastOnce
    <3>8. CASE Head(tasks).type # "RB"
      <4>1. \A p : InFlight(p)' /\ p.type = "RB" => InFlight(p)
        BY <3>6, <3>8
      <4>2. (\E i \in DOMAIN tasks' : tasks'[i].type = "RB") =>
              \E i \in DOMAIN tasks : tasks[i].type = "RB"
        BY <3>1
      <4>3. Never("RB") => Never("RB")'
        BY <4>1 DEF Never
      <4> QED
        BY <3>2, <3>3, <3>4, <4>1, <4>2, <4>3 DEF FloodInv, BroadcastOnce
    <3> QED
      BY <3>7, <3>8
  <2>2. CASE ~SerialTask
    <3>1. UNCHANGED tasks
      BY <1>1, <2>2, TasksAreTheComputers
    <3>2. \A p : InFlight(p)' /\ p.type = "RB" =>
            \E q : InFlight(q) /\ q.type = "RB" /\ q.seq = p.seq
      BY <1>1, <2>2, NewPacket DEF Upload
    <3>3. Never("RB") => Never("RB")'
      BY <3>2 DEF Never
    <3>4. ASSUME Never("RB"), NEW n \in Node, ~Passed(n) PROVE ~Passed(n)'
      BY <1>1, <3>4, NewPassed DEF Never
    <3>5. ASSUME NEW p, InFlight(p)', p.type = "RB", NEW q, InFlight(q)', q.type = "RB"
          PROVE  q.seq = p.seq
      BY <3>2, <3>5 DEF FloodInv
    <3>6. ASSUME NEW p, InFlight(p)', p.type = "RB", NEW n \in Node, Passed(n)'
          PROVE  lastrbseq'[n] = p.seq
      <4>1. PICK q : InFlight(q) /\ q.type = "RB" /\ q.seq = p.seq
        BY <3>2, <3>6
      <4>2. \/ Passed(n) /\ lastrbseq'[n] = lastrbseq[n]
            \/ \E b : InFlight(b) /\ b.type = "RB" /\ lastrbseq'[n] = b.seq
        BY <1>1, <3>6, NewPassed
      <4> QED
        BY <4>1, <4>2 DEF FloodInv
    <3>7. DOMAIN again' = Node /\ BroadcastOnce'
      BY <1>1, NewPassed, Constants DEF BroadcastOnce
    <3>8. OneRB(tasks)'
      BY <3>1 DEF FloodInv, OneRB
    <3>9. (\E i \in DOMAIN tasks' : tasks'[i].type = "RB") =>
            Never("RB")' /\ \A n \in Node : ~Passed(n)'
      BY <3>1, <3>3, <3>4 DEF FloodInv
    <3> QED
      BY <3>5, <3>6, <3>7, <3>8, <3>9 DEF FloodInv
  <2> QED
    BY <2>1, <2>2
<1>2. CASE UNCHANGED vars
  BY <1>2 DEF FloodInv, OneRB, InFlight, Passed, Never, BroadcastOnce, vars, queues,
     routing, outside, history
<1> QED
  BY <1>1, <1>2

(* The computer has given no order at first.                                  *)
LEMMA InitOrders ==
  ASSUME Init PROVE NoReboot /\ TasksLeft
<1>1. \A n \in Node : rxqueue[n] = << >> /\ txqueue[n] = << >>
  BY DEF Init
<1> QED
  BY <1>1, NoQueue DEF Init, NoReboot, Never, InFlight, TasksLeft

(* What the stuttering steps do not change.                                   *)
LEMMA StutterOrders ==
  ASSUME NoReboot, TasksLeft, UNCHANGED vars PROVE NoReboot' /\ TasksLeft'
BY DEF NoReboot, Never, InFlight, TasksLeft, vars, queues, outside

(* Every node passes a route broadcast on one time, whatever is lost, and     *)
(* whatever commands and uploads cross it, as long as it is the only one and   *)
(* nobody restarts: the conditions are those under which one remembered       *)
(* sequence number is enough.                                                 *)
THEOREM BroadcastPassedOnce ==
  ASSUME OneRB(Computer), Orders("REBOOT") = {}, MaxReset = 0
  PROVE  Spec => []BroadcastOnce
<1>1. Init => FloodInv
  <2> SUFFICES ASSUME Init PROVE FloodInv
    OBVIOUS
  <2>1. /\ \A n \in Node : /\ rxqueue[n] = << >> /\ txqueue[n] = << >>
                           /\ handled[n] = {} /\ again[n] = {}
        /\ tasks = Computer /\ DOMAIN again = Node
    BY DEF Init
  <2> QED
    BY <2>1, NoQueue DEF FloodInv, InFlight, Passed, Never, BroadcastOnce
<1> DEFINE I == RouteInv /\ FloodInv /\ NoReboot /\ TasksLeft
<1>2. I /\ [Next]_vars => I'
  BY NextRoute, NextFloodInv, NextNoReboot, NextTasks, StutterOrders
<1>3. I => BroadcastOnce
  BY DEF FloodInv
<1>4. Init => I
  BY <1>1, InitRoute, InitOrders
<1> HIDE DEF I
<1> QED
  BY <1>2, <1>3, <1>4, PTL DEF Spec

\* The packet is that of an order to leave low power, and every node it has passed
\* on its way to m has obeyed.
LitAt(m, p) ==
  p.type = "HIGHPOWER" =>
    /\ \E t \in Orders("HIGHPOWER") : t.nodes = p.nodes
    /\ \E k \in 1..Len(p.nodes) :
         p.nodes[k] = m /\ \A i \in 1..(k - 1) : ~islowpower[p.nodes[i]]
\* So have all nodes on the way of an order for n.
AllLit(n) ==
  \E t \in Orders("HIGHPOWER") :
    Last(t.nodes) = n /\ \A i \in DOMAIN t.nodes : ~islowpower[t.nodes[i]]

(* The nodes an order has passed are lit, and all are when it is answered.    *)
LitInv ==
  /\ \A n \in Node : /\ \A f \in ToSet(rxqueue[n]) : LitAt(n, f.packet)
                     /\ \A e \in ToSet(txqueue[n]) : LitAt(e.to, e.packet)
  /\ \A p : InFlight(p) /\ p.type = "CMD_ACK" /\ p.arg = "HIGHPOWER" => AllLit(p.src)
  /\ \A n \in Node : Answered(n, "HIGHPOWER") => AllLit(n)
  /\ Never("LOWPOWER")

(* An order for a node lists nodes, the one it is for last.                   *)
LEMMA OrderNodes ==
  ASSUME NEW type \in Command, NEW t \in Orders(type)
  PROVE  /\ t.type = type /\ t.nodes \in Seq(Node) /\ t.nodes # << >>
         /\ Len(t.nodes) \in Nat \ {0} /\ DOMAIN t.nodes = 1..Len(t.nodes)
         /\ \A i \in 1..Len(t.nodes) : t.nodes[i] \in Node
         /\ Last(t.nodes) = t.nodes[Len(t.nodes)]
<1>1. t \in Task /\ t.type = type
  <2>1. Computer \in Seq(Task) /\ DOMAIN Computer = 1..Len(Computer)
    BY Constants, LenProperties
  <2> QED
    BY <2>1, ElementOfSeq DEF Orders, ToSet
<1>2. PICK s : s = t.nodes
  OBVIOUS
<1>3. s \in Seq(Node \ {SINKADDRESS}) /\ s # << >>
  BY <1>1, <1>2, Constants DEF Task
<1>4. /\ Len(s) \in Nat \ {0} /\ DOMAIN s = 1..Len(s)
      /\ \A i \in 1..Len(s) : s[i] \in Node
  BY <1>3, LenProperties, EmptySeq, ElementOfSeq
<1>5. s \in Seq(Node)
  <2>1. s \in [1..Len(s) -> Node]
    BY <1>3, <1>4, LenProperties
  <2> QED
    BY <1>4, <2>1, SeqDef
<1> QED
  BY <1>1, <1>2, <1>3, <1>4, <1>5 DEF Last

(* Without restarts and orders for it, no node goes back to low power, and the *)
(* nodes that relay or obey HIGHPOWER leave it.                               *)
LEMMA StaysLit ==
  ASSUME RouteInv, NoReboot, TasksLeft, Never("LOWPOWER"), Orders("LOWPOWER") = {},
         MaxReset = 0, Next, NEW n \in Node, ~islowpower[n]
  PROVE  ~islowpower'[n]
<1>1. islowpower \in [Node -> BOOLEAN]
  BY DEF RouteInv, RegistersOK
<1>2. ASSUME NEW m \in Node, FrameHandlers(m) PROVE ~islowpower'[n]
  <2>1. CASE DropFrame(m) \/ HandleRB(m) \/ TakeDown(m) \/ AnswerRD(m)
    BY <2>1 DEF DropFrame, HandleRB, TakeDown, AnswerRD, config, eeprom
  <2>2. CASE RelayPacket(m)
    <3>1. islowpower' = islowpower \/ islowpower' = [islowpower EXCEPT ![m] = FALSE]
      BY <2>2 DEF RelayPacket, Light
    <3> QED
      BY <1>1, <3>1
  <2>3. CASE ObeyCommand(m)
    <3>1. Current(m).type # "LOWPOWER"
      BY <2>3, CurrentInFlight DEF Never, ObeyCommand
    <3>2. islowpower' = islowpower \/ islowpower' = [islowpower EXCEPT ![m] = FALSE]
      BY <2>3, <3>1 DEF ObeyCommand, Obey
    <3> QED
      BY <1>1, <3>2
  <2> QED
    BY <1>2, <2>1, <2>2, <2>3 DEF FrameHandlers
<1>3. ASSUME SerialTask PROVE ~islowpower'[n]
  <2>1. PICK t \in ToSet(Computer) : t = Head(tasks)
    BY <1>3, OrderGiven
  <2>2. t.type # "LOWPOWER"
    BY <2>1 DEF Orders
  <2>3. \/ islowpower' = islowpower
        \/ islowpower' = [islowpower EXCEPT ![SINKADDRESS] = FALSE]
    BY <1>3, <2>1, <2>2 DEF SerialTask
  <2> QED
    BY <1>1, <2>3
<1>4. ASSUME NEW m \in Node, Transmitters(m) \/ WatchdogReset(m) PROVE ~islowpower'[n]
  BY <1>4, NoRestart DEF config, eeprom
<1>5. CASE TakeUp \/ \E u \in Uploads : AppUploads(u[1], u[2])
  BY <1>5 DEF TakeUp, AppUploads, config, eeprom
<1> QED
  BY <1>2, <1>3, <1>4, <1>5 DEF Next

(* What nodes that stay lit keep lit.                                         *)
LEMMA KeepsLit ==
  ASSUME RouteInv, \A n \in Node : ~islowpower[n] => ~islowpower'[n]
  PROVE  /\ \A m, p : LitAt(m, p) => LitAt(m, p)'
         /\ \A n : AllLit(n) => AllLit(n)'
<1>1. "HIGHPOWER" \in Command
  BY DEF Command
<1>2. ASSUME NEW m, NEW p, LitAt(m, p), p.type = "HIGHPOWER"
      PROVE  LitAt(m, p)'
  <2>1. PICK t \in Orders("HIGHPOWER") : t.nodes = p.nodes
    BY <1>2 DEF LitAt
  <2>2. PICK k \in 1..Len(p.nodes) :
          p.nodes[k] = m /\ \A i \in 1..(k - 1) : ~islowpower[p.nodes[i]]
    BY <1>2 DEF LitAt
  <2>3. Len(p.nodes) \in Nat /\ \A i \in 1..Len(p.nodes) : p.nodes[i] \in Node
    BY <1>1, <2>1, OrderNodes
  <2>4. \A i \in 1..(k - 1) : i \in 1..Len(p.nodes)
    BY <2>3
  <2>5. \A i \in 1..(k - 1) : ~islowpower'[p.nodes[i]]
    BY <2>2, <2>3, <2>4
  <2> QED
    BY <2>1, <2>2, <2>5 DEF LitAt, Orders
<1>3. ASSUME NEW n, AllLit(n) PROVE AllLit(n)'
  <2>1. PICK t \in Orders("HIGHPOWER") :
          Last(t.nodes) = n /\ \A i \in DOMAIN t.nodes : ~islowpower[t.nodes[i]]
    BY <1>3 DEF AllLit
  <2>2. \A i \in DOMAIN t.nodes : t.nodes[i] \in Node
    BY <1>1, OrderNodes
  <2>3. \A i \in DOMAIN t.nodes : ~islowpower'[t.nodes[i]]
    BY <2>1, <2>2
  <2> QED
    BY <2>1, <2>3 DEF AllLit, Orders
<1>4. ASSUME NEW m, NEW p, LitAt(m, p) PROVE LitAt(m, p)'
  <2>1. CASE p.type = "HIGHPOWER"
    BY <1>2, <1>4, <2>1
  <2>2. CASE p.type # "HIGHPOWER"
    BY <2>2 DEF LitAt
  <2> QED
    BY <2>1, <2>2
<1> QED
  BY <1>3, <1>4

(* A HIGHPOWER packet that gets to a node has lit all those before it.         *)
LEMMA LitBefore ==
  ASSUME NEW n \in Node, NEW p \in Unicasts, n \in ToSet(p.nodes),
         p.type = "HIGHPOWER", LitAt(n, p)
  PROVE  \A i \in 1..(NodeIndex(n, p) - 1) : ~islowpower[p.nodes[i]]
<1>1. PICK x : x = NodeIndex(n, p)
  OBVIOUS
<1>2. PICK k \in 1..Len(p.nodes) :
        p.nodes[k] = n /\ \A i \in 1..(k - 1) : ~islowpower[p.nodes[i]]
  BY DEF LitAt
<1>3. /\ x \in 1..Len(p.nodes) /\ Len(p.nodes) \in Nat
      /\ \A j \in 1..(x - 1) : p.nodes[j] # n
  BY <1>1, NodeFound
<1>4. x <= k
  BY <1>2, <1>3
<1>5. \A i \in 1..(x - 1) : i \in 1..(k - 1)
  BY <1>3, <1>4
<1> QED
  BY <1>1, <1>2, <1>5

(* A handler keeps its queues so, if what it queues is.                       *)
LEMMA MovedLit ==
  ASSUME RouteInv, LitInv, \A m \in Node : ~islowpower[m] => ~islowpower'[m],
         NEW n \in Node, NEW E, Moved(n, E), \A e \in E : LitAt(e.to, e.packet)'
  PROVE  \A m \in Node : /\ \A f \in ToSet(rxqueue'[m]) : LitAt(m, f.packet)'
                         /\ \A e \in ToSet(txqueue'[m]) : LitAt(e.to, e.packet)'
<1>1. ASSUME NEW m \in Node, NEW f \in ToSet(rxqueue'[m]) PROVE LitAt(m, f.packet)'
  <2>1. LitAt(m, f.packet)
    BY DEF Moved, LitInv
  <2> QED
    BY <2>1, KeepsLit
<1>2. ASSUME NEW m \in Node, NEW e \in ToSet(txqueue'[m]) PROVE LitAt(e.to, e.packet)'
  <2>1. CASE e \in ToSet(txqueue[m])
    <3>1. LitAt(e.to, e.packet)
      BY <2>1 DEF LitInv
    <3> QED
      BY <3>1, KeepsLit
  <2>2. CASE e \in E
    BY <2>2
  <2> QED
    BY <1>2, <2>1, <2>2 DEF Moved
<1> QED
  BY <1>1, <1>2

(* So does a transmission.                                                    *)
LEMMA CarriedLit ==
  ASSUME RouteInv, LitInv, \A m \in Node : ~islowpower[m] => ~islowpower'[m],
         NEW n \in Node, Carried(n)
  PROVE  \A m \in Node : /\ \A f \in ToSet(rxqueue'[m]) : LitAt(m, f.packet)'
                         /\ \A e \in ToSet(txqueue'[m]) : LitAt(e.to, e.packet)'
<1>1. ASSUME NEW m \in Node, NEW f \in ToSet(rxqueue'[m]) PROVE LitAt(m, f.packet)
  <2>1. CASE f \in ToSet(rxqueue[m])
    BY <2>1 DEF LitInv
  <2>2. CASE \E e \in ToSet(txqueue[n]) :
               e.to \in {m, BROADCASTADDR} /\ f.packet = e.packet
    <3>1. PICK e \in ToSet(txqueue[n]) :
            e.to \in {m, BROADCASTADDR} /\ f.packet = e.packet
      BY <2>2
    <3>2. LitAt(e.to, e.packet)
      BY <3>1 DEF LitInv
    <3>3. ASSUME e.to = BROADCASTADDR PROVE e.packet.type # "HIGHPOWER"
      <4>1. e \in TxEntries(n)
        BY <3>1, InQueue DEF RouteInv, QueuesOK
      <4> QED
        BY <3>3, <4>1, Constants DEF TxEntries, Floods
    <3> QED
      BY <3>1, <3>2, <3>3 DEF LitAt
  <2> QED
    BY <1>1, <2>1, <2>2 DEF Carried
<1>2. ASSUME NEW m \in Node, NEW e \in ToSet(txqueue'[m]) PROVE LitAt(e.to, e.packet)
  BY <1>2 DEF Carried, LitInv
<1> QED
  BY <1>1, <1>2, KeepsLit

(* Every step lets a HIGHPOWER packet on only from a node that has obeyed.     *)
LEMMA NextLitAt ==
  ASSUME RouteInv, LitInv, TasksLeft, Next,
         \A m \in Node : ~islowpower[m] => ~islowpower'[m]
  PROVE  \A m \in Node : /\ \A f \in ToSet(rxqueue'[m]) : LitAt(m, f.packet)'
                         /\ \A e \in ToSet(txqueue'[m]) : LitAt(e.to, e.packet)'
<1> DEFINE Goal ==
      \A m \in Node : /\ \A f \in ToSet(rxqueue'[m]) : LitAt(m, f.packet)'
                      /\ \A e \in ToSet(txqueue'[m]) : LitAt(e.to, e.packet)'
<1>1. ASSUME NEW n \in Node, NEW E, Moved(n, E), \A e \in E : e.packet.type # "HIGHPOWER"
      PROVE  Goal
  <2>1. \A e \in E : LitAt(e.to, e.packet)'
    BY <1>1 DEF LitAt
  <2> QED
    BY <1>1, <2>1, MovedLit
<1>2. ASSUME NEW n \in Node, RelayPacket(n) PROVE Goal
  <2>1. PICK p : p = Current(n)
    OBVIOUS
  <2>2. PICK next : next = NextHop(n, p)
    OBVIOUS
  <2> DEFINE e == [to |-> next, packet |-> p]
  <2>3. /\ Moved(n, {e}) /\ p \in Unicasts /\ n \in ToSet(p.nodes) /\ n # p.dest
        /\ rxqueue[n] # << >>
    BY <1>2, <2>1, <2>2, RelayRoute DEF RelayPacket
  <2>4. CASE p.type # "HIGHPOWER"
    <3>1. \A d \in {e} : d.packet.type # "HIGHPOWER"
      BY <2>4
    <3> HIDE DEF e, Goal
    <3> QED
      BY <1>1, <2>3, <3>1
  <2>5. CASE p.type = "HIGHPOWER" /\ next = From(n)
    <3>1. txqueue' = txqueue
      BY <1>2, <2>1, <2>2, <2>5 DEF RelayPacket, NextHop
    <3>2. Moved(n, {})
      BY <2>3, <3>1 DEF Moved
    <3> HIDE DEF Goal
    <3> QED
      BY <1>1, <3>2
  <2>6. CASE p.type = "HIGHPOWER" /\ next # From(n)
    <3>1. islowpower' = [islowpower EXCEPT ![n] = FALSE]
      BY <1>2, <2>1, <2>2, <2>6 DEF RelayPacket, Light, NextHop
    <3>2. ~islowpower'[n]
      BY <3>1 DEF RouteInv, RegistersOK
    <3>3. PICK x : x = NodeIndex(n, p)
      OBVIOUS
    <3>4. LitAt(n, p)
      <4>1. Head(rxqueue[n]) \in ToSet(rxqueue[n])
        BY <2>3, TailQueue DEF RouteInv, QueuesOK
      <4> QED
        BY <2>1, <4>1 DEF LitInv, Current
    <3>5. \A i \in 1..(x - 1) : ~islowpower[p.nodes[i]]
      BY <2>3, <2>6, <3>3, <3>4, LitBefore
    <3>6. x \in 1..Len(p.nodes) /\ Len(p.nodes) \in Nat /\ x < Len(p.nodes) /\ p.nodes[x] = n
      BY <2>3, <3>3, NodeFound
    <3>7. \A i \in 1..Len(p.nodes) : p.nodes[i] \in Node
      BY <2>3, ElementOfSeq DEF Unicasts
    <3>8. ASSUME NEW i \in 1..((x + 1) - 1) PROVE ~islowpower'[p.nodes[i]]
      <4>1. CASE i = x
        BY <3>2, <3>6, <4>1
      <4>2. CASE i # x
        <5>1. i \in 1..(x - 1) /\ i \in 1..Len(p.nodes)
          BY <3>6, <4>2
        <5> QED
          BY <3>5, <3>7, <5>1
      <4> QED
        BY <4>1, <4>2
    <3>9. x + 1 \in 1..Len(p.nodes) /\ p.nodes[x + 1] = next
      BY <2>2, <3>3, <3>6 DEF NextHop
    <3>10. \E t \in Orders("HIGHPOWER") : t.nodes = p.nodes
      BY <2>6, <3>4 DEF LitAt
    <3>11. LitAt(next, p)'
      BY <3>8, <3>9, <3>10 DEF LitAt, Orders
    <3>12. \A d \in {e} : LitAt(d.to, d.packet)'
      BY <3>11
    <3> HIDE DEF e
    <3> QED
      BY <2>3, <3>12, MovedLit
  <2> QED
    BY <2>4, <2>5, <2>6
<1>3. ASSUME SerialTask PROVE Goal
  <2>1. PICK t \in ToSet(Computer) : t = Head(tasks)
    BY <1>3, OrderGiven
  <2>2. PICK p : p = OrderPacket(t)
    OBVIOUS
  <2>3. PICK to : to = Head(p.nodes)
    OBVIOUS
  <2> DEFINE e == [to |-> to, packet |-> p]
  <2>4. Moved(SINKADDRESS, {e}) /\ SINKADDRESS \in Node
    BY <1>3, <2>1, <2>2, <2>3, SerialRoute, Constants
  <2>5. LitAt(to, p)'
    <3>1. p.type = t.type
      BY <2>2 DEF OrderPacket, Packet
    <3>2. CASE t.type # "HIGHPOWER"
      BY <3>1, <3>2 DEF LitAt
    <3>3. CASE t.type = "HIGHPOWER"
      <4>1. t \in Orders("HIGHPOWER") /\ "HIGHPOWER" \in Command
        BY <3>3 DEF Orders, Command
      <4>2. PICK s : s = t.nodes /\ s = p.nodes
        BY <2>2, <3>3 DEF OrderPacket, Packet
      <4>3. s \in Seq(Node) /\ s # << >> /\ Len(s) \in Nat \ {0}
        <5>1. /\ t.nodes \in Seq(Node) /\ t.nodes # << >>
              /\ Len(t.nodes) \in Nat \ {0}
          BY <4>1, OrderNodes
        <5> QED
          BY <4>2, <5>1
      <4>4. 1 \in 1..Len(s) /\ s[1] = to /\ \A i \in 1..(1 - 1) : ~islowpower'[s[i]]
        BY <2>3, <4>2, <4>3, HeadTailProperties
      <4> QED
        BY <4>1, <4>2, <4>4 DEF LitAt, Orders
    <3> QED
      BY <3>2, <3>3
  <2>6. \A d \in {e} : LitAt(d.to, d.packet)'
    BY <2>5
  <2> HIDE DEF e
  <2> QED
    BY <2>4, <2>6, MovedLit
<1>4. ASSUME NEW n \in Node, Transmitters(n) \/ WatchdogReset(n) PROVE Goal
  BY <1>4, BroadcastRoute, UnicastRoute, ResetRoute, CarriedLit DEF Transmitters
<1> HIDE DEF Goal
<1>5. ASSUME NEW n \in Node, HandleRB(n) PROVE Goal
  <2>1. PICK E : Moved(n, E) /\ \A e \in E : FloodsOn(Current(n), e.packet)
    BY <1>5, FloodRoute
  <2>2. \A e \in E : e.packet.type # "HIGHPOWER"
    BY <2>1 DEF FloodsOn
  <2> QED
    BY <1>1, <2>1, <2>2
<1>6. ASSUME NEW n \in Node, ObeyCommand(n) \/ TakeDown(n) \/ AnswerRD(n) PROVE Goal
  <2>1. PICK E : Moved(n, E) /\ \A e \in E : e.packet.type = "CMD_ACK"
    BY <1>6, ObeyRoute, DownRoute, SaveRoute
  <2>2. \A e \in E : e.packet.type # "HIGHPOWER"
    BY <2>1
  <2> QED
    BY <1>1, <2>1, <2>2
<1>7. ASSUME TakeUp PROVE Goal
  <2>1. PICK E : Moved(SINKADDRESS, E) /\ \A e \in E : e.packet.type = "DU_ACK"
    BY <1>7, UpRoute
  <2>2. \A e \in E : e.packet.type # "HIGHPOWER"
    BY <2>1
  <2> QED
    BY <1>1, <2>1, <2>2, Constants
<1>8. ASSUME NEW n \in Node, DropFrame(n) PROVE Goal
  BY <1>1, <1>8, DropRoute
<1>9. ASSUME NEW n \in Node, NEW type \in Upload, AppUploads(n, type) PROVE Goal
  <2>1. PICK E : Moved(n, E) /\ \A e \in E : e.packet.type = type
    BY <1>9, AppRoute
  <2>2. \A e \in E : e.packet.type # "HIGHPOWER"
    BY <2>1 DEF Upload
  <2> QED
    BY <1>1, <2>1, <2>2
<1>10. ASSUME NEW n \in Node, FrameHandlers(n) PROVE Goal
  BY <1>2, <1>5, <1>6, <1>8, <1>10 DEF FrameHandlers
<1>11. ASSUME NEW u \in Uploads, AppUploads(u[1], u[2]) PROVE Goal
  BY <1>9, <1>11, UploadsTyped
<1>12. Goal
  BY <1>3, <1>4, <1>7, <1>10, <1>11 DEF Next
<1> QED
  BY <1>12 DEF Goal

(* A node answers HIGHPOWER when all nodes on the way have obeyed.             *)
LEMMA AnswerLit ==
  ASSUME RouteInv, LitInv, \A m \in Node : ~islowpower[m] => ~islowpower'[m],
         NEW n \in Node, ObeyCommand(n),
         Current(n).type = "HIGHPOWER", Answers(n, Current(n))
  PROVE  AllLit(n)'
<1>1. PICK p : p = Current(n)
  OBVIOUS
<1>2. /\ p \in Unicasts /\ n \in ToSet(p.nodes) /\ p.dest = n
      /\ p.type = "HIGHPOWER" /\ rxqueue[n] # << >>
      /\ NodeIndex(n, p) = Len(p.nodes)
  BY <1>1, ObeyRoute DEF ObeyCommand, Answers
<1>3. LitAt(n, p)
  <2>1. Head(rxqueue[n]) \in ToSet(rxqueue[n])
    BY <1>2, TailQueue DEF RouteInv, QueuesOK
  <2> QED
    BY <1>1, <2>1 DEF LitInv, Current
<1>4. PICK t \in Orders("HIGHPOWER") : t.nodes = p.nodes
  BY <1>2, <1>3 DEF LitAt
<1>5. PICK s : s = p.nodes
  OBVIOUS
<1>6. /\ Len(s) \in Nat \ {0} /\ DOMAIN s = 1..Len(s) /\ Last(s) = s[Len(s)]
      /\ \A i \in 1..Len(s) : s[i] \in Node
  BY <1>4, <1>5, OrderNodes DEF Command
<1>7. Last(s) = n
  BY <1>2, <1>5 DEF Unicasts
<1>8. \A i \in 1..(Len(s) - 1) : ~islowpower[s[i]]
  BY <1>2, <1>3, <1>5, LitBefore
<1>9. ~islowpower'[n]
  <2>1. islowpower' = [islowpower EXCEPT ![n] = ("HIGHPOWER" = "LOWPOWER")]
    BY <1>1, <1>2 DEF ObeyCommand, Obey
  <2> QED
    BY <2>1 DEF RouteInv, RegistersOK
<1>10. ASSUME NEW i \in DOMAIN s PROVE ~islowpower'[s[i]]
  <2>1. CASE i = Len(s)
    BY <1>6, <1>7, <1>9, <2>1
  <2>2. CASE i # Len(s)
    <3>1. i \in 1..(Len(s) - 1) /\ s[i] \in Node
      BY <1>6, <2>2
    <3> QED
      BY <1>8, <3>1
  <2> QED
    BY <2>1, <2>2
<1> QED
  BY <1>4, <1>5, <1>7, <1>10 DEF AllLit, Orders

(* Every step keeps LitInv.                                                   *)
LEMMA NextLit ==
  ASSUME RouteInv, LitInv, NoReboot, TasksLeft, Orders("LOWPOWER") = {}, MaxReset = 0,
         [Next]_vars
  PROVE  LitInv'
<1>1. CASE Next
  <2>1. \A m \in Node : ~islowpower[m] => ~islowpower'[m]
    BY <1>1, StaysLit DEF LitInv
  <2>2. \A m \in Node : /\ \A f \in ToSet(rxqueue'[m]) : LitAt(m, f.packet)'
                        /\ \A e \in ToSet(txqueue'[m]) : LitAt(e.to, e.packet)'
    BY <1>1, <2>1, NextLitAt
  <2>3. \A n : AllLit(n) => AllLit(n)'
    BY <2>1, KeepsLit
  <2>4. ASSUME NEW p, InFlight(p)', p.type = "CMD_ACK", p.arg = "HIGHPOWER"
        PROVE  AllLit(p.src)'
    <3>1. CASE InFlight(p)
      BY <2>3, <2>4, <3>1 DEF LitInv
    <3>2. CASE /\ p.src \in Node /\ ObeyCommand(p.src)
               /\ p.arg = Current(p.src).type /\ Answers(p.src, Current(p.src))
      BY <2>1, <2>4, <3>2, AnswerLit
    <3> QED
      BY <1>1, <2>4, <3>1, <3>2, NewPacket DEF Upload, Command
  <2>5. ASSUME NEW n \in Node, Answered(n, "HIGHPOWER")' PROVE AllLit(n)'
    <3>1. PICK r \in handled'[SINKADDRESS] :
            r.type = "CMD_ACK" /\ r.src = n /\ r.arg = "HIGHPOWER"
      BY <2>5 DEF Answered
    <3>2. \/ r \in handled[SINKADDRESS]
          \/ \E p : /\ InFlight(p) /\ r.type = p.type /\ r.src = p.src
                   /\ r.arg \in {p.arg, "RB", NoArg}
      BY <1>1, <3>1, Constants, NewHandled
    <3>3. AllLit(n)
      BY <3>1, <3>2 DEF LitInv, Answered, NoArg
    <3> QED
      BY <2>3, <3>3
  <2>6. Never("LOWPOWER")'
    BY <1>1, NextNever DEF LitInv, Command
  <2> QED
    BY <2>2, <2>4, <2>5, <2>6 DEF LitInv
<1>2. CASE UNCHANGED vars
  BY <1>2 DEF LitInv, LitAt, AllLit, Orders, Never, InFlight, Answered, vars, queues,
     config, eeprom, history
<1> QED
  BY <1>1, <1>2

(* When a HIGHPOWER command has been answered, every node on the way has left *)
(* low power, although the relays answer nothing and frames get lost: as long *)
(* as nobody restarts into the power mode it has saved, and no other HIGHPOWER *)
(* order for the same node takes another way.                                 *)
THEOREM AnswerMeansPathLit ==
  ASSUME Orders("REBOOT") = {}, MaxReset = 0,
         \A t, u \in Orders("HIGHPOWER") : Last(t.nodes) = Last(u.nodes) => t.nodes = u.nodes
  PROVE  Spec => []HighPowerLightsPath
<1> DEFINE I == /\ RouteInv /\ NoReboot /\ TasksLeft
                /\ Orders("LOWPOWER") = {} => LitInv
<1>1. Init => I
  <2> SUFFICES ASSUME Init PROVE LitInv
    BY InitRoute, InitOrders
  <2>1. /\ \A n \in Node : rxqueue[n] = << >> /\ txqueue[n] = << >>
        /\ handled[SINKADDRESS] = {}
    BY Constants DEF Init
  <2> QED
    BY <2>1, NoQueue DEF LitInv, Never, InFlight, Answered
<1>2. I /\ [Next]_vars => I'
  <2> SUFFICES ASSUME I, [Next]_vars PROVE I'
    OBVIOUS
  <2>1. RouteInv' /\ NoReboot' /\ TasksLeft'
    BY NextRoute, NextNoReboot, NextTasks, StutterOrders
  <2>2. Orders("LOWPOWER") = {} => LitInv'
    BY NextLit
  <2> QED
    BY <2>1, <2>2 DEF Orders
<1>3. I => HighPowerLightsPath
  <2> SUFFICES ASSUME I, Orders("LOWPOWER") = {}, NEW t \in Orders("HIGHPOWER"),
                      Answered(Last(t.nodes), "HIGHPOWER")
               PROVE  \A i \in DOMAIN t.nodes : ~islowpower[t.nodes[i]]
    BY DEF HighPowerLightsPath
  <2>1. Last(t.nodes) \in Node
    BY OrderNodes DEF Command
  <2>2. PICK u \in Orders("HIGHPOWER") :
          /\ Last(u.nodes) = Last(t.nodes)
          /\ \A i \in DOMAIN u.nodes : ~islowpower[u.nodes[i]]
    BY <2>1 DEF LitInv, AllLit
  <2>3. u.nodes = t.nodes
    BY <2>2
  <2> QED
    BY <2>2, <2>3
<1> HIDE DEF I
<1> QED
  BY <1>1, <1>2, <1>3, PTL DEF Spec
=============================================================================
