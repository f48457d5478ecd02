----------------------------- MODULE SerialLine -----------------------------
(***************************************************************************)
(* The serial line from the computer to the sink, src/MxBmesh/MxBmesh.cpp:  *)
(* messages framed as WritePacketData frames them (the computer's program   *)
(* is not in the repository), and handleserialrx, which takes the bytes as  *)
(* they come.  Bytes are lost on the line or while the sink restarts.       *)
(*                                                                          *)
(* Both ends of a frame are the byte START, and nothing else tells the end  *)
(* of one from the beginning of the next: a reader that has lost one takes   *)
(* the gaps between frames for frames.  rxserialbuf is kept up to            *)
(* rxserialbufindex: what lies beyond is overwritten before it is read.      *)
(***************************************************************************)
EXTENDS Integers, Sequences, FiniteSets, SequencesExt

CONSTANTS
  Message,
  Body,            \* the bytes of each message, its checksum included
  SINKMTU,         \* size of the buffer, and range of the index into it (256)
  LongestPacket,   \* PACKAGE_MAX - 11 (117)
  MaxMessages,     \* bound: messages the computer sends
  MaxLost          \* bound: bytes lost on the line

START == "START"                           \* XPACKET_START
ESC == "ESC"                               \* XPACKET_ESC
NO_ACK == "NO_ACK"                         \* XPACKET_NO_ACK
\* A byte XOR 0x20; of those that are not escaped it makes one nobody sends.
Masked == [START |-> "start", start |-> START, ESC |-> "esc", esc |-> ESC]
Xor(b) == IF b \in DOMAIN Masked THEN Masked[b] ELSE "junk"
Special == {START, ESC}

ASSUME SerialAssumption ==
  /\ DOMAIN Body = Message
  /\ \A m \in Message : Body[m] \in Seq(ToSet(Body[m])) /\ Len(Body[m]) >= 2
  /\ \A m, n \in Message : Body[m] = Body[n] => m = n
  /\ SINKMTU \in Nat /\ LongestPacket \in Nat
  /\ \A m \in Message : Len(Body[m]) + 3 <= LongestPacket
  /\ LongestPacket < SINKMTU
  /\ MaxMessages \in Nat /\ MaxLost \in Nat

VARIABLES
  line,            \* bytes b on their way, each with the number n of its message
                   \* and its place k in the frame: 1 for the first end, 2i + 1
                   \* for byte i of the packet and 2i for the ESC before it
  rxserialbuf,
  escaped,         \* an ESC has been read, the byte after it has not
  sent,            \* messages, in the order the computer sent them
  handled,         \* history: those handled as they were sent
  harmed,          \* history: numbers of those that lost a byte
  outOfStep        \* history: an end of a frame was lost

reader == <<rxserialbuf, escaped>>
harm == <<harmed, outOfStep>>
linevars == <<line, reader, sent, handled, harm>>

LineInit ==
  /\ line = << >> /\ rxserialbuf = << >> /\ escaped = FALSE
  /\ sent = << >> /\ handled = << >> /\ harmed = {} /\ outOfStep = FALSE

\* WritePacketData: START and ESC are escaped between the two ends.
Packet(m) == <<NO_ACK>> \o Body[m]
At(b, k) == [b |-> b, k |-> k]
UnstuffedBytes(bytes) ==                   \* mutant: nothing is escaped
  [i \in DOMAIN bytes |-> At(bytes[i], 2 * i + 1)]
StuffedBytes(bytes) ==
  FlattenSeq([i \in DOMAIN bytes |->
    IF bytes[i] \in Special THEN <<At(ESC, 2 * i), At(Xor(bytes[i]), 2 * i + 1)>>
    ELSE <<At(bytes[i], 2 * i + 1)>>])
LastPlace(m) == 2 * Len(Packet(m)) + 3
WritePacketData(m) ==
  <<At(START, 1)>> \o StuffedBytes(Packet(m)) \o <<At(START, LastPlace(m))>>

Send(m) ==
  /\ Len(sent) < MaxMessages
  /\ sent' = Append(sent, m)
  /\ LET frame == WritePacketData(m)
     IN  line' = line \o [i \in DOMAIN frame |->
                 [b |-> frame[i].b, k |-> frame[i].k, n |-> Len(sent) + 1]]
  /\ UNCHANGED <<reader, handled, harm>>

\* A byte is lost.  An escaped byte counts as an end: when it is the last one,
\* the ESC before it takes the end in its place.
Lose(i) ==
  /\ i \in DOMAIN line /\ Cardinality(harmed) < MaxLost
  /\ line' = RemoveAt(line, i)
  /\ harmed' = harmed \cup {line[i].n}
  /\ outOfStep' = (outOfStep \/ line[i].b = START
                     \/ IF i = 1 THEN escaped ELSE line[i - 1].b = ESC)
  /\ UNCHANGED <<reader, sent, handled>>

\* The sink restarts and has missed what had come until then; the first byte it
\* reads is in the middle of a frame, whose end is lost then, or is the first of
\* one.
Begins(bytes) ==
  bytes # << >> => /\ bytes[1].b = START
                   /\ Len(bytes) > 1 /\ bytes[2].n = bytes[1].n
MissBytes ==
  \E k \in 0..Len(line) :
    /\ line' = SubSeq(line, k + 1, Len(line))
    /\ rxserialbuf' = << >> /\ escaped' = FALSE
    /\ harmed' = harmed \cup {line[i].n : i \in 1..k}
    /\ outOfStep' = (outOfStep \/ ~Begins(line'))
    /\ UNCHANGED <<sent, handled>>
-----------------------------------------------------------------------------
(* handleserialrx, a byte at a time.                                        *)

AtEnd == rxserialbuf # << >> /\ rxserialbuf[1] = START /\ Len(rxserialbuf) > 2

StoredPast(b) == rxserialbuf' = Append(rxserialbuf, b)   \* mutant: it is wider

\* The index is a byte: it wraps around, and so does the length handed on.
Stored(b) ==
  rxserialbuf' = IF Len(rxserialbuf) + 1 = SINKMTU THEN << >>
                 ELSE Append(rxserialbuf, b)

\* What package_recieve is given, if it is not too long.
ShortEnough == (Len(rxserialbuf) + 1) % SINKMTU <= LongestPacket
Received(m) == rxserialbuf = <<START>> \o Packet(m)

\* handleserialrx reads a byte that ends no packet: inside one, or an end that
\* counts as a beginning as long as there are at most two bytes before it.
ReadByte ==
  /\ line # << >> /\ line' = Tail(line)
  /\ LET b == line[1].b
     IN  \/ escaped /\ escaped' = FALSE /\ Stored(Xor(b))
         \/ /\ ~escaped /\ b = ESC
            /\ escaped' = TRUE /\ UNCHANGED rxserialbuf
         \/ /\ ~escaped /\ b \notin {START, ESC}
            /\ Stored(b) /\ UNCHANGED escaped
         \/ /\ ~escaped /\ b = START /\ ~AtEnd
            /\ rxserialbuf' = IF Len(rxserialbuf) <= 2 THEN <<START>>
                              ELSE rxserialbuf
            /\ UNCHANGED escaped
  /\ UNCHANGED <<sent, handled, harm>>

PacketLeavesBuffer == rxserialbuf' = << >>

\* It reads the end of a packet and hands the packet to package_recieve, which
\* does not compare the checksum: a damaged packet may read as any message m.
ReadEnd(m) ==
  /\ line # << >> /\ line[1].b = START /\ ~escaped /\ AtEnd
  /\ line' = Tail(line) /\ PacketLeavesBuffer
  /\ ShortEnough
  /\ IF \E n \in Message : Received(n)
     THEN Received(m) /\ handled' = Append(handled, m)
     ELSE UNCHANGED handled
  /\ UNCHANGED <<escaped, sent, harm>>

\* The packet is too long, or reads as no message.
ReadNothing ==
  /\ line # << >> /\ line[1].b = START /\ ~escaped /\ AtEnd
  /\ line' = Tail(line) /\ PacketLeavesBuffer
  /\ ~ShortEnough \/ ~\E n \in Message : Received(n)
  /\ UNCHANGED <<escaped, sent, handled, harm>>
-----------------------------------------------------------------------------
LineTypeOK ==
  /\ Len(sent) <= MaxMessages /\ sent \in Seq(Message)
  /\ Len(rxserialbuf) < SINKMTU /\ escaped \in BOOLEAN
  /\ harmed \subseteq DOMAIN sent /\ outOfStep \in BOOLEAN

\* The unharmed ones of the first j messages.
Unharmed(j) ==
  FlattenSeq([i \in 1..j |-> IF i \in harmed THEN << >> ELSE <<sent[i]>>])

(* A lost byte costs the message it is lost from and no other: all others are  *)
(* handled as they were sent, in order and, once the line is empty, all of     *)
(* them, whatever bytes they hold.  That is so as long as the byte was not an  *)
(* end of a frame: then every frame may be missed until the index wraps around *)
(* and happens to meet an end (MxBmesh.cpp:708-717), though the comment there   *)
(* says that of two STARTs the second begins a frame.                           *)
OneLossOneMessage ==
  ~outOfStep => /\ IsPrefix(handled, Unharmed(Len(sent)))
                /\ line = << >> /\ ~escaped => handled = Unharmed(Len(sent))

\* What may be left of a packet that lost bytes: some of its bytes, in order, and
\* those whose ESC is lost as they are sent after one.
LeftOf(packet, bytes) ==
  \E from \in [1..Len(bytes) -> DOMAIN packet] :
    /\ \A i, j \in DOMAIN from : i < j => from[i] < from[j]
    /\ \A i \in DOMAIN from :
         LET b == packet[from[i]]
         IN  bytes[i] = b \/ (b \in Special /\ bytes[i] = Xor(b))

\* No message can be left of another (which the reader could not tell from it).
NoneLeftOfAnother == \A m, n \in Message : LeftOf(Packet(m), Packet(n)) => n = m
=============================================================================
