------------------------------ MODULE SinkNode ------------------------------
(***************************************************************************)
(* The sink apart from its radio traffic: in the main loop (MXBMESH::poll,  *)
(* src/MxBmesh/MxBmesh.cpp:895-908) it reads the serial line until nothing   *)
(* more has come, obeys what the computer orders the sink itself, even if    *)
(* that takes its address from it, and enters the neighbours it hears; in    *)
(* an interrupt its timer makes the neighbours older; and the watchdog       *)
(* resets it, at any time, in the middle of a frame or of SaveCONFIG.        *)
(*                                                                          *)
(* What the messages for other nodes do is the subject of MeshRoute.         *)
(***************************************************************************)
EXTENDS SerialLine, NodeConfig, MeshNeighbours

CONSTANTS
  Order,           \* configuration of each SETCONFIG message for the sink
  Reboot,          \* REBOOT messages for the sink
  LowPower,        \* LOWPOWER messages
  Setting          \* bound: how many messages are sent and resets nobody ordered
                   \* come, and which nodes are in range

SINKADDRESS == 0

ASSUME SinkAssumption ==
  /\ DOMAIN Order \subseteq Message /\ \A m \in DOMAIN Order : Order[m] \in Config
  /\ Reboot \subseteq Message \ DOMAIN Order
  /\ LowPower \subseteq Message \ (DOMAIN Order \cup Reboot)
  /\ \A s \in Setting : /\ s.messages \in 0..MaxMessages /\ s.resets \in Nat
                        /\ s.inRange \subseteq Neighbour

VARIABLES
  power,           \* "off" until begin, "on", "halted" in watchdog_reboot
  reading,         \* poll is in handleserialrx
  resets,
  setting          \* the one of Setting the sink is in

sinkvars == <<power, reading, resets, setting>>
vars == <<linevars, configvars, nbvars, sinkvars>>

Init ==
  /\ LineInit /\ ConfigInit /\ NbInit
  /\ power = "off" /\ reading = FALSE /\ resets = 0 /\ setting \in Setting

\* The main loop is between two statements of poll, or of handleserialrx.
Idle == power = "on" /\ cell = 0 /\ entering = NoEntry /\ ~reading
Serving == power = "on" /\ cell = 0 /\ reading

Start ==
  /\ power = "off" /\ power' = "on"
  /\ Begin
  /\ UNCHANGED <<linevars, nbvars, reading, resets, setting>>

Computer ==
  /\ \/ Len(sent) < setting.messages /\ \E m \in Message : Send(m)
     \/ \E i \in DOMAIN line : Lose(i)
  /\ UNCHANGED <<configvars, nbvars, sinkvars>>

\* poll, which asks for the address once, and handleserialrx returns: no more
\* bytes are there, though some may be on their way.
Poll ==
  /\ Idle /\ config["localAddress"] = SINKADDRESS /\ reading' = TRUE
  /\ UNCHANGED <<linevars, configvars, nbvars, power, resets, setting>>

Return ==
  /\ Serving /\ ~escaped /\ reading' = FALSE
  /\ UNCHANGED <<linevars, configvars, nbvars, power, resets, setting>>

Read ==
  /\ Serving /\ (ReadByte \/ ReadNothing)
  /\ UNCHANGED <<configvars, nbvars, sinkvars>>

\* package_recieve.
package_recieve(m) ==
  /\ Serving /\ ReadEnd(m)
  /\ \/ /\ m \in DOMAIN Order /\ SetConfig(Order[m]) /\ UNCHANGED power
     \/ /\ m \in LowPower /\ SetLowPower(1) /\ UNCHANGED power
     \/ /\ m \in Reboot /\ power' = "halted" /\ UNCHANGED configvars
     \/ /\ m \notin DOMAIN Order \cup LowPower \cup Reboot
        /\ UNCHANGED <<configvars, power>>
  /\ UNCHANGED <<nbvars, reading, resets, setting>>

Save == power = "on" /\ WriteCell /\ UNCHANGED <<linevars, nbvars, sinkvars>>

Enter ==
  /\ \/ Idle /\ \E n \in setting.inRange : Hear(n)
     \/ power = "on" /\ (Place \/ FinishHearing)
  /\ UNCHANGED <<linevars, configvars, sinkvars>>

\* timer2function, an interrupt.
Interrupt ==
  /\ power = "on" /\ config["broadcastInterval"] > 0
  /\ broadcast_neigbour
  /\ UNCHANGED <<linevars, configvars, sinkvars>>

\* The watchdog: after watchdog_reboot, or because a byte that must follow an
\* ESC does not come (handleserialrx waits for it), or for a reason of its own.
Reset ==
  /\ power # "off" /\ power' = "off" /\ reading' = FALSE
  /\ \/ (power = "halted" \/ (escaped /\ line = << >>)) /\ UNCHANGED resets
     \/ resets < setting.resets /\ resets' = resets + 1
  /\ UNCHANGED setting
  /\ MissBytes /\ Forget /\ ForgetNeighbours

Next ==
  \/ Start \/ Computer \/ Poll \/ Return \/ Read \/ \E m \in Message : package_recieve(m)
  \/ Save \/ Enter \/ Interrupt \/ Reset

Spec == Init /\ [][Next]_vars
-----------------------------------------------------------------------------
TypeOK ==
  /\ LineTypeOK /\ ConfigTypeOK /\ NbTypeOK
  /\ power \in {"off", "on", "halted"} /\ reading \in BOOLEAN
  /\ setting \in Setting /\ resets \in 0..setting.resets
=============================================================================
