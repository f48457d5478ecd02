----------------------------- MODULE MCSinkNode -----------------------------
(* An instance of the sink.                                                  *)
EXTENDS SinkNode

CONSTANTS near, far, farther

Config1 == [f \in {Field[i] : i \in DOMAIN Field} |->
              CASE f = "localAddress" -> 0 [] f = "islowpower" -> 0
                [] f = "localChannel" -> 26 [] f = "broadcastInterval" -> 0
                [] f = "dataupload_interval" -> Unset [] f = "txPower" -> 3]
\* The first two fields that change make up for one another, a third does not;
\* and a node with an address other than 0 is the sink no more.
Config2 == [Config1 EXCEPT !["localAddress"] = 1, !["localChannel"] = 25,
                           !["broadcastInterval"] = 1]
Rssi == (near :> 1 @@ far :> 2 @@ farther :> 3)
SketchConfig == [Config1 EXCEPT !["localChannel"] = 20, !["txPower"] = 18,
                                !["broadcastInterval"] = 90]
\* The bytes of a body stand for those that tell messages apart.
Bodies == ("one" :> <<"1", START, "5">> @@ "two" :> <<ESC, "2", START>> @@
           "reboot" :> <<"3", "3", "6">> @@ "low" :> <<"4", "7", ESC>>)
Orders == ("one" :> Config1 @@ "two" :> Config2)
Settings == {[messages |-> 2, resets |-> 2, inRange |-> {}],
             [messages |-> 0, resets |-> 0, inRange |-> {near, far, farther}],
             [messages |-> 1, resets |-> 1, inRange |-> {near}]}

\* Each body has a number no other has, so that none can be left of another.
ASSUME NoneLeftOfAnother
=============================================================================
