---------------------------- MODULE MCMeshRoute ----------------------------
(* Instances of MeshRoute: topologies, and what the computer sends.          *)
EXTENDS MeshRoute

Both(S) == S \cup {<<l[2], l[1]>> : l \in S}
Line2 == Both({<<0, 1>>})
Line3 == Both({<<0, 1>>, <<1, 2>>})
Line4 == Both({<<0, 1>>, <<1, 2>>, <<2, 3>>})
Triangle == Both({<<0, 1>>, <<0, 2>>, <<1, 2>>})

RB == [type |-> "RB"]
To(type, nodes) == [type |-> type, nodes |-> nodes]

OneFlood == <<RB>>
TwoFloods == <<RB, RB>>
CommandsAndAnswer ==
  <<To("RD", <<1>>), To("HIGHPOWER", <<1, 2>>), To("DU_ACK", <<1, 2>>)>>
RestartTasks == <<To("RD", <<1>>), To("HIGHPOWER", <<1>>), To("RD", <<1>>),
                  To("REBOOT", <<1>>)>>
FloodAndOrders == <<RB, To("RD", <<1>>), To("DD", <<2>>), To("HIGHPOWER", <<1, 2>>)>>
ARouteDown == <<RB, To("RD", <<1, 2>>)>>
NoUploads == {}
SomeUploads == {<<2, "DU_NEEDACK">>, <<2, "DU_NEEDAPPACK">>}
=============================================================================
