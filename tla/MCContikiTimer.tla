--------------------------- MODULE MCContikiTimer ---------------------------
(* Instances of the timers with a separate resource on top.                  *)
EXTENDS SeparateResource

CONSTANTS t1, e1, p1, c1, c2
OwnerOf == (e1 :> p1)
=============================================================================
