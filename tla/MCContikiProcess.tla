-------------------------- MODULE MCContikiProcess --------------------------
(* The instances of ContikiProcess that TLC checks.                          *)
EXTENDS ContikiProcess

CONSTANTS p1, p2, p3

Three == {p1, p2, p3}
Boot == <<p2, p1>>

\* A broadcast, and a request to exit.
Broadcast == [ev |-> "MSG", p |-> NULL]
Events == {Broadcast, [ev |-> "EXIT", p |-> p2]}
OnePolled == {p2}
=============================================================================
