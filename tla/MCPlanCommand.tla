---------------------------- MODULE MCPlanCommand ----------------------------
(* Two requests from the same chat and an update that asks for nothing. *)
EXTENDS PlanCommand

CONSTANTS c1, c2

AllOf(c) == [u \in Update |-> c]
SameChat == AllOf(c1)
OnForOne == [on |-> TRUE, chats |-> {c1}]
=============================================================================
