--------------------------- MODULE MCPriorityQueue ---------------------------
(* The instances of PriorityQueue that TLC checks: every audit has the same  *)
(* source and every job is in the same message group.                        *)
EXTENDS PriorityQueue

MCSourceOf == [j \in Audits |-> CHOOSE s \in Sources : TRUE]
MCGroupOf  == [j \in Jobs |-> CHOOSE g \in Groups : TRUE]
==============================================================================
