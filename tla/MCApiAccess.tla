----------------------------- MODULE MCApiAccess -----------------------------
(* The instance of ApiAccess that TLC checks: two plans, the smaller one with *)
(* a single key and two credits.                                             *)
EXTENDS ApiAccess, TLC

CONSTANTS small, large

MCSymmetry == Permutations(Calls) \cup Permutations(Tokens)
MCPlans    == {small, large}
MCKeyLimit == [p \in MCPlans |-> IF p = small THEN 1 ELSE 2]
MCCredits  == [p \in MCPlans |-> IF p = small THEN 2 ELSE 3]
==============================================================================
