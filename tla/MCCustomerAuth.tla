---------------------------- MODULE MCCustomerAuth ----------------------------
(* The instance of CustomerAuth that TLC checks. *)
EXTENDS CustomerAuth

MCSymmetry == Permutations(Requests)
==============================================================================
