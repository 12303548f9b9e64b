--------------------------- MODULE MCEntitlements ---------------------------
(* The instances of Entitlements that TLC checks: all intents pay for one    *)
(* scan.                                                                     *)
EXTENDS Entitlements

MCScanOf == [p \in Intents |-> CHOOSE s \in Scans : TRUE]
=============================================================================
