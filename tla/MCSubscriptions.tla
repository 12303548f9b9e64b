--------------------------- MODULE MCSubscriptions ---------------------------
(* The instances of Subscriptions that TLC checks.  The first subscription   *)
(* lapses (its invoice stays unpaid), is paid, is reported once more as      *)
(* active in the same second, and is closed in that second; the other        *)
(* subscription is paid a second later.                                      *)
EXTENDS Subscriptions

CONSTANTS lapsed, paid, again, closed, other

MCSub     == [e \in Events |-> IF e = other THEN "second" ELSE "first"]
MCCreated == [e \in Events |-> CASE e = lapsed -> 1 [] e = other -> 3 [] OTHER -> 2]
MCStatus  == [e \in Events |-> CASE e = lapsed -> "unpaid" [] e = closed -> "canceled"
                                 [] OTHER -> "active"]
MCPlan    == [e \in Events |-> "pro"]
==============================================================================
