-------------------------- MODULE AccountProjection --------------------------
(***************************************************************************)
(* What the subscription webhook promises about the account of a customer, *)
(* whatever order events arrive in and however often (services/api-access, *)
(* README.md, "replay claims and ordered projections"):                    *)
(*                                                                         *)
(*   - the account shows one event, and only a later one replaces it;      *)
(*   - an event is refused only if it conflicts with the event shown;      *)
(*   - an event is settled only when it is refused, or when the account    *)
(*     shows it or a later one, and it stays settled.                      *)
(***************************************************************************)
EXTENDS Naturals

CONSTANTS Events,
          NoEvent,          \* the account has no subscription yet
          Order,            \* [Events -> Nat]
          Conflicts(_, _)   \* the event shown, and the one that arrives

VARIABLES shown,     \* the event whose values the account has
          settled,   \* the events that need no further delivery
          refused    \* the events found in conflict

projectionVars == <<shown, settled, refused>>

Init == shown = NoEvent /\ settled = {} /\ refused = {}

Covered(e) == shown # NoEvent /\ Order[e] <= Order[shown]

Show(e) == /\ ~Covered(e)
           /\ shown' = e
           /\ UNCHANGED <<settled, refused>>

Refuse(e) == /\ shown # NoEvent /\ Conflicts(shown, e)
             /\ refused' = refused \cup {e}
             /\ UNCHANGED <<shown, settled>>

Settle(e) == /\ e \in refused \/ Covered(e)
             /\ settled' = settled \cup {e}
             /\ UNCHANGED <<shown, refused>>

Next == \E e \in Events : Show(e) \/ Refuse(e) \/ Settle(e)

Spec == Init /\ [][Next]_projectionVars
==============================================================================
