---------------------------- MODULE Subscriptions ----------------------------
(***************************************************************************)
(* The subscription webhook of services/api-access for one account: the    *)
(* event handler (subscriptions.js), the claims on Stripe events           *)
(* (subscription-event-store.js), and the account item with its checkout   *)
(* reservation (service.js, dynamo-store.js).                              *)
(*                                                                         *)
(* Stripe delivers each event at least once and in any order.  A delivery  *)
(* claims the event under a lease, reads the account, writes it if the     *)
(* event is newer, and completes the event.  Every call to a store is one  *)
(* action, so deliveries interleave between any two calls; a delivery may  *)
(* stop for good, and a call may fail or lose its answer.                  *)
(*                                                                         *)
(* The account item takes all its subscription attributes from one event,  *)
(* so it is represented by that event.                                     *)
(*                                                                         *)
(* Definitions marked Fault are mistaken variants of the definition after  *)
(* them; no specification uses them.                                       *)
(***************************************************************************)
EXTENDS Integers

CONSTANTS
  Events, NoEvent,      \* the valid subscription events of the account
  Created,              \* [Events -> Nat], the second Stripe created it
  Status,               \* [Events -> Statuses]
  Plan,                 \* [Events -> Plans]
  Sub,                  \* [Events -> subscription ids]
  Requests, NoRequest,  \* checkout request ids
  Calls, NoCall,        \* bound: deliveries at a time; a call's id is its claim token
  MaxFaults             \* bound: stops, failures, lost answers and short leases

Statuses    == {"trialing", "active", "past_due", "canceled", "unpaid", "incomplete"}
Replaceable == {"canceled", "unpaid"}
Paying      == {"active", "trialing"}
Plans       == {"developer", "pro", "business"}

ASSUME SubscriptionsAssumption ==
  /\ NoEvent \notin Events /\ NoRequest \notin Requests /\ NoCall \notin Calls
  /\ Created \in [Events -> Nat]
  /\ Status \in [Events -> Statuses]
  /\ Plan \in [Events -> Plans]
  /\ MaxFaults \in Nat

StatusOrder ==
  [trialing |-> 1, active |-> 2, incomplete |-> 4, past_due |-> 6, unpaid |-> 8, canceled |-> 9]
PlanRestrictiveness == [business |-> 1, pro |-> 2, developer |-> 3]

\* eventOrder: by second, then by status, then by plan.
Order == [e \in Events |->
            Created[e] * 1000 + StatusOrder[Status[e]] * 10 + PlanRestrictiveness[Plan[e]]]

VARIABLES
  account,      \* the event the account item was last written from
  reservation,  \* pendingCheckoutRequestId, and whether pendingCheckoutExpiresAt has passed
  claim,        \* [Events -> Claims], the event items
  pc,           \* [Calls -> Steps], where a delivery is
  local,        \* [Calls -> Locals], what it works on
  ignored,      \* history: the events a delivery has found in conflict
  normalized,   \* the events whose payment method Stripe has made the default
  faults        \* how many faults have happened

accountVars == <<account, reservation>>
callVars    == <<pc, local>>
vars        == <<accountVars, claim, callVars, ignored, normalized, faults>>

Steps  == {"idle", "claim", "inspect", "reclaim", "load", "provision", "reread",
           "normalize", "complete", "release"}
Claims == [status : {"absent", "processing", "retryable", "completed"},
           token : Calls \cup {NoCall},
           over : BOOLEAN]   \* processingLeaseUntil has passed
Locals == [event : Events \cup {NoEvent},
           past : Calls \cup {NoCall},    \* the token whose lease was over when the call began
           expected : {"retryable", "processing"}]

Unclaimed(s) == [status |-> s, token |-> NoCall, over |-> FALSE]
Blank        == [event |-> NoEvent, past |-> NoCall, expected |-> "processing"]
NoCheckout   == [request |-> NoRequest, over |-> FALSE]

Init ==
  /\ account = NoEvent
  /\ reservation = NoCheckout
  /\ claim = [e \in Events |-> Unclaimed("absent")]
  /\ pc = [c \in Calls |-> "idle"]
  /\ local = [c \in Calls |-> Blank]
  /\ ignored = {} /\ normalized = {}
  /\ faults = 0
------------------------------------------------------------------------------
(* Moves of a delivery *)

Event(c) == local[c].event

Goto(c, s) == pc' = [pc EXCEPT ![c] = s] /\ UNCHANGED local

\* The delivery answers Stripe, or is gone.
End(c) ==
  /\ pc' = [pc EXCEPT ![c] = "idle"]
  /\ local' = [local EXCEPT ![c] = Blank]

FaultHappens == faults < MaxFaults /\ faults' = faults + 1

\* Fault: an error is swallowed and the event is completed.
FailSwallowed(c) == FaultHappens /\ Goto(c, "complete")

\* An exception inside the try block: the claim is released.
Fail(c) == FaultHappens /\ Goto(c, "release")

\* A call that took effect: its answer arrives, or it is lost and looks like an error.
Answer(c, s) == (Goto(c, s) /\ UNCHANGED faults) \/ Fail(c)

\* The function is killed at any point.  An error of the claim or of the release ends
\* the delivery in the same way.
Crash(c) ==
  /\ pc[c] # "idle"
  /\ FaultHappens
  /\ End(c)
  /\ UNCHANGED <<accountVars, claim, ignored, normalized>>

\* A read or a write inside the try block fails without effect.
CallFails(c) ==
  /\ pc[c] \in {"load", "provision", "reread", "normalize", "complete"}
  /\ Fail(c)
  /\ UNCHANGED <<accountVars, claim, ignored, normalized>>
------------------------------------------------------------------------------
(* Claiming an event: claimEvent *)

\* Claim tokens are random: a call starts only when no item and no call knows its token.
Fresh(c) ==
  /\ \A e \in Events : claim[e].token # c
  /\ \A d \in Calls : local[d].past # c

\* A delivery begins and reads the clock: of the leases on the event, the current one may be over.
Deliver(c, e) ==
  /\ pc[c] = "idle" /\ Fresh(c)
  /\ pc' = [pc EXCEPT ![c] = "claim"]
  /\ local' = [local EXCEPT ![c] =
       [Blank EXCEPT !.event = e, !.past = IF claim[e].over THEN claim[e].token ELSE NoCall]]
  /\ UNCHANGED <<accountVars, claim, ignored, normalized, faults>>

Take(c) == claim' = [claim EXCEPT ![Event(c)] =
                       [status |-> "processing", token |-> c, over |-> FALSE]]

ClaimNew(c) ==
  /\ pc[c] = "claim"
  /\ IF claim[Event(c)].status = "absent"
     THEN Take(c) /\ Goto(c, "load")
     ELSE Goto(c, "inspect") /\ UNCHANGED claim
  /\ UNCHANGED <<accountVars, ignored, normalized, faults>>

\* Fault: a lease never counts as expired.
ExpiredNever(c) == FALSE

\* By the clock of the call, the lease on its event is over.
Expired(c) == claim[Event(c)].status = "processing" /\ claim[Event(c)].token = local[c].past

\* classifyExisting: duplicates and busy events end the delivery.
Inspect(c) ==
  /\ pc[c] = "inspect"
  /\ \/ /\ claim[Event(c)].status = "retryable" \/ Expired(c)
        /\ pc' = [pc EXCEPT ![c] = "reclaim"]
        /\ local' = [local EXCEPT ![c].expected = claim[Event(c)].status]
     \/ /\ claim[Event(c)].status # "retryable" /\ ~Expired(c)
        /\ End(c)
  /\ UNCHANGED <<accountVars, claim, ignored, normalized, faults>>

Reclaimable(c) ==
  /\ claim[Event(c)].status = local[c].expected
  /\ local[c].expected = "processing" => Expired(c)

\* The read after a refused update only tells a duplicate from a busy event.
Reclaim(c) ==
  /\ pc[c] = "reclaim"
  /\ IF Reclaimable(c)
     THEN Take(c) /\ Goto(c, "load")
     ELSE End(c) /\ UNCHANGED claim
  /\ UNCHANGED <<accountVars, ignored, normalized, faults>>

\* A lease runs out: normally that of a delivery that is gone.
LeaseEnds(e) ==
  /\ claim[e].status = "processing" /\ ~claim[e].over
  /\ IF pc[claim[e].token] = "idle" THEN UNCHANGED faults ELSE FaultHappens
  /\ claim' = [claim EXCEPT ![e].over = TRUE]
  /\ UNCHANGED <<accountVars, callVars, ignored, normalized>>
------------------------------------------------------------------------------
(* Applying a claimed event *)

\* subscriptionConflict, or an event that would restore a canceled subscription.
Conflicts(a, e) ==
  \/ /\ Sub[a] # Sub[e]
     /\ Status[a] \notin Replaceable \/ Status[e] \in Replaceable
  \/ /\ Sub[a] = Sub[e]
     /\ Status[a] = "canceled" /\ Status[e] # "canceled"

\* getSubscriptionAccount, and the decision made on what it returns.
Load(c) ==
  /\ pc[c] = "load"
  /\ IF account # NoEvent /\ Conflicts(account, Event(c))
     THEN Goto(c, "complete") /\ ignored' = ignored \cup {Event(c)}
     ELSE Goto(c, "provision") /\ UNCHANGED ignored
  /\ UNCHANGED <<accountVars, claim, normalized, faults>>

\* Fault: the account is put without its condition.
NewerAlways(e) == TRUE

Newer(e) == account = NoEvent \/ Order[account] < Order[e]

\* Fault: the reservation survives the put.
PutAccountOnly(e) == account' = e /\ UNCHANGED reservation

PutAccount(e) == account' = e /\ reservation' = NoCheckout

AfterProvision(e) == IF Status[e] \in Paying THEN "normalize" ELSE "complete"

\* provisionSubscription: the conditional update of the account.
Provision(c) ==
  /\ pc[c] = "provision"
  /\ IF Newer(Event(c))
     THEN PutAccount(Event(c)) /\ Answer(c, AfterProvision(Event(c)))
     ELSE Goto(c, "reread") /\ UNCHANGED <<accountVars, faults>>
  /\ UNCHANGED <<claim, ignored, normalized>>

\* Fault: a stale event never normalizes.
CurrentNever(e) == FALSE

\* The stored account is of the event's subscription and order: an earlier delivery wrote it.
Current(e) == Sub[account] = Sub[e] /\ Order[account] = Order[e]

\* The account is read again after a refused update.
Reread(c) ==
  /\ pc[c] = "reread"
  /\ Goto(c, IF Current(Event(c)) THEN AfterProvision(Event(c)) ELSE "complete")
  /\ UNCHANGED <<accountVars, claim, ignored, normalized, faults>>

\* The paid card becomes the default payment method; the request is idempotent.
Normalize(c) ==
  /\ pc[c] = "normalize"
  /\ normalized' = normalized \cup {Event(c)}
  /\ Answer(c, "complete")
  /\ UNCHANGED <<accountVars, claim, ignored>>

\* Fault: only the status of the event item is compared.
HoldsAnyones(c) == claim[Event(c)].status = "processing"

Holds(c) == claim[Event(c)].status = "processing" /\ claim[Event(c)].token = c

SetClaim(c, s) == claim' = [claim EXCEPT ![Event(c)] = Unclaimed(s)]

\* completeEvent: a lost lease is an error.
Complete(c) ==
  /\ pc[c] = "complete"
  /\ IF Holds(c)
     THEN /\ SetClaim(c, "completed")
          /\ (End(c) /\ UNCHANGED faults) \/ Fail(c)
     ELSE Goto(c, "release") /\ UNCHANGED <<claim, faults>>
  /\ UNCHANGED <<accountVars, ignored, normalized>>

\* Fault: the token stays in the released item.
ReleaseKeepsToken(c) ==
  /\ pc[c] = "release"
  /\ IF Holds(c) THEN claim' = [claim EXCEPT ![Event(c)].status = "retryable"]
                 ELSE UNCHANGED claim
  /\ End(c)
  /\ UNCHANGED <<accountVars, ignored, normalized, faults>>

\* releaseEvent: what it answers is not looked at.
Release(c) ==
  /\ pc[c] = "release"
  /\ IF Holds(c) THEN SetClaim(c, "retryable") ELSE UNCHANGED claim
  /\ End(c)
  /\ UNCHANGED <<accountVars, ignored, normalized, faults>>
------------------------------------------------------------------------------
(* Checkout reservations on the same item *)

NoSubscription == account # NoEvent => Status[account] \in Replaceable

\* reserveSubscriptionCheckout; a refused update changes nothing.
Reserve(r) ==
  /\ NoSubscription
  /\ reservation.request \in {NoRequest, r} \/ reservation.over
  /\ reservation' = [request |-> r, over |-> FALSE]
  /\ UNCHANGED <<account, claim, callVars, ignored, normalized, faults>>

\* releaseSubscriptionCheckout, after Stripe refused the checkout.
ReleaseReservation(r) ==
  /\ reservation.request = r
  /\ reservation' = NoCheckout
  /\ UNCHANGED <<account, claim, callVars, ignored, normalized, faults>>

ReservationEnds ==
  /\ reservation.request # NoRequest /\ ~reservation.over
  /\ reservation' = [reservation EXCEPT !.over = TRUE]
  /\ UNCHANGED <<account, claim, callVars, ignored, normalized, faults>>
------------------------------------------------------------------------------
\* The next step of the handler in a delivery.
Handle(c) ==
  \/ ClaimNew(c) \/ Inspect(c) \/ Reclaim(c)
  \/ Load(c) \/ Provision(c) \/ Reread(c) \/ Normalize(c)
  \/ Complete(c) \/ Release(c)

Next ==
  \/ \E c \in Calls : Handle(c) \/ Crash(c) \/ CallFails(c)
  \/ \E c \in Calls, e \in Events : Deliver(c, e)
  \/ \E e \in Events : LeaseEnds(e)
  \/ \E r \in Requests : Reserve(r) \/ ReleaseReservation(r)
  \/ ReservationEnds

Spec == Init /\ [][Next]_vars

\* A running handler goes on, leases run out, and Stripe delivers every event again and
\* again; a free call is a bound of the model, so the delivery is strongly fair.
Fairness ==
  /\ \A c \in Calls : WF_vars(Handle(c))
  /\ \A e \in Events : /\ WF_vars(LeaseEnds(e))
                       /\ SF_vars(\E c \in Calls : Deliver(c, e))

FairSpec == Spec /\ Fairness
------------------------------------------------------------------------------
\* Types.  An event item has a token and a lease exactly while it is processed.
TypeOK ==
  /\ account \in Events \cup {NoEvent}
  /\ reservation \in [request : Requests \cup {NoRequest}, over : BOOLEAN]
  /\ claim \in [Events -> Claims]
  /\ \A e \in Events : claim[e].status = "processing" <=> claim[e].token # NoCall
  /\ \A e \in Events : claim[e].over => claim[e].status = "processing"
  /\ pc \in [Calls -> Steps]
  /\ local \in [Calls -> Locals]
  /\ \A c \in Calls : pc[c] = "idle" <=> Event(c) = NoEvent
  /\ ignored \subseteq Events /\ normalized \subseteq Events
  /\ faults \in 0..MaxFaults

Settled == {e \in Events : claim[e].status = "completed"}

\* No event is lost: a completed event was found in conflict with the account, or the
\* account shows it or a later one.  Stripe delivers a completed event no more.
SettledIsAccounted ==
  \A e \in Settled \ ignored : account # NoEvent /\ Order[e] <= Order[account]

\* A paid subscription keeps its card: when the event shown by the account is completed as
\* a success, its payment method has been made the default, however many deliveries that
\* took and although only the first of them changed the account.
PaidIsNormalized ==
  account \in Settled \ ignored /\ Status[account] \in Paying => account \in normalized

\* A pending checkout never stands beside a running subscription (subscriptions.test.js:74):
\* the reservation is refused or removed.
NoCheckoutOverSubscription == reservation.request # NoRequest => NoSubscription

\* The claim of a delivery is ended by the delivery itself, or taken over after its lease.
ClaimIsFenced ==
  [][\A e \in Events :
       LET holder == claim[e].token
       IN  holder # NoCall /\ claim'[e].token # holder =>
             \/ claim[e].over
             \/ Event(holder) = e /\ pc'[holder] # pc[holder]]_vars

\* The webhook implements the ordered projection: deliveries in any order and number, stale
\* claimants, failures and lost answers never move the account back, never refuse an event
\* without a conflict and never settle one that is not accounted for.
Projection == INSTANCE AccountProjection WITH
                shown <- account, settled <- Settled, refused <- ignored

ImplementsProjection == Projection!Spec

\* Every event is settled at last, although faults leave claims behind.
EverySettled == \A e \in Events : <>[](e \in Settled)

\* A later event of the subscription that a checkout is about to replace, and that still
\* may be replaced, leaves the reservation alone, so that a second checkout cannot start
\* while the first is pending (subscriptions.test.js:74).
ReservationHolds ==
  [][/\ reservation.request # NoRequest /\ ~reservation.over
     /\ account # NoEvent /\ account' # account
     /\ Sub[account'] = Sub[account] /\ NoSubscription'
     => reservation' = reservation]_vars

\* An event of a second subscription never replaces a running one (subscriptions.test.js:231).
NoTakeover ==
  [][account # NoEvent /\ account' # account /\ Sub[account'] # Sub[account]
     => Status[account] \in Replaceable]_vars
------------------------------------------------------------------------------
(* The inductive invariant *)

Covered(e) == account # NoEvent /\ Order[e] <= Order[account]

\* What a delivery has to achieve before it completes its event.
Achieved(e) ==
  \/ e \in ignored
  \/ Covered(e) /\ (account = e /\ Status[e] \in Paying => e \in normalized)

\* It is achieved when the completion is asked for, and stays so.
AchievedInv ==
  /\ \A e \in Settled : Achieved(e)
  /\ \A c \in Calls :
       /\ pc[c] = "complete" => Achieved(Event(c))
       /\ pc[c] \in {"reread", "normalize"} => Covered(Event(c))

\* A call that has not claimed its event yet has a token that nobody has seen.
TokenInv ==
  \A c \in Calls : pc[c] \in {"claim", "inspect", "reclaim"} => Fresh(c)

\* The lease a call has seen expired is expired.
PastInv ==
  \A c \in Calls : local[c].past # NoCall /\ claim[Event(c)].token = local[c].past
                     => claim[Event(c)].over

IInv == TypeOK /\ AchievedInv /\ TokenInv /\ PastInv /\ NoCheckoutOverSubscription
==============================================================================
