------------------------- MODULE SubscriptionsProofs -------------------------
(***************************************************************************)
(* What the subscription webhook guarantees for any events, any number of  *)
(* overlapping deliveries and any number of faults.  IInv is inductive;    *)
(* its parts are taken one after the other.                                *)
(***************************************************************************)
EXTENDS Subscriptions, TLAPS

\* Orders are natural numbers, so they compare.
LEMMA OrderType == \A e \in Events : Order[e] \in Nat
<1> SUFFICES ASSUME NEW e \in Events PROVE Order[e] \in Nat
  OBVIOUS
<1>1. Created[e] \in Nat /\ Status[e] \in Statuses /\ Plan[e] \in Plans
  BY SubscriptionsAssumption DEF SubscriptionsAssumption
<1>2. StatusOrder[Status[e]] \in Nat
  BY <1>1 DEF StatusOrder, Statuses
<1>3. PlanRestrictiveness[Plan[e]] \in Nat
  BY <1>1 DEF PlanRestrictiveness, Plans
<1>4. Order[e] = Created[e] * 1000 + StatusOrder[Status[e]] * 10 + PlanRestrictiveness[Plan[e]]
  BY DEF Order
<1> QED BY <1>1, <1>2, <1>3, <1>4

\* An event is covered exactly when the store would refuse it.
LEMMA CoveredOrNewer ==
  ASSUME account \in Events \cup {NoEvent}, NEW e \in Events
  PROVE  Covered(e) <=> ~Newer(e)
BY OrderType, SubscriptionsAssumption DEF Covered, Newer, SubscriptionsAssumption

\* A call that is not idle works on an event.
LEMMA RunningHasEvent ==
  ASSUME TypeOK, NEW c \in Calls, pc[c] # "idle"
  PROVE  Event(c) \in Events
BY DEF TypeOK, Locals, Event
------------------------------------------------------------------------------
(* Types *)

AccountOK == /\ account \in Events \cup {NoEvent}
             /\ reservation \in [request : Requests \cup {NoRequest}, over : BOOLEAN]
ClaimOK   == /\ claim \in [Events -> Claims]
             /\ \A e \in Events : claim[e].status = "processing" <=> claim[e].token # NoCall
             /\ \A e \in Events : claim[e].over => claim[e].status = "processing"
CallsOK   == /\ pc \in [Calls -> Steps]
             /\ local \in [Calls -> Locals]
             /\ \A c \in Calls : pc[c] = "idle" <=> Event(c) = NoEvent

\* TypeOK in groups of variables that change together.
LEMMA TypeParts ==
  TypeOK <=> /\ AccountOK /\ ClaimOK /\ CallsOK
             /\ ignored \subseteq Events /\ normalized \subseteq Events
             /\ faults \in 0..MaxFaults
BY DEF TypeOK, AccountOK, ClaimOK, CallsOK

\* What a call may do to its own position: stay, move on with its event, or end.
LEMMA MoveType ==
  ASSUME CallsOK, NEW c \in Calls, pc[c] # "idle",
         End(c) \/ (\E s \in Steps \ {"idle"} : Goto(c, s))
  PROVE  CallsOK'
<1>1. CASE End(c)
  BY <1>1, SubscriptionsAssumption
     DEF CallsOK, End, Blank, Locals, Steps, Event, SubscriptionsAssumption
<1>2. ASSUME NEW s \in Steps \ {"idle"}, Goto(c, s) PROVE CallsOK'
  BY <1>2 DEF CallsOK, Goto, Event
<1> QED BY <1>1, <1>2

\* Every step of a running handler, a crash or a failing call is such a move, or the step
\* of Inspect that goes on with what it expects.
LEMMA HandlerMoves ==
  ASSUME TypeOK, NEW c \in Calls, Handle(c) \/ Crash(c) \/ CallFails(c)
  PROVE  /\ pc[c] # "idle"
         /\ \/ End(c)
            \/ \E s \in Steps \ {"idle"} : Goto(c, s)
            \/ /\ pc' = [pc EXCEPT ![c] = "reclaim"]
               /\ local' = [local EXCEPT ![c].expected = claim[Event(c)].status]
               /\ claim[Event(c)].status \in {"retryable", "processing"}
<1>1. CASE Crash(c) \/ CallFails(c)
  BY <1>1 DEF Crash, CallFails, Fail, Steps
<1>2. CASE ClaimNew(c) \/ Reclaim(c) \/ Load(c)
  BY <1>2 DEF ClaimNew, Reclaim, Load, Steps
<1>3. CASE Inspect(c)
  BY <1>3 DEF Inspect, Expired
<1>4. CASE Provision(c) \/ Reread(c) \/ Normalize(c)
  BY <1>4 DEF Provision, Reread, Normalize, Answer, Fail, AfterProvision, Steps
<1>5. CASE Complete(c) \/ Release(c)
  BY <1>5 DEF Complete, Release, Fail, Steps
<1> QED BY <1>1, <1>2, <1>3, <1>4, <1>5 DEF Handle

\* The calls keep their types.
LEMMA CallsStep == TypeOK /\ [Next]_vars => CallsOK'
<1> SUFFICES ASSUME TypeOK, [Next]_vars PROVE CallsOK'
  OBVIOUS
<1>0. CallsOK /\ ClaimOK
  BY TypeParts
<1>1. ASSUME NEW c \in Calls, Handle(c) \/ Crash(c) \/ CallFails(c) PROVE CallsOK'
  <2>1. CASE End(c) \/ (\E s \in Steps \ {"idle"} : Goto(c, s))
    BY <1>0, <1>1, <2>1, HandlerMoves, MoveType
  <2>2. CASE /\ pc' = [pc EXCEPT ![c] = "reclaim"]
             /\ local' = [local EXCEPT ![c].expected = claim[Event(c)].status]
             /\ claim[Event(c)].status \in {"retryable", "processing"}
    <3>1. pc[c] # "idle"
      BY <1>1, HandlerMoves
    <3>2. local' \in [Calls -> Locals] /\ \A d \in Calls : local'[d].event = local[d].event
      BY <1>0, <2>2 DEF CallsOK, Locals
    <3>3. pc' \in [Calls -> Steps] /\ \A d \in Calls : pc'[d] = "idle" <=> pc[d] = "idle"
      BY <1>0, <2>2, <3>1 DEF CallsOK, Steps
    <3> QED BY <1>0, <3>2, <3>3 DEF CallsOK, Event
  <2> QED BY <1>1, <2>1, <2>2, HandlerMoves
<1>2. ASSUME NEW c \in Calls, NEW e \in Events, Deliver(c, e) PROVE CallsOK'
  <2>1. (IF claim[e].over THEN claim[e].token ELSE NoCall) \in Calls \cup {NoCall}
    BY <1>0 DEF ClaimOK, Claims
  <2>2. local' \in [Calls -> Locals]
    BY <1>0, <1>2, <2>1 DEF CallsOK, Deliver, Blank, Locals
  <2>3. e # NoEvent
    BY SubscriptionsAssumption DEF SubscriptionsAssumption
  <2> QED BY <1>0, <1>2, <2>2, <2>3 DEF CallsOK, Deliver, Blank, Steps, Event
<1>3. ASSUME UNCHANGED callVars PROVE CallsOK'
  BY <1>0, <1>3 DEF CallsOK, callVars, Event
<1> QED
  BY <1>1, <1>2, <1>3 DEF Next, LeaseEnds, Reserve, ReleaseReservation, ReservationEnds, vars

\* What a call may do to the event items: nothing, take its event, or end its own claim.
LEMMA ClaimShape ==
  ASSUME TypeOK, NEW c \in Calls, Handle(c) \/ Crash(c) \/ CallFails(c)
  PROVE  \/ UNCHANGED claim
         \/ /\ Take(c) /\ Goto(c, "load")
            /\ \/ pc[c] = "claim" /\ claim[Event(c)].status = "absent"
               \/ pc[c] = "reclaim" /\ Reclaimable(c)
         \/ /\ pc[c] \in {"complete", "release"} /\ pc'[c] # pc[c] /\ Holds(c)
            /\ \E s \in {"completed", "retryable"} : SetClaim(c, s)
<1>0. pc \in [Calls -> Steps]
  BY DEF TypeOK
<1>1. CASE Complete(c)
  BY <1>0, <1>1 DEF Complete, End, Goto, Fail
<1>2. CASE Release(c)
  BY <1>0, <1>2 DEF Release, End
<1>3. CASE ClaimNew(c) \/ Reclaim(c)
  BY <1>3 DEF ClaimNew, Reclaim
<1>4. CASE Crash(c) \/ CallFails(c) \/ Inspect(c) \/ Load(c) \/ Provision(c) \/ Reread(c)
           \/ Normalize(c)
  BY <1>4 DEF Crash, CallFails, Inspect, Load, Provision, Reread, Normalize
<1> QED BY <1>1, <1>2, <1>3, <1>4 DEF Handle

\* The event items keep their types.
LEMMA ClaimStep == TypeOK /\ [Next]_vars => ClaimOK'
<1> SUFFICES ASSUME TypeOK, [Next]_vars PROVE ClaimOK'
  OBVIOUS
<1>0. ClaimOK
  BY TypeParts
<1>1. ASSUME UNCHANGED claim PROVE ClaimOK'
  BY <1>0, <1>1 DEF ClaimOK
<1>2. ASSUME NEW c \in Calls, Handle(c) \/ Crash(c) \/ CallFails(c) PROVE ClaimOK'
  <2>1. ASSUME Take(c) PROVE ClaimOK'
    BY <1>0, <2>1, SubscriptionsAssumption DEF ClaimOK, Claims, Take, SubscriptionsAssumption
  <2>2. ASSUME NEW s \in {"completed", "retryable"}, SetClaim(c, s) PROVE ClaimOK'
    BY <1>0, <2>2 DEF ClaimOK, Claims, SetClaim, Unclaimed
  <2> QED BY <1>1, <1>2, <2>1, <2>2, ClaimShape
<1>3. ASSUME NEW e \in Events, LeaseEnds(e) PROVE ClaimOK'
  BY <1>0, <1>3 DEF ClaimOK, Claims, LeaseEnds
<1> QED
  BY <1>1, <1>2, <1>3
     DEF Next, Deliver, Reserve, ReleaseReservation, ReservationEnds, vars

\* The account is written by Provision alone, from a newer event, and loses its reservation.
LEMMA AccountShape ==
  ASSUME NEW c \in Calls, Handle(c) \/ Crash(c) \/ CallFails(c)
  PROVE  \/ UNCHANGED accountVars
         \/ /\ pc[c] = "provision" /\ Provision(c)
            /\ Newer(Event(c)) /\ PutAccount(Event(c))
BY DEF Handle, Crash, CallFails, ClaimNew, Inspect, Reclaim, Load, Provision, Reread,
       Normalize, Complete, Release, accountVars

\* The account item keeps its types.
LEMMA AccountStep == TypeOK /\ [Next]_vars => AccountOK'
<1> SUFFICES ASSUME TypeOK, [Next]_vars PROVE AccountOK'
  OBVIOUS
<1>0. AccountOK
  BY TypeParts
<1>1. ASSUME UNCHANGED accountVars PROVE AccountOK'
  BY <1>0, <1>1 DEF AccountOK, accountVars
<1>2. ASSUME NEW c \in Calls, Handle(c) \/ Crash(c) \/ CallFails(c) PROVE AccountOK'
  <2>1. ASSUME pc[c] = "provision", PutAccount(Event(c)) PROVE AccountOK'
    <3>1. Event(c) \in Events
      BY <2>1, RunningHasEvent
    <3> QED BY <2>1, <3>1 DEF AccountOK, PutAccount, NoCheckout
  <2> QED BY <1>1, <1>2, <2>1, AccountShape
<1>3. ASSUME NEW r \in Requests, Reserve(r) \/ ReleaseReservation(r) PROVE AccountOK'
  <2>1. \E q \in Requests \cup {NoRequest} : reservation' = [request |-> q, over |-> FALSE]
    BY <1>3 DEF Reserve, ReleaseReservation, NoCheckout
  <2>2. account' = account
    BY <1>3 DEF Reserve, ReleaseReservation
  <2> QED BY <1>0, <2>1, <2>2 DEF AccountOK
<1>4. ASSUME ReservationEnds PROVE AccountOK'
  BY <1>0, <1>4 DEF AccountOK, ReservationEnds
<1> QED
  BY <1>1, <1>2, <1>3, <1>4 DEF Next, Deliver, LeaseEnds, vars

\* The fault counter stays within its bound.
LEMMA FaultsStep == TypeOK /\ [Next]_vars => faults' \in 0..MaxFaults
<1> SUFFICES ASSUME TypeOK, [Next]_vars PROVE faults' \in 0..MaxFaults
  OBVIOUS
<1>0. faults \in 0..MaxFaults /\ MaxFaults \in Nat
  BY SubscriptionsAssumption DEF TypeOK, SubscriptionsAssumption
<1>1. FaultHappens => faults' \in 0..MaxFaults
  BY <1>0 DEF FaultHappens
<1>2. ASSUME NEW c \in Calls, Handle(c) \/ Crash(c) \/ CallFails(c)
      PROVE  FaultHappens \/ UNCHANGED faults
  BY <1>2 DEF Handle, Crash, CallFails, ClaimNew, Inspect, Reclaim, Load, Provision, Reread,
              Normalize, Complete, Release, Answer, Fail
<1>3. FaultHappens \/ UNCHANGED faults
  BY <1>2 DEF Next, Deliver, LeaseEnds, Reserve, ReleaseReservation, ReservationEnds, vars
<1> QED BY <1>0, <1>1, <1>3

\* What is remembered of events is about events.
LEMMA HistoryStep ==
  TypeOK /\ [Next]_vars => ignored' \subseteq Events /\ normalized' \subseteq Events
<1> SUFFICES ASSUME TypeOK, [Next]_vars
             PROVE  ignored' \subseteq Events /\ normalized' \subseteq Events
  OBVIOUS
<1>0. ignored \subseteq Events /\ normalized \subseteq Events
  BY DEF TypeOK
<1>1. ASSUME NEW c \in Calls, Load(c)
      PROVE  ignored' \subseteq Events /\ normalized' \subseteq Events
  BY <1>0, <1>1, RunningHasEvent DEF Load
<1>2. ASSUME NEW c \in Calls, Normalize(c)
      PROVE  ignored' \subseteq Events /\ normalized' \subseteq Events
  BY <1>0, <1>2, RunningHasEvent DEF Normalize
<1>3. CASE UNCHANGED <<ignored, normalized>>
  BY <1>0, <1>3
<1> QED
  BY <1>1, <1>2, <1>3
     DEF Next, Handle, Crash, CallFails, Deliver, LeaseEnds, Reserve, ReleaseReservation,
         ReservationEnds, ClaimNew, Inspect, Reclaim, Provision, Reread, Complete, Release, vars

LEMMA TypeStep == TypeOK /\ [Next]_vars => TypeOK'
<1>1. TypeOK' <=> /\ AccountOK' /\ ClaimOK' /\ CallsOK'
                  /\ ignored' \subseteq Events /\ normalized' \subseteq Events
                  /\ faults' \in 0..MaxFaults
  BY DEF TypeOK, AccountOK, ClaimOK, CallsOK
<1> QED BY <1>1, AccountStep, ClaimStep, CallsStep, HistoryStep, FaultsStep
------------------------------------------------------------------------------
(* The account *)

\* In every step the account stays, or a newer event is written and takes the reservation away.
LEMMA AccountMoves ==
  ASSUME TypeOK, [Next]_vars
  PROVE  \/ UNCHANGED account
         \/ \E c \in Calls : /\ pc[c] = "provision" /\ Provision(c) /\ Event(c) \in Events
                             /\ Newer(Event(c)) /\ PutAccount(Event(c))
<1>1. ASSUME NEW c \in Calls, Handle(c) \/ Crash(c) \/ CallFails(c)
      PROVE  \/ UNCHANGED account
             \/ /\ pc[c] = "provision" /\ Provision(c) /\ Event(c) \in Events
                /\ Newer(Event(c)) /\ PutAccount(Event(c))
  BY <1>1, AccountShape, RunningHasEvent DEF accountVars
<1>2. CASE UNCHANGED account
  BY <1>2
<1> QED
  BY <1>1, <1>2
     DEF Next, Deliver, LeaseEnds, Reserve, ReleaseReservation, ReservationEnds, vars, accountVars

\* What the account covers it covers for good.
LEMMA CoveredStays ==
  ASSUME TypeOK, [Next]_vars, NEW e \in Events, Covered(e)
  PROVE  Covered(e)'
<1>1. CASE UNCHANGED account
  BY <1>1 DEF Covered
<1>2. ASSUME NEW c \in Calls, Event(c) \in Events, Newer(Event(c)), PutAccount(Event(c))
      PROVE  Covered(e)'
  <2>1. account \in Events /\ account' = Event(c) /\ Order[account] < Order[Event(c)]
    BY <1>2 DEF TypeOK, Covered, Newer, PutAccount
  <2>2. Order[e] <= Order[Event(c)]
    BY <1>2, <2>1, OrderType DEF Covered
  <2> QED BY <1>2, <2>1, <2>2, SubscriptionsAssumption DEF Covered, SubscriptionsAssumption
<1> QED BY <1>1, <1>2, AccountMoves

\* The sets that remember events only grow.
LEMMA HistoryGrows ==
  ASSUME [Next]_vars
  PROVE  ignored \subseteq ignored' /\ normalized \subseteq normalized'
BY DEF Next, Handle, Crash, CallFails, Deliver, LeaseEnds, Reserve, ReleaseReservation,
       ReservationEnds, ClaimNew, Inspect, Reclaim, Load, Provision, Reread, Normalize,
       Complete, Release, vars

\* What is achieved for an event stays achieved: an event that is covered is not written again.
LEMMA AchievedStays ==
  ASSUME TypeOK, [Next]_vars, NEW e \in Events, Achieved(e)
  PROVE  Achieved(e)'
<1>1. CASE e \in ignored
  BY <1>1, HistoryGrows DEF Achieved
<1>2. CASE Covered(e) /\ (account = e /\ Status[e] \in Paying => e \in normalized)
  <2>1. Covered(e)'
    BY <1>2, CoveredStays
  <2>2. account' = e => account = e
    <3>1. ASSUME NEW c \in Calls, Newer(Event(c)), PutAccount(Event(c)) PROVE account' # e
      BY <1>2, <3>1, CoveredOrNewer DEF TypeOK, PutAccount
    <3> QED BY <3>1, AccountMoves
  <2>3. account' = e /\ Status[e] \in Paying => e \in normalized'
    BY <1>2, <2>2, HistoryGrows
  <2> QED BY <2>1, <2>3 DEF Achieved
<1> QED BY <1>1, <1>2 DEF Achieved

\* A step changes the position of one call at most; one that arrives at the completion has
\* achieved what it has to.
LEMMA ArrivesAchieved ==
  ASSUME IInv, NEW c \in Calls, Handle(c) \/ Crash(c) \/ CallFails(c), [Next]_vars
  PROVE  /\ pc'[c] = "complete" => Achieved(Event(c))'
         /\ pc'[c] \in {"reread", "normalize"} => Covered(Event(c))'
<1> DEFINE Goal == /\ pc'[c] = "complete" => Achieved(Event(c))'
                   /\ pc'[c] \in {"reread", "normalize"} => Covered(Event(c))'
<1>0. TypeOK /\ pc \in [Calls -> Steps] /\ local \in [Calls -> Locals]
      /\ account \in Events \cup {NoEvent}
  BY DEF IInv, TypeOK
<1>1. ASSUME pc'[c] \notin {"complete", "reread", "normalize"} PROVE Goal
  BY <1>1
<1>2. CASE Crash(c) \/ CallFails(c) \/ ClaimNew(c) \/ Inspect(c) \/ Reclaim(c) \/ Complete(c)
           \/ Release(c)
  BY <1>0, <1>1, <1>2
     DEF Crash, CallFails, ClaimNew, Inspect, Reclaim, Complete, Release, End, Goto, Fail
<1>3. CASE Load(c)
  <2>1. Event(c)' = Event(c)
    BY <1>3 DEF Load, Goto, Event
  <2>2. CASE account # NoEvent /\ Conflicts(account, Event(c))
    BY <1>0, <1>3, <2>1, <2>2 DEF Load, Goto, Achieved
  <2>3. CASE ~(account # NoEvent /\ Conflicts(account, Event(c)))
    BY <1>0, <1>3, <2>3 DEF Load, Goto
  <2> QED BY <2>2, <2>3
<1>4. CASE Provision(c)
  <2>1. Event(c)' = Event(c) /\ Event(c) \in Events
    BY <1>0, <1>4, RunningHasEvent DEF Provision, Answer, Fail, Goto, Event
  <2>2. CASE Newer(Event(c))
    <3>1. account' = Event(c) /\ pc'[c] \in {AfterProvision(Event(c)), "release"}
      BY <1>0, <1>4, <2>2 DEF Provision, PutAccount, Answer, Fail, Goto
    <3>2. Covered(Event(c))'
      <4>1. Event(c) # NoEvent /\ Order[Event(c)] \in Nat
        BY <2>1, OrderType, SubscriptionsAssumption DEF SubscriptionsAssumption
      <4>2. Order[Event(c)] <= Order[Event(c)]
        BY <4>1
      <4> QED BY <2>1, <3>1, <4>1, <4>2 DEF Covered
    <3> QED BY <2>1, <3>1, <3>2 DEF AfterProvision, Achieved
  <2>3. CASE ~Newer(Event(c))
    <3>1. Covered(Event(c)) /\ UNCHANGED account /\ pc'[c] = "reread"
      BY <1>0, <1>4, <2>1, <2>3, CoveredOrNewer DEF Provision, Goto, accountVars
    <3> QED BY <2>1, <3>1 DEF Covered
  <2> QED BY <2>2, <2>3
<1>5. CASE Reread(c)
  <2>1. Event(c)' = Event(c) /\ Event(c) \in Events /\ UNCHANGED account
    BY <1>0, <1>5, RunningHasEvent DEF Reread, Goto, Event, accountVars
  <2>2. Covered(Event(c))'
    BY <1>5, <2>1 DEF Reread, IInv, AchievedInv, Covered
  <2>3. pc'[c] = IF Current(Event(c)) THEN AfterProvision(Event(c)) ELSE "complete"
    BY <1>0, <1>5 DEF Reread, Goto
  <2>4. pc'[c] = "complete" => account # Event(c) \/ Status[Event(c)] \notin Paying
    BY <2>3 DEF Current, AfterProvision
  <2>5. pc'[c] = "complete" => Achieved(Event(c))'
    BY <2>1, <2>2, <2>4 DEF Achieved
  <2> QED BY <2>1, <2>2, <2>5
<1>6. CASE Normalize(c)
  <2>1. Event(c)' = Event(c) /\ UNCHANGED account
    BY <1>6 DEF Normalize, Answer, Fail, Goto, Event, accountVars
  <2>2. Covered(Event(c))' /\ Event(c) \in normalized'
    BY <1>6, <2>1 DEF Normalize, IInv, AchievedInv, Covered
  <2> QED BY <2>1, <2>2 DEF Achieved
<1> QED BY <1>2, <1>3, <1>4, <1>5, <1>6 DEF Handle

\* A step of one call leaves the others where they are.
LEMMA OthersStay ==
  ASSUME TypeOK, NEW c \in Calls, NEW d \in Calls, d # c,
         \/ Handle(c) \/ Crash(c) \/ CallFails(c)
         \/ \E e \in Events : Deliver(c, e)
  PROVE  pc'[d] = pc[d] /\ local'[d] = local[d]
<1>0. pc \in [Calls -> Steps] /\ local \in [Calls -> Locals]
  BY DEF TypeOK
<1>1. CASE Handle(c) \/ Crash(c) \/ CallFails(c)
  <2>1. \/ End(c)
        \/ \E s \in Steps \ {"idle"} : Goto(c, s)
        \/ /\ pc' = [pc EXCEPT ![c] = "reclaim"]
           /\ local' = [local EXCEPT ![c].expected = claim[Event(c)].status]
    BY <1>1, HandlerMoves
  <2> QED BY <1>0, <2>1 DEF End, Goto
<1>2. CASE \E e \in Events : Deliver(c, e)
  BY <1>0, <1>2 DEF Deliver
<1> QED BY <1>1, <1>2

\* Steps that are not those of a handler leave all calls alone, or begin one.
LEMMA StepShape ==
  ASSUME [Next]_vars
  PROVE  \/ \E c \in Calls : Handle(c) \/ Crash(c) \/ CallFails(c)
         \/ \E c \in Calls, e \in Events : Deliver(c, e)
         \/ \E e \in Events : LeaseEnds(e)
         \/ UNCHANGED <<claim, callVars>>
BY DEF Next, Reserve, ReleaseReservation, ReservationEnds, vars

\* Only a completion settles an event, and only one that has achieved what it has to.
LEMMA SettledShape ==
  ASSUME IInv, [Next]_vars, NEW x \in Settled'
  PROVE  Achieved(x)
<1>0. TypeOK /\ claim \in [Events -> Claims] /\ x \in Events
  BY DEF IInv, TypeOK, Settled
<1>1. CASE x \in Settled
  BY <1>1 DEF IInv, AchievedInv
<1>2. CASE x \notin Settled
  <2>1. claim'[x].status = "completed" /\ claim[x].status # "completed"
    BY <1>0, <1>2 DEF Settled
  <2>2. ASSUME NEW c \in Calls, Handle(c) \/ Crash(c) \/ CallFails(c)
        PROVE  x = Event(c) /\ pc[c] = "complete"
    <3>1. CASE Complete(c)
      BY <1>0, <2>1, <3>1 DEF Complete, SetClaim, Unclaimed
    <3>2. CASE Release(c)
      BY <1>0, <2>1, <3>2 DEF Release, SetClaim, Unclaimed
    <3>3. CASE ClaimNew(c) \/ Reclaim(c)
      BY <1>0, <2>1, <3>3 DEF ClaimNew, Reclaim, Take
    <3>4. CASE Crash(c) \/ CallFails(c) \/ Inspect(c) \/ Load(c) \/ Provision(c) \/ Reread(c)
               \/ Normalize(c)
      BY <2>1, <3>4 DEF Crash, CallFails, Inspect, Load, Provision, Reread, Normalize
    <3> QED BY <2>2, <3>1, <3>2, <3>3, <3>4 DEF Handle
  <2>3. ASSUME NEW e \in Events, LeaseEnds(e) PROVE FALSE
    BY <1>0, <2>1, <2>3 DEF LeaseEnds, Claims
  <2>4. \E c \in Calls : x = Event(c) /\ pc[c] = "complete"
    BY <2>1, <2>2, <2>3, StepShape DEF Deliver
  <2> QED BY <2>4 DEF IInv, AchievedInv
<1> QED BY <1>1, <1>2

\* The achievements hold after every step.
LEMMA AchievedStep == IInv /\ [Next]_vars => AchievedInv'
<1> SUFFICES ASSUME IInv, [Next]_vars PROVE AchievedInv'
  OBVIOUS
<1>0. TypeOK /\ TypeOK' /\ AchievedInv
  BY TypeStep DEF IInv
<1>1. ASSUME NEW x \in Settled' PROVE Achieved(x)'
  <2>1. x \in Events
    BY DEF Settled
  <2> QED BY <1>0, <2>1, SettledShape, AchievedStays
<1>2. ASSUME NEW d \in Calls
      PROVE  /\ pc'[d] = "complete" => Achieved(Event(d))'
             /\ pc'[d] \in {"reread", "normalize"} => Covered(Event(d))'
  <2>1. ASSUME pc'[d] = pc[d], local'[d] = local[d]
        PROVE  /\ pc'[d] = "complete" => Achieved(Event(d))'
               /\ pc'[d] \in {"reread", "normalize"} => Covered(Event(d))'
    <3>1. Event(d)' = Event(d)
      BY <2>1 DEF Event
    <3>2. pc[d] # "idle" => Event(d) \in Events
      BY <1>0, RunningHasEvent
    <3>3. pc[d] = "complete" => Achieved(Event(d))'
      <4>1. SUFFICES ASSUME pc[d] = "complete" PROVE Achieved(Event(d))'
        OBVIOUS
      <4>2. ASSUME NEW e \in Events, e = Event(d) PROVE Achieved(e)'
        BY <1>0, <4>1, <4>2, AchievedStays DEF AchievedInv
      <4> QED BY <3>1, <3>2, <4>1, <4>2 DEF Achieved, Covered
    <3>4. pc[d] \in {"reread", "normalize"} => Covered(Event(d))'
      <4>1. SUFFICES ASSUME pc[d] \in {"reread", "normalize"} PROVE Covered(Event(d))'
        OBVIOUS
      <4>2. ASSUME NEW e \in Events, e = Event(d) PROVE Covered(e)'
        BY <1>0, <4>1, <4>2, CoveredStays DEF AchievedInv
      <4> QED BY <3>1, <3>2, <4>1, <4>2 DEF Covered
    <3> QED BY <2>1, <3>3, <3>4
  <2>2. ASSUME NEW c \in Calls, Handle(c) \/ Crash(c) \/ CallFails(c)
        PROVE  /\ pc'[d] = "complete" => Achieved(Event(d))'
               /\ pc'[d] \in {"reread", "normalize"} => Covered(Event(d))'
    BY <1>0, <2>1, <2>2, OthersStay, ArrivesAchieved
  <2>3. ASSUME NEW c \in Calls, NEW e \in Events, Deliver(c, e)
        PROVE  /\ pc'[d] = "complete" => Achieved(Event(d))'
               /\ pc'[d] \in {"reread", "normalize"} => Covered(Event(d))'
    <3>1. CASE d = c
      BY <1>0, <2>3, <3>1 DEF Deliver, TypeOK
    <3>2. CASE d # c
      BY <1>0, <2>1, <2>3, <3>2, OthersStay
    <3> QED BY <3>1, <3>2
  <2>4. CASE UNCHANGED callVars
    BY <2>1, <2>4 DEF callVars
  <2> QED BY <2>2, <2>3, <2>4, StepShape DEF LeaseEnds
<1> QED BY <1>1, <1>2 DEF AchievedInv
------------------------------------------------------------------------------
(* Claims *)

Unseen == {"claim", "inspect", "reclaim"}

\* A step of a handler shows no token to anyone but by taking its event, after which the
\* call is no longer unseen; and it forgets its own past at most.
LEMMA HandlerShows ==
  ASSUME TypeOK, NEW c \in Calls, Handle(c) \/ Crash(c) \/ CallFails(c)
  PROVE  /\ \A e \in Events : claim'[e].token \in {claim[e].token, c, NoCall}
         /\ \A e \in Events : claim'[e].token = c /\ claim[e].token # c => pc'[c] = "load"
         /\ \A d \in Calls : local'[d].past \in {local[d].past, NoCall}
         /\ pc'[c] \in Unseen => pc[c] \in Unseen
<1>0. pc \in [Calls -> Steps] /\ local \in [Calls -> Locals] /\ claim \in [Events -> Claims]
  BY DEF TypeOK
<1>1. pc[c] # "idle" /\ Event(c) \in Events
  BY HandlerMoves, RunningHasEvent
<1>2. \A d \in Calls : local'[d].past \in {local[d].past, NoCall}
  <2>1. CASE End(c)
    BY <1>0, <2>1 DEF End, Blank
  <2>2. CASE UNCHANGED local
    BY <2>2
  <2>3. CASE local' = [local EXCEPT ![c].expected = claim[Event(c)].status]
    BY <1>0, <2>3 DEF Locals
  <2> QED BY <2>1, <2>2, <2>3, HandlerMoves DEF Goto
<1>3. /\ \A e \in Events : claim'[e].token \in {claim[e].token, c, NoCall}
      /\ \A e \in Events : claim'[e].token = c /\ claim[e].token # c => pc'[c] = "load"
  <2>1. CASE UNCHANGED claim
    BY <2>1
  <2>2. CASE Take(c) /\ Goto(c, "load")
    BY <1>0, <2>2 DEF Take, Goto
  <2>3. ASSUME NEW s, SetClaim(c, s)
        PROVE  /\ \A e \in Events : claim'[e].token \in {claim[e].token, NoCall}
    BY <1>0, <2>3 DEF SetClaim, Unclaimed
  <2>4. NoCall # c
    BY SubscriptionsAssumption DEF SubscriptionsAssumption
  <2> QED BY <2>1, <2>2, <2>3, <2>4, ClaimShape
<1>4. pc'[c] \in Unseen => pc[c] \in Unseen
  BY <1>0 DEF Unseen, Handle, Crash, CallFails, ClaimNew, Inspect, Reclaim, Load, Provision,
     Reread, Normalize, Complete, Release, End, Goto, Answer, Fail, AfterProvision
<1> QED BY <1>2, <1>3, <1>4

\* Tokens of calls that have not claimed yet stay unknown.
LEMMA TokenStep == IInv /\ [Next]_vars => TokenInv'
<1> SUFFICES ASSUME IInv, [Next]_vars, NEW d \in Calls, pc'[d] \in Unseen
             PROVE  Fresh(d)'
  BY DEF TokenInv, Unseen
<1>0. /\ TypeOK /\ pc \in [Calls -> Steps] /\ local \in [Calls -> Locals]
      /\ claim \in [Events -> Claims] /\ d # NoCall
      /\ (pc[d] \in Unseen => Fresh(d))
  BY SubscriptionsAssumption DEF IInv, TypeOK, TokenInv, Unseen, SubscriptionsAssumption
<1>1. ASSUME NEW c \in Calls, Handle(c) \/ Crash(c) \/ CallFails(c) PROVE Fresh(d)'
  <2>1. pc[d] \in Unseen
    BY <1>0, <1>1, OthersStay, HandlerShows
  <2>2. ASSUME NEW e \in Events PROVE claim'[e].token # d
    BY <1>0, <1>1, <2>1, HandlerShows DEF Fresh, Unseen
  <2>3. ASSUME NEW b \in Calls PROVE local'[b].past # d
    BY <1>0, <1>1, <2>1, HandlerShows DEF Fresh
  <2> QED BY <2>2, <2>3 DEF Fresh
<1>2. ASSUME NEW c \in Calls, NEW e \in Events, Deliver(c, e) PROVE Fresh(d)'
  <2>1. Fresh(d)
    <3>1. CASE d = c
      BY <1>2, <3>1 DEF Deliver
    <3>2. CASE d # c
      BY <1>0, <1>2, <3>2, OthersStay
    <3> QED BY <3>1, <3>2
  <2>2. UNCHANGED claim
    BY <1>2 DEF Deliver
  <2>3. ASSUME NEW b \in Calls PROVE local'[b].past # d
    <3>1. CASE b = c
      BY <1>0, <1>2, <2>1, <3>1 DEF Deliver, Blank, Fresh
    <3>2. CASE b # c
      BY <1>0, <1>2, <2>1, <3>2, OthersStay DEF Fresh
    <3> QED BY <3>1, <3>2
  <2> QED BY <2>1, <2>2, <2>3 DEF Fresh
<1>3. ASSUME NEW e \in Events, LeaseEnds(e) PROVE Fresh(d)'
  <2>1. Fresh(d) /\ UNCHANGED local
    BY <1>0, <1>3 DEF LeaseEnds, callVars
  <2>2. \A x \in Events : claim'[x].token = claim[x].token
    BY <1>0, <1>3 DEF LeaseEnds, Claims
  <2> QED BY <2>1, <2>2 DEF Fresh
<1>4. CASE UNCHANGED <<claim, callVars>>
  BY <1>0, <1>4 DEF callVars, Fresh
<1> QED BY <1>1, <1>2, <1>3, <1>4, StepShape

\* A lease seen expired stays expired until its event changes hands.
LEMMA PastStep == IInv /\ [Next]_vars => PastInv'
<1> SUFFICES ASSUME IInv, [Next]_vars, NEW b \in Calls, local'[b].past # NoCall,
                    claim'[Event(b)'].token = local'[b].past
             PROVE  claim'[Event(b)'].over
  BY DEF PastInv
<1>0. /\ TypeOK /\ TypeOK' /\ TokenInv /\ pc \in [Calls -> Steps]
      /\ local \in [Calls -> Locals] /\ claim \in [Events -> Claims]
      /\ (local[b].past # NoCall /\ claim[Event(b)].token = local[b].past
            => claim[Event(b)].over)
  BY TypeStep DEF IInv, TypeOK, PastInv
<1>1. ASSUME NEW c \in Calls, Handle(c) \/ Crash(c) \/ CallFails(c)
      PROVE  claim'[Event(b)'].over
  <2>1. local'[b].past = local[b].past /\ Event(b)' = Event(b)
    <3>1. CASE End(c)
      BY <1>0, <3>1 DEF End, Blank, Event
    <3>2. CASE UNCHANGED local
      BY <3>2 DEF Event
    <3>3. CASE local' = [local EXCEPT ![c].expected = claim[Event(c)].status]
      BY <1>0, <3>3 DEF Locals, Event
    <3> QED BY <1>0, <1>1, <3>1, <3>2, <3>3, HandlerMoves DEF Goto
  <2>2. CASE UNCHANGED claim
    BY <1>0, <2>1, <2>2
  <2>3. CASE Take(c) /\ pc[c] \in Unseen
    <3>1. Fresh(c) /\ Event(c) \in Events
      BY <1>0, <2>3, RunningHasEvent DEF TokenInv, Unseen
    <3>2. local[b].past # c
      BY <3>1 DEF Fresh
    <3>3. Event(b) # Event(c)
      BY <1>0, <2>1, <2>3, <3>1, <3>2 DEF Take
    <3>4. claim'[Event(b)] = claim[Event(b)]
      BY <1>0, <2>3, <3>3 DEF Take
    <3> QED BY <1>0, <2>1, <3>4
  <2>4. ASSUME NEW s, SetClaim(c, s), pc[c] # "idle" PROVE claim'[Event(b)'].over
    <3>1. Event(c) \in Events
      BY <1>0, <2>4, RunningHasEvent
    <3>2. Event(b) # Event(c)
      BY <1>0, <2>1, <2>4, <3>1 DEF SetClaim, Unclaimed
    <3>3. claim'[Event(b)] = claim[Event(b)]
      BY <1>0, <2>4, <3>2 DEF SetClaim
    <3> QED BY <1>0, <2>1, <3>3
  <2> QED BY <1>0, <1>1, <2>2, <2>3, <2>4, ClaimShape DEF Unseen
<1>2. ASSUME NEW c \in Calls, NEW e \in Events, Deliver(c, e) PROVE claim'[Event(b)'].over
  <2>1. CASE b = c
    BY <1>0, <1>2, <2>1 DEF Deliver, Blank, Event
  <2>2. CASE b # c
    BY <1>0, <1>2, <2>2, OthersStay DEF Deliver, Event
  <2> QED BY <2>1, <2>2
<1>3. ASSUME NEW e \in Events, LeaseEnds(e) PROVE claim'[Event(b)'].over
  <2>1. Event(b)' = Event(b) /\ local'[b].past = local[b].past
    BY <1>3 DEF LeaseEnds, callVars, Event
  <2>2. CASE Event(b) = e
    BY <1>0, <1>3, <2>1, <2>2 DEF LeaseEnds, Claims
  <2>3. CASE Event(b) # e
    BY <1>0, <1>3, <2>1, <2>3 DEF LeaseEnds
  <2> QED BY <2>2, <2>3
<1>4. CASE UNCHANGED <<claim, callVars>>
  BY <1>0, <1>4 DEF callVars, Event
<1> QED BY <1>1, <1>2, <1>3, <1>4, StepShape

\* A reservation goes with the put of the account, and is made only beside no subscription.
LEMMA ReservationStep == IInv /\ [Next]_vars => NoCheckoutOverSubscription'
<1> SUFFICES ASSUME IInv, [Next]_vars PROVE NoCheckoutOverSubscription'
  OBVIOUS
<1>0. NoCheckoutOverSubscription
  BY DEF IInv
<1>1. CASE UNCHANGED accountVars
  BY <1>0, <1>1 DEF NoCheckoutOverSubscription, NoSubscription, accountVars
<1>2. ASSUME NEW c \in Calls, Handle(c) \/ Crash(c) \/ CallFails(c)
      PROVE  NoCheckoutOverSubscription'
  BY <1>1, <1>2, AccountShape DEF PutAccount, NoCheckout, NoCheckoutOverSubscription
<1>3. ASSUME NEW r \in Requests, Reserve(r) \/ ReleaseReservation(r)
      PROVE  NoCheckoutOverSubscription'
  BY <1>0, <1>3 DEF Reserve, ReleaseReservation, NoCheckout, NoCheckoutOverSubscription,
                    NoSubscription
<1>4. ASSUME ReservationEnds PROVE NoCheckoutOverSubscription'
  BY <1>0, <1>4 DEF ReservationEnds, NoCheckoutOverSubscription, NoSubscription
<1> QED BY <1>1, <1>2, <1>3, <1>4 DEF Next, Deliver, LeaseEnds, vars
------------------------------------------------------------------------------
(* The theorems *)

\* The inductive invariant of the webhook holds initially and is kept by every step.
THEOREM Inductive == Spec => []IInv
<1>1. Init => IInv
  <2> SUFFICES ASSUME Init PROVE IInv
    OBVIOUS
  <2>1. TypeOK
    BY SubscriptionsAssumption
       DEF Init, TypeOK, NoCheckout, Unclaimed, Blank, Claims, Locals, Steps, Event,
           SubscriptionsAssumption
  <2>2. AchievedInv /\ TokenInv /\ PastInv
    BY DEF Init, AchievedInv, Settled, TokenInv, PastInv, Unclaimed, Blank
  <2>3. NoCheckoutOverSubscription
    BY DEF Init, NoCheckoutOverSubscription, NoSubscription
  <2> QED BY <2>1, <2>2, <2>3 DEF IInv
<1>2. IInv /\ [Next]_vars => IInv'
  BY TypeStep, AchievedStep, TokenStep, PastStep, ReservationStep DEF IInv
<1> QED BY <1>1, <1>2, PTL DEF Spec

\* The stores, the calls and the histories keep their types.
THEOREM TypeCorrect == Spec => []TypeOK
<1>1. IInv => TypeOK
  BY DEF IInv
<1> QED BY <1>1, Inductive, PTL

\* Every completed event is reflected by the account or was found in conflict with it.
THEOREM NoEventIsLost == Spec => []SettledIsAccounted
<1>1. IInv => SettledIsAccounted
  BY DEF IInv, AchievedInv, Achieved, Covered, SettledIsAccounted
<1> QED BY <1>1, Inductive, PTL

\* The card of the subscription that the account shows is normalized before the event of
\* its payment is completed, also when another delivery has to do it.
THEOREM CardIsKept == Spec => []PaidIsNormalized
<1>1. IInv => PaidIsNormalized
  BY DEF IInv, AchievedInv, Achieved, PaidIsNormalized
<1> QED BY <1>1, Inductive, PTL

\* A checkout reservation and a running subscription exclude each other.
THEOREM CheckoutExcluded == Spec => []NoCheckoutOverSubscription
<1>1. IInv => NoCheckoutOverSubscription
  BY DEF IInv
<1> QED BY <1>1, Inductive, PTL

\* A claim is ended by the delivery that holds it, or after its lease.
LEMMA FenceStep ==
  IInv /\ [Next]_vars =>
    [\A e \in Events :
       LET holder == claim[e].token
       IN  holder # NoCall /\ claim'[e].token # holder =>
             \/ claim[e].over
             \/ Event(holder) = e /\ pc'[holder] # pc[holder]]_vars
<1> SUFFICES ASSUME IInv, [Next]_vars, NEW e \in Events,
                    claim[e].token # NoCall, claim'[e].token # claim[e].token
             PROVE  \/ claim[e].over
                    \/ /\ Event(claim[e].token) = e
                       /\ pc'[claim[e].token] # pc[claim[e].token]
  BY Zenon
<1>0. /\ TypeOK /\ PastInv /\ claim \in [Events -> Claims]
      /\ (claim[e].status = "processing" <=> claim[e].token # NoCall)
  BY DEF IInv, TypeOK
<1>1. ASSUME NEW c \in Calls, Handle(c) \/ Crash(c) \/ CallFails(c)
      PROVE  \/ claim[e].over
             \/ Event(claim[e].token) = e /\ pc'[claim[e].token] # pc[claim[e].token]
  <2>1. CASE Take(c) /\ (claim[Event(c)].status = "absent" \/ Reclaimable(c))
    <3>1. Event(c) = e
      BY <1>0, <2>1 DEF Take
    <3>2. claim[e].token = local[c].past
      BY <1>0, <2>1, <3>1 DEF Reclaimable, Expired
    <3> QED BY <1>0, <3>1, <3>2 DEF PastInv
  <2>2. ASSUME pc'[c] # pc[c], Holds(c), NEW s, SetClaim(c, s)
        PROVE  Event(claim[e].token) = e /\ pc'[claim[e].token] # pc[claim[e].token]
    <3>1. Event(c) = e
      BY <1>0, <2>2 DEF SetClaim
    <3>2. claim[e].token = c
      BY <2>2, <3>1 DEF Holds
    <3> QED BY <2>2, <3>1, <3>2
  <2> QED BY <1>0, <1>1, <2>1, <2>2, ClaimShape
<1>2. ASSUME NEW x \in Events, LeaseEnds(x) PROVE FALSE
  BY <1>0, <1>2 DEF LeaseEnds, Claims
<1> QED BY <1>1, <1>2, StepShape DEF Deliver

\* No stale delivery ends the claim of another one.
THEOREM ClaimsAreFenced == Spec => ClaimIsFenced
<1> QED BY FenceStep, Inductive, PTL DEF Spec, ClaimIsFenced

\* Every step of the webhook shows a newer event, refuses one in conflict, settles one that
\* is accounted for, or changes nothing of the projection.
LEMMA ProjectionStep == IInv /\ [Next]_vars => [Projection!Next]_(Projection!projectionVars)
<1> SUFFICES ASSUME IInv, [Next]_vars PROVE [Projection!Next]_(Projection!projectionVars)
  OBVIOUS
<1>0. TypeOK /\ claim \in [Events -> Claims]
  BY DEF IInv, TypeOK
<1>1. ASSUME UNCHANGED claim PROVE Settled' = Settled
  BY <1>1 DEF Settled
<1>2. ASSUME UNCHANGED <<account, claim, ignored>>
      PROVE  UNCHANGED Projection!projectionVars
  BY <1>1, <1>2 DEF Projection!projectionVars
<1>3. ASSUME NEW c \in Calls, Load(c) PROVE [Projection!Next]_(Projection!projectionVars)
  <2>1. Event(c) \in Events
    BY <1>0, <1>3, RunningHasEvent DEF Load
  <2>2. CASE account # NoEvent /\ Conflicts(account, Event(c))
    BY <1>1, <1>3, <2>1, <2>2
       DEF Load, accountVars, Projection!Refuse, Projection!Next
  <2>3. CASE ~(account # NoEvent /\ Conflicts(account, Event(c)))
    BY <1>2, <1>3, <2>3 DEF Load, accountVars
  <2> QED BY <2>2, <2>3
<1>4. ASSUME NEW c \in Calls, Provision(c) PROVE [Projection!Next]_(Projection!projectionVars)
  <2>1. Event(c) \in Events
    BY <1>0, <1>4, RunningHasEvent DEF Provision
  <2>2. CASE Newer(Event(c))
    <3>1. ~Projection!Covered(Event(c))
      BY <1>0, <2>1, <2>2, CoveredOrNewer DEF TypeOK, Covered, Projection!Covered
    <3> QED BY <1>1, <1>4, <2>1, <2>2, <3>1
            DEF Provision, PutAccount, Projection!Show, Projection!Next
  <2>3. CASE ~Newer(Event(c))
    BY <1>2, <1>4, <2>3 DEF Provision, accountVars
  <2> QED BY <2>2, <2>3
<1>5. ASSUME NEW c \in Calls, Complete(c) PROVE [Projection!Next]_(Projection!projectionVars)
  <2>1. Event(c) \in Events
    BY <1>0, <1>5, RunningHasEvent DEF Complete
  <2>2. CASE Holds(c)
    <3>1. Settled' = Settled \cup {Event(c)}
      BY <1>0, <1>5, <2>1, <2>2 DEF Complete, SetClaim, Unclaimed, Settled
    <3>2. Achieved(Event(c))
      BY <1>5 DEF Complete, IInv, AchievedInv
    <3> QED BY <1>5, <2>1, <3>1, <3>2
            DEF Complete, accountVars, Achieved, Covered, Projection!Covered,
                Projection!Settle, Projection!Next
  <2>3. CASE ~Holds(c)
    BY <1>2, <1>5, <2>3 DEF Complete, accountVars
  <2> QED BY <2>2, <2>3
<1>6. ASSUME \A e \in Events : claim'[e].status = "completed" <=> claim[e].status = "completed",
             UNCHANGED <<account, ignored>>
      PROVE  UNCHANGED Projection!projectionVars
  <2>1. Settled' = Settled
    BY <1>6 DEF Settled
  <2> QED BY <1>6, <2>1 DEF Projection!projectionVars
<1>7. ASSUME NEW c \in Calls, ClaimNew(c) \/ Reclaim(c)
      PROVE  UNCHANGED Projection!projectionVars
  <2>1. CASE UNCHANGED claim
    BY <1>2, <1>7, <2>1 DEF ClaimNew, Reclaim, accountVars
  <2>2. CASE Take(c) /\ (claim[Event(c)].status = "absent" \/ Reclaimable(c))
    <3>1. claim[Event(c)].status # "completed"
      BY <1>0, <2>2 DEF Reclaimable, TypeOK, Locals
    <3>2. \A e \in Events : claim'[e].status = "completed" <=> claim[e].status = "completed"
      BY <1>0, <2>2, <3>1 DEF Take
    <3> QED BY <1>6, <1>7, <3>2 DEF ClaimNew, Reclaim, accountVars
  <2> QED BY <1>7, <2>1, <2>2 DEF ClaimNew, Reclaim
<1>8. ASSUME NEW c \in Calls, Release(c) PROVE UNCHANGED Projection!projectionVars
  <2>1. CASE ~Holds(c)
    BY <1>2, <1>8, <2>1 DEF Release, accountVars
  <2>2. CASE Holds(c)
    <3>1. \A e \in Events : claim'[e].status = "completed" <=> claim[e].status = "completed"
      BY <1>0, <1>8, <2>2 DEF Release, SetClaim, Unclaimed, Holds
    <3> QED BY <1>6, <1>8, <3>1 DEF Release, accountVars
  <2> QED BY <2>1, <2>2
<1>9. ASSUME NEW e \in Events, LeaseEnds(e) PROVE UNCHANGED Projection!projectionVars
  <2>1. \A x \in Events : claim'[x].status = "completed" <=> claim[x].status = "completed"
    BY <1>0, <1>9 DEF LeaseEnds, Claims
  <2> QED BY <1>6, <1>9, <2>1 DEF LeaseEnds, accountVars
<1>10. ASSUME NEW c \in Calls, Handle(c) \/ Crash(c) \/ CallFails(c)
       PROVE  [Projection!Next]_(Projection!projectionVars)
  <2>1. CASE Inspect(c) \/ Reread(c) \/ Normalize(c) \/ Crash(c) \/ CallFails(c)
    BY <1>2, <2>1 DEF Inspect, Reread, Normalize, Crash, CallFails, accountVars
  <2> QED BY <1>3, <1>4, <1>5, <1>7, <1>8, <1>10, <2>1 DEF Handle
<1> QED
  BY <1>2, <1>9, <1>10
     DEF Next, Deliver, Reserve, ReleaseReservation, ReservationEnds, vars, accountVars

\* The webhook implements the ordered projection of events onto the account.
THEOREM WebhookImplementsProjection == Spec => ImplementsProjection
<1>1. Init => Projection!Init
  BY DEF Init, Projection!Init, Settled, Unclaimed
<1> QED
  BY <1>1, ProjectionStep, Inductive, PTL DEF Spec, ImplementsProjection, Projection!Spec
==============================================================================
