---------------------------- MODULE Entitlements ----------------------------
(***************************************************************************)
(* From a paid checkout to its confirmation mail, services/entitlements:   *)
(* the checkout and the payment webhook (service.ts) with the transaction  *)
(* on entitlement and outbox (store.ts), the outbox table's stream and its *)
(* dispatcher (confirmation-dispatcher.ts), the FIFO queue of contract     *)
(* confirmations with its dead-letter queue (template.yaml) and the mail   *)
(* worker with its delivery leases (confirmation-worker.ts).               *)
(*                                                                         *)
(* One action is one call on shared state.  Time is counted in ticks and   *)
(* kept as what is left of each deadline.  Stripe delivers an event any    *)
(* number of times; a delivery that changes nothing is not shown.          *)
(*                                                                         *)
(* Definitions marked Fault are mistaken variants of the definition after  *)
(* them; no specification uses them.                                       *)
(***************************************************************************)
EXTENDS Naturals, Sequences

CONSTANTS
  Intents,        \* Stripe payment intents
  Scans,          \* scan ids; one entitlement record each
  ScanOf,         \* [Intents -> Scans], metadata of the intent
  NoOne,          \* no intent, no worker
  EmailInEvent,   \* whether the gateway's event carries the receipt address
  MaxDeliveries,  \* bound: failed deliveries before the stream drops a record
  MaxRuns,        \* bound: invocations of the mail worker
  RunTicks,       \* Timeout of the worker function
  LeaseTicks,     \* LEASE_MS of the worker
  HiddenTicks,    \* VisibilityTimeout of the queue
  MaxReceives     \* maxReceiveCount of the queue

Runs == 1..MaxRuns

ASSUME EntitlementsAssumption ==
  /\ ScanOf \in [Intents -> Scans]
  /\ NoOne \notin Intents
  /\ EmailInEvent \in BOOLEAN
  /\ MaxDeliveries \in Nat /\ MaxRuns \in Nat
  /\ NoOne \notin Runs
  /\ RunTicks \in Nat \ {0} /\ HiddenTicks \in Nat \ {0} /\ MaxReceives \in Nat \ {0}
  /\ LeaseTicks \in Nat /\ 2 * RunTicks < LeaseTicks

VARIABLES
  \* Stripe
  intent,      \* [Intents -> IntentStates]
  keyed,       \* [Scans -> Intents \cup {NoOne}], what the idempotency key returns
  \* the entitlement table
  entitled,    \* [Scans -> Intents \cup {NoOne}], sessionId of the record
  \* the outbox, its stream and the dispatcher
  outbox,      \* [Intents -> {"none", "pending", "dispatched"}]
  stream,      \* [Intents -> StreamStates], the INSERT record of the outbox
  deliveries,  \* [Intents -> 0..MaxDeliveries], failed deliveries of that record
  \* the FIFO queue of contract confirmations, one message group
  queue,       \* Seq(Intents)
  receives,    \* receive count of the first message
  hidden,      \* ticks until it is visible again
  holder,      \* the invocation with its valid receipt, or NoOne
  recent,      \* intents whose deduplication id SQS remembers
  dlq,         \* intents with a message in the dead-letter queue
  \* the delivery table and the mails
  state,       \* [Intents -> {"none", "in_progress", "sent"}]
  leaseOwner,  \* [Intents -> Runs \cup {NoOne}]
  lease,       \* [Intents -> 0..LeaseTicks], what is left until leaseExpiresAt
  mails,       \* [Intents -> Nat], history: mails SES accepted
  \* the mail worker
  started,     \* invocations so far
  pc,          \* [Runs -> WorkerSteps]
  task,        \* [Runs -> Intents \cup {NoOne}], the intent of its message
  age,         \* [Runs -> 0..RunTicks], ticks since it read the clock, until it reserves
  left         \* [Runs -> 0..RunTicks], until the function is killed

stripe   == <<intent, keyed, entitled>>
dispatch == <<outbox, stream, deliveries>>
lane     == <<queue, receives, hidden, holder, recent, dlq>>
ledger   == <<state, leaseOwner, lease, mails>>
workers  == <<started, pc, task, age, left>>
vars     == <<stripe, dispatch, lane, ledger, workers>>

IntentStates == {"none", "created", "offered", "paid"}
StreamStates == {"none", "waiting", "sent", "marked", "done", "dropped"}
Working      == {"received", "putting", "taking", "reserved", "mailed", "acking"}
WorkerSteps  == Working \cup {"idle", "ended"}
------------------------------------------------------------------------------
Init ==
  /\ intent = [p \in Intents |-> "none"]
  /\ keyed  = [s \in Scans |-> NoOne]
  /\ entitled = [s \in Scans |-> NoOne]
  /\ outbox     = [p \in Intents |-> "none"]
  /\ stream     = [p \in Intents |-> "none"]
  /\ deliveries = [p \in Intents |-> 0]
  /\ queue = <<>> /\ receives = 0 /\ hidden = 0 /\ holder = NoOne
  /\ recent = {} /\ dlq = {}
  /\ state      = [p \in Intents |-> "none"]
  /\ leaseOwner = [p \in Intents |-> NoOne]
  /\ lease      = [p \in Intents |-> 0]
  /\ mails      = [p \in Intents |-> 0]
  /\ started = 0
  /\ pc   = [w \in Runs |-> "idle"]
  /\ task = [w \in Runs |-> NoOne]
  /\ age  = [w \in Runs |-> 0]
  /\ left = [w \in Runs |-> 0]
------------------------------------------------------------------------------
(* Checkout and payment *)

\* payments.create under the key preflight-<scan>: as long as Stripe remembers the key
\* every checkout of the scan gets the same intent.
CreateIntent(p) ==
  /\ intent[p] = "none" /\ keyed[ScanOf[p]] = NoOne
  /\ intent' = [intent EXCEPT ![p] = "created"]
  /\ keyed'  = [keyed EXCEPT ![ScanOf[p]] = p]
  /\ UNCHANGED <<entitled, dispatch, lane, ledger, workers>>

\* updateMetadata, then the answer with the client secret: without the stored consent
\* nobody can pay.
RecordConsent(p) ==
  /\ intent[p] = "created"
  /\ intent' = [intent EXCEPT ![p] = "offered"]
  /\ UNCHANGED <<keyed, entitled, dispatch, lane, ledger, workers>>

\* Stripe forgets an idempotency key.
ForgetKey(s) ==
  /\ keyed[s] # NoOne
  /\ keyed' = [keyed EXCEPT ![s] = NoOne]
  /\ UNCHANGED <<intent, entitled, dispatch, lane, ledger, workers>>

Pay(p) ==
  /\ intent[p] = "offered"
  /\ intent' = [intent EXCEPT ![p] = "paid"]
  /\ UNCHANGED <<keyed, entitled, dispatch, lane, ledger, workers>>
------------------------------------------------------------------------------
(* The payment webhook *)

\* Fault: two puts instead of one transaction, a refused record stops nothing.
CommitPaidSplit(p) ==
  /\ intent[p] = "paid" /\ EmailInEvent /\ outbox[p] = "none"
  /\ entitled' = [entitled EXCEPT ![ScanOf[p]] = IF @ = NoOne THEN p ELSE @]
  /\ outbox'   = [outbox EXCEPT ![p] = "pending"]
  /\ stream'   = [stream EXCEPT ![p] = "waiting"]
  /\ UNCHANGED <<intent, keyed, deliveries, lane, ledger, workers>>

\* payment_intent.succeeded: the entitlement and the outbox record are created in one
\* transaction if neither exists.  The answer is 200 also if the outbox record exists;
\* an event without the receipt address is refused with 400, and one whose scan belongs
\* to another intent fails, both without a change.
CommitPaid(p) ==
  /\ intent[p] = "paid" /\ EmailInEvent
  /\ entitled[ScanOf[p]] = NoOne /\ outbox[p] = "none"
  /\ entitled' = [entitled EXCEPT ![ScanOf[p]] = p]
  /\ outbox'   = [outbox EXCEPT ![p] = "pending"]
  /\ stream'   = [stream EXCEPT ![p] = "waiting"]
  /\ UNCHANGED <<intent, keyed, deliveries, lane, ledger, workers>>
------------------------------------------------------------------------------
(* The dispatcher, one stream record at a time *)

\* Fault: the outbox record is marked before the message is sent.
DispatchSendMarked(p) ==
  /\ stream[p] = "waiting" /\ outbox[p] = "pending"
  /\ stream' = [stream EXCEPT ![p] = "sent"]
  /\ outbox' = [outbox EXCEPT ![p] = "dispatched"]
  /\ UNCHANGED <<deliveries, lane, stripe, ledger, workers>>

\* A pending record is sent to the queue; within the deduplication window SQS accepts
\* the message and adds none.
DispatchSend(p) ==
  /\ stream[p] = "waiting" /\ outbox[p] = "pending"
  /\ stream' = [stream EXCEPT ![p] = "sent"]
  /\ recent' = recent \cup {p}
  /\ queue'  = IF p \in recent THEN queue ELSE Append(queue, p)
  /\ UNCHANGED <<outbox, deliveries, receives, hidden, holder, dlq, stripe, ledger,
                 workers>>

\* The update conditional on pending.
DispatchMark(p) ==
  /\ stream[p] = "sent" /\ outbox[p] = "pending"
  /\ stream' = [stream EXCEPT ![p] = "marked"]
  /\ outbox' = [outbox EXCEPT ![p] = "dispatched"]
  /\ UNCHANGED <<deliveries, stripe, lane, ledger, workers>>

\* The invocation succeeds: the record was marked now or by an earlier delivery.
DispatchDone(p) ==
  /\ stream[p] \in {"waiting", "marked"} /\ outbox[p] = "dispatched"
  /\ stream' = [stream EXCEPT ![p] = "done"]
  /\ UNCHANGED <<outbox, deliveries, stripe, lane, ledger, workers>>

\* The invocation throws or dies; the stream delivers the record again until its
\* retention ends.
DispatchFail(p) ==
  /\ stream[p] \in {"waiting", "sent", "marked"}
  /\ IF deliveries[p] < MaxDeliveries
     THEN /\ deliveries' = [deliveries EXCEPT ![p] = @ + 1]
          /\ stream'     = [stream EXCEPT ![p] = "waiting"]
     ELSE /\ stream' = [stream EXCEPT ![p] = "dropped"]
          /\ UNCHANGED deliveries
  /\ UNCHANGED <<outbox, stripe, lane, ledger, workers>>

\* The deduplication window of a message ends.
ForgetMessage(p) ==
  /\ p \in recent
  /\ recent' = recent \ {p}
  /\ UNCHANGED <<queue, receives, hidden, holder, dlq, stripe, dispatch, ledger,
                 workers>>
------------------------------------------------------------------------------
(* The queue and the mail worker, one message at a time *)

\* Fault: the queue has no redrive policy.
ReceiveUnlimited(w) ==
  /\ w = started + 1
  /\ queue # <<>> /\ hidden = 0
  /\ started'  = w
  /\ receives' = receives + 1
  /\ hidden'   = HiddenTicks
  /\ holder'   = w
  /\ pc'   = [pc EXCEPT ![w] = "received"]
  /\ task' = [task EXCEPT ![w] = Head(queue)]
  /\ left' = [left EXCEPT ![w] = RunTicks]
  /\ UNCHANGED <<queue, recent, dlq, age, stripe, dispatch, ledger>>

\* The first message of the group is visible: a new invocation receives it.
Receive(w) ==
  /\ w = started + 1
  /\ queue # <<>> /\ hidden = 0 /\ receives < MaxReceives
  /\ started'  = w
  /\ receives' = receives + 1
  /\ hidden'   = HiddenTicks
  /\ holder'   = w
  /\ pc'   = [pc EXCEPT ![w] = "received"]
  /\ task' = [task EXCEPT ![w] = Head(queue)]
  /\ left' = [left EXCEPT ![w] = RunTicks]
  /\ UNCHANGED <<queue, recent, dlq, age, stripe, dispatch, ledger>>

\* The first message has used up its receives.
DeadLetter ==
  /\ queue # <<>> /\ hidden = 0 /\ receives = MaxReceives
  /\ dlq'   = dlq \cup {Head(queue)}
  /\ queue' = Tail(queue)
  /\ receives' = 0 /\ holder' = NoOne
  /\ UNCHANGED <<hidden, recent, stripe, dispatch, ledger, workers>>

\* Fault: a message whose delivery another worker has leased is acknowledged.
LookActiveReturns(w) ==
  LET p == task[w] IN
  /\ pc[w] = "received"
  /\ pc' = [pc EXCEPT ![w] =
       CASE state[p] = "sent" -> "acking"
         [] state[p] = "none" -> "putting"
         [] state[p] = "in_progress" /\ lease[p] = 0 -> "taking"
         [] OTHER -> "acking"]
  /\ UNCHANGED <<started, task, age, left, stripe, dispatch, lane, ledger>>

\* reserveDelivery reads the clock and the delivery: a sent one is acknowledged, an
\* active lease makes the invocation throw, an expired one is to be taken over.
Look(w) ==
  LET p == task[w] IN
  /\ pc[w] = "received"
  /\ pc' = [pc EXCEPT ![w] =
       CASE state[p] = "sent" -> "acking"
         [] state[p] = "none" -> "putting"
         [] state[p] = "in_progress" /\ lease[p] = 0 -> "taking"
         [] OTHER -> "ended"]
  /\ UNCHANGED <<started, task, age, left, stripe, dispatch, lane, ledger>>

\* Fault: the put and the update have no condition.
ReserveUnconditional(w) ==
  LET p == task[w] IN
  /\ pc[w] \in {"putting", "taking"}
  /\ pc'         = [pc EXCEPT ![w] = "reserved"]
  /\ state'      = [state EXCEPT ![p] = "in_progress"]
  /\ leaseOwner' = [leaseOwner EXCEPT ![p] = w]
  /\ lease'      = [lease EXCEPT ![p] = LeaseTicks - age[w]]
  /\ UNCHANGED <<mails, started, task, age, left, stripe, dispatch, lane>>

\* The put conditional on no delivery, or the update conditional on a lease that had
\* ended when the clock was read.  A lease taken since then still runs, for it is longer
\* than two invocations.  The new lease counts from that clock, too.
Reserve(w) ==
  LET p    == task[w]
      free == \/ pc[w] = "putting" /\ state[p] = "none"
              \/ pc[w] = "taking" /\ state[p] = "in_progress" /\ lease[p] = 0
  IN /\ pc[w] \in {"putting", "taking"}
     /\ pc' = [pc EXCEPT ![w] = IF free THEN "reserved" ELSE "ended"]
     /\ IF free
        THEN /\ state'      = [state EXCEPT ![p] = "in_progress"]
             /\ leaseOwner' = [leaseOwner EXCEPT ![p] = w]
             /\ lease'      = [lease EXCEPT ![p] = LeaseTicks - age[w]]
        ELSE UNCHANGED <<state, leaseOwner, lease>>
     /\ UNCHANGED <<mails, started, task, age, left, stripe, dispatch, lane>>

\* SES accepts the mail.
SendMail(w) ==
  /\ pc[w] = "reserved"
  /\ mails' = [mails EXCEPT ![task[w]] = @ + 1]
  /\ pc'    = [pc EXCEPT ![w] = "mailed"]
  /\ UNCHANGED <<state, leaseOwner, lease, started, task, age, left, stripe,
                 dispatch, lane>>

\* The delivery is marked sent, on the condition that the lease is still the worker's.
MarkSent(w) ==
  LET p    == task[w]
      mine == state[p] = "in_progress" /\ leaseOwner[p] = w
  IN /\ pc[w] = "mailed"
     /\ pc' = [pc EXCEPT ![w] = IF mine THEN "acking" ELSE "ended"]
     /\ IF mine
        THEN /\ state'      = [state EXCEPT ![p] = "sent"]
             /\ leaseOwner' = [leaseOwner EXCEPT ![p] = NoOne]
             /\ lease'      = [lease EXCEPT ![p] = 0]
        ELSE UNCHANGED <<state, leaseOwner, lease>>
     /\ UNCHANGED <<mails, started, task, age, left, stripe, dispatch, lane>>

\* The invocation returns: the message is deleted if its receipt is still valid.
Acknowledge(w) ==
  /\ pc[w] = "acking"
  /\ pc' = [pc EXCEPT ![w] = "ended"]
  /\ IF holder = w
     THEN /\ queue' = Tail(queue)
          /\ receives' = 0 /\ hidden' = 0 /\ holder' = NoOne
     ELSE UNCHANGED <<queue, receives, hidden, holder>>
  /\ UNCHANGED <<recent, dlq, started, task, age, left, stripe, dispatch,
                 ledger>>

\* The invocation throws, crashes, or is killed at its time limit.
Stop(w) ==
  /\ pc[w] \in Working
  /\ pc' = [pc EXCEPT ![w] = "ended"]
  /\ UNCHANGED <<started, task, age, left, stripe, dispatch, lane, ledger>>

Less(n) == IF n = 0 THEN 0 ELSE n - 1

\* Time passes; nobody runs past its time limit, and a receipt ends with the
\* visibility timeout.
Tick ==
  /\ \A w \in Runs : pc[w] \in Working => left[w] > 0
  /\ left'   = [w \in Runs |-> Less(left[w])]
  /\ lease'  = [p \in Intents |-> Less(lease[p])]
  /\ age'    = [w \in Runs |-> IF pc[w] \in {"putting", "taking"} THEN age[w] + 1 ELSE 0]
  /\ hidden' = Less(hidden)
  /\ holder' = IF hidden <= 1 THEN NoOne ELSE holder
  /\ UNCHANGED <<queue, receives, recent, dlq, state, leaseOwner, mails, started, pc,
                 task, stripe, dispatch>>
------------------------------------------------------------------------------
Checkout == \E p \in Intents :
  CreateIntent(p) \/ RecordConsent(p) \/ Pay(p) \/ CommitPaid(p)
Dispatch(p) == DispatchSend(p) \/ DispatchMark(p) \/ DispatchDone(p)
Work(w) == \/ Look(w) \/ Reserve(w) \/ SendMail(w) \/ MarkSent(w) \/ Acknowledge(w)
           \/ Receive(w) \/ Stop(w)

Next ==
  \/ Checkout
  \/ \E s \in Scans : ForgetKey(s)
  \/ \E p \in Intents : Dispatch(p) \/ DispatchFail(p) \/ ForgetMessage(p)
  \/ \E w \in Runs : Work(w)
  \/ DeadLetter \/ Tick

Spec == Init /\ [][Next]_vars

\* Stripe delivers a payment event until it is accepted, the stream its records; a
\* visible message is received or dead-lettered, a function past its limit is killed.
Fairness ==
  /\ \A p \in Intents : WF_vars(CommitPaid(p)) /\ WF_vars(Dispatch(p))
  /\ \A w \in Runs : WF_vars(Receive(w)) /\ WF_vars(left[w] = 0 /\ Stop(w))
  /\ WF_vars(DeadLetter) /\ WF_vars(Tick)

FairSpec == Spec /\ Fairness
------------------------------------------------------------------------------
StripeOK == /\ intent   \in [Intents -> IntentStates]
            /\ keyed    \in [Scans -> Intents \cup {NoOne}]
            /\ entitled \in [Scans -> Intents \cup {NoOne}]

DispatchOK == /\ outbox     \in [Intents -> {"none", "pending", "dispatched"}]
              /\ stream     \in [Intents -> StreamStates]
              /\ deliveries \in [Intents -> 0..MaxDeliveries]

LaneOK == /\ queue \in Seq(Intents)
          /\ receives \in 0..MaxReceives
          /\ hidden \in 0..HiddenTicks
          /\ holder \in Runs \cup {NoOne}
          /\ recent \subseteq Intents
          /\ dlq \subseteq Intents

LedgerOK == /\ state      \in [Intents -> {"none", "in_progress", "sent"}]
            /\ leaseOwner \in [Intents -> Runs \cup {NoOne}]
            /\ lease      \in [Intents -> 0..LeaseTicks]
            /\ mails      \in [Intents -> Nat]

WorkersOK == /\ started \in 0..MaxRuns
             /\ pc   \in [Runs -> WorkerSteps]
             /\ task \in [Runs -> Intents \cup {NoOne}]
             /\ age  \in [Runs -> 0..RunTicks]
             /\ left \in [Runs -> 0..RunTicks]
             /\ \A w \in Runs : pc[w] \in Working => task[w] \in Intents

\* Every variable stays in its type, and whoever works has something to work on.
TypeOK == StripeOK /\ DispatchOK /\ LaneOK /\ LedgerOK /\ WorkersOK

Queued(p) == \E i \in 1..Len(queue) : queue[i] = p

\* The confirmation of a contract is never lost: from the commit on it is pending in the
\* outbox, in the queue, in the dead-letter queue, or mailed and marked sent.  Failed
\* dispatches, deduplicated sends, busy leases and killed workers must all respect it.
NoLostConfirmation ==
  \A p \in Intents : entitled[ScanOf[p]] = p =>
    \/ outbox[p] = "pending" \/ Queued(p) \/ p \in dlq
    \/ state[p] = "sent" /\ mails[p] > 0

\* Only the payment that holds the entitlement of its scan is confirmed by mail, also
\* when a scan is paid twice because Stripe has forgotten the key of the first checkout.
ConfirmedIsEntitled ==
  \A p \in Intents : mails[p] > 0 => entitled[ScanOf[p]] = p

\* Once a confirmation is marked sent nobody mails it again: no redelivered message, no
\* second message outside the deduplication window, and no worker that was overtaken.
SentIsFinal ==
  [][\A p \in Intents : state[p] = "sent" => /\ state'[p] = "sent"
                                             /\ mails'[p] = mails[p]]_vars

\* Two workers never mail one confirmation at a time: whoever may send it, or has sent it
\* and not yet marked it, holds its lease, however slow it is and however often the
\* message was received since.
MailerHoldsLease ==
  \A w \in Runs : pc[w] \in {"reserved", "mailed"} =>
    state[task[w]] = "in_progress" /\ leaseOwner[task[w]] = w

\* Every payment is confirmed, unless its scan was already paid for, its message is in
\* the dead-letter queue, or the stream dropped a record that stays pending.
EveryPaymentConfirmed ==
  \A p \in Intents : intent[p] = "paid" ~>
    \/ mails[p] > 0
    \/ entitled[ScanOf[p]] \notin {p, NoOne}
    \/ p \in dlq \/ (stream[p] = "dropped" /\ outbox[p] = "pending")

\* Where the confirmation of a payment is, from the entitlement to the mark sent: whoever
\* has reserved it attempts it, until the worker marks it or ends.
Attempted(p, s) == \E w \in Runs : task[w] = p /\ pc[w] = s
ProgressOf(p) == IF state[p] = "sent" THEN "confirmed"
                 ELSE IF Attempted(p, "reserved") THEN "attempted"
                 ELSE IF Attempted(p, "mailed") THEN "mailed"
                 ELSE IF entitled[ScanOf[p]] = p THEN "owed" ELSE "none"

Promise == INSTANCE ConfirmationPromise WITH
  Payments <- Intents,
  granted  <- entitled,
  progress <- [p \in Intents |-> ProgressOf(p)]

\* Webhook, outbox, queue and workers keep the promise of ConfirmationPromise: attempts do
\* not overlap, each mails once at most, and nothing is mailed outside of one.
ImplementsPromise == Promise!Spec

\* README.md of the service: a signed payment_intent.succeeded webhook creates the paid
\* entitlement.
PaidIsEntitled ==
  \A p \in Intents : intent[p] = "paid" ~> entitled[ScanOf[p]] # NoOne

\* The strengthening that makes the invariants inductive.

\* Whatever has an outbox record holds the entitlement, and it has a stream record.
OutboxInv == \A p \in Intents : outbox[p] # "none" =>
  entitled[ScanOf[p]] = p /\ stream[p] # "none"
RecordInv == \A p \in Intents :
  /\ entitled[ScanOf[p]] = p => outbox[p] # "none"
  /\ stream[p] # "none" => outbox[p] # "none"

\* Only intents with an outbox record are sent, worked on and mailed.
SourceInv == /\ \A i \in 1..Len(queue) : outbox[queue[i]] # "none"
             /\ \A w \in Runs : pc[w] \in Working => outbox[task[w]] # "none"
             /\ \A p \in Intents : mails[p] > 0 => outbox[p] # "none"

\* A message that was sent, or that SQS deduplicates, is still somewhere.
Mailed(p) == state[p] = "sent" /\ mails[p] > 0
Handed(p) == stream[p] \in {"sent", "marked"} \/ outbox[p] = "dispatched" \/ p \in recent
HandedInv == \A p \in Intents : Handed(p) => Queued(p) \/ p \in dlq \/ Mailed(p)

\* A valid receipt belongs to a started invocation, and its message is the first one
\* and still hidden.
ReceiptInv == holder # NoOne =>
  /\ hidden > 0 /\ queue # <<>> /\ holder <= started
  /\ pc[holder] \in Working => task[holder] = Head(queue)

\* Invocation ids are fresh.
FreshInv == \A w \in Runs : w > started => pc[w] = "idle"

\* Only what is mailed and marked is acknowledged, and what is marked was mailed.
AckInv == \A w \in Runs : /\ pc[w] = "acking" => Mailed(task[w])
                          /\ pc[w] = "mailed" => mails[task[w]] > 0
SentInv == \A p \in Intents : state[p] = "sent" => mails[p] > 0

\* The clock of a worker is no older than its invocation.
AgeInv == \A w \in Runs :
  /\ pc[w] \in {"idle", "received"} => age[w] = 0
  /\ pc[w] \in {"putting", "taking"} => age[w] + left[w] <= RunTicks

\* A lease outlives the invocation that holds it.
LeaseInv == \A w \in Runs : pc[w] \in {"reserved", "mailed"} =>
  /\ state[task[w]] = "in_progress" /\ leaseOwner[task[w]] = w
  /\ lease[task[w]] > left[w]

IInv == /\ TypeOK /\ OutboxInv /\ RecordInv /\ SourceInv /\ HandedInv /\ ReceiptInv
        /\ FreshInv /\ AckInv /\ SentInv /\ AgeInv /\ LeaseInv

\* The strengthening for a visibility timeout that covers lease and invocation.
TimingCovers == LeaseTicks + RunTicks <= HiddenTicks

\* Whoever works holds the receipt, and the message stays hidden until it is gone and a
\* lease it takes now has ended.
ReceiptCovers == \A w \in Runs : pc[w] \in Working =>
  holder = w /\ hidden >= left[w] + LeaseTicks

\* A lease that runs was taken under the present receipt, which outlives it.
LeaseCovers == \A p \in Intents : lease[p] > 0 =>
  /\ hidden >= lease[p]
  /\ holder # NoOne /\ task[holder] = p /\ pc[holder] \in {"reserved", "mailed", "ended"}

\* What a worker saw of the delivery still holds when it reserves.
SeenInv == \A w \in Runs :
  /\ pc[w] = "putting" => state[task[w]] = "none"
  /\ pc[w] = "taking" => state[task[w]] = "in_progress" /\ lease[task[w]] = 0

TimingInv == ReceiptCovers /\ LeaseCovers /\ SeenInv

\* One worker at a time, and nothing it asks for is refused: its look at the delivery finds
\* no other's lease, the condition of its write holds, its return deletes the message.
WorksAlone ==
  /\ \A v, w \in Runs : pc[v] \in Working /\ pc[w] \in Working => v = w
  /\ \A w \in Runs :
       /\ pc[w] = "received" => ~ (state[task[w]] = "in_progress" /\ lease[task[w]] > 0)
       /\ pc[w] = "putting" => state[task[w]] = "none"
       /\ pc[w] = "taking" => state[task[w]] = "in_progress" /\ lease[task[w]] = 0
       /\ pc[w] = "mailed" => state[task[w]] = "in_progress" /\ leaseOwner[task[w]] = w
       /\ pc[w] = "acking" => holder = w
==============================================================================
