------------------------- MODULE EntitlementsProofs -------------------------
(***************************************************************************)
(* What Entitlements guarantees for every set of intents and scans, every  *)
(* number of worker invocations and every timing with leases longer than   *)
(* two invocations, proved from its step relation.                         *)
(***************************************************************************)
EXTENDS Entitlements, SequenceTheorems, TLAPS

\* What the proofs use of the constants.
LEMMA Constants ==
  /\ \A p \in Intents : ScanOf[p] \in Scans
  /\ NoOne \notin Intents /\ NoOne \notin Runs /\ Runs \subseteq Nat \ {0}
  /\ MaxRuns \in Nat /\ MaxDeliveries \in Nat /\ MaxReceives \in Nat \ {0}
  /\ RunTicks \in Nat \ {0} /\ LeaseTicks \in Nat /\ HiddenTicks \in Nat \ {0}
  /\ 2 * RunTicks < LeaseTicks
  BY EntitlementsAssumption DEF EntitlementsAssumption, Runs

-----------------------------------------------------------------------------
(* The shape of the steps with a condition *)

\* A reservation that succeeds.
Granted(w) ==
  /\ \/ pc[w] = "putting" /\ state[task[w]] = "none"
     \/ pc[w] = "taking" /\ state[task[w]] = "in_progress" /\ lease[task[w]] = 0
  /\ pc' = [pc EXCEPT ![w] = "reserved"]
  /\ state' = [state EXCEPT ![task[w]] = "in_progress"]
  /\ leaseOwner' = [leaseOwner EXCEPT ![task[w]] = w]
  /\ lease' = [lease EXCEPT ![task[w]] = LeaseTicks - age[w]]
  /\ UNCHANGED <<mails, started, task, age, left, stripe, dispatch, lane>>

\* A mark that succeeds.
Marked(w) ==
  /\ pc[w] = "mailed" /\ state[task[w]] = "in_progress" /\ leaseOwner[task[w]] = w
  /\ pc' = [pc EXCEPT ![w] = "acking"]
  /\ state' = [state EXCEPT ![task[w]] = "sent"]
  /\ leaseOwner' = [leaseOwner EXCEPT ![task[w]] = NoOne]
  /\ lease' = [lease EXCEPT ![task[w]] = 0]
  /\ UNCHANGED <<mails, started, task, age, left, stripe, dispatch, lane>>

\* A worker that gives up: a refused reservation or mark, an error, a kill.
Ended(w) ==
  /\ pc[w] \in Working
  /\ pc' = [pc EXCEPT ![w] = "ended"]
  /\ UNCHANGED <<started, task, age, left, stripe, dispatch, lane, ledger>>

\* A look at the delivery only moves the worker on.
Looked(w) ==
  /\ pc[w] = "received"
  /\ \E v \in {"acking", "putting", "taking", "ended"} :
       /\ pc' = [pc EXCEPT ![w] = v]
       /\ v = "acking" => state[task[w]] = "sent"
       /\ v = "putting" => state[task[w]] = "none"
       /\ v = "taking" => state[task[w]] = "in_progress" /\ lease[task[w]] = 0
  /\ UNCHANGED <<started, task, age, left, stripe, dispatch, lane, ledger>>

\* A return that deletes the message.
Deleted(w) ==
  /\ pc[w] = "acking" /\ holder = w
  /\ pc' = [pc EXCEPT ![w] = "ended"]
  /\ queue' = Tail(queue) /\ receives' = 0 /\ hidden' = 0 /\ holder' = NoOne
  /\ UNCHANGED <<recent, dlq, started, task, age, left, stripe, dispatch, ledger>>

LEMMA ReserveShape == ASSUME NEW w, Reserve(w) PROVE Granted(w) \/ Ended(w)
<1> DEFINE free == \/ pc[w] = "putting" /\ state[task[w]] = "none"
                   \/ pc[w] = "taking" /\ state[task[w]] = "in_progress"
                                       /\ lease[task[w]] = 0
<1>1. CASE free
  BY <1>1 DEF Reserve, Granted
<1>2. CASE ~ free
  BY <1>2 DEF Reserve, Ended, Working, ledger
<1> QED BY <1>1, <1>2

LEMMA MarkShape == ASSUME NEW w, MarkSent(w) PROVE Marked(w) \/ Ended(w)
<1> DEFINE mine == state[task[w]] = "in_progress" /\ leaseOwner[task[w]] = w
<1>1. CASE mine
  BY <1>1 DEF MarkSent, Marked
<1>2. CASE ~ mine
  BY <1>2 DEF MarkSent, Ended, Working, ledger
<1> QED BY <1>1, <1>2

LEMMA LookShape == ASSUME NEW w, Look(w) PROVE Looked(w)
<1>1. CASE state[task[w]] = "sent"
  BY <1>1 DEF Look, Looked
<1>2. CASE state[task[w]] = "none"
  BY <1>2 DEF Look, Looked
<1>3. CASE state[task[w]] = "in_progress" /\ lease[task[w]] = 0
  BY <1>3 DEF Look, Looked
<1>4. CASE ~ \/ state[task[w]] \in {"sent", "none"}
             \/ state[task[w]] = "in_progress" /\ lease[task[w]] = 0
  BY <1>4 DEF Look, Looked
<1> QED BY <1>1, <1>2, <1>3, <1>4

LEMMA AcknowledgeShape == ASSUME NEW w, Acknowledge(w) PROVE Deleted(w) \/ Ended(w)
  BY DEF Acknowledge, Deleted, Ended, Working, lane

\* Every step is one of these.
Steps ==
  \/ \E p \in Intents : \/ CreateIntent(p) \/ RecordConsent(p) \/ Pay(p) \/ CommitPaid(p)
                        \/ DispatchSend(p) \/ DispatchMark(p) \/ DispatchDone(p)
                        \/ DispatchFail(p) \/ ForgetMessage(p)
  \/ \E s \in Scans : ForgetKey(s)
  \/ \E w \in Runs : \/ Receive(w) \/ Looked(w) \/ Granted(w) \/ SendMail(w)
                     \/ Marked(w) \/ Deleted(w) \/ Ended(w)
  \/ DeadLetter \/ Tick \/ UNCHANGED vars

LEMMA StepShapes == [Next]_vars => Steps
<1> SUFFICES ASSUME [Next]_vars PROVE Steps
  OBVIOUS
<1>1. ASSUME NEW w \in Runs, Work(w) PROVE Steps
  <2>1. ASSUME Stop(w) PROVE Ended(w)
    BY <2>1 DEF Stop, Ended
  <2> QED BY <1>1, <2>1, ReserveShape, MarkShape, LookShape, AcknowledgeShape
             DEF Work, Steps
<1> QED BY <1>1 DEF Next, Checkout, Dispatch, Steps
-----------------------------------------------------------------------------
(* Types *)

WorkersHaveTasks == \A w \in Runs : pc[w] \in Working => task[w] \in Intents

LEMMA StripeStep == ASSUME TypeOK, Steps PROVE StripeOK'
<1> USE Constants
<1>0. StripeOK
  BY DEF TypeOK
<1>1. ASSUME UNCHANGED stripe PROVE StripeOK'
  BY <1>0, <1>1 DEF StripeOK, stripe
<1>2. ASSUME NEW p \in Intents, CreateIntent(p) PROVE StripeOK'
  BY <1>0, <1>2 DEF StripeOK, CreateIntent, IntentStates
<1>3. ASSUME NEW p \in Intents, RecordConsent(p) \/ Pay(p) PROVE StripeOK'
  BY <1>0, <1>3 DEF StripeOK, RecordConsent, Pay, IntentStates
<1>4. ASSUME NEW p \in Intents, CommitPaid(p) PROVE StripeOK'
  BY <1>0, <1>4 DEF StripeOK, CommitPaid
<1>5. ASSUME NEW s \in Scans, ForgetKey(s) PROVE StripeOK'
  BY <1>0, <1>5 DEF StripeOK, ForgetKey
<1> QED
  BY <1>1, <1>2, <1>3, <1>4, <1>5
     DEF Steps, DispatchSend, DispatchMark, DispatchDone, DispatchFail, ForgetMessage,
         Receive, Looked, Granted, SendMail, Marked, Deleted, Ended, DeadLetter, Tick,
         vars

LEMMA DispatchStep == ASSUME TypeOK, Steps PROVE DispatchOK'
<1> USE Constants
<1>0. DispatchOK
  BY DEF TypeOK
<1>1. ASSUME UNCHANGED dispatch PROVE DispatchOK'
  BY <1>0, <1>1 DEF DispatchOK, dispatch
<1>2. ASSUME NEW p \in Intents, CommitPaid(p) PROVE DispatchOK'
  BY <1>0, <1>2 DEF DispatchOK, CommitPaid, StreamStates
<1>3. ASSUME NEW p \in Intents, DispatchSend(p) \/ DispatchMark(p) \/ DispatchDone(p)
      PROVE  DispatchOK'
  BY <1>0, <1>3 DEF DispatchOK, DispatchSend, DispatchMark, DispatchDone, StreamStates
<1>4. ASSUME NEW p \in Intents, DispatchFail(p) PROVE DispatchOK'
  <2>1. CASE deliveries[p] < MaxDeliveries
    <3>1. deliveries[p] + 1 \in 0..MaxDeliveries
      BY <1>0, <2>1 DEF DispatchOK
    <3> QED BY <1>0, <1>4, <2>1, <3>1 DEF DispatchOK, DispatchFail, StreamStates
  <2>2. CASE ~ deliveries[p] < MaxDeliveries
    BY <1>0, <1>4, <2>2 DEF DispatchOK, DispatchFail, StreamStates
  <2> QED BY <2>1, <2>2
<1> QED
  BY <1>1, <1>2, <1>3, <1>4
     DEF Steps, CreateIntent, RecordConsent, Pay, ForgetKey, ForgetMessage,
         Receive, Looked, Granted, SendMail, Marked, Deleted, Ended, DeadLetter, Tick,
         vars

LEMMA LaneStep == ASSUME TypeOK, ReceiptInv, Steps PROVE LaneOK'
<1> USE Constants
<1>0. LaneOK
  BY DEF TypeOK
<1>1. ASSUME UNCHANGED lane PROVE LaneOK'
  BY <1>0, <1>1 DEF LaneOK, lane
<1>2. ASSUME NEW p \in Intents, DispatchSend(p) PROVE LaneOK'
  BY <1>0, <1>2 DEF LaneOK, DispatchSend
<1>3. ASSUME NEW p \in Intents, ForgetMessage(p) PROVE LaneOK'
  BY <1>0, <1>3 DEF LaneOK, ForgetMessage
<1>4. ASSUME NEW w \in Runs, Receive(w) PROVE LaneOK'
  <2>1. receives + 1 \in 0..MaxReceives /\ HiddenTicks \in 0..HiddenTicks
    BY <1>0, <1>4 DEF LaneOK, Receive
  <2> QED BY <1>0, <1>4, <2>1 DEF LaneOK, Receive
<1>5. ASSUME NEW w \in Runs, Deleted(w) PROVE LaneOK'
  <2>1. queue # <<>>
    BY <1>5 DEF Deleted, ReceiptInv
  <2>2. Tail(queue) \in Seq(Intents)
    BY <1>0, <2>1, HeadTailProperties DEF LaneOK
  <2> QED BY <1>0, <1>5, <2>2 DEF LaneOK, Deleted
<1>6. ASSUME DeadLetter PROVE LaneOK'
  <2>1. Head(queue) \in Intents /\ Tail(queue) \in Seq(Intents)
    BY <1>0, <1>6, HeadTailProperties DEF LaneOK, DeadLetter
  <2> QED BY <1>0, <1>6, <2>1 DEF LaneOK, DeadLetter
<1>7. ASSUME Tick PROVE LaneOK'
  BY <1>0, <1>7 DEF LaneOK, Tick, Less
<1> QED
  BY <1>1, <1>2, <1>3, <1>4, <1>5, <1>6, <1>7
     DEF Steps, CreateIntent, RecordConsent, Pay, CommitPaid, ForgetKey, DispatchMark,
         DispatchDone, DispatchFail, Looked, Granted, SendMail, Marked, Ended, vars

LEMMA LedgerStep == ASSUME TypeOK, Steps PROVE LedgerOK'
<1> USE Constants
<1>0. LedgerOK /\ WorkersHaveTasks
  BY DEF TypeOK, WorkersOK, WorkersHaveTasks
<1>1. ASSUME UNCHANGED ledger PROVE LedgerOK'
  BY <1>0, <1>1 DEF LedgerOK, ledger
<1>2. ASSUME NEW w \in Runs, Granted(w) PROVE LedgerOK'
  <2>1. age[w] \in 0..RunTicks
    BY DEF TypeOK, WorkersOK
  <2>2. LeaseTicks - age[w] \in 0..LeaseTicks
    BY <2>1
  <2>3. lease' \in [Intents -> 0..LeaseTicks]
    BY <1>0, <1>2, <2>2 DEF LedgerOK, Granted
  <2> QED BY <1>0, <1>2, <2>3 DEF LedgerOK, Granted
<1>3. ASSUME NEW w \in Runs, Marked(w) PROVE LedgerOK'
  <2>0. 0 \in 0..LeaseTicks
    OBVIOUS
  <2>1. lease' \in [Intents -> 0..LeaseTicks]
    BY <1>0, <1>3, <2>0 DEF LedgerOK, Marked
  <2> QED BY <1>0, <1>3, <2>1 DEF LedgerOK, Marked
<1>4. ASSUME NEW w \in Runs, SendMail(w) PROVE LedgerOK'
  <2>1. task[w] \in Intents
    BY <1>0, <1>4 DEF WorkersHaveTasks, SendMail, Working
  <2>2. mails[task[w]] + 1 \in Nat
    BY <1>0, <2>1 DEF LedgerOK
  <2> QED BY <1>0, <1>4, <2>2 DEF LedgerOK, SendMail
<1>5. ASSUME Tick PROVE LedgerOK'
  BY <1>0, <1>5 DEF LedgerOK, Tick, Less
<1> QED
  BY <1>1, <1>2, <1>3, <1>4, <1>5
     DEF Steps, CreateIntent, RecordConsent, Pay, CommitPaid, ForgetKey, DispatchSend,
         DispatchMark, DispatchDone, DispatchFail, ForgetMessage, Receive, Looked,
         Deleted, Ended, DeadLetter, vars

\* A worker moves on with its message.
LEMMA WorkersMove ==
  ASSUME WorkersOK, NEW w \in Runs, pc[w] \in Working, NEW v \in WorkerSteps,
         pc' = [pc EXCEPT ![w] = v], UNCHANGED <<started, task, age, left>>
  PROVE  WorkersOK'
  BY DEF WorkersOK, Working, WorkerSteps

LEMMA WorkersStep == ASSUME TypeOK, AgeInv, Steps PROVE WorkersOK'
<1> USE Constants
<1>0. WorkersOK
  BY DEF TypeOK
<1>1. ASSUME UNCHANGED workers PROVE WorkersOK'
  BY <1>0, <1>1 DEF WorkersOK, workers
<1>2. ASSUME NEW w \in Runs,
             Looked(w) \/ Granted(w) \/ SendMail(w) \/ Marked(w) \/ Deleted(w) \/ Ended(w)
      PROVE  WorkersOK'
  <2>1. pc[w] \in Working /\ UNCHANGED <<started, task, age, left>>
    BY <1>2 DEF Looked, Granted, SendMail, Marked, Deleted, Ended, Working
  <2>2. PICK v \in WorkerSteps : pc' = [pc EXCEPT ![w] = v]
    BY <1>2 DEF Looked, Granted, SendMail, Marked, Deleted, Ended, Working, WorkerSteps
  <2> QED BY <1>0, <2>1, <2>2, WorkersMove
<1>3. ASSUME NEW w \in Runs, Receive(w) PROVE WorkersOK'
  <2>1. Head(queue) \in Intents
    BY <1>3, HeadTailProperties DEF Receive, TypeOK, LaneOK
  <2>2. started' \in 0..MaxRuns /\ RunTicks \in 0..RunTicks
    BY <1>3 DEF Receive, Runs
  <2>3. /\ pc' \in [Runs -> WorkerSteps] /\ task' \in [Runs -> Intents \cup {NoOne}]
        /\ left' \in [Runs -> 0..RunTicks] /\ age' \in [Runs -> 0..RunTicks]
    BY <1>0, <1>3, <2>1, <2>2 DEF WorkersOK, Receive, WorkerSteps, Working
  <2>4. \A v \in Runs : pc'[v] \in Working => task'[v] \in Intents
    BY <1>0, <1>3, <2>1 DEF WorkersOK, Receive
  <2> QED BY <2>2, <2>3, <2>4 DEF WorkersOK
<1>4. ASSUME Tick PROVE WorkersOK'
  <2>1. \A w \in Runs : age'[w] \in 0..RunTicks
    <3> SUFFICES ASSUME NEW w \in Runs PROVE age'[w] \in 0..RunTicks
      OBVIOUS
    <3>1. age[w] \in 0..RunTicks /\ left[w] \in 0..RunTicks
      BY <1>0 DEF WorkersOK
    <3>2. CASE pc[w] \in {"putting", "taking"}
      <4>1. left[w] > 0 /\ age[w] + left[w] <= RunTicks
        BY <1>4, <3>2 DEF Tick, Working, AgeInv
      <4>2. age'[w] = age[w] + 1
        BY <1>4, <3>2 DEF Tick
      <4> QED BY <3>1, <4>1, <4>2
    <3>3. CASE pc[w] \notin {"putting", "taking"}
      BY <1>4, <3>3 DEF Tick
    <3> QED BY <3>2, <3>3
  <2>2. age' \in [Runs -> 0..RunTicks]
    BY <1>4, <2>1 DEF Tick
  <2>3. left' \in [Runs -> 0..RunTicks]
    BY <1>0, <1>4 DEF WorkersOK, Tick, Less
  <2> QED BY <1>0, <1>4, <2>2, <2>3 DEF WorkersOK, Tick
<1> QED
  BY <1>1, <1>2, <1>3, <1>4
     DEF Steps, CreateIntent, RecordConsent, Pay, CommitPaid, ForgetKey, DispatchSend,
         DispatchMark, DispatchDone, DispatchFail, ForgetMessage, DeadLetter, vars

LEMMA TypeStep == ASSUME TypeOK, ReceiptInv, AgeInv, Steps PROVE TypeOK'
  BY StripeStep, DispatchStep, LaneStep, LedgerStep, WorkersStep DEF TypeOK
-----------------------------------------------------------------------------
(* The queue *)

LEMMA Appended ==
  ASSUME LaneOK, NEW p \in Intents, queue' = Append(queue, p)
  PROVE  \A q : Queued(q)' <=> Queued(q) \/ q = p
<1> SUFFICES ASSUME NEW q PROVE Queued(q)' <=> Queued(q) \/ q = p
  OBVIOUS
<1>1. /\ queue \in Seq(Intents) /\ Len(queue') = Len(queue) + 1
      /\ queue'[Len(queue) + 1] = p
      /\ \A i \in 1..Len(queue) : queue'[i] = queue[i]
  BY AppendProperties DEF LaneOK
<1>2. Len(queue) \in Nat
  BY <1>1
<1>3. ASSUME Queued(q)' PROVE Queued(q) \/ q = p
  <2>1. PICK i \in 1..Len(queue') : queue'[i] = q
    BY <1>3 DEF Queued
  <2> QED BY <1>1, <1>2, <2>1 DEF Queued
<1>4. ASSUME Queued(q) PROVE Queued(q)'
  <2>1. PICK i \in 1..Len(queue) : queue[i] = q
    BY <1>4 DEF Queued
  <2>2. i \in 1..Len(queue') /\ queue'[i] = q
    BY <1>1, <1>2, <2>1
  <2> QED BY <2>2 DEF Queued
<1>5. ASSUME q = p PROVE Queued(q)'
  <2>1. Len(queue) + 1 \in 1..Len(queue')
    BY <1>1, <1>2
  <2> QED BY <1>1, <1>5, <2>1 DEF Queued
<1> QED BY <1>3, <1>4, <1>5

LEMMA Removed ==
  ASSUME LaneOK, queue # <<>>, queue' = Tail(queue)
  PROVE  \A q : /\ Queued(q) => Queued(q)' \/ q = Head(queue)
                /\ Queued(q)' => Queued(q)
<1> SUFFICES ASSUME NEW q PROVE /\ Queued(q) => Queued(q)' \/ q = Head(queue)
                                /\ Queued(q)' => Queued(q)
  OBVIOUS
<1>1. /\ queue \in Seq(Intents) /\ Len(queue') = Len(queue) - 1
      /\ \A i \in 1..Len(queue') : queue'[i] = queue[i + 1]
      /\ Head(queue) = queue[1]
  BY HeadTailProperties DEF LaneOK
<1>2. Len(queue) \in Nat /\ Len(queue) > 0
  BY <1>1, EmptySeq
<1>3. ASSUME Queued(q), q # Head(queue) PROVE Queued(q)'
  <2>1. PICK i \in 1..Len(queue) : queue[i] = q
    BY <1>3 DEF Queued
  <2>2. i - 1 \in 1..Len(queue') /\ (i - 1) + 1 = i
    BY <1>1, <1>2, <1>3, <2>1
  <2> QED BY <1>1, <2>1, <2>2 DEF Queued
<1>4. ASSUME Queued(q)' PROVE Queued(q)
  <2>1. PICK i \in 1..Len(queue') : queue'[i] = q
    BY <1>4 DEF Queued
  <2>2. i + 1 \in 1..Len(queue) /\ queue[i + 1] = q
    BY <1>1, <1>2, <2>1
  <2> QED BY <2>2 DEF Queued
<1> QED BY <1>3, <1>4

\* The queue changes by a send, an acknowledgement or a move to the dead letters.
LEMMA QueueShape ==
  ASSUME TypeOK, ReceiptInv, Steps
  PROVE  \/ queue' = queue /\ dlq' = dlq
         \/ \E p \in Intents : DispatchSend(p) /\ queue' = Append(queue, p) /\ dlq' = dlq
         \/ \E w \in Runs : /\ Deleted(w) /\ queue # <<>> /\ queue' = Tail(queue)
                            /\ task[w] = Head(queue) /\ dlq' = dlq
         \/ /\ DeadLetter /\ queue # <<>> /\ queue' = Tail(queue)
            /\ dlq' = dlq \cup {Head(queue)}
<1>1. ASSUME NEW w \in Runs, Deleted(w)
      PROVE  /\ queue # <<>> /\ queue' = Tail(queue)
             /\ task[w] = Head(queue) /\ dlq' = dlq
  <2>1. holder = w /\ pc[w] \in Working /\ w # NoOne
    BY <1>1, Constants DEF Deleted, Working
  <2> QED BY <1>1, <2>1 DEF Deleted, ReceiptInv
<1>2. ASSUME NEW p \in Intents, DispatchSend(p)
      PROVE  dlq' = dlq /\ (queue' = queue \/ queue' = Append(queue, p))
  BY <1>2 DEF DispatchSend
<1>3. ASSUME DeadLetter
      PROVE queue # <<>> /\ queue' = Tail(queue) /\ dlq' = dlq \cup {Head(queue)}
  BY <1>3 DEF DeadLetter
<1> QED
  BY <1>1, <1>2, <1>3
     DEF Steps, CreateIntent, RecordConsent, Pay, CommitPaid, ForgetKey,
         DispatchMark, DispatchDone, DispatchFail, ForgetMessage, Receive, Looked,
         Granted, SendMail, Marked, Ended, Tick, lane, vars
-----------------------------------------------------------------------------
(* The entitlement and its outbox record *)

LEMMA OutboxKept ==
  ASSUME TypeOK, Steps
  PROVE  \A p \in Intents : /\ outbox[p] # "none" => outbox'[p] # "none"
                            /\ stream[p] # "none" => stream'[p] # "none"
<1>1. DispatchOK
  BY DEF TypeOK
<1>2. ASSUME NEW q \in Intents, CommitPaid(q) \/ DispatchSend(q) \/ DispatchMark(q)
                               \/ DispatchDone(q) \/ DispatchFail(q)
      PROVE  \A p \in Intents : /\ outbox[p] # "none" => outbox'[p] # "none"
                                /\ stream[p] # "none" => stream'[p] # "none"
  BY <1>1, <1>2 DEF DispatchOK, CommitPaid, DispatchSend, DispatchMark, DispatchDone,
                    DispatchFail
<1> QED
  BY <1>2 DEF Steps, CreateIntent, RecordConsent, Pay, ForgetKey, ForgetMessage, Receive,
              Looked, Granted, SendMail, Marked, Deleted, Ended, DeadLetter, Tick,
              dispatch, vars

LEMMA RecordStep ==
  ASSUME TypeOK, OutboxInv, RecordInv, Steps PROVE OutboxInv' /\ RecordInv'
<1> USE Constants
<1>0. StripeOK /\ DispatchOK
  BY DEF TypeOK
<1>1. ASSUME UNCHANGED <<entitled, outbox, stream>> PROVE OutboxInv' /\ RecordInv'
  BY <1>1 DEF OutboxInv, RecordInv
<1>2. ASSUME NEW p \in Intents, CommitPaid(p) PROVE OutboxInv' /\ RecordInv'
  <2>1. \A q \in Intents \ {p} : /\ outbox'[q] = outbox[q] /\ stream'[q] = stream[q]
    BY <1>0, <1>2 DEF CommitPaid, DispatchOK
  <2>2. outbox'[p] = "pending" /\ stream'[p] = "waiting" /\ entitled'[ScanOf[p]] = p
    BY <1>0, <1>2 DEF CommitPaid, DispatchOK, StripeOK
  <2>3. \A q \in Intents \ {p} : ScanOf[q] = ScanOf[p] => outbox[q] = "none"
    BY <1>2 DEF CommitPaid, OutboxInv
  <2>4. \A q \in Intents : ScanOf[q] # ScanOf[p] => entitled'[ScanOf[q]] = entitled[ScanOf[q]]
    BY <1>0, <1>2 DEF CommitPaid, StripeOK
  <2>5. OutboxInv'
    BY <2>1, <2>2, <2>3, <2>4 DEF OutboxInv
  <2>6. RecordInv'
    BY <2>1, <2>2, <2>4 DEF RecordInv
  <2> QED BY <2>5, <2>6
<1>3. ASSUME NEW p \in Intents,
             DispatchSend(p) \/ DispatchMark(p) \/ DispatchDone(p) \/ DispatchFail(p)
      PROVE  OutboxInv' /\ RecordInv'
  <2>1. /\ entitled' = entitled
        /\ \A q \in Intents : /\ outbox'[q] # "none" <=> outbox[q] # "none"
                              /\ stream'[q] # "none" <=> stream[q] # "none"
    BY <1>0, <1>3 DEF DispatchSend, DispatchMark, DispatchDone, DispatchFail, DispatchOK,
                      stripe
  <2> QED BY <2>1 DEF OutboxInv, RecordInv
<1> QED
  BY <1>1, <1>2, <1>3
     DEF Steps, CreateIntent, RecordConsent, Pay, ForgetKey, ForgetMessage, Receive,
         Looked, Granted, SendMail, Marked, Deleted, Ended, DeadLetter, Tick,
         dispatch, stripe, vars
-----------------------------------------------------------------------------
(* Where a confirmation may be *)

\* What was mailed and marked stays so.
LEMMA MailedKept ==
  ASSUME TypeOK, Steps
  PROVE  \A p \in Intents : /\ state[p] = "sent" => state'[p] = "sent"
                            /\ mails'[p] >= mails[p]
<1>1. LedgerOK /\ WorkersHaveTasks
  BY DEF TypeOK, WorkersOK, WorkersHaveTasks
<1>2. ASSUME NEW w \in Runs, Granted(w) \/ Marked(w)
      PROVE  \A p \in Intents : /\ state[p] = "sent" => state'[p] = "sent"
                                /\ mails'[p] >= mails[p]
  BY <1>1, <1>2 DEF LedgerOK, Granted, Marked
<1>3. ASSUME NEW w \in Runs, SendMail(w)
      PROVE  \A p \in Intents : /\ state[p] = "sent" => state'[p] = "sent"
                                /\ mails'[p] >= mails[p]
  BY <1>1, <1>3 DEF LedgerOK, SendMail
<1>4. ASSUME UNCHANGED <<state, mails>>
      PROVE  \A p \in Intents : /\ state[p] = "sent" => state'[p] = "sent"
                                /\ mails'[p] >= mails[p]
  BY <1>1, <1>4 DEF LedgerOK
<1> QED
  BY <1>2, <1>3, <1>4
     DEF Steps, CreateIntent, RecordConsent, Pay, CommitPaid, ForgetKey, DispatchSend,
         DispatchMark, DispatchDone, DispatchFail, ForgetMessage, Receive, Looked,
         Deleted, Ended, DeadLetter, Tick, ledger, vars

LEMMA SourceStep ==
  ASSUME TypeOK, ReceiptInv, RecordInv, SourceInv, Steps PROVE SourceInv'
<1>0. /\ LaneOK /\ LedgerOK /\ WorkersOK /\ WorkersHaveTasks
      /\ \A p \in Intents : outbox[p] # "none" => outbox'[p] # "none"
  BY OutboxKept DEF TypeOK, WorkersOK, WorkersHaveTasks
<1>1. \A i \in 1..Len(queue') : outbox'[queue'[i]] # "none"
  <2>1. \A q : Queued(q)' => Queued(q) \/ outbox[q] # "none"
    <3>1. ASSUME NEW p \in Intents, DispatchSend(p), queue' = Append(queue, p)
          PROVE  \A q : Queued(q)' => Queued(q) \/ outbox[q] # "none"
      <4>1. outbox[p] = "pending"
        BY <3>1 DEF DispatchSend
      <4> QED BY <1>0, <3>1, <4>1, Appended
    <3>2. ASSUME queue # <<>>, queue' = Tail(queue)
          PROVE  \A q : Queued(q)' => Queued(q)
      BY <1>0, <3>2, Removed
    <3>3. ASSUME queue' = queue PROVE \A q : Queued(q)' => Queued(q)
      BY <3>3 DEF Queued
    <3> QED BY <3>1, <3>2, <3>3, QueueShape
  <2>2. \A q : Queued(q) => q \in Intents /\ outbox[q] # "none"
    BY <1>0 DEF Queued, SourceInv, LaneOK
  <2>3. LaneOK'
    BY LaneStep
  <2>4. SUFFICES ASSUME NEW i \in 1..Len(queue') PROVE outbox'[queue'[i]] # "none"
    OBVIOUS
  <2>5. PICK q \in Intents : q = queue'[i]
    BY <2>3 DEF LaneOK
  <2>6. Queued(q)'
    BY <2>5 DEF Queued
  <2> QED BY <1>0, <2>1, <2>2, <2>5, <2>6
<1>2. \A w \in Runs : pc'[w] \in Working => outbox'[task'[w]] # "none"
  <2>1. ASSUME NEW v \in Runs, Receive(v)
        PROVE  \A w \in Runs : pc'[w] \in Working => outbox'[task'[w]] # "none"
    <3>1. Head(queue) \in Intents /\ outbox[Head(queue)] # "none"
      <4>1. 1 \in 1..Len(queue) /\ Head(queue) = queue[1]
        BY <1>0, <2>1, EmptySeq, HeadTailProperties DEF Receive, LaneOK
      <4> QED BY <1>0, <4>1 DEF SourceInv, LaneOK
    <3>2. task'[v] = Head(queue)
      BY <1>0, <2>1 DEF Receive, WorkersOK
    <3>3. \A w \in Runs \ {v} : task'[w] = task[w] /\ pc'[w] = pc[w]
      BY <1>0, <2>1 DEF Receive, WorkersOK
    <3> QED BY <1>0, <3>1, <3>2, <3>3 DEF SourceInv, WorkersHaveTasks
  <2>2. ASSUME NEW v \in Runs,
               Looked(v) \/ Granted(v) \/ SendMail(v) \/ Marked(v) \/ Deleted(v) \/ Ended(v)
        PROVE  \A w \in Runs : pc'[w] \in Working => outbox'[task'[w]] # "none"
    <3>1. task' = task /\ \A w \in Runs : pc'[w] \in Working => pc[w] \in Working
      BY <1>0, <2>2 DEF Looked, Granted, SendMail, Marked, Deleted, Ended, Working,
                        WorkersOK
    <3> QED BY <1>0, <3>1 DEF SourceInv, WorkersHaveTasks
  <2>3. ASSUME UNCHANGED <<pc, task>>
        PROVE  \A w \in Runs : pc'[w] \in Working => outbox'[task'[w]] # "none"
    BY <1>0, <2>3 DEF SourceInv, WorkersHaveTasks
  <2> QED
    BY <2>1, <2>2, <2>3
       DEF Steps, CreateIntent, RecordConsent, Pay, CommitPaid, ForgetKey, DispatchSend,
           DispatchMark, DispatchDone, DispatchFail, ForgetMessage, DeadLetter, Tick,
           workers, vars
<1>3. \A p \in Intents : mails'[p] > 0 => outbox'[p] # "none"
  <2>1. ASSUME NEW v \in Runs, SendMail(v)
        PROVE  \A p \in Intents : mails'[p] > 0 => outbox'[p] # "none"
    <3>1. task[v] \in Intents /\ outbox[task[v]] # "none"
      BY <1>0, <2>1 DEF SendMail, SourceInv, WorkersHaveTasks, Working
    <3>2. \A p \in Intents \ {task[v]} : mails'[p] = mails[p]
      BY <1>0, <2>1 DEF SendMail, LedgerOK
    <3> QED BY <1>0, <3>1, <3>2 DEF SourceInv
  <2>2. ASSUME UNCHANGED mails
        PROVE  \A p \in Intents : mails'[p] > 0 => outbox'[p] # "none"
    BY <1>0, <2>2 DEF SourceInv
  <2> QED
    BY <2>1, <2>2
       DEF Steps, CreateIntent, RecordConsent, Pay, CommitPaid, ForgetKey, DispatchSend,
           DispatchMark, DispatchDone, DispatchFail, ForgetMessage, DeadLetter, Tick,
           Receive, Looked, Granted, Marked, Deleted, Ended, ledger, vars
<1> QED BY <1>1, <1>2, <1>3 DEF SourceInv

\* What was handed to the queue was handed before, or is in the queue now.
LEMMA HandedStep ==
  ASSUME TypeOK, ReceiptInv, AckInv, HandedInv, Steps PROVE HandedInv'
<1>0. DispatchOK /\ LaneOK /\ WorkersHaveTasks
  BY DEF TypeOK, WorkersOK, WorkersHaveTasks
<1>1. \A p \in Intents : Mailed(p) => Mailed(p)'
  BY MailedKept, LedgerStep DEF Mailed, TypeOK, LedgerOK
<1>2. \A p \in Intents : Queued(p) \/ p \in dlq \/ Mailed(p) =>
                         (Queued(p) \/ p \in dlq \/ Mailed(p))'
  <2>1. ASSUME NEW q \in Intents, queue' = Append(queue, q), dlq' = dlq
        PROVE  \A p \in Intents : Queued(p) \/ p \in dlq \/ Mailed(p) =>
                                  (Queued(p) \/ p \in dlq \/ Mailed(p))'
    BY <1>0, <1>1, <2>1, Appended
  <2>2. ASSUME NEW w \in Runs, Deleted(w), queue # <<>>, queue' = Tail(queue),
               task[w] = Head(queue), dlq' = dlq
        PROVE  \A p \in Intents : Queued(p) \/ p \in dlq \/ Mailed(p) =>
                                  (Queued(p) \/ p \in dlq \/ Mailed(p))'
    <3>1. Mailed(task[w])
      BY <2>2 DEF Deleted, AckInv
    <3>2. \A p \in Intents : p = Head(queue) => Mailed(p)
      BY <2>2, <3>1
    <3> QED BY <1>0, <1>1, <2>2, <3>2, Removed
  <2>3. ASSUME queue # <<>>, queue' = Tail(queue), dlq' = dlq \cup {Head(queue)}
        PROVE  \A p \in Intents : Queued(p) \/ p \in dlq \/ Mailed(p) =>
                                  (Queued(p) \/ p \in dlq \/ Mailed(p))'
    BY <1>0, <1>1, <2>3, Removed
  <2>4. ASSUME queue' = queue, dlq' = dlq
        PROVE  \A p \in Intents : Queued(p) \/ p \in dlq \/ Mailed(p) =>
                                  (Queued(p) \/ p \in dlq \/ Mailed(p))'
    BY <1>1, <2>4 DEF Queued
  <2> QED BY <2>1, <2>2, <2>3, <2>4, QueueShape
<1>3. ASSUME NEW p \in Intents, DispatchSend(p) PROVE HandedInv'
  <2>1. \A q \in Intents \ {p} : Handed(q)' => Handed(q)
    BY <1>0, <1>3 DEF DispatchSend, DispatchOK, Handed
  <2>2. CASE p \in recent
    BY <1>2, <2>1, <2>2 DEF HandedInv, Handed
  <2>3. CASE p \notin recent
    <3>1. Queued(p)'
      BY <1>0, <1>3, <2>3, Appended DEF DispatchSend
    <3> QED BY <1>2, <2>1, <3>1 DEF HandedInv
  <2> QED BY <2>2, <2>3
<1>4. ASSUME \A q \in Intents : Handed(q)' => Handed(q) PROVE HandedInv'
  BY <1>2, <1>4 DEF HandedInv
<1>5. ASSUME NEW p \in Intents,
             CommitPaid(p) \/ DispatchMark(p) \/ DispatchDone(p) \/ DispatchFail(p)
      PROVE  \A q \in Intents : Handed(q)' => Handed(q)
  BY <1>0, <1>5 DEF CommitPaid, DispatchMark, DispatchDone, DispatchFail, DispatchOK,
                    Handed, lane
<1>6. ASSUME NEW p \in Intents, ForgetMessage(p)
      PROVE  \A q \in Intents : Handed(q)' => Handed(q)
  BY <1>6 DEF ForgetMessage, Handed, dispatch
<1>7. ASSUME UNCHANGED <<stream, outbox, recent>>
      PROVE  \A q \in Intents : Handed(q)' => Handed(q)
  BY <1>7 DEF Handed
<1> QED
  BY <1>3, <1>4, <1>5, <1>6, <1>7
     DEF Steps, CreateIntent, RecordConsent, Pay, ForgetKey, Receive, Looked, Granted,
         SendMail, Marked, Deleted, Ended, DeadLetter, Tick, dispatch, lane, vars
-----------------------------------------------------------------------------
(* Workers, receipts and leases *)

LEMMA FreshStep == ASSUME TypeOK, FreshInv, Steps PROVE FreshInv'
<1> USE Constants
<1>0. WorkersOK
  BY DEF TypeOK
<1>1. ASSUME NEW v \in Runs, Receive(v) PROVE FreshInv'
  BY <1>0, <1>1 DEF FreshInv, Receive, WorkersOK
<1>2. ASSUME NEW v \in Runs,
             Looked(v) \/ Granted(v) \/ SendMail(v) \/ Marked(v) \/ Deleted(v) \/ Ended(v)
      PROVE  FreshInv'
  <2>1. pc[v] # "idle"
    BY <1>2 DEF Looked, Granted, SendMail, Marked, Deleted, Ended, Working
  <2>2. started' = started /\ \A w \in Runs \ {v} : pc'[w] = pc[w]
    BY <1>0, <1>2 DEF Looked, Granted, SendMail, Marked, Deleted, Ended, WorkersOK
  <2> QED BY <2>1, <2>2 DEF FreshInv
<1>3. ASSUME UNCHANGED <<started, pc>> PROVE FreshInv'
  BY <1>3 DEF FreshInv
<1> QED
  BY <1>1, <1>2, <1>3
     DEF Steps, CreateIntent, RecordConsent, Pay, CommitPaid, ForgetKey, DispatchSend,
         DispatchMark, DispatchDone, DispatchFail, ForgetMessage, DeadLetter, Tick,
         workers, vars

LEMMA ReceiptStep == ASSUME TypeOK, ReceiptInv, Steps PROVE ReceiptInv'
<1> USE Constants
<1>0. WorkersOK /\ LaneOK
  BY DEF TypeOK
<1>1. ASSUME NEW v \in Runs, Receive(v) PROVE ReceiptInv'
  BY <1>0, <1>1 DEF ReceiptInv, Receive, WorkersOK
<1>2. ASSUME holder' = NoOne PROVE ReceiptInv'
  BY <1>2 DEF ReceiptInv
<1>3. ASSUME NEW v \in Runs,
             Looked(v) \/ Granted(v) \/ SendMail(v) \/ Marked(v) \/ Ended(v)
      PROVE  ReceiptInv'
  <2>1. UNCHANGED <<task, started, lane>> /\ pc[v] \in Working
    BY <1>3 DEF Looked, Granted, SendMail, Marked, Ended, Working
  <2>2. \A w \in Runs \ {v} : pc'[w] = pc[w]
    BY <1>0, <1>3 DEF Looked, Granted, SendMail, Marked, Ended, WorkersOK
  <2>3. holder = NoOne \/ holder \in Runs
    BY <1>0 DEF LaneOK
  <2> QED BY <2>1, <2>2, <2>3 DEF ReceiptInv, lane
<1>4. ASSUME NEW p \in Intents, DispatchSend(p) PROVE ReceiptInv'
  <2>1. UNCHANGED <<holder, hidden, started, pc, task>>
    BY <1>4 DEF DispatchSend, workers
  <2>2. CASE queue' = queue
    BY <2>1, <2>2 DEF ReceiptInv
  <2>3. CASE queue # <<>> /\ queue' = Append(queue, p)
    <3>1. queue' # <<>> /\ Head(queue') = Head(queue)
      <4>1. /\ queue \in Seq(Intents) /\ queue' \in Seq(Intents)
            /\ Len(queue') = Len(queue) + 1
            /\ \A i \in 1..Len(queue) : queue'[i] = queue[i]
        BY <1>0, <2>3, AppendProperties DEF LaneOK
      <4>2. Len(queue) > 0
        BY <2>3, <4>1, EmptySeq
      <4>3. queue'[1] = queue[1] /\ queue' # <<>>
        BY <4>1, <4>2
      <4> QED BY <2>3, <4>1, <4>3, HeadTailProperties
    <3> QED BY <2>1, <3>1 DEF ReceiptInv
  <2>4. CASE queue = <<>>
    BY <2>1, <2>4 DEF ReceiptInv
  <2> QED BY <1>4, <2>2, <2>3, <2>4 DEF DispatchSend
<1>5. ASSUME Tick PROVE ReceiptInv'
  BY <1>0, <1>5 DEF ReceiptInv, Tick, Less, LaneOK
<1>6. ASSUME UNCHANGED <<holder, hidden, queue, started, pc, task>> PROVE ReceiptInv'
  BY <1>6 DEF ReceiptInv
<1> QED
  BY <1>1, <1>2, <1>3, <1>4, <1>5, <1>6
     DEF Steps, CreateIntent, RecordConsent, Pay, CommitPaid, ForgetKey,
         DispatchMark, DispatchDone, DispatchFail, ForgetMessage, Deleted, DeadLetter,
         lane, workers, vars

LEMMA AckStep ==
  ASSUME TypeOK, ReceiptInv, AckInv, SentInv, AgeInv, Steps PROVE AckInv' /\ SentInv'
<1> USE Constants
<1>0. WorkersOK /\ LedgerOK /\ LedgerOK' /\ WorkersHaveTasks
  BY LedgerStep DEF TypeOK, WorkersOK, WorkersHaveTasks
<1>1. \A p \in Intents : /\ Mailed(p) => Mailed(p)'
                         /\ mails[p] > 0 => mails'[p] > 0
  BY <1>0, MailedKept DEF Mailed, LedgerOK
<1>2. SentInv'
  <2>1. ASSUME NEW v \in Runs, Marked(v) PROVE SentInv'
    <3>1. task[v] \in Intents /\ mails[task[v]] > 0 /\ mails' = mails
      BY <1>0, <2>1 DEF AckInv, Marked, WorkersHaveTasks, Working
    <3>2. \A p \in Intents \ {task[v]} : state'[p] = state[p]
      BY <1>0, <2>1 DEF Marked, LedgerOK
    <3> QED BY <3>1, <3>2 DEF SentInv
  <2>2. ASSUME NEW v \in Runs, Granted(v) PROVE SentInv'
    BY <1>0, <2>2 DEF Granted, LedgerOK, SentInv
  <2>3. ASSUME UNCHANGED state PROVE SentInv'
    BY <1>1, <2>3 DEF SentInv
  <2> QED
    BY <2>1, <2>2, <2>3
       DEF Steps, CreateIntent, RecordConsent, Pay, CommitPaid, ForgetKey, DispatchSend,
           DispatchMark, DispatchDone, DispatchFail, ForgetMessage, Receive, Looked,
           SendMail, Deleted, Ended, DeadLetter, Tick, ledger, vars
<1>3. AckInv'
  <2>1. SUFFICES ASSUME NEW w \in Runs
                 PROVE  /\ pc'[w] = "acking" => state'[task'[w]] = "sent" /\ mails'[task'[w]] > 0
                        /\ pc'[w] = "mailed" => mails'[task'[w]] > 0
    BY DEF AckInv, Mailed
  <2>2. ASSUME pc'[w] = pc[w], task'[w] = task[w]
        PROVE  /\ pc'[w] = "acking" => state'[task'[w]] = "sent" /\ mails'[task'[w]] > 0
               /\ pc'[w] = "mailed" => mails'[task'[w]] > 0
    BY <1>0, <1>1, <2>2 DEF AckInv, WorkersHaveTasks, Working, Mailed
  <2>3. CASE Looked(w)
    <3>1. task[w] \in Intents /\ task' = task /\ UNCHANGED <<state, mails>>
      BY <1>0, <2>3 DEF Looked, WorkersHaveTasks, Working, ledger
    <3>2. pc'[w] = "acking" => state[task[w]] = "sent"
      BY <1>0, <2>3 DEF Looked, WorkersOK
    <3>3. pc'[w] # "mailed"
      BY <1>0, <2>3 DEF Looked, WorkersOK
    <3> QED BY <3>1, <3>2, <3>3 DEF SentInv, Mailed
  <2>4. CASE SendMail(w)
    <3>1. task[w] \in Intents /\ task' = task /\ mails'[task[w]] = mails[task[w]] + 1
      BY <1>0, <2>4 DEF SendMail, WorkersHaveTasks, Working, LedgerOK
    <3>2. pc'[w] = "mailed" /\ mails[task[w]] \in Nat
      BY <1>0, <2>4, <3>1 DEF SendMail, WorkersOK, LedgerOK
    <3> QED BY <3>1, <3>2
  <2>5. CASE Marked(w)
    <3>1. task[w] \in Intents /\ mails[task[w]] > 0
      BY <1>0, <2>5 DEF Marked, AckInv, WorkersHaveTasks, Working
    <3>2. task' = task /\ mails' = mails /\ state'[task[w]] = "sent" /\ pc'[w] = "acking"
      BY <1>0, <2>5, <3>1 DEF Marked, WorkersOK, LedgerOK
    <3> QED BY <3>1, <3>2 DEF Mailed
  <2>6. CASE Receive(w) \/ Granted(w) \/ Deleted(w) \/ Ended(w)
    BY <1>0, <2>6 DEF Receive, Granted, Deleted, Ended, WorkersOK
  <2>7. CASE \E v \in Runs \ {w} : \/ Receive(v) \/ Looked(v) \/ Granted(v) \/ SendMail(v)
                                   \/ Marked(v) \/ Deleted(v) \/ Ended(v)
    <3>1. pc'[w] = pc[w] /\ task'[w] = task[w]
      BY <1>0, <2>7 DEF Receive, Looked, Granted, SendMail, Marked, Deleted, Ended,
                        WorkersOK
    <3> QED BY <2>2, <3>1
  <2>8. CASE UNCHANGED <<pc, task>>
    BY <2>2, <2>8
  <2> QED
    BY <2>3, <2>4, <2>5, <2>6, <2>7, <2>8
       DEF Steps, CreateIntent, RecordConsent, Pay, CommitPaid, ForgetKey, DispatchSend,
           DispatchMark, DispatchDone, DispatchFail, ForgetMessage, DeadLetter, Tick,
           workers, vars
<1> QED BY <1>2, <1>3

LEMMA AgeStep == ASSUME TypeOK, FreshInv, AgeInv, Steps PROVE AgeInv'
<1> USE Constants
<1>0. WorkersOK
  BY DEF TypeOK
<1>1. SUFFICES ASSUME NEW w \in Runs
               PROVE  /\ pc'[w] \in {"idle", "received"} => age'[w] = 0
                      /\ pc'[w] \in {"putting", "taking"} => age'[w] + left'[w] <= RunTicks
  BY DEF AgeInv
<1>2. ASSUME pc'[w] = pc[w], age'[w] = age[w], left'[w] = left[w]
      PROVE  /\ pc'[w] \in {"idle", "received"} => age'[w] = 0
             /\ pc'[w] \in {"putting", "taking"} => age'[w] + left'[w] <= RunTicks
  BY <1>2 DEF AgeInv
<1>3. CASE Receive(w)
  <2>1. w > started
    BY <1>0, <1>3 DEF Receive, WorkersOK
  <2>2. age[w] = 0 /\ age' = age /\ pc'[w] = "received"
    BY <1>0, <1>3, <2>1 DEF FreshInv, AgeInv, Receive, WorkersOK
  <2> QED BY <2>2
<1>4. CASE Looked(w)
  <2>1. age[w] = 0 /\ left[w] \in 0..RunTicks /\ age' = age /\ left' = left
    BY <1>0, <1>4 DEF AgeInv, Looked, WorkersOK
  <2>2. pc'[w] \in {"acking", "putting", "taking", "ended"}
    BY <1>0, <1>4 DEF Looked, WorkersOK
  <2> QED BY <2>1, <2>2
<1>5. CASE Granted(w) \/ SendMail(w) \/ Marked(w) \/ Deleted(w) \/ Ended(w)
  <2>1. pc'[w] \in {"reserved", "mailed", "acking", "ended"}
    BY <1>0, <1>5 DEF Granted, SendMail, Marked, Deleted, Ended, WorkersOK
  <2> QED BY <2>1
<1>6. CASE \E v \in Runs \ {w} : \/ Receive(v) \/ Looked(v) \/ Granted(v) \/ SendMail(v)
                                 \/ Marked(v) \/ Deleted(v) \/ Ended(v)
  <2>1. pc'[w] = pc[w] /\ age'[w] = age[w] /\ left'[w] = left[w]
    BY <1>0, <1>6 DEF Receive, Looked, Granted, SendMail, Marked, Deleted, Ended,
                      WorkersOK
  <2> QED BY <1>2, <2>1
<1>7. CASE Tick
  <2>1. age[w] \in 0..RunTicks /\ left[w] \in 0..RunTicks /\ pc' = pc
    BY <1>0, <1>7 DEF WorkersOK, Tick
  <2>2. CASE pc[w] \in {"putting", "taking"}
    <3>1. left[w] > 0 /\ age[w] + left[w] <= RunTicks
      BY <1>7, <2>2 DEF Tick, Working, AgeInv
    <3>2. age'[w] = age[w] + 1 /\ left'[w] = left[w] - 1
      BY <1>7, <2>1, <2>2, <3>1 DEF Tick, Less
    <3> QED BY <2>1, <2>2, <3>1, <3>2
  <2>3. CASE pc[w] \notin {"putting", "taking"}
    BY <1>7, <2>1, <2>3 DEF Tick
  <2> QED BY <2>2, <2>3
<1>8. CASE UNCHANGED <<pc, age, left>>
  BY <1>2, <1>8
<1> QED
  BY <1>3, <1>4, <1>5, <1>6, <1>7, <1>8
     DEF Steps, CreateIntent, RecordConsent, Pay, CommitPaid, ForgetKey, DispatchSend,
         DispatchMark, DispatchDone, DispatchFail, ForgetMessage, DeadLetter,
         workers, vars

\* A granted lease outlives its worker, and nobody is granted a lease that is held.
LEMMA LeaseStep == ASSUME TypeOK, AgeInv, LeaseInv, Steps PROVE LeaseInv'
<1> USE Constants
<1>0. WorkersOK /\ LedgerOK /\ WorkersHaveTasks
  BY DEF TypeOK, WorkersOK, WorkersHaveTasks
<1>1. SUFFICES ASSUME NEW w \in Runs, pc'[w] \in {"reserved", "mailed"}
               PROVE  /\ state'[task'[w]] = "in_progress" /\ leaseOwner'[task'[w]] = w
                      /\ lease'[task'[w]] > left'[w]
  BY DEF LeaseInv
<1>2. ASSUME pc[w] \in {"reserved", "mailed"}
      PROVE  /\ task[w] \in Intents /\ left[w] \in 0..RunTicks
             /\ state[task[w]] = "in_progress" /\ leaseOwner[task[w]] = w
             /\ lease[task[w]] > left[w] /\ lease[task[w]] \in 0..LeaseTicks
  BY <1>0, <1>2 DEF LeaseInv, WorkersHaveTasks, Working, WorkersOK, LedgerOK
<1>3. CASE Granted(w)
  <2>1. /\ task[w] \in Intents /\ age[w] \in 0..RunTicks /\ left[w] \in 0..RunTicks
        /\ age[w] + left[w] <= RunTicks
    BY <1>0, <1>3 DEF Granted, AgeInv, WorkersHaveTasks, Working, WorkersOK
  <2>2. /\ task' = task /\ left' = left
        /\ state'[task[w]] = "in_progress" /\ leaseOwner'[task[w]] = w
        /\ lease'[task[w]] = LeaseTicks - age[w]
    BY <1>0, <1>3, <2>1 DEF Granted, LedgerOK
  <2> QED BY <2>1, <2>2
<1>4. CASE SendMail(w)
  <2>1. pc[w] = "reserved" /\ UNCHANGED <<state, leaseOwner, lease, task, left>>
    BY <1>4 DEF SendMail
  <2> QED BY <1>2, <2>1
<1>5. CASE Receive(w) \/ Looked(w) \/ Marked(w) \/ Deleted(w) \/ Ended(w)
  BY <1>0, <1>1, <1>5 DEF Receive, Looked, Marked, Deleted, Ended, WorkersOK
<1>6. ASSUME NEW v \in Runs \ {w},
             Receive(v) \/ Looked(v) \/ SendMail(v) \/ Deleted(v) \/ Ended(v)
      PROVE  /\ state'[task'[w]] = "in_progress" /\ leaseOwner'[task'[w]] = w
             /\ lease'[task'[w]] > left'[w]
  <2>1. UNCHANGED <<state, leaseOwner, lease>>
    BY <1>6 DEF Receive, Looked, SendMail, Deleted, Ended, ledger
  <2>2. pc'[w] = pc[w] /\ task'[w] = task[w] /\ left'[w] = left[w]
    BY <1>0, <1>6 DEF Receive, Looked, SendMail, Deleted, Ended, WorkersOK
  <2> QED BY <1>1, <1>2, <2>1, <2>2
<1>7. ASSUME NEW v \in Runs \ {w}, Granted(v)
      PROVE  /\ state'[task'[w]] = "in_progress" /\ leaseOwner'[task'[w]] = w
             /\ lease'[task'[w]] > left'[w]
  <2>1. pc'[w] = pc[w] /\ task' = task /\ left' = left
    BY <1>0, <1>7 DEF Granted, WorkersOK
  <2>2. pc[w] \in {"reserved", "mailed"}
    BY <1>1, <2>1
  <2>3. task[v] # task[w]
    BY <1>2, <1>7, <2>2 DEF Granted
  <2>4. /\ state'[task[w]] = state[task[w]] /\ leaseOwner'[task[w]] = leaseOwner[task[w]]
        /\ lease'[task[w]] = lease[task[w]]
    BY <1>0, <1>2, <1>7, <2>2, <2>3 DEF Granted, LedgerOK
  <2> QED BY <1>2, <2>1, <2>2, <2>4
<1>8. ASSUME NEW v \in Runs \ {w}, Marked(v)
      PROVE  /\ state'[task'[w]] = "in_progress" /\ leaseOwner'[task'[w]] = w
             /\ lease'[task'[w]] > left'[w]
  <2>1. pc'[w] = pc[w] /\ task' = task /\ left' = left
    BY <1>0, <1>8 DEF Marked, WorkersOK
  <2>2. pc[w] \in {"reserved", "mailed"}
    BY <1>1, <2>1
  <2>3. task[v] # task[w]
    BY <1>2, <1>8, <2>2 DEF Marked
  <2>4. /\ state'[task[w]] = state[task[w]] /\ leaseOwner'[task[w]] = leaseOwner[task[w]]
        /\ lease'[task[w]] = lease[task[w]]
    BY <1>0, <1>2, <1>8, <2>2, <2>3 DEF Marked, LedgerOK
  <2> QED BY <1>2, <2>1, <2>2, <2>4
<1>9. CASE Tick
  <2>1. pc' = pc /\ UNCHANGED <<state, leaseOwner, task>> /\ left[w] > 0
    BY <1>1, <1>9 DEF Tick, Working
  <2>2. task[w] \in Intents /\ left[w] \in Nat /\ lease[task[w]] \in Nat
        /\ lease[task[w]] > left[w]
    BY <1>1, <1>2, <2>1
  <2>3. left'[w] = left[w] - 1 /\ lease'[task[w]] = lease[task[w]] - 1
    BY <1>9, <2>1, <2>2 DEF Tick, Less
  <2> QED BY <1>1, <1>2, <2>1, <2>2, <2>3
<1>10. ASSUME UNCHANGED <<state, leaseOwner, lease, pc, task, left>>
       PROVE  /\ state'[task'[w]] = "in_progress" /\ leaseOwner'[task'[w]] = w
              /\ lease'[task'[w]] > left'[w]
  BY <1>1, <1>2, <1>10
<1> QED
  BY <1>3, <1>4, <1>5, <1>6, <1>7, <1>8, <1>9, <1>10
     DEF Steps, CreateIntent, RecordConsent, Pay, CommitPaid, ForgetKey, DispatchSend,
         DispatchMark, DispatchDone, DispatchFail, ForgetMessage, DeadLetter, ledger,
         workers, vars
-----------------------------------------------------------------------------
(* The invariant *)

LEMMA InitInv == Init => IInv
<1> SUFFICES ASSUME Init PROVE IInv
  OBVIOUS
<1> USE Constants DEF Init
<1>1. StripeOK /\ DispatchOK
  BY DEF StripeOK, DispatchOK, IntentStates, StreamStates
<1>2. LaneOK /\ LedgerOK
  BY DEF LaneOK, LedgerOK
<1>3. 0 \in 0..RunTicks /\ 0 \in 0..MaxRuns /\ \A w \in Runs : w > 0
  BY DEF Runs
<1>4. WorkersOK
  BY <1>3 DEF WorkersOK, WorkerSteps, Working
<1>5. OutboxInv /\ RecordInv
  BY DEF OutboxInv, RecordInv
<1>6. SourceInv /\ HandedInv /\ SentInv
  BY DEF SourceInv, Working, HandedInv, Handed, SentInv
<1>7. ReceiptInv /\ FreshInv /\ AckInv /\ AgeInv /\ LeaseInv
  BY DEF ReceiptInv, FreshInv, AckInv, AgeInv, LeaseInv
<1> QED BY <1>1, <1>2, <1>4, <1>5, <1>6, <1>7 DEF IInv, TypeOK

LEMMA Inductive == IInv /\ [Next]_vars => IInv'
<1> SUFFICES ASSUME IInv, Steps PROVE IInv'
  BY StepShapes
<1>0. /\ TypeOK /\ OutboxInv /\ RecordInv /\ SourceInv /\ HandedInv /\ ReceiptInv
      /\ FreshInv /\ AckInv /\ SentInv /\ AgeInv /\ LeaseInv
  BY DEF IInv
<1>1. TypeOK' /\ OutboxInv' /\ RecordInv'
  BY <1>0, TypeStep, RecordStep
<1>2. SourceInv' /\ HandedInv'
  BY <1>0, SourceStep, HandedStep
<1>3. ReceiptInv' /\ FreshInv' /\ AckInv' /\ SentInv'
  BY <1>0, ReceiptStep, FreshStep, AckStep
<1>4. AgeInv' /\ LeaseInv'
  BY <1>0, AgeStep, LeaseStep
<1> QED BY <1>1, <1>2, <1>3, <1>4 DEF IInv

LEMMA Invariance == Spec => []IInv
  BY InitInv, Inductive, PTL DEF Spec
-----------------------------------------------------------------------------
\* The state of checkout, outbox, queue, deliveries and workers keeps its type, receipts
\* and leases stay within their limits, and every working invocation has a message.
THEOREM TypeCorrect == Spec => []TypeOK
<1>1. IInv => TypeOK
  BY DEF IInv
<1> QED BY <1>1, Invariance, PTL

\* The confirmation of a committed entitlement is at every moment pending in the outbox,
\* queued, dead-lettered, or mailed and marked sent, whatever fails on the way.
THEOREM ConfirmationsAreKept == Spec => []NoLostConfirmation
<1>1. IInv => NoLostConfirmation
  <2> SUFFICES ASSUME IInv, NEW p \in Intents, entitled[ScanOf[p]] = p
               PROVE  \/ outbox[p] = "pending" \/ Queued(p) \/ p \in dlq
                      \/ state[p] = "sent" /\ mails[p] > 0
    BY DEF NoLostConfirmation
  <2>1. outbox[p] \in {"pending", "dispatched"}
    BY DEF IInv, RecordInv, TypeOK, DispatchOK
  <2>2. outbox[p] = "dispatched" => Queued(p) \/ p \in dlq \/ Mailed(p)
    BY DEF IInv, HandedInv, Handed
  <2> QED BY <2>1, <2>2 DEF Mailed
<1> QED BY <1>1, Invariance, PTL

\* Only the payment that holds the entitlement of its scan is confirmed by mail, however
\* often the scan is checked out and paid.
THEOREM ConfirmationsAreEntitled == Spec => []ConfirmedIsEntitled
<1>1. IInv => ConfirmedIsEntitled
  BY DEF IInv, SourceInv, OutboxInv, ConfirmedIsEntitled
<1> QED BY <1>1, Invariance, PTL

\* Whoever may send a confirmation, or has sent it and not yet marked it, holds its
\* lease: two workers are never between reservation and mark with one confirmation.
THEOREM LeasesAreExclusive == Spec => []MailerHoldsLease
<1>1. IInv => MailerHoldsLease
  BY DEF IInv, LeaseInv, MailerHoldsLease
<1> QED BY <1>1, Invariance, PTL

\* A confirmation marked sent stays marked and is never mailed again, although messages
\* are redelivered, sent twice and received by workers that are overtaken.
THEOREM SentStaysSent == Spec => SentIsFinal
<1>1. IInv /\ [Next]_vars =>
        [\A p \in Intents : state[p] = "sent" => /\ state'[p] = "sent"
                                                 /\ mails'[p] = mails[p]]_vars
  <2> SUFFICES ASSUME IInv, Steps, NEW p \in Intents, state[p] = "sent"
               PROVE  state'[p] = "sent" /\ mails'[p] = mails[p]
    BY StepShapes
  <2>0. TypeOK /\ LedgerOK /\ WorkersHaveTasks
    BY DEF IInv, TypeOK, WorkersOK, WorkersHaveTasks
  <2>1. state'[p] = "sent"
    BY <2>0, MailedKept
  <2>2. ASSUME NEW w \in Runs, SendMail(w) PROVE mails'[p] = mails[p]
    <3>1. task[w] # p
      BY <2>2 DEF IInv, LeaseInv, SendMail
    <3> QED BY <2>0, <2>2, <3>1 DEF SendMail, LedgerOK
  <2>3. (\E w \in Runs : SendMail(w)) \/ UNCHANGED mails
    BY DEF Steps, CreateIntent, RecordConsent, Pay, CommitPaid, ForgetKey, DispatchSend,
           DispatchMark, DispatchDone, DispatchFail, ForgetMessage, Receive, Looked,
           Granted, Marked, Deleted, Ended, DeadLetter, Tick, ledger, vars
  <2> QED BY <2>1, <2>2, <2>3
<1> QED BY <1>1, Invariance, PTL DEF Spec, SentIsFinal
-----------------------------------------------------------------------------
(* The promise *)

Mailing == {"reserved", "mailed"}
Progresses == [p \in Intents |-> ProgressOf(p)]

\* Whoever is between reservation and mark is alone with its confirmation, which has its
\* entitlement and is not marked.
LEMMA Alone ==
  ASSUME IInv, NEW w \in Runs, pc[w] \in Mailing
  PROVE  /\ task[w] \in Intents /\ state[task[w]] = "in_progress"
         /\ entitled[ScanOf[task[w]]] = task[w]
         /\ \A v \in Runs : task[v] = task[w] /\ pc[v] \in Mailing => v = w
<1>1. task[w] \in Intents /\ outbox[task[w]] # "none"
  BY DEF IInv, TypeOK, WorkersOK, SourceInv, Working, Mailing
<1>2. entitled[ScanOf[task[w]]] = task[w]
  BY <1>1 DEF IInv, OutboxInv
<1>3. \A v \in Runs : pc[v] \in Mailing =>
        state[task[v]] = "in_progress" /\ leaseOwner[task[v]] = v
  BY DEF IInv, LeaseInv, Mailing
<1> QED BY <1>1, <1>2, <1>3

\* Progress depends on the entitlement, the mark, and who is between reservation and mark.
LEMMA ProgressSame ==
  ASSUME NEW p \in Intents, entitled'[ScanOf[p]] = entitled[ScanOf[p]], state'[p] = state[p],
         \A w \in Runs : \A s \in Mailing :
           task'[w] = p /\ pc'[w] = s <=> task[w] = p /\ pc[w] = s
  PROVE  ProgressOf(p)' = ProgressOf(p)
BY DEF ProgressOf, Attempted, Mailing

\* A worker's step is about its own confirmation.
LEMMA OthersKeep ==
  ASSUME IInv, NEW w \in Runs, NEW v, pc' = [pc EXCEPT ![w] = v], task' = task,
         entitled' = entitled, NEW p \in Intents, p # task[w], state'[p] = state[p]
  PROVE  ProgressOf(p)' = ProgressOf(p)
<1>1. \A u \in Runs : u # w => pc'[u] = pc[u]
  BY DEF IInv, TypeOK, WorkersOK
<1> QED BY <1>1, ProgressSame

\* If one payment's progress changes, the others' is kept.
LEMMA ProgressMoves ==
  ASSUME NEW p \in Intents, NEW x, ProgressOf(p)' = x,
         \A q \in Intents : q # p => ProgressOf(q)' = ProgressOf(q)
  PROVE  Progresses' = [Progresses EXCEPT ![p] = x]
BY DEF Progresses

LEMMA ProgressesKept ==
  ASSUME \A q \in Intents : ProgressOf(q)' = ProgressOf(q)
  PROVE  Progresses' = Progresses
BY DEF Progresses

\* The commit grants the entitlement.
LEMMA CommitGrants ==
  ASSUME IInv, NEW p \in Intents, CommitPaid(p)
  PROVE  Promise!Grant(p)
<1>1. /\ entitled[ScanOf[p]] = NoOne /\ outbox[p] = "none" /\ ScanOf[p] \in Scans
      /\ entitled' = [entitled EXCEPT ![ScanOf[p]] = p]
      /\ UNCHANGED <<state, mails, pc, task>>
  BY Constants DEF CommitPaid, ledger, workers
<1>2. entitled'[ScanOf[p]] = p
  BY <1>1 DEF IInv, TypeOK, StripeOK
<1>3. state[p] # "sent" /\ p # NoOne
  <2>1. state[p] = "sent" => mails[p] > 0
    BY DEF IInv, SentInv
  <2>2. mails[p] > 0 => outbox[p] # "none"
    BY DEF IInv, SourceInv
  <2> QED BY <1>1, <2>1, <2>2, Constants
<1>4. \A w \in Runs : task[w] = p => pc[w] \notin Mailing
  BY <1>1, <1>3, Alone
<1>5. ~ Attempted(p, "reserved") /\ ~ Attempted(p, "mailed")
  BY <1>4 DEF Attempted, Mailing
<1>6. ProgressOf(p) = "none"
  BY <1>1, <1>3, <1>5 DEF ProgressOf
<1>7. ProgressOf(p)' = "owed"
  BY <1>1, <1>2, <1>3, <1>5 DEF ProgressOf, Attempted
<1>8. ASSUME NEW q \in Intents, q # p PROVE ProgressOf(q)' = ProgressOf(q)
  <2>1. CASE ScanOf[q] # ScanOf[p]
    <3>1. entitled'[ScanOf[q]] = entitled[ScanOf[q]]
      BY <1>1, <2>1, Constants DEF IInv, TypeOK, StripeOK
    <3> QED BY <1>1, <3>1, ProgressSame
  <2>2. CASE ScanOf[q] = ScanOf[p]
    <3>1. entitled[ScanOf[q]] # q /\ entitled'[ScanOf[q]] # q
      BY <1>1, <1>2, <1>8, <2>2, Constants
    <3> QED BY <1>1, <3>1 DEF ProgressOf, Attempted
  <2> QED BY <2>1, <2>2
<1>9. Progresses' = [Progresses EXCEPT ![p] = "owed"] /\ Progresses[p] = "none"
  BY <1>6, <1>7, <1>8, ProgressMoves DEF Progresses
<1> QED BY <1>1, <1>9 DEF Promise!Grant, Progresses

\* A reservation is an attempt, and nobody else is at it.
LEMMA GrantedAttempts ==
  ASSUME IInv, NEW w \in Runs, Granted(w), NEW p, p = task[w]
  PROVE  p \in Intents /\ Promise!Attempt(p)
<1>0. /\ pc[w] \in {"putting", "taking"} /\ task' = task /\ entitled' = entitled
      /\ mails' = mails /\ pc' = [pc EXCEPT ![w] = "reserved"]
      /\ state' = [state EXCEPT ![p] = "in_progress"]
  BY DEF Granted, stripe
<1>1. p \in Intents /\ entitled[ScanOf[p]] = p
  <2>1. p \in Intents /\ outbox[p] # "none"
    BY <1>0 DEF IInv, TypeOK, WorkersOK, SourceInv, Working
  <2> QED BY <2>1 DEF IInv, OutboxInv
<1>2. state[p] # "sent" /\ state'[p] = "in_progress" /\ pc'[w] = "reserved"
  BY <1>0, <1>1 DEF Granted, IInv, TypeOK, LedgerOK, WorkersOK
<1>3. \A v \in Runs : task[v] = p => pc[v] \notin Mailing
  <2> SUFFICES ASSUME NEW v \in Runs, task[v] = p, pc[v] \in Mailing PROVE FALSE
    OBVIOUS
  <2>1. state[p] = "in_progress" /\ lease[p] > left[v] /\ left[v] \in 0..RunTicks
    BY DEF IInv, LeaseInv, Mailing, TypeOK, WorkersOK
  <2>2. lease[p] = 0
    BY <2>1 DEF Granted
  <2> QED BY <2>1, <2>2, Constants
<1>4. ~ Attempted(p, "reserved") /\ ~ Attempted(p, "mailed")
  BY <1>3 DEF Attempted, Mailing
<1>5. ProgressOf(p) = "owed"
  BY <1>1, <1>2, <1>4 DEF ProgressOf
<1>6. ProgressOf(p)' = "attempted"
  BY <1>0, <1>2 DEF ProgressOf, Attempted
<1>7. ASSUME NEW q \in Intents, q # p PROVE ProgressOf(q)' = ProgressOf(q)
  <2>1. state'[q] = state[q]
    BY <1>0, <1>7 DEF IInv, TypeOK, LedgerOK
  <2> QED BY <1>0, <1>7, <2>1, OthersKeep
<1>8. Progresses' = [Progresses EXCEPT ![p] = "attempted"] /\ Progresses[p] = "owed"
  BY <1>1, <1>5, <1>6, <1>7, ProgressMoves DEF Progresses
<1> QED BY <1>0, <1>1, <1>8 DEF Promise!Attempt, Progresses

\* A mail belongs to the attempt that is under way.
LEMMA SendMails ==
  ASSUME IInv, NEW w \in Runs, SendMail(w), NEW p, p = task[w]
  PROVE  p \in Intents /\ Promise!Mail(p)
<1>0. /\ pc[w] = "reserved" /\ task' = task /\ entitled' = entitled /\ state' = state
      /\ mails' = [mails EXCEPT ![p] = @ + 1] /\ pc' = [pc EXCEPT ![w] = "mailed"]
  BY DEF SendMail, stripe
<1>1. /\ p \in Intents /\ state[p] = "in_progress"
      /\ \A v \in Runs : task[v] = p /\ pc[v] \in Mailing => v = w
  BY <1>0, Alone DEF Mailing
<1>2. ProgressOf(p) = "attempted"
  BY <1>0, <1>1 DEF ProgressOf, Attempted
<1>3. pc'[w] = "mailed" /\ \A v \in Runs : v # w => pc'[v] = pc[v]
  BY <1>0 DEF IInv, TypeOK, WorkersOK
<1>4. ProgressOf(p)' = "mailed"
  BY <1>0, <1>1, <1>3 DEF ProgressOf, Attempted, Mailing
<1>5. ASSUME NEW q \in Intents, q # p PROVE ProgressOf(q)' = ProgressOf(q)
  BY <1>0, <1>5, OthersKeep
<1>6. Progresses' = [Progresses EXCEPT ![p] = "mailed"] /\ Progresses[p] = "attempted"
  BY <1>1, <1>2, <1>4, <1>5, ProgressMoves DEF Progresses
<1> QED BY <1>0, <1>1, <1>6 DEF Promise!Mail, Progresses

\* A mark ends the matter.
LEMMA MarkedConfirms ==
  ASSUME IInv, NEW w \in Runs, Marked(w), NEW p, p = task[w]
  PROVE  p \in Intents /\ Promise!Confirm(p)
<1>0. /\ pc[w] = "mailed" /\ task' = task /\ entitled' = entitled /\ mails' = mails
      /\ state' = [state EXCEPT ![p] = "sent"] /\ pc' = [pc EXCEPT ![w] = "acking"]
  BY DEF Marked, stripe
<1>1. /\ p \in Intents /\ state[p] = "in_progress"
      /\ \A v \in Runs : task[v] = p /\ pc[v] \in Mailing => v = w
  BY <1>0, Alone DEF Mailing
<1>2. ProgressOf(p) = "mailed"
  <2>1. ~ Attempted(p, "reserved")
    BY <1>0, <1>1 DEF Attempted, Mailing
  <2> QED BY <1>0, <1>1, <2>1 DEF ProgressOf, Attempted
<1>3. ProgressOf(p)' = "confirmed"
  BY <1>0, <1>1 DEF ProgressOf, IInv, TypeOK, LedgerOK
<1>4. ASSUME NEW q \in Intents, q # p PROVE ProgressOf(q)' = ProgressOf(q)
  <2>1. state'[q] = state[q]
    BY <1>0, <1>4 DEF IInv, TypeOK, LedgerOK
  <2> QED BY <1>0, <1>4, <2>1, OthersKeep
<1>5. Progresses' = [Progresses EXCEPT ![p] = "confirmed"] /\ Progresses[p] = "mailed"
  BY <1>1, <1>2, <1>3, <1>4, ProgressMoves DEF Progresses
<1> QED BY <1>0, <1>1, <1>5 DEF Promise!Confirm, Progresses

\* Whoever ends without the mark gives the attempt up, if it had made one.
LEMMA EndedGivesUp ==
  ASSUME IInv, NEW w \in Runs, Ended(w), NEW p, p = task[w]
  PROVE  \/ p \in Intents /\ Promise!GiveUp(p)
         \/ UNCHANGED Promise!promiseVars
<1>0. /\ task' = task /\ entitled' = entitled /\ state' = state /\ mails' = mails
      /\ pc' = [pc EXCEPT ![w] = "ended"]
  BY DEF Ended, stripe, ledger
<1>1. pc'[w] = "ended" /\ \A v \in Runs : v # w => pc'[v] = pc[v]
  BY <1>0 DEF IInv, TypeOK, WorkersOK
<1>2. CASE pc[w] \in Mailing
  <2>1. /\ p \in Intents /\ state[p] = "in_progress" /\ entitled[ScanOf[p]] = p
        /\ \A v \in Runs : task[v] = p /\ pc[v] \in Mailing => v = w
    BY <1>2, Alone
  <2>2. ProgressOf(p) \in {"attempted", "mailed"}
    BY <1>2, <2>1 DEF ProgressOf, Attempted, Mailing
  <2>3. ProgressOf(p)' = "owed"
    BY <1>0, <1>1, <2>1 DEF ProgressOf, Attempted, Mailing
  <2>4. ASSUME NEW q \in Intents, q # p PROVE ProgressOf(q)' = ProgressOf(q)
    BY <1>0, <2>4, OthersKeep
  <2>5. /\ Progresses' = [Progresses EXCEPT ![p] = "owed"]
        /\ Progresses[p] \in {"attempted", "mailed"}
    BY <2>1, <2>2, <2>3, <2>4, ProgressMoves DEF Progresses
  <2> QED BY <1>0, <2>1, <2>5 DEF Promise!GiveUp, Progresses
<1>3. CASE pc[w] \notin Mailing
  <2>1. ASSUME NEW q \in Intents PROVE ProgressOf(q)' = ProgressOf(q)
    BY <1>0, <1>1, <1>3, ProgressSame DEF Mailing
  <2>2. Progresses' = Progresses
    BY <2>1, ProgressesKept
  <2> QED BY <1>0, <2>2 DEF Promise!promiseVars, Progresses
<1> QED BY <1>2, <1>3

\* The other steps of a worker come before the reservation or after the mark.
LEMMA OtherRuns ==
  ASSUME IInv, NEW w \in Runs, Receive(w) \/ Looked(w) \/ Deleted(w)
  PROVE  UNCHANGED Promise!promiseVars
<1>0. /\ entitled' = entitled /\ state' = state /\ mails' = mails
  BY DEF Receive, Looked, Deleted, stripe, ledger
<1>1. \A v \in Runs : v # w => pc'[v] = pc[v] /\ task'[v] = task[v]
  BY DEF Receive, Looked, Deleted, IInv, TypeOK, WorkersOK
<1>2. pc[w] \notin Mailing
  <2>1. CASE Receive(w)
    <3>1. w > started
      BY <2>1 DEF Receive, IInv, TypeOK, WorkersOK
    <3> QED BY <3>1 DEF IInv, FreshInv, Mailing
  <2>2. CASE Looked(w) \/ Deleted(w)
    BY <2>2 DEF Looked, Deleted, Mailing
  <2> QED BY <2>1, <2>2
<1>3. pc'[w] \notin Mailing
  BY DEF Receive, Looked, Deleted, IInv, TypeOK, WorkersOK, Mailing
<1>4. ASSUME NEW q \in Intents PROVE ProgressOf(q)' = ProgressOf(q)
  BY <1>0, <1>1, <1>2, <1>3, ProgressSame
<1>5. Progresses' = Progresses
  BY <1>4, ProgressesKept
<1> QED BY <1>0, <1>5 DEF Promise!promiseVars, Progresses

LEMMA PromiseStep == IInv /\ [Next]_vars => [Promise!Next]_(Promise!promiseVars)
<1> SUFFICES ASSUME IInv, Steps PROVE [Promise!Next]_(Promise!promiseVars)
  BY StepShapes
<1>1. ASSUME UNCHANGED <<entitled, state, mails, pc, task>>
      PROVE  UNCHANGED Promise!promiseVars
  BY <1>1 DEF Promise!promiseVars, ProgressOf, Attempted
<1>2. ASSUME NEW p \in Intents, CommitPaid(p) PROVE Promise!Next
  BY <1>2, CommitGrants DEF Promise!Next
<1>3. ASSUME NEW w \in Runs, Granted(w) \/ SendMail(w) \/ Marked(w) PROVE Promise!Next
  BY <1>3, GrantedAttempts, SendMails, MarkedConfirms DEF Promise!Next
<1>4. ASSUME NEW w \in Runs, Ended(w) PROVE [Promise!Next]_(Promise!promiseVars)
  BY <1>4, EndedGivesUp DEF Promise!Next
<1> QED
  BY <1>1, <1>2, <1>3, <1>4, OtherRuns
     DEF Steps, CreateIntent, RecordConsent, Pay, ForgetKey, DispatchSend, DispatchMark,
         DispatchDone, DispatchFail, ForgetMessage, DeadLetter, Tick, ledger, workers,
         stripe, vars

\* Checkout, webhook, dispatcher, queue and workers implement the promise about one
\* confirmation: granted once, attempted once at a time, mailed once an attempt at most,
\* and ended for good by an attempt that has mailed it.
THEOREM ServiceKeepsPromise == Spec => ImplementsPromise
<1>1. Init => Promise!Init
  BY Constants DEF Init, Promise!Init, ProgressOf, Attempted
<1> QED BY <1>1, PromiseStep, Invariance, PTL DEF Spec, ImplementsPromise, Promise!Spec
-----------------------------------------------------------------------------
(* The deployed timing.  TimingCovers is the only hypothesis: everything below holds  *)
(* of any intents, scans and invocations whose leases end within the visibility       *)
(* timeout of the receipt they were taken under.                                      *)

\* Whoever works has the receipt, so that a step of one worker finds no other at work.
LEMMA OthersRest ==
  ASSUME ReceiptCovers, NEW w \in Runs, pc[w] \in Working, NEW v \in Runs \ {w}
  PROVE  pc[v] \notin Working
  BY DEF ReceiptCovers

\* A message is visible only when nobody works and no lease runs.
LEMMA VisibleRests ==
  ASSUME TypeOK, ReceiptCovers, LeaseCovers, hidden = 0
  PROVE  /\ \A w \in Runs : pc[w] \notin Working
         /\ \A p \in Intents : lease[p] = 0
<1>1. LedgerOK /\ WorkersOK /\ LeaseTicks \in Nat /\ LeaseTicks > 0
  BY Constants DEF TypeOK
<1>2. \A w \in Runs : left[w] \in Nat
  BY <1>1 DEF WorkersOK
<1>3. \A p \in Intents : lease[p] \in Nat
  BY <1>1 DEF LedgerOK
<1> QED BY <1>1, <1>2, <1>3 DEF ReceiptCovers, LeaseCovers

\* Neither the lane nor the leases nor the workers change outside of queue and workers.
LEMMA TimingFrame ==
  ASSUME TimingInv, UNCHANGED <<hidden, holder, ledger, workers>>
  PROVE  TimingInv'
  BY DEF TimingInv, ReceiptCovers, LeaseCovers, SeenInv, ledger, workers

\* A receipt starts when everything has ended.
LEMMA ReceiveTiming ==
  ASSUME TypeOK, TimingCovers, TimingInv, NEW w \in Runs, Receive(w)
  PROVE  TimingInv'
<1> USE Constants
<1>1. WorkersOK /\ ReceiptCovers /\ LeaseCovers /\ hidden = 0
  BY DEF TypeOK, TimingInv, Receive
<1>2. /\ \A v \in Runs : pc[v] \notin Working
      /\ \A p \in Intents : lease[p] = 0
  BY <1>1, VisibleRests
<1>3. /\ hidden' = HiddenTicks /\ holder' = w /\ lease' = lease
      /\ pc' = [pc EXCEPT ![w] = "received"] /\ left' = [left EXCEPT ![w] = RunTicks]
  BY DEF Receive, ledger
<1>4. pc'[w] = "received" /\ \A v \in Runs \ {w} : pc'[v] \notin Working
  BY <1>1, <1>2, <1>3 DEF WorkersOK
<1>5. ReceiptCovers'
  <2>1. left'[w] = RunTicks
    BY <1>1, <1>3 DEF WorkersOK
  <2> QED BY <1>3, <1>4, <2>1 DEF ReceiptCovers, TimingCovers
<1>6. LeaseCovers'
  BY <1>2, <1>3 DEF LeaseCovers
<1>7. SeenInv'
  BY <1>4 DEF SeenInv, Working
<1> QED BY <1>5, <1>6, <1>7 DEF TimingInv

\* A worker that only moves on keeps its receipt and its leases.
LEMMA MoveTiming ==
  ASSUME TypeOK, TimingInv, NEW w \in Runs, pc[w] \in Working,
         NEW v \in WorkerSteps, pc' = [pc EXCEPT ![w] = v],
         pc[w] \in {"reserved", "mailed"} => v \in {"reserved", "mailed", "ended"},
         v = "putting" => state[task[w]] = "none",
         v = "taking" => state[task[w]] = "in_progress" /\ lease[task[w]] = 0,
         UNCHANGED <<hidden, holder, state, lease, task, left>>
  PROVE  TimingInv'
<1>1. WorkersOK /\ ReceiptCovers /\ LeaseCovers /\ SeenInv
  BY DEF TypeOK, TimingInv
<1>2. /\ pc'[w] = v /\ holder = w /\ hidden >= left[w] + LeaseTicks
      /\ \A u \in Runs \ {w} : pc'[u] = pc[u] /\ pc'[u] \notin Working
  BY <1>1, OthersRest DEF WorkersOK, ReceiptCovers
<1>3. ReceiptCovers'
  BY <1>2 DEF ReceiptCovers
<1>4. LeaseCovers'
  <2> SUFFICES ASSUME NEW p \in Intents, lease'[p] > 0
               PROVE  /\ hidden' >= lease'[p] /\ holder' # NoOne /\ task'[holder'] = p
                      /\ pc'[holder'] \in {"reserved", "mailed", "ended"}
    BY DEF LeaseCovers
  <2>1. /\ hidden >= lease[p] /\ holder # NoOne /\ task[holder] = p
        /\ pc[holder] \in {"reserved", "mailed", "ended"}
    BY <1>1 DEF LeaseCovers
  <2>2. pc[w] \in {"reserved", "mailed"}
    BY <1>2, <2>1 DEF Working
  <2> QED BY <1>2, <2>1, <2>2
<1>5. SeenInv'
  BY <1>2 DEF SeenInv, Working
<1> QED BY <1>3, <1>4, <1>5 DEF TimingInv

\* A granted lease ends before the receipt it was taken under.
LEMMA GrantTiming ==
  ASSUME TypeOK, TimingInv, NEW w \in Runs, Granted(w)
  PROVE  TimingInv'
<1> USE Constants
<1>1. /\ LedgerOK /\ WorkersOK /\ LaneOK /\ ReceiptCovers /\ LeaseCovers /\ SeenInv
      /\ pc[w] \in {"putting", "taking"} /\ pc[w] \in Working
  BY DEF TypeOK, TimingInv, Granted, Working
<1>2. /\ holder' = w /\ hidden' = hidden /\ hidden >= left[w] + LeaseTicks
      /\ task' = task /\ left' = left /\ holder = w
      /\ pc'[w] = "reserved" /\ \A u \in Runs \ {w} : pc'[u] = pc[u] /\ pc'[u] \notin Working
  BY <1>1, OthersRest DEF Granted, lane, WorkersOK, ReceiptCovers
<1>3. /\ age[w] \in Nat /\ left[w] \in Nat /\ hidden \in Nat
      /\ lease' = [lease EXCEPT ![task[w]] = LeaseTicks - age[w]]
  BY <1>1 DEF Granted, WorkersOK, LaneOK
<1>4. ReceiptCovers'
  BY <1>2 DEF ReceiptCovers
<1>5. LeaseCovers'
  <2> SUFFICES ASSUME NEW p \in Intents, lease'[p] > 0
               PROVE  hidden >= lease'[p] /\ task[w] = p
    BY <1>2, Constants DEF LeaseCovers
  <2>1. CASE p = task[w]
    <3>1. lease'[p] = LeaseTicks - age[w]
      BY <1>1, <1>3, <2>1 DEF LedgerOK
    <3> QED BY <1>2, <1>3, <2>1, <3>1
  <2>2. CASE p # task[w]
    <3>1. lease[p] > 0
      BY <1>1, <1>3, <2>2 DEF LedgerOK
    <3> QED BY <1>1, <1>2, <3>1 DEF LeaseCovers
  <2> QED BY <2>1, <2>2
<1>6. SeenInv'
  BY <1>2 DEF SeenInv, Working
<1> QED BY <1>4, <1>5, <1>6 DEF TimingInv

\* A mark ends the lease of its worker.
LEMMA MarkTiming ==
  ASSUME TypeOK, TimingInv, NEW w \in Runs, Marked(w)
  PROVE  TimingInv'
<1>1. /\ LedgerOK /\ WorkersOK /\ ReceiptCovers /\ LeaseCovers
      /\ pc[w] = "mailed" /\ pc[w] \in Working
  BY DEF TypeOK, TimingInv, Marked, Working
<1>2. /\ holder' = w /\ hidden' = hidden /\ hidden >= left[w] + LeaseTicks
      /\ task' = task /\ left' = left /\ holder = w /\ lease' = [lease EXCEPT ![task[w]] = 0]
      /\ pc'[w] = "acking" /\ \A u \in Runs \ {w} : pc'[u] = pc[u] /\ pc'[u] \notin Working
  BY <1>1, OthersRest DEF Marked, lane, WorkersOK, ReceiptCovers
<1>3. ReceiptCovers'
  BY <1>2 DEF ReceiptCovers
<1>4. LeaseCovers'
  <2>1. \A p \in Intents : lease'[p] > 0 => p # task[w] /\ lease[p] > 0
    BY <1>1, <1>2 DEF LedgerOK
  <2>2. \A p \in Intents : ~ (lease'[p] > 0)
    BY <1>1, <1>2, <2>1 DEF LeaseCovers
  <2> QED BY <2>2 DEF LeaseCovers
<1>5. SeenInv'
  BY <1>2 DEF SeenInv, Working
<1> QED BY <1>3, <1>4, <1>5 DEF TimingInv

\* Whoever deletes its message has no lease left.
LEMMA DeleteTiming ==
  ASSUME TypeOK, TimingInv, NEW w \in Runs, Deleted(w)
  PROVE  TimingInv'
<1> USE Constants
<1>1. /\ LedgerOK /\ WorkersOK /\ ReceiptCovers /\ LeaseCovers
      /\ pc[w] = "acking" /\ pc[w] \in Working /\ holder = w /\ lease' = lease
  BY DEF TypeOK, TimingInv, Deleted, Working, ledger
<1>2. \A u \in Runs : pc'[u] \notin Working
  <2>1. pc'[w] = "ended" /\ \A u \in Runs \ {w} : pc'[u] = pc[u]
    BY <1>1 DEF Deleted, WorkersOK
  <2> QED BY <1>1, <2>1, OthersRest DEF Working
<1>3. \A p \in Intents : ~ (lease'[p] > 0)
  BY <1>1 DEF LeaseCovers
<1> QED BY <1>2, <1>3 DEF TimingInv, ReceiptCovers, LeaseCovers, SeenInv, Working

\* Receipt and lease run down together, and the receipt is longer.
LEMMA TickTiming ==
  ASSUME TypeOK, TimingInv, Tick
  PROVE  TimingInv'
<1> USE Constants
<1>1. LaneOK /\ LedgerOK /\ WorkersOK /\ ReceiptCovers /\ LeaseCovers /\ SeenInv
  BY DEF TypeOK, TimingInv
<1>2. /\ hidden \in Nat /\ hidden' = Less(hidden) /\ UNCHANGED <<pc, task, state>>
      /\ holder' = IF hidden <= 1 THEN NoOne ELSE holder
      /\ \A w \in Runs : left[w] \in Nat /\ left'[w] = Less(left[w])
      /\ \A p \in Intents : lease[p] \in Nat /\ lease'[p] = Less(lease[p])
      /\ \A w \in Runs : pc[w] \in Working => left[w] > 0
  BY <1>1 DEF Tick, LaneOK, LedgerOK, WorkersOK
<1>3. ReceiptCovers'
  <2> SUFFICES ASSUME NEW w \in Runs, pc[w] \in Working
               PROVE  holder' = w /\ hidden' >= left'[w] + LeaseTicks
    BY <1>2 DEF ReceiptCovers
  <2>1. holder = w /\ hidden >= left[w] + LeaseTicks /\ left[w] > 0
    BY <1>1, <1>2 DEF ReceiptCovers
  <2> QED BY <1>2, <2>1 DEF Less
<1>4. LeaseCovers'
  <2> SUFFICES ASSUME NEW p \in Intents, lease'[p] > 0
               PROVE  /\ hidden' >= lease'[p]
                      /\ holder' # NoOne /\ task'[holder'] = p
                      /\ pc'[holder'] \in {"reserved", "mailed", "ended"}
    BY DEF LeaseCovers
  <2>1. lease[p] > 1 /\ lease'[p] = lease[p] - 1
    BY <1>2 DEF Less
  <2>2. /\ hidden >= lease[p] /\ holder # NoOne /\ task[holder] = p
        /\ pc[holder] \in {"reserved", "mailed", "ended"}
    BY <1>1, <1>2, <2>1 DEF LeaseCovers
  <2>3. hidden' = hidden - 1 /\ holder' = holder
    BY <1>2, <2>1, <2>2 DEF Less
  <2> QED BY <1>2, <2>1, <2>2, <2>3
<1>5. SeenInv'
  <2> SUFFICES ASSUME NEW w \in Runs
               PROVE  /\ pc[w] = "putting" => state[task[w]] = "none"
                      /\ pc[w] = "taking" => /\ state[task[w]] = "in_progress"
                                             /\ lease'[task[w]] = 0
    BY <1>2 DEF SeenInv
  <2>1. pc[w] = "taking" => task[w] \in Intents
    BY <1>1 DEF WorkersOK, Working
  <2> QED BY <1>1, <1>2, <2>1 DEF SeenInv, Less
<1> QED BY <1>3, <1>4, <1>5 DEF TimingInv

LEMMA TimedInductive == ASSUME TimingCovers PROVE Spec => []TimingInv
<1>1. Init => TimingInv
  BY DEF Init, TimingInv, ReceiptCovers, LeaseCovers, SeenInv, Working
<1>2. IInv /\ TimingInv /\ [Next]_vars => TimingInv'
  <2> SUFFICES ASSUME TypeOK, TimingInv, Steps PROVE TimingInv'
    BY StepShapes DEF IInv
  <2>1. ASSUME NEW w \in Runs, Looked(w) \/ SendMail(w) \/ Ended(w) PROVE TimingInv'
    <3>1. /\ pc[w] \in Working
          /\ UNCHANGED <<hidden, holder, state, lease, task, left>>
      BY <2>1 DEF Looked, SendMail, Ended, Working, lane, ledger
    <3>2. PICK v \in WorkerSteps :
            /\ pc' = [pc EXCEPT ![w] = v]
            /\ pc[w] \in {"reserved", "mailed"} => v \in {"reserved", "mailed", "ended"}
            /\ v = "putting" => state[task[w]] = "none"
            /\ v = "taking" => state[task[w]] = "in_progress" /\ lease[task[w]] = 0
      BY <2>1 DEF Looked, SendMail, Ended, WorkerSteps, Working
    <3> QED BY <3>1, <3>2, MoveTiming
  <2>2. ASSUME DeadLetter PROVE TimingInv'
    <3>1. /\ TypeOK /\ ReceiptCovers /\ LeaseCovers /\ hidden = 0
          /\ UNCHANGED <<ledger, workers>>
      BY <2>2 DEF DeadLetter, TimingInv
    <3>2. /\ \A w \in Runs : pc[w] \notin Working
          /\ \A p \in Intents : lease[p] = 0
      BY <3>1, VisibleRests
    <3> QED BY <3>1, <3>2 DEF TimingInv, ReceiptCovers, LeaseCovers, SeenInv, Working,
                              ledger, workers
  <2>3. ASSUME UNCHANGED <<hidden, holder, ledger, workers>> PROVE TimingInv'
    BY <2>3, TimingFrame
  <2> QED
    BY <2>1, <2>2, <2>3, ReceiveTiming, GrantTiming, MarkTiming, DeleteTiming, TickTiming
       DEF Steps, CreateIntent, RecordConsent, Pay, CommitPaid, ForgetKey, DispatchSend,
           DispatchMark, DispatchDone, DispatchFail, ForgetMessage, lane, vars
<1> QED BY <1>1, <1>2, Invariance, PTL DEF Spec

\* With lease and invocation within the visibility timeout, as deployed, mail workers
\* follow one another: nobody meets the lease of another, no conditional write of a worker
\* is refused, and every acknowledgement deletes its message.
THEOREM WorkersFollowOneAnother == TimingCovers => (Spec => []WorksAlone)
<1> SUFFICES ASSUME TimingCovers PROVE Spec => []WorksAlone
  OBVIOUS
<1>1. IInv /\ TimingInv => WorksAlone
  <2> SUFFICES ASSUME IInv, TimingInv PROVE WorksAlone
    OBVIOUS
  <2>1. \A v, w \in Runs : pc[v] \in Working /\ pc[w] \in Working => v = w
    BY DEF TimingInv, ReceiptCovers
  <2>2. ASSUME NEW w \in Runs, pc[w] = "received"
        PROVE  ~ (state[task[w]] = "in_progress" /\ lease[task[w]] > 0)
    <3>1. holder = w /\ task[w] \in Intents
      BY <2>2 DEF TimingInv, ReceiptCovers, Working, IInv, TypeOK, WorkersOK
    <3> QED BY <2>2, <3>1 DEF TimingInv, LeaseCovers
  <2>3. \A w \in Runs :
          /\ pc[w] = "putting" => state[task[w]] = "none"
          /\ pc[w] = "taking" => state[task[w]] = "in_progress" /\ lease[task[w]] = 0
          /\ pc[w] = "mailed" => state[task[w]] = "in_progress" /\ leaseOwner[task[w]] = w
          /\ pc[w] = "acking" => holder = w
    BY DEF TimingInv, SeenInv, ReceiptCovers, Working, IInv, LeaseInv
  <2> QED BY <2>1, <2>2, <2>3 DEF WorksAlone
<1> QED BY <1>1, Invariance, TimedInductive, PTL
==============================================================================
