---------------------------- MODULE PriorityQueue ----------------------------
(***************************************************************************)
(* The priority processing queue of services/api-access: the job table     *)
(* (priority-job-store.js), its stream used as an outbox and the           *)
(* dispatcher that reads it (priority-dispatcher.js), the FIFO lane queue  *)
(* with its dead-letter queue (priority-template.yaml), the lane workers   *)
(* (priority-worker.js) and the audit executor with the source bucket      *)
(* (customer-priority-executor.js, priority-source-store.js).              *)
(*                                                                         *)
(* One action is one call on shared state.  Between two of them any other  *)
(* process may run, the process may be killed, and time may pass.  Time is *)
(* counted in ticks and kept as what is left of each deadline: a lease, a  *)
(* visibility timeout, the run time of a function.                         *)
(*                                                                         *)
(* Definitions marked Fault are mistaken variants of the definition after  *)
(* them; no specification uses them.  README.md says which property        *)
(* notices which fault.                                                    *)
(***************************************************************************)
EXTENDS Naturals, Sequences

CONSTANTS
  Jobs,            \* job ids; requests with the same id are the same job
  Audits,          \* the jobs of type repository_audit, the others are canaries
  Sources,         \* uploaded archives, by fingerprint
  SourceOf,        \* [Audits -> Sources]
  Groups,          \* FIFO message groups of the lane
  GroupOf,         \* [Jobs -> Groups], the hash of the job id
  NoOne,           \* no worker invocation
  MaxInvocations,  \* bound: worker invocations in a behaviour
  LeaseTicks,      \* leaseMs of the worker
  HiddenTicks,     \* VisibilityTimeout of the lane queue
  RunTicks,        \* Timeout of the worker function
  MaxReceives,     \* maxReceiveCount of the lane queue, and the worker's last receive
  MaxDeliveries    \* 1 + MaximumRetryAttempts of the stream mapping

ASSUME PriorityAssumption ==
  /\ Audits \subseteq Jobs
  /\ SourceOf \in [Audits -> Sources]
  /\ GroupOf \in [Jobs -> Groups]
  /\ MaxInvocations \in Nat
  /\ NoOne \notin 1..MaxInvocations
  /\ LeaseTicks \in Nat \ {0} /\ HiddenTicks \in Nat \ {0} /\ RunTicks \in Nat \ {0}
  /\ MaxReceives \in Nat \ {0} /\ MaxDeliveries \in Nat \ {0}

VARIABLES
  \* the job table
  status,      \* [Jobs -> Statuses]; "none" is a job that does not exist
  owner,       \* [Jobs -> Invocations \cup {NoOne}], attribute workerId
  lease,       \* [Jobs -> 0..LeaseTicks], what is left until leaseExpiresAt
  result,      \* [Jobs -> Invocations \cup {NoOne}], processedBy of the stored result
  \* the table's stream and the dispatcher
  outbox,      \* [Jobs -> OutboxStates], the INSERT record of the job
  deliveries,  \* [Jobs -> 0..MaxDeliveries], failed deliveries of that record
  \* the FIFO lane queue
  queue,       \* [Groups -> Seq(Jobs)], the undeleted messages of a group
  receives,    \* [Groups -> 0..MaxReceives], receive count of the group's first message
  hidden,      \* [Groups -> 0..HiddenTicks], until the first message is visible again
  holder,      \* [Groups -> Invocations \cup {NoOne}], who holds its valid receipt
  recent,      \* the jobs whose deduplication id SQS still remembers
  dlq,         \* the jobs with a message in the dead-letter queue
  \* the worker invocations
  started,     \* invocations started so far: ids 1..started are in use
  pc,          \* [Invocations -> Steps]
  job,         \* [Invocations -> Jobs \cup {NoOne}], the job of its message
  receive,     \* [Invocations -> 0..MaxReceives], ApproximateReceiveCount
  left,        \* [Invocations -> 0..RunTicks], until the function is killed
  beating,     \* [Invocations -> BOOLEAN], no heartbeat has failed
  \* the source bucket
  stored       \* the archives in the bucket

table   == <<status, owner, lease, result>>
stream  == <<outbox, deliveries>>
lane    == <<queue, receives, hidden, holder, recent, dlq>>
workers == <<started, pc, job, receive, left, beating>>
vars    == <<table, stream, lane, workers, stored>>

Invocations == 1..MaxInvocations
Terminal    == {"complete", "failed"}
Statuses    == {"none", "queued", "dispatched", "processing"} \cup Terminal
OutboxStates == {"none", "pending", "sent", "settled", "discarded"}
Running     == {"received", "claimed", "auditing", "reported",
                "cleanup", "acking", "nacking"}
Steps       == {"idle", "ended"} \cup Running
------------------------------------------------------------------------------
Init ==
  /\ status = [j \in Jobs |-> "none"]
  /\ owner  = [j \in Jobs |-> NoOne]
  /\ lease  = [j \in Jobs |-> 0]
  /\ result = [j \in Jobs |-> NoOne]
  /\ outbox = [j \in Jobs |-> "none"]
  /\ deliveries = [j \in Jobs |-> 0]
  /\ queue    = [g \in Groups |-> <<>>]
  /\ receives = [g \in Groups |-> 0]
  /\ hidden   = [g \in Groups |-> 0]
  /\ holder   = [g \in Groups |-> NoOne]
  /\ recent = {}
  /\ dlq    = {}
  /\ started = 0
  /\ pc      = [w \in Invocations |-> "idle"]
  /\ job     = [w \in Invocations |-> NoOne]
  /\ receive = [w \in Invocations |-> 0]
  /\ left    = [w \in Invocations |-> 0]
  /\ beating = [w \in Invocations |-> TRUE]
  /\ stored = {}
------------------------------------------------------------------------------
(* The customer's and the administrator's side *)

\* putSource: the archive is stored under its fingerprint, again if it was deleted.
Upload(s) ==
  /\ stored' = stored \cup {s}
  /\ UNCHANGED <<table, stream, lane, workers>>

\* A submission whose conditional put creates the record; the table's stream then
\* carries an INSERT record.  A repeated submission finds the record and changes
\* nothing.  An audit is only accepted for a stored source.
Submit(j) ==
  /\ status[j] = "none"
  /\ j \in Audits => SourceOf[j] \in stored
  /\ status' = [status EXCEPT ![j] = "queued"]
  /\ outbox' = [outbox EXCEPT ![j] = "pending"]
  /\ UNCHANGED <<owner, lease, result, deliveries, lane, workers, stored>>
------------------------------------------------------------------------------
(* The dispatcher, one stream record at a time *)

\* SQS accepts the send; within the deduplication window it adds no second message.
DispatchSend(j) ==
  /\ outbox[j] = "pending"
  /\ outbox' = [outbox EXCEPT ![j] = "sent"]
  /\ recent' = recent \cup {j}
  /\ queue'  = IF j \in recent THEN queue
               ELSE [queue EXCEPT ![GroupOf[j]] = Append(@, j)]
  /\ UNCHANGED <<table, deliveries, receives, hidden, holder, dlq, workers, stored>>

\* Fault: the update's condition on the status is missing.
DispatchMarkUnguarded(j) ==
  /\ outbox[j] = "sent"
  /\ outbox' = [outbox EXCEPT ![j] = "settled"]
  /\ status' = [status EXCEPT ![j] = "dispatched"]
  /\ UNCHANGED <<owner, lease, result, deliveries, lane, workers, stored>>

\* markDispatched: a job that has already progressed is left alone.
DispatchMark(j) ==
  /\ outbox[j] = "sent"
  /\ outbox' = [outbox EXCEPT ![j] = "settled"]
  /\ status' = IF status[j] = "queued" THEN [status EXCEPT ![j] = "dispatched"] ELSE status
  /\ UNCHANGED <<owner, lease, result, deliveries, lane, workers, stored>>

\* Fault: the stream mapping has no failure destination.
DispatchFailDropped(j) ==
  /\ outbox[j] \in {"pending", "sent"}
  /\ deliveries' = [deliveries EXCEPT ![j] = @ + 1]
  /\ outbox' = [outbox EXCEPT ![j] = IF deliveries[j] + 1 < MaxDeliveries
                                     THEN "pending" ELSE "settled"]
  /\ UNCHANGED <<table, lane, workers, stored>>

\* The send or the mark throws, or the dispatcher is killed: the stream delivers the
\* record again from the start, and discards it to the failure queue at its limit.
DispatchFail(j) ==
  /\ outbox[j] \in {"pending", "sent"}
  /\ deliveries' = [deliveries EXCEPT ![j] = @ + 1]
  /\ outbox' = [outbox EXCEPT ![j] = IF deliveries[j] + 1 < MaxDeliveries
                                     THEN "pending" ELSE "discarded"]
  /\ UNCHANGED <<table, lane, workers, stored>>

\* The five-minute deduplication window of a job's message closes.
DedupExpire(j) ==
  /\ j \in recent
  /\ recent' = recent \ {j}
  /\ UNCHANGED <<table, stream, queue, receives, hidden, holder, dlq, workers, stored>>
------------------------------------------------------------------------------
(* The lane queue *)

\* The first message of a group is handed to a fresh invocation; while it is hidden
\* the whole group waits.
Receive(g) ==
  LET w == started + 1 IN
  /\ queue[g] # <<>> /\ hidden[g] = 0 /\ receives[g] < MaxReceives
  /\ started < MaxInvocations
  /\ started'  = w
  /\ receives' = [receives EXCEPT ![g] = @ + 1]
  /\ hidden'   = [hidden EXCEPT ![g] = HiddenTicks]
  /\ holder'   = [holder EXCEPT ![g] = w]
  /\ pc'       = [pc EXCEPT ![w] = "received"]
  /\ job'      = [job EXCEPT ![w] = Head(queue[g])]
  /\ receive'  = [receive EXCEPT ![w] = receives[g] + 1]
  /\ left'     = [left EXCEPT ![w] = RunTicks]
  /\ UNCHANGED <<table, stream, queue, recent, dlq, beating, stored>>

\* A message that would be received once too often goes to the dead-letter queue.
DeadLetter(g) ==
  /\ queue[g] # <<>> /\ hidden[g] = 0 /\ receives[g] = MaxReceives
  /\ dlq'      = dlq \cup {Head(queue[g])}
  /\ queue'    = [queue EXCEPT ![g] = Tail(@)]
  /\ receives' = [receives EXCEPT ![g] = 0]
  /\ UNCHANGED <<table, stream, hidden, holder, recent, workers, stored>>
------------------------------------------------------------------------------
(* The lane worker *)

Goto(w, step) == pc' = [pc EXCEPT ![w] = step]

\* Fault: a processing job is claimed whether or not its lease has expired.
ClaimableEarly(j) == status[j] \in {"queued", "dispatched", "processing"}

Claimable(j) == \/ status[j] \in {"queued", "dispatched"}
                \/ status[j] = "processing" /\ lease[j] = 0

\* Fault: the lease is taken for longer than the visibility timeout allows for.
ClaimTooLong(w) ==
  LET j == job[w] IN
  /\ pc[w] = "received"
  /\ Claimable(j)
  /\ status' = [status EXCEPT ![j] = "processing"]
  /\ owner'  = [owner EXCEPT ![j] = w]
  /\ lease'  = [lease EXCEPT ![j] = LeaseTicks + 2]
  /\ \E step \in {"claimed", "nacking"} : Goto(w, step)
  /\ UNCHANGED <<result, stream, lane, started, job, receive, left, beating, stored>>

\* claimJob's conditional update.  Its answer may be lost: the job is then leased to an
\* invocation that never learns it.
Claim(w) ==
  LET j == job[w] IN
  /\ pc[w] = "received"
  /\ Claimable(j)
  /\ status' = [status EXCEPT ![j] = "processing"]
  /\ owner'  = [owner EXCEPT ![j] = w]
  /\ lease'  = [lease EXCEPT ![j] = LeaseTicks]
  /\ \E step \in {"claimed", "nacking"} : Goto(w, step)
  /\ UNCHANGED <<result, stream, lane, started, job, receive, left, beating, stored>>

\* Fault: a busy job's message is acknowledged like that of a finished one.
ClaimRefusedAcks(w) ==
  /\ pc[w] = "received"
  /\ ~ Claimable(job[w])
  /\ Goto(w, "acking")
  /\ UNCHANGED <<table, stream, lane, started, job, receive, left, beating, stored>>

\* claimJob refused: a terminal job is acknowledged without running it again, a job
\* leased to another invocation is left to a later receive.
ClaimRefused(w) ==
  /\ pc[w] = "received"
  /\ ~ Claimable(job[w])
  /\ Goto(w, IF status[job[w]] \in Terminal THEN "acking" ELSE "nacking")
  /\ UNCHANGED <<table, stream, lane, started, job, receive, left, beating, stored>>

\* claimJob throws before anything is written.
ClaimError(w) ==
  /\ pc[w] = "received"
  /\ Goto(w, "nacking")
  /\ UNCHANGED <<table, stream, lane, started, job, receive, left, beating, stored>>

\* The executor loads the source of an audit; without it the attempt fails.
FetchSource(w) ==
  /\ pc[w] = "claimed" /\ job[w] \in Audits
  /\ Goto(w, IF SourceOf[job[w]] \in stored THEN "auditing" ELSE "cleanup")
  /\ UNCHANGED <<table, stream, lane, started, job, receive, left, beating, stored>>

\* The audit returns a report, and the executor deletes the source.
DeleteSource(w) ==
  /\ pc[w] = "auditing"
  /\ Goto(w, "reported")
  /\ stored' = stored \ {SourceOf[job[w]]}
  /\ UNCHANGED <<table, stream, lane, started, job, receive, left, beating>>

\* While the executor runs, the interval timer renews the lease.  A renewal that is
\* refused or fails is remembered and ends the heartbeats.
Heartbeat(w) ==
  LET j == job[w] IN
  /\ pc[w] \in {"claimed", "auditing"} /\ j \in Audits
  /\ beating[w]
  /\ \/ /\ status[j] = "processing" /\ owner[j] = w /\ lease[j] > 0
        /\ lease' = [lease EXCEPT ![j] = LeaseTicks]
        /\ UNCHANGED beating
     \/ /\ beating' = [beating EXCEPT ![w] = FALSE]
        /\ UNCHANGED lease
  /\ UNCHANGED <<status, owner, result, stream, lane, started, pc, job, receive, left, stored>>

\* Anything that throws after the claim: the account is not active, the provider fails
\* or times out, the deletion fails, a heartbeat was refused, the report is invalid,
\* the completing write fails.
WorkFails(w) ==
  /\ pc[w] \in {"claimed", "auditing", "reported"}
  /\ Goto(w, "cleanup")
  /\ UNCHANGED <<table, stream, lane, started, job, receive, left, beating, stored>>

\* Fault: the update's condition on workerId is missing.
OwnsAnyones(w) == status[job[w]] = "processing"

Owns(w) == status[job[w]] = "processing" /\ owner[job[w]] = w

\* A job leaves its owner: the update removes workerId and leaseExpiresAt.
LeaveOwner(j, s) ==
  /\ status' = [status EXCEPT ![j] = s]
  /\ owner'  = [owner EXCEPT ![j] = NoOne]
  /\ lease'  = [lease EXCEPT ![j] = 0]

\* completeJob, fenced by the worker id.  When its answer is lost the worker takes the
\* error path although the job is complete.
Complete(w) ==
  LET j == job[w] IN
  /\ \/ pc[w] = "claimed" /\ j \notin Audits
     \/ pc[w] = "reported" /\ beating[w]
  /\ IF Owns(w)
     THEN /\ LeaveOwner(j, "complete")
          /\ result' = [result EXCEPT ![j] = w]
          /\ \E step \in {"acking", "cleanup"} : Goto(w, step)
     ELSE Goto(w, "cleanup") /\ UNCHANGED table
  /\ UNCHANGED <<stream, lane, started, job, receive, left, beating, stored>>

\* The catch block: the last receive fails the job, an earlier one releases it for the
\* next.  Both are fenced by the worker id, and an error in them is swallowed.
Cleanup(w) ==
  /\ pc[w] = "cleanup"
  /\ Goto(w, "nacking")
  /\ \/ /\ Owns(w)
        /\ LeaveOwner(job[w], IF receive[w] >= MaxReceives THEN "failed" ELSE "dispatched")
        /\ UNCHANGED result
     \/ UNCHANGED table
  /\ UNCHANGED <<stream, lane, started, job, receive, left, beating, stored>>

EndInvocation(w) ==
  /\ pc'      = [pc EXCEPT ![w] = "ended"]
  /\ job'     = [job EXCEPT ![w] = NoOne]
  /\ receive' = [receive EXCEPT ![w] = 0]
  /\ left'    = [left EXCEPT ![w] = 0]
  /\ beating' = [beating EXCEPT ![w] = TRUE]
  /\ UNCHANGED started

\* The invocation returns.  An acknowledged message is deleted while its receipt is
\* valid; a failed one stays and becomes visible again.
Return(w) ==
  LET g == GroupOf[job[w]] IN
  /\ pc[w] \in {"acking", "nacking"}
  /\ IF pc[w] = "acking" /\ holder[g] = w
     THEN /\ queue'    = [queue EXCEPT ![g] = Tail(@)]
          /\ receives' = [receives EXCEPT ![g] = 0]
          /\ hidden'   = [hidden EXCEPT ![g] = 0]
          /\ holder'   = [holder EXCEPT ![g] = NoOne]
     ELSE UNCHANGED <<queue, receives, hidden, holder>>
  /\ EndInvocation(w)
  /\ UNCHANGED <<table, stream, recent, dlq, stored>>

\* The function is killed: at any time by a crash, and at its timeout at the latest.
Crash(w) ==
  /\ pc[w] \in Running
  /\ EndInvocation(w)
  /\ UNCHANGED <<table, stream, lane, stored>>

TimeOut(w) == left[w] = 0 /\ Crash(w)
------------------------------------------------------------------------------
Less(n) == IF n = 0 THEN 0 ELSE n - 1

\* Time passes: leases, visibility timeouts and run times count down, and a message
\* that becomes visible again invalidates the receipt it was handed out with.
Tick ==
  /\ \A w \in Invocations : pc[w] \in Running => left[w] > 0
  /\ lease'  = [j \in Jobs |-> Less(lease[j])]
  /\ hidden' = [g \in Groups |-> Less(hidden[g])]
  /\ holder' = [g \in Groups |-> IF hidden[g] > 1 THEN holder[g] ELSE NoOne]
  /\ left'   = [w \in Invocations |-> Less(left[w])]
  /\ UNCHANGED <<status, owner, result, stream, queue, receives, recent, dlq,
                 started, pc, job, receive, beating, stored>>

Work(w) ==
  \/ Claim(w) \/ ClaimRefused(w) \/ ClaimError(w)
  \/ FetchSource(w) \/ DeleteSource(w) \/ Heartbeat(w) \/ WorkFails(w)
  \/ Complete(w) \/ Cleanup(w) \/ Return(w) \/ Crash(w)

Next ==
  \/ \E s \in Sources : Upload(s)
  \/ \E j \in Jobs : \/ Submit(j) \/ DispatchSend(j) \/ DispatchMark(j)
                     \/ DispatchFail(j) \/ DedupExpire(j)
  \/ \E g \in Groups : Receive(g) \/ DeadLetter(g)
  \/ \E w \in Invocations : Work(w)
  \/ Tick

\* Lambda delivers stream records, SQS delivers visible messages, a function that runs
\* too long is killed, and time passes.  Nothing makes a worker finish its work.
Fairness ==
  /\ \A j \in Jobs : WF_vars(DispatchSend(j)) /\ WF_vars(DispatchMark(j))
  /\ \A g \in Groups : WF_vars(Receive(g)) /\ WF_vars(DeadLetter(g))
  /\ \A w \in Invocations : WF_vars(TimeOut(w))
  /\ WF_vars(Tick)

Spec == Init /\ [][Next]_vars
FairSpec == Spec /\ Fairness
------------------------------------------------------------------------------
(* Properties *)

TableOK == /\ status \in [Jobs -> Statuses]
           /\ owner  \in [Jobs -> Invocations \cup {NoOne}]
           /\ lease  \in [Jobs -> 0..LeaseTicks]
           /\ result \in [Jobs -> Invocations \cup {NoOne}]

StreamOK == /\ outbox \in [Jobs -> OutboxStates]
            /\ deliveries \in [Jobs -> Nat]

LaneOK == /\ queue    \in [Groups -> Seq(Jobs)]
          /\ receives \in [Groups -> 0..MaxReceives]
          /\ hidden   \in [Groups -> 0..HiddenTicks]
          /\ holder   \in [Groups -> Invocations \cup {NoOne}]
          /\ recent \subseteq Jobs
          /\ dlq    \subseteq Jobs

WorkersOK == /\ started \in 0..MaxInvocations
             /\ pc      \in [Invocations -> Steps]
             /\ job     \in [Invocations -> Jobs \cup {NoOne}]
             /\ receive \in [Invocations -> 0..MaxReceives]
             /\ left    \in [Invocations -> 0..RunTicks]
             /\ beating \in [Invocations -> BOOLEAN]

\* Every variable stays in its type, and a running invocation has a job.
TypeOK == /\ TableOK /\ StreamOK /\ LaneOK /\ WorkersOK
          /\ stored \subseteq Sources
          /\ \A w \in Invocations : pc[w] \in Running => job[w] \in Jobs

Waiting(j) == \E i \in 1..Len(queue[GroupOf[j]]) : queue[GroupOf[j]][i] = j

\* Where an operator finds a job that the queue has given up.
Parked(j) == j \in dlq \/ outbox[j] = "discarded"

\* An accepted job is never lost: until it is complete or failed, its stream record is
\* still to be dispatched, or a message for it exists, or an operator finds it in the
\* dead-letter queue or the dispatcher's failure queue.  Deduplicated sends, busy
\* receives, stale acknowledgements and crashes must all respect it.
NoLostJob ==
  \A j \in Jobs : status[j] \notin Terminal \cup {"none"} =>
    outbox[j] \in {"pending", "sent"} \/ Waiting(j) \/ Parked(j)

\* A complete or failed job is never touched again: not by a late dispatch mark, a
\* stale worker, a redelivered message or a cleanup whose completion answer was lost.
TerminalIsFinal ==
  [][\A j \in Jobs : status[j] \in Terminal =>
       status'[j] = status[j] /\ result'[j] = result[j]]_vars

\* A job with an unexpired lease changes only by its owner's own step: no other worker
\* takes it over, releases, fails or completes it, and no dispatch mark resets it.
LeaseIsExclusive ==
  [][\A j \in Jobs : status[j] = "processing" /\ lease[j] > 0
        /\ <<status'[j], owner'[j]>> # <<status[j], owner[j]>>
       => pc[owner[j]] # pc'[owner[j]]]_vars

\* With the deployed timing (visibility timeout at least lease plus run time) a message
\* is never received again before the lease of its last attempt has run out, even if
\* that attempt was killed right after a renewal: no receive is wasted on a busy job.
ReceiveFindsFreeLease ==
  \A w \in Invocations :
    pc[w] = "received" /\ status[job[w]] = "processing" => lease[job[w]] = 0

\* Every accepted job ends complete or failed, or is parked for an operator.
EveryJobSettles ==
  \A j \in Jobs : status[j] = "queued" ~> (status[j] \in Terminal \/ Parked(j))

\* The strengthening that makes NoLostJob and TypeOK inductive.

\* A valid receipt belongs to a started invocation, and its message is the first of
\* the group and still hidden.
ReceiptOf(g) == holder[g] # NoOne =>
  /\ hidden[g] > 0 /\ queue[g] # <<>> /\ holder[g] <= started
  /\ pc[holder[g]] \in Running => job[holder[g]] = Head(queue[g])
ReceiptInv == \A g \in Groups : ReceiptOf(g)

\* Invocation ids are fresh: nothing runs under an id that was not handed out.
FreshInv == \A w \in Invocations : w > started => pc[w] = "idle"

\* Only a finished job is acknowledged.
AckInv == \A w \in Invocations : pc[w] = "acking" => status[job[w]] \in Terminal

\* A send that SQS has accepted, or that it deduplicates, has its message.
Delivered(j) == Waiting(j) \/ j \in dlq \/ status[j] \in Terminal
DeliveredInv == \A j \in Jobs :
  j \in recent \/ outbox[j] \in {"sent", "settled"} => Delivered(j)

\* Every job came with a stream record.
OutboxInv == \A j \in Jobs : status[j] # "none" => outbox[j] # "none"

IInv == TypeOK /\ ReceiptInv /\ FreshInv /\ AckInv /\ DeliveredInv /\ OutboxInv

\* The strengthening that makes ReceiveFindsFreeLease inductive, given TimingCovers.

\* The deployed timing: a message stays hidden for longer than a lease taken, or
\* renewed, at any moment of the run it was handed out to.
TimingCovers == LeaseTicks + RunTicks <= HiddenTicks

\* A message waits in the group of its job.
RoutedInv == \A g \in Groups : \A i \in 1..Len(queue[g]) : GroupOf[queue[g][i]] = g

\* A running invocation holds the valid receipt of its group, and its message has been
\* hidden no longer than the invocation has run.
HeldInv == \A w \in Invocations : pc[w] \in Running =>
  LET g == GroupOf[job[w]] IN
  holder[g] = w /\ left[w] + HiddenTicks <= hidden[g] + RunTicks

\* Nothing belongs to an invocation that has not asked for it yet.
UnclaimedInv == \A w \in Invocations :
  pc[w] = "received" \/ w > started => \A j \in Jobs : owner[j] # w

\* A lease ends before its owner's message is visible again.
LeaseInv == \A j \in Jobs : status[j] = "processing" /\ lease[j] > 0 =>
  LET g == GroupOf[j] IN
  /\ owner[j] \in Invocations /\ holder[g] = owner[j] /\ lease[j] <= hidden[g]
  /\ pc[owner[j]] \in Running => job[owner[j]] = j

\* An attempt keeps what it has claimed until its own last write.
AttemptInv == \A w \in Invocations :
  pc[w] \in {"claimed", "auditing", "reported"} => Owns(w)

TimingInv == RoutedInv /\ HeldInv /\ UnclaimedInv /\ LeaseInv /\ AttemptInv

\* Attempts do not overlap: a message group is worked on by one invocation at a time.
OneAttemptAtATime ==
  \A v, w \in Invocations :
    pc[v] \in Running /\ pc[w] \in Running /\ GroupOf[job[v]] = GroupOf[job[w]] => v = w

\* PRIORITY_QUEUE.md:30: a crashed or timed-out worker loses ownership after the lease
\* expires, which lets the retry of the message reclaim the job.  So there is a message to
\* retry, or somebody at work, as long as a job is processing without a lease.
CrashedIsReclaimable ==
  \A j \in Jobs : status[j] = "processing" /\ lease[j] = 0 =>
    Waiting(j) \/ \E w \in Invocations : pc[w] \in Running /\ job[w] = j

PhaseOf(s) == IF s = "none" THEN "absent"
              ELSE IF s \in {"queued", "dispatched"} THEN "accepted"
              ELSE IF s = "processing" THEN "running" ELSE s

Lifecycle == INSTANCE JobLifecycle WITH
  Attempts <- Invocations,
  phase    <- [j \in Jobs |-> PhaseOf(status[j])],
  runner   <- owner

\* The job table keeps the promise of JobLifecycle, whatever the stream, the queue, the
\* clock and the workers do underneath.
ImplementsLifecycle == Lifecycle!Spec
==============================================================================
