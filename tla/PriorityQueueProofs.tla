------------------------- MODULE PriorityQueueProofs -------------------------
(***************************************************************************)
(* What PriorityQueue guarantees for every number of jobs, groups and      *)
(* invocations and for every timing, proved from its step relation.        *)
(***************************************************************************)
EXTENDS PriorityQueue, TLAPS

\* The last conjunct of TypeOK under a name.
RunningHasJob == \A w \in Invocations : pc[w] \in Running => job[w] \in Jobs

\* TypeOK with that name, so that each variable group can be handled by itself.
LEMMA TypeParts ==
  TypeOK <=> /\ TableOK /\ StreamOK /\ LaneOK /\ WorkersOK
             /\ stored \subseteq Sources /\ RunningHasJob
  BY DEF TypeOK, RunningHasJob

\* The job table changes only by a submission, a dispatch mark or a worker's write.
LEMMA TableStep == TypeOK /\ [Next]_vars => TableOK'
<1> SUFFICES ASSUME TypeOK, [Next]_vars PROVE TableOK'
  OBVIOUS
<1> USE PriorityAssumption DEF PriorityAssumption, Statuses, Terminal
<1>0. TableOK
  BY DEF TypeOK
<1>1. ASSUME UNCHANGED table PROVE TableOK'
  BY <1>0, <1>1 DEF TableOK, table
<1>2. ASSUME NEW j \in Jobs, Submit(j) \/ DispatchMark(j) PROVE TableOK'
  BY <1>0, <1>2 DEF TableOK, Submit, DispatchMark
<1>3. ASSUME NEW w \in Invocations, Claim(w) PROVE TableOK'
  <2>1. LeaseTicks \in 0..LeaseTicks
    OBVIOUS
  <2>2. status' \in [Jobs -> Statuses] /\ owner' \in [Jobs -> Invocations \cup {NoOne}]
    BY <1>0, <1>3 DEF TableOK, Claim
  <2>3. lease' \in [Jobs -> 0..LeaseTicks]
    BY <1>0, <1>3, <2>1 DEF TableOK, Claim
  <2> QED BY <1>0, <1>3, <2>2, <2>3 DEF TableOK, Claim
<1>4. ASSUME NEW w \in Invocations, Heartbeat(w) PROVE TableOK'
  BY <1>0, <1>4 DEF TableOK, Heartbeat
<1>5. ASSUME NEW j, NEW s \in Statuses, LeaveOwner(j, s),
             result' \in [Jobs -> Invocations \cup {NoOne}]
      PROVE  TableOK'
  <2>1. 0 \in 0..LeaseTicks
    OBVIOUS
  <2>2. status' \in [Jobs -> Statuses] /\ owner' \in [Jobs -> Invocations \cup {NoOne}]
    BY <1>0, <1>5 DEF TableOK, LeaveOwner
  <2>3. lease' \in [Jobs -> 0..LeaseTicks]
    BY <1>0, <1>5, <2>1 DEF TableOK, LeaveOwner
  <2> QED BY <1>5, <2>2, <2>3 DEF TableOK
<1>6. ASSUME NEW w \in Invocations, Complete(w) PROVE TableOK'
  <2>1. CASE Owns(w)
    <3>1. result' \in [Jobs -> Invocations \cup {NoOne}]
      BY <1>0, <1>6, <2>1 DEF TableOK, Complete
    <3> QED BY <1>5, <1>6, <2>1, <3>1 DEF Complete
  <2>2. CASE ~ Owns(w)
    BY <1>1, <1>6, <2>2 DEF Complete
  <2> QED BY <2>1, <2>2
<1>7. ASSUME NEW w \in Invocations, Cleanup(w) PROVE TableOK'
  <2>1. CASE UNCHANGED table
    BY <1>1, <2>1
  <2>2. CASE ~ UNCHANGED table
    <3>1. result' \in [Jobs -> Invocations \cup {NoOne}]
      BY <1>0, <1>7, <2>2 DEF TableOK, Cleanup
    <3> QED BY <1>5, <1>7, <2>2, <3>1 DEF Cleanup
  <2> QED BY <2>1, <2>2
<1>8. ASSUME Tick PROVE TableOK'
  BY <1>0, <1>8 DEF TableOK, Tick, Less
<1> QED
  BY <1>1, <1>2, <1>3, <1>4, <1>6, <1>7, <1>8
     DEF Next, Work, Upload, DispatchSend, DispatchFail, DedupExpire, Receive, DeadLetter,
         ClaimRefused, ClaimError, FetchSource, DeleteSource, WorkFails, Return, Crash, vars

\* The stream's records change only by a submission and the dispatcher's steps.
LEMMA StreamStep == TypeOK /\ [Next]_vars => StreamOK'
<1> SUFFICES ASSUME TypeOK, [Next]_vars PROVE StreamOK'
  OBVIOUS
<1>0. StreamOK
  BY DEF TypeOK
<1>1. ASSUME UNCHANGED stream PROVE StreamOK'
  BY <1>0, <1>1 DEF StreamOK, stream
<1>2. ASSUME NEW j \in Jobs, Submit(j) \/ DispatchSend(j) \/ DispatchMark(j) \/ DispatchFail(j)
      PROVE  StreamOK'
  BY <1>0, <1>2 DEF StreamOK, OutboxStates, Submit, DispatchSend, DispatchMark, DispatchFail
<1> QED
  BY <1>1, <1>2
     DEF Next, Work, Upload, DedupExpire, Receive, DeadLetter, Claim, ClaimRefused,
         ClaimError, FetchSource, DeleteSource, Heartbeat, WorkFails, Complete, Cleanup,
         Return, Crash, Tick, vars

\* The lane's queues, counters and receipts keep their types; a valid receipt is what
\* keeps Return from taking the tail of an empty queue.
LEMMA LaneStep == TypeOK /\ ReceiptInv /\ [Next]_vars => LaneOK'
<1> SUFFICES ASSUME TypeOK, ReceiptInv, [Next]_vars PROVE LaneOK'
  OBVIOUS
<1> USE PriorityAssumption DEF PriorityAssumption
<1>0. LaneOK /\ WorkersOK /\ RunningHasJob
  BY DEF TypeOK, RunningHasJob
<1>1. ASSUME UNCHANGED lane PROVE LaneOK'
  BY <1>0, <1>1 DEF LaneOK, lane
<1>2. ASSUME NEW j \in Jobs, DispatchSend(j) PROVE LaneOK'
  <2>1. GroupOf[j] \in Groups /\ queue[GroupOf[j]] \in Seq(Jobs)
    BY <1>0 DEF LaneOK
  <2>2. queue' \in [Groups -> Seq(Jobs)]
    BY <1>0, <1>2, <2>1 DEF LaneOK, DispatchSend
  <2> QED BY <1>0, <1>2, <2>2 DEF LaneOK, DispatchSend
<1>3. ASSUME NEW j \in Jobs, DedupExpire(j) PROVE LaneOK'
  BY <1>0, <1>3 DEF LaneOK, DedupExpire
<1>4. ASSUME NEW g \in Groups, Receive(g) PROVE LaneOK'
  <2>1. started + 1 \in Invocations
    BY <1>0, <1>4 DEF WorkersOK, Receive, Invocations
  <2>0. receives[g] + 1 \in 0..MaxReceives
    <3>1. receives[g] \in 0..MaxReceives /\ receives[g] < MaxReceives
      BY <1>0, <1>4 DEF LaneOK, Receive
    <3> QED BY <3>1
  <2>2. receives' \in [Groups -> 0..MaxReceives]
    BY <1>0, <1>4, <2>0 DEF LaneOK, Receive
  <2>3. hidden' \in [Groups -> 0..HiddenTicks]
    BY <1>0, <1>4 DEF LaneOK, Receive
  <2>4. holder' \in [Groups -> Invocations \cup {NoOne}]
    BY <1>0, <1>4, <2>1 DEF LaneOK, Receive
  <2> QED BY <1>0, <1>4, <2>2, <2>3, <2>4 DEF LaneOK, Receive
<1>5. ASSUME NEW g \in Groups, DeadLetter(g) PROVE LaneOK'
  <2>1. Head(queue[g]) \in Jobs /\ Tail(queue[g]) \in Seq(Jobs)
    BY <1>0, <1>5 DEF LaneOK, DeadLetter
  <2>2. queue' \in [Groups -> Seq(Jobs)]
    BY <1>0, <1>5, <2>1 DEF LaneOK, DeadLetter
  <2>3. receives' \in [Groups -> 0..MaxReceives] /\ dlq' \subseteq Jobs
    BY <1>0, <1>5, <2>1 DEF LaneOK, DeadLetter
  <2> QED BY <1>0, <1>5, <2>2, <2>3 DEF LaneOK, DeadLetter
<1>6. ASSUME NEW w \in Invocations, Return(w) PROVE LaneOK'
  <2> DEFINE g == GroupOf[job[w]]
  <2>1. g \in Groups
    BY <1>0, <1>6 DEF RunningHasJob, Return, Running
  <2>2. CASE UNCHANGED <<queue, receives, hidden, holder>>
    BY <1>0, <1>6, <2>2 DEF LaneOK, Return
  <2>3. CASE ~ UNCHANGED <<queue, receives, hidden, holder>>
    <3>1. holder[g] = w /\ queue' = [queue EXCEPT ![g] = Tail(@)]
          /\ receives' = [receives EXCEPT ![g] = 0] /\ hidden' = [hidden EXCEPT ![g] = 0]
          /\ holder' = [holder EXCEPT ![g] = NoOne] /\ UNCHANGED <<recent, dlq>>
      BY <1>6, <2>3 DEF Return
    <3>2. queue[g] # <<>>
      BY <2>1, <3>1, PriorityAssumption DEF ReceiptInv, ReceiptOf, Invocations, PriorityAssumption
    <3>3. Tail(queue[g]) \in Seq(Jobs)
      BY <1>0, <2>1, <3>2 DEF LaneOK
    <3>4. queue' \in [Groups -> Seq(Jobs)]
      BY <1>0, <3>1, <3>3 DEF LaneOK
    <3> QED BY <1>0, <3>1, <3>4 DEF LaneOK
  <2> QED BY <2>2, <2>3
<1>7. ASSUME Tick PROVE LaneOK'
  BY <1>0, <1>7 DEF LaneOK, Tick, Less
<1> QED
  BY <1>1, <1>2, <1>3, <1>4, <1>5, <1>6, <1>7
     DEF Next, Work, Upload, Submit, DispatchMark, DispatchFail, Claim, ClaimRefused,
         ClaimError, FetchSource, DeleteSource, Heartbeat, WorkFails, Complete, Cleanup,
         Crash, vars

\* The workers' local state keeps its type, and a message always carries a job.
LEMMA WorkersStep == TypeOK /\ [Next]_vars => WorkersOK' /\ RunningHasJob'
<1> SUFFICES ASSUME TypeOK, [Next]_vars PROVE WorkersOK' /\ RunningHasJob'
  OBVIOUS
<1> USE PriorityAssumption DEF PriorityAssumption, Running, Steps
<1>0. LaneOK /\ WorkersOK /\ RunningHasJob
  BY DEF TypeOK, RunningHasJob
<1>1. ASSUME UNCHANGED workers PROVE WorkersOK' /\ RunningHasJob'
  BY <1>0, <1>1 DEF WorkersOK, RunningHasJob, workers
<1>2. ASSUME NEW g \in Groups, Receive(g) PROVE WorkersOK' /\ RunningHasJob'
  <2> DEFINE w == started + 1
  <2>1. w \in Invocations /\ w \in 0..MaxInvocations
    BY <1>0, <1>2 DEF WorkersOK, Receive, Invocations
  <2>2. Head(queue[g]) \in Jobs
    BY <1>0, <1>2 DEF LaneOK, Receive
  <2>3. receives[g] + 1 \in 0..MaxReceives
    <3>1. receives[g] \in 0..MaxReceives /\ receives[g] < MaxReceives
      BY <1>0, <1>2 DEF LaneOK, Receive
    <3> QED BY <3>1
  <2>4. /\ started' = w /\ pc' = [pc EXCEPT ![w] = "received"]
        /\ job' = [job EXCEPT ![w] = Head(queue[g])]
        /\ receive' = [receive EXCEPT ![w] = receives[g] + 1]
        /\ left' = [left EXCEPT ![w] = RunTicks] /\ beating' = beating
    BY <1>2 DEF Receive
  <2>5. RunTicks \in 0..RunTicks
    OBVIOUS
  <2>6. left' \in [Invocations -> 0..RunTicks]
    BY <1>0, <2>4, <2>5 DEF WorkersOK
  <2>7. receive' \in [Invocations -> 0..MaxReceives]
    BY <1>0, <2>3, <2>4 DEF WorkersOK
  <2> HIDE DEF w
  <2>8. WorkersOK'
    BY <1>0, <2>1, <2>2, <2>4, <2>6, <2>7 DEF WorkersOK
  <2> QED BY <1>0, <2>1, <2>2, <2>4, <2>8 DEF RunningHasJob, WorkersOK
<1>3. ASSUME NEW w \in Invocations, NEW s \in Running, pc[w] \in Running, Goto(w, s),
             UNCHANGED <<started, job, receive, left, beating>>
      PROVE  WorkersOK' /\ RunningHasJob'
  BY <1>0, <1>3 DEF WorkersOK, RunningHasJob, Goto
<1>4. ASSUME NEW w \in Invocations, Heartbeat(w) PROVE WorkersOK' /\ RunningHasJob'
  BY <1>0, <1>4 DEF WorkersOK, RunningHasJob, Heartbeat
<1>5. ASSUME NEW w \in Invocations, EndInvocation(w) PROVE WorkersOK' /\ RunningHasJob'
  <2>1. 0 \in 0..MaxReceives /\ 0 \in 0..RunTicks
    OBVIOUS
  <2>2. receive' \in [Invocations -> 0..MaxReceives] /\ left' \in [Invocations -> 0..RunTicks]
    BY <1>0, <1>5, <2>1 DEF WorkersOK, EndInvocation
  <2> QED BY <1>0, <1>5, <2>2 DEF WorkersOK, RunningHasJob, EndInvocation
<1>6. ASSUME Tick PROVE WorkersOK' /\ RunningHasJob'
  BY <1>0, <1>6 DEF WorkersOK, RunningHasJob, Tick, Less
<1>7. ASSUME NEW w \in Invocations, Work(w) PROVE WorkersOK' /\ RunningHasJob'
  <2>1. CASE Claim(w) \/ Complete(w)
    BY <1>3, <2>1 DEF Claim, Complete
  <2>2. CASE ClaimRefused(w) \/ ClaimError(w) \/ FetchSource(w) \/ DeleteSource(w)
             \/ WorkFails(w) \/ Cleanup(w)
    BY <1>3, <2>2 DEF ClaimRefused, ClaimError, FetchSource, DeleteSource, WorkFails, Cleanup
  <2>3. CASE Return(w) \/ Crash(w)
    BY <1>5, <2>3 DEF Return, Crash
  <2> QED BY <1>4, <1>7, <2>1, <2>2, <2>3 DEF Work
<1> QED
  BY <1>1, <1>2, <1>6, <1>7
     DEF Next, Upload, Submit, DispatchSend, DispatchMark, DispatchFail, DedupExpire,
         DeadLetter, vars

\* Every step keeps every type.
LEMMA TypeStep == TypeOK /\ ReceiptInv /\ [Next]_vars => TypeOK'
<1> SUFFICES ASSUME TypeOK, ReceiptInv, [Next]_vars PROVE TypeOK'
  OBVIOUS
<1>1. (stored \subseteq Sources)'
  BY DEF TypeOK, Next, Work, Upload, Submit, DispatchSend, DispatchMark, DispatchFail,
         DedupExpire, Receive, DeadLetter, Claim, ClaimRefused, ClaimError, FetchSource,
         DeleteSource, Heartbeat, WorkFails, Complete, Cleanup, Return, Crash, Tick, vars
<1> QED
  BY <1>1, TableStep, StreamStep, LaneStep, WorkersStep DEF TypeOK, RunningHasJob

\* Receipts stay with the first message of their group.
LEMMA ReceiptStep == IInv /\ [Next]_vars => ReceiptInv'
<1> SUFFICES ASSUME IInv, [Next]_vars, NEW g \in Groups PROVE ReceiptOf(g)'
  BY DEF ReceiptInv
<1> USE PriorityAssumption DEF PriorityAssumption
<1>0. /\ LaneOK /\ WorkersOK /\ RunningHasJob /\ FreshInv /\ ReceiptOf(g)
      /\ holder[g] \in Invocations \cup {NoOne}
  BY DEF IInv, TypeOK, LaneOK, ReceiptInv, RunningHasJob
<1>1. ASSUME UNCHANGED <<queue, hidden, holder, started, job>>,
             \A w \in Invocations : pc'[w] \in Running => pc[w] \in Running
      PROVE  ReceiptOf(g)'
  BY <1>0, <1>1 DEF ReceiptOf
<1>2. ASSUME NEW j \in Jobs, DispatchSend(j) PROVE ReceiptOf(g)'
  <2>1. queue[g] \in Seq(Jobs)
    BY <1>0 DEF LaneOK
  <2>2. queue'[g] = queue[g] \/ queue'[g] = Append(queue[g], j)
    BY <1>0, <1>2 DEF LaneOK, DispatchSend
  <2>3. queue[g] # <<>> => queue'[g] # <<>> /\ Head(queue'[g]) = Head(queue[g])
    BY <2>1, <2>2
  <2> QED BY <1>0, <1>2, <2>3 DEF DispatchSend, workers, ReceiptOf
<1>3. ASSUME NEW h \in Groups, Receive(h) PROVE ReceiptOf(g)'
  <2>1. started + 1 \in Invocations /\ started \in Nat
    BY <1>0, <1>3 DEF WorkersOK, Receive, Invocations
  <2>2. CASE g = h
    BY <1>0, <1>3, <2>1, <2>2 DEF LaneOK, WorkersOK, Receive, ReceiptOf
  <2>3. CASE g # h
    <3>1. /\ holder'[g] = holder[g] /\ hidden'[g] = hidden[g] /\ queue' = queue
          /\ started' = started + 1
      BY <1>0, <1>3, <2>3 DEF LaneOK, Receive
    <3>2. holder[g] # NoOne => holder[g] # started + 1 /\ holder[g] \in Nat
      BY <1>0, <2>1 DEF ReceiptOf, Invocations
    <3>3. holder[g] # NoOne => /\ pc'[holder[g]] = pc[holder[g]]
                               /\ job'[holder[g]] = job[holder[g]]
      BY <1>0, <1>3, <2>1, <3>2 DEF WorkersOK, Receive
    <3> QED BY <1>0, <2>1, <3>1, <3>2, <3>3 DEF ReceiptOf
  <2> QED BY <2>2, <2>3
<1>4. ASSUME NEW h \in Groups, DeadLetter(h) PROVE ReceiptOf(g)'
  BY <1>0, <1>4, SMTT(20) DEF LaneOK, DeadLetter, ReceiptOf, workers
<1>5. ASSUME NEW w \in Invocations, EndInvocation(w), UNCHANGED <<queue, hidden, holder>>
      PROVE  ReceiptOf(g)'
  BY <1>0, <1>5 DEF WorkersOK, EndInvocation, ReceiptOf, Running
<1>6. ASSUME NEW w \in Invocations, Work(w) PROVE ReceiptOf(g)'
  <2>1. CASE Return(w)
    <3> DEFINE k == GroupOf[job[w]]
    <3>1. CASE UNCHANGED <<queue, receives, hidden, holder>>
      BY <1>5, <2>1, <3>1 DEF Return
    <3>2. CASE ~ UNCHANGED <<queue, receives, hidden, holder>>
      <4>1. queue' = [queue EXCEPT ![k] = Tail(@)] /\ hidden' = [hidden EXCEPT ![k] = 0]
            /\ holder' = [holder EXCEPT ![k] = NoOne] /\ EndInvocation(w)
        BY <2>1, <3>2 DEF Return
      <4>2. CASE g = k
        BY <1>0, <4>1, <4>2 DEF LaneOK, ReceiptOf
      <4>3. CASE g # k
        <5>1. queue'[g] = queue[g] /\ hidden'[g] = hidden[g] /\ holder'[g] = holder[g]
          BY <1>0, <4>1, <4>3 DEF LaneOK
        <5> QED BY <1>0, <4>1, <5>1 DEF WorkersOK, EndInvocation, ReceiptOf, Running
      <4> QED BY <4>2, <4>3
    <3> QED BY <3>1, <3>2
  <2>2. CASE Crash(w)
    BY <1>5, <2>2 DEF Crash, lane
  <2>3. CASE Claim(w) \/ ClaimRefused(w) \/ ClaimError(w) \/ FetchSource(w)
             \/ DeleteSource(w) \/ Heartbeat(w) \/ WorkFails(w) \/ Complete(w) \/ Cleanup(w)
    <3>1. pc[w] \in Running /\ (UNCHANGED pc \/ \E s \in Steps : Goto(w, s))
          /\ UNCHANGED <<queue, hidden, holder, started, job>>
      BY <2>3 DEF Claim, ClaimRefused, ClaimError, FetchSource, DeleteSource, Heartbeat,
                  WorkFails, Complete, Cleanup, Running, Steps, lane
    <3>2. \A v \in Invocations : pc'[v] \in Running => pc[v] \in Running
      BY <1>0, <3>1 DEF WorkersOK, Goto
    <3> QED BY <1>1, <3>1, <3>2
  <2> QED BY <1>6, <2>1, <2>2, <2>3 DEF Work
<1>7. ASSUME Tick PROVE ReceiptOf(g)'
  <2>1. holder'[g] = IF hidden[g] > 1 THEN holder[g] ELSE NoOne
    BY <1>7 DEF Tick
  <2>2. hidden'[g] = Less(hidden[g]) /\ hidden[g] \in Nat
    BY <1>0, <1>7 DEF Tick, LaneOK
  <2>3. UNCHANGED <<queue, started, pc, job>>
    BY <1>7 DEF Tick
  <2> QED BY <1>0, <2>1, <2>2, <2>3 DEF ReceiptOf, Less
<1> QED
  BY <1>1, <1>2, <1>3, <1>4, <1>6, <1>7
     DEF Next, Upload, Submit, DispatchMark, DispatchFail, DedupExpire, lane, workers, vars

\* An id that was not handed out is idle.
LEMMA FreshStep == IInv /\ [Next]_vars => FreshInv'
<1> SUFFICES ASSUME IInv, [Next]_vars, NEW w \in Invocations, (w > started)'
             PROVE  (pc[w] = "idle")'
  BY DEF FreshInv
<1>0. WorkersOK /\ (w > started => pc[w] = "idle")
  BY DEF IInv, TypeOK, FreshInv
<1>1. ASSUME UNCHANGED <<started, pc>> PROVE pc'[w] = "idle"
  BY <1>0, <1>1
<1>2. ASSUME NEW g \in Groups, Receive(g) PROVE pc'[w] = "idle"
  BY <1>0, <1>2, PriorityAssumption DEF WorkersOK, Receive, Invocations, PriorityAssumption
<1>3. ASSUME NEW v \in Invocations, Work(v) PROVE pc'[w] = "idle"
  <2>1. started' = started /\ pc[v] # "idle"
    BY <1>3 DEF Work, Claim, ClaimRefused, ClaimError, FetchSource, DeleteSource, Heartbeat,
                WorkFails, Complete, Cleanup, Return, Crash, EndInvocation, Running
  <2>2. v # w /\ pc[w] = "idle"
    BY <1>0, <2>1
  <2>3. UNCHANGED pc \/ \E s : pc' = [pc EXCEPT ![v] = s]
    BY <1>3 DEF Work, Claim, ClaimRefused, ClaimError, FetchSource, DeleteSource, Heartbeat,
                WorkFails, Complete, Cleanup, Return, Crash, EndInvocation, Goto
  <2> QED BY <1>0, <2>2, <2>3 DEF WorkersOK
<1> QED
  BY <1>1, <1>2, <1>3
     DEF Next, Upload, Submit, DispatchSend, DispatchMark, DispatchFail, DedupExpire,
         DeadLetter, Tick, workers, vars

\* No step touches a finished job.
LEMMA TerminalStep ==
  TypeOK /\ [Next]_vars => \A j \in Jobs : status[j] \in Terminal =>
                              status'[j] = status[j] /\ result'[j] = result[j]
<1> SUFFICES ASSUME TypeOK, [Next]_vars, NEW j \in Jobs, status[j] \in Terminal
             PROVE  status'[j] = status[j] /\ result'[j] = result[j]
  OBVIOUS
<1>0. TableOK /\ status[j] \notin {"none", "queued", "dispatched", "processing"}
  BY DEF TypeOK, Terminal
<1>1. ASSUME NEW i \in Jobs, Submit(i) \/ DispatchMark(i)
      PROVE  status'[j] = status[j] /\ result'[j] = result[j]
  BY <1>0, <1>1 DEF TableOK, Submit, DispatchMark
<1>2. ASSUME NEW w \in Invocations, Work(w)
      PROVE  status'[j] = status[j] /\ result'[j] = result[j]
  <2>1. CASE Claim(w)
    BY <1>0, <2>1 DEF TableOK, Claim, Claimable
  <2>2. CASE Complete(w)
    BY <1>0, <2>2 DEF TableOK, Complete, Owns, LeaveOwner, table
  <2>3. CASE Cleanup(w)
    BY <1>0, <2>3 DEF TableOK, Cleanup, Owns, LeaveOwner, table
  <2> QED
    BY <1>2, <2>1, <2>2, <2>3 DEF Work, ClaimRefused, ClaimError, FetchSource, DeleteSource,
       Heartbeat, WorkFails, Return, Crash, table
<1> QED
  BY <1>1, <1>2 DEF Next, Upload, DispatchSend, DispatchFail, DedupExpire, Receive,
     DeadLetter, Tick, table, vars

\* An invocation acknowledges only after it found or made its job terminal.
LEMMA AckStep == IInv /\ [Next]_vars => AckInv'
<1> SUFFICES ASSUME IInv, [Next]_vars, NEW w \in Invocations, pc'[w] = "acking"
             PROVE  status'[job'[w]] \in Terminal
  BY DEF AckInv
<1>0. /\ TypeOK /\ TableOK /\ WorkersOK /\ RunningHasJob
      /\ pc[w] = "acking" => status[job[w]] \in Terminal
      /\ \A j \in Jobs : status[j] \in Terminal => status'[j] \in Terminal
  BY TerminalStep DEF IInv, TypeOK, RunningHasJob, AckInv
<1>1. ASSUME pc[w] = "acking", job'[w] = job[w] PROVE status'[job'[w]] \in Terminal
  BY <1>0, <1>1 DEF RunningHasJob, Running
<1>2. ASSUME NEW g \in Groups, Receive(g) PROVE status'[job'[w]] \in Terminal
  <2>1. started + 1 \in Invocations
    BY <1>0, <1>2, PriorityAssumption DEF WorkersOK, Receive, Invocations, PriorityAssumption
  <2>2. w # started + 1 /\ pc[w] = "acking" /\ job'[w] = job[w]
    BY <1>0, <1>2, <2>1 DEF WorkersOK, Receive
  <2> QED BY <1>1, <2>2
<1>3. ASSUME NEW v \in Invocations, Work(v) PROVE status'[job'[w]] \in Terminal
  <2>1. CASE v # w
    <3>1. pc'[w] = pc[w] /\ job'[w] = job[w]
      BY <1>0, <1>3, <2>1 DEF WorkersOK, Work, Claim, ClaimRefused, ClaimError, FetchSource,
         DeleteSource, Heartbeat, WorkFails, Complete, Cleanup, Return, Crash, EndInvocation, Goto
    <3> QED BY <1>1, <3>1
  <2>2. CASE v = w /\ ClaimRefused(w)
    <3>1. status[job[w]] \in Terminal /\ job' = job /\ pc[w] = "received"
      BY <1>0, <2>2 DEF WorkersOK, ClaimRefused, Goto
    <3> QED BY <1>0, <3>1 DEF RunningHasJob, Running
  <2>3. CASE v = w /\ Complete(w)
    <3>1. Owns(w) /\ job' = job /\ job[w] \in Jobs
      BY <1>0, <2>3 DEF WorkersOK, RunningHasJob, Running, Complete, Goto
    <3> QED BY <1>0, <2>3, <3>1 DEF TableOK, Complete, LeaveOwner, Terminal
  <2>4. CASE v = w /\ (Claim(w) \/ ClaimError(w) \/ FetchSource(w) \/ DeleteSource(w)
                      \/ WorkFails(w) \/ Cleanup(w) \/ Return(w) \/ Crash(w))
    <3>1. pc'[w] # "acking"
      BY <1>0, <2>4 DEF WorkersOK, Claim, ClaimError, FetchSource, DeleteSource, WorkFails,
         Cleanup, Return, Crash, EndInvocation, Goto
    <3> QED BY <3>1
  <2>5. CASE v = w /\ Heartbeat(w)
    BY <1>1, <2>5 DEF Heartbeat
  <2> QED BY <1>3, <2>1, <2>2, <2>3, <2>4, <2>5 DEF Work
<1> QED
  BY <1>1, <1>2, <1>3
     DEF Next, Upload, Submit, DispatchSend, DispatchMark, DispatchFail, DedupExpire,
         DeadLetter, Tick, workers, vars

\* A job gets its stream record with its creation and keeps it.
LEMMA OutboxStep == IInv /\ [Next]_vars => OutboxInv'
<1> SUFFICES ASSUME IInv, [Next]_vars, NEW j \in Jobs, (status[j] # "none")'
             PROVE  (outbox[j] # "none")'
  BY DEF OutboxInv
<1>0. TableOK /\ StreamOK /\ WorkersOK /\ RunningHasJob
      /\ \A i \in Jobs : status[i] # "none" => outbox[i] # "none"
  BY DEF IInv, TypeOK, RunningHasJob, OutboxInv
<1>1. ASSUME UNCHANGED <<status, outbox>> PROVE outbox'[j] # "none"
  BY <1>0, <1>1
<1>2. ASSUME NEW i \in Jobs,
             Submit(i) \/ DispatchSend(i) \/ DispatchMark(i) \/ DispatchFail(i)
      PROVE  outbox'[j] # "none"
  BY <1>0, <1>2 DEF TableOK, StreamOK, table, Submit, DispatchSend, DispatchMark, DispatchFail
<1>3. ASSUME NEW w \in Invocations, Work(w) PROVE outbox'[j] # "none"
  <2>1. outbox' = outbox
    BY <1>3 DEF Work, Claim, ClaimRefused, ClaimError, FetchSource, DeleteSource, Heartbeat,
       WorkFails, Complete, Cleanup, Return, Crash, stream
  <2>2. CASE Claim(w)
    BY <1>0, <2>1, <2>2 DEF TableOK, Claim, Claimable
  <2>3. CASE Complete(w) \/ Cleanup(w)
    BY <1>0, <2>1, <2>3 DEF TableOK, Complete, Cleanup, LeaveOwner, Owns, table
  <2>4. CASE ~ (Claim(w) \/ Complete(w) \/ Cleanup(w))
    BY <1>1, <1>3, <2>1, <2>4 DEF Work, ClaimRefused, ClaimError, FetchSource, DeleteSource,
       Heartbeat, WorkFails, Return, Crash, table
  <2> QED BY <2>2, <2>3, <2>4
<1> QED
  BY <1>1, <1>2, <1>3 DEF Next, Upload, DedupExpire, Receive, DeadLetter, Tick, table,
     stream, vars

\* What a group's queue still holds when its first message leaves.
LEMMA WaitingAfterTail ==
  ASSUME NEW q \in Seq(Jobs), q # <<>>, NEW j \in Jobs, NEW i \in 1..Len(q), q[i] = j, j # Head(q)
  PROVE  \E k \in 1..Len(Tail(q)) : Tail(q)[k] = j
<1>1. i # 1 /\ i - 1 \in 1..Len(Tail(q)) /\ Tail(q)[i - 1] = q[i]
  OBVIOUS
<1> QED BY <1>1

\* A message leaves its queue for the dead-letter queue or because its job is finished.
LEMMA DeliveredStep == IInv /\ [Next]_vars => DeliveredInv'
<1> SUFFICES ASSUME IInv, [Next]_vars, NEW j \in Jobs,
                    (j \in recent \/ outbox[j] \in {"sent", "settled"})'
             PROVE  Delivered(j)'
  BY DEF DeliveredInv
<1> USE PriorityAssumption DEF PriorityAssumption
<1> DEFINE g == GroupOf[j]
<1>0. /\ TableOK /\ StreamOK /\ LaneOK /\ WorkersOK /\ RunningHasJob /\ AckInv
      /\ g \in Groups /\ queue[g] \in Seq(Jobs)
      /\ j \in recent \/ outbox[j] \in {"sent", "settled"} => Delivered(j)
      /\ status[j] \in Terminal => status'[j] \in Terminal
  BY TerminalStep DEF IInv, TypeOK, RunningHasJob, DeliveredInv, LaneOK
<1>1. ASSUME Delivered(j), UNCHANGED <<queue, dlq>> PROVE Delivered(j)'
  BY <1>0, <1>1 DEF Delivered, Waiting
<1>2. ASSUME NEW i \in Jobs, DispatchSend(i) PROVE Delivered(j)'
  <2>1. CASE i = j /\ j \notin recent
    <3>1. queue'[g] = Append(queue[g], j)
      BY <1>0, <1>2, <2>1 DEF LaneOK, DispatchSend
    <3>2. Len(queue'[g]) = Len(queue[g]) + 1 /\ queue'[g][Len(queue[g]) + 1] = j
      BY <1>0, <3>1
    <3>3. Len(queue[g]) + 1 \in 1..Len(queue'[g])
      BY <1>0, <3>2
    <3> QED BY <3>2, <3>3 DEF Delivered, Waiting
  <2>2. CASE ~ (i = j /\ j \notin recent)
    <3>1. Delivered(j) /\ dlq' = dlq
      BY <1>0, <1>2, <2>2 DEF StreamOK, DispatchSend
    <3>2. queue'[g] = queue[g] \/ queue'[g] = Append(queue[g], i)
      BY <1>0, <1>2 DEF LaneOK, DispatchSend
    <3>3. Waiting(j) => Waiting(j)'
      <4>1. ASSUME NEW n \in 1..Len(queue[g]), queue[g][n] = j
            PROVE  n \in 1..Len(queue'[g]) /\ queue'[g][n] = j
        BY <1>0, <3>2, <4>1
      <4> QED BY <4>1 DEF Waiting
    <3> QED BY <1>0, <3>1, <3>3 DEF Delivered
  <2> QED BY <2>1, <2>2
<1>3. ASSUME NEW i \in Jobs, DispatchMark(i) \/ DispatchFail(i) \/ DedupExpire(i) \/ Submit(i)
      PROVE  Delivered(j)'
  <2>1. Delivered(j)
    BY <1>0, <1>3 DEF StreamOK, DispatchMark, DispatchFail, DedupExpire, Submit, lane, stream
  <2> QED BY <1>1, <1>3, <2>1 DEF DispatchMark, DispatchFail, DedupExpire, Submit, lane
<1>4. ASSUME NEW h \in Groups, queue[h] # <<>>, queue' = [queue EXCEPT ![h] = Tail(@)],
             dlq \subseteq dlq', recent' = recent, outbox' = outbox,
             Head(queue[h]) \in dlq' \/ status[Head(queue[h])] \in Terminal
      PROVE  Delivered(j)'
  <2>1. Delivered(j)
    BY <1>0, <1>4
  <2>2. CASE Waiting(j) /\ h = g /\ j # Head(queue[g])
    <3>1. queue'[g] = Tail(queue[g])
      BY <1>0, <1>4, <2>2 DEF LaneOK
    <3>2. \E k \in 1..Len(Tail(queue[g])) : Tail(queue[g])[k] = j
      BY <1>0, <1>4, <2>2, WaitingAfterTail DEF Waiting
    <3> QED BY <3>1, <3>2 DEF Delivered, Waiting
  <2>3. CASE Waiting(j) /\ h = g /\ j = Head(queue[g])
    BY <1>0, <1>4, <2>3 DEF Delivered
  <2>4. CASE Waiting(j) /\ h # g
    <3>1. queue'[g] = queue[g]
      BY <1>0, <1>4, <2>4 DEF LaneOK
    <3> QED BY <2>4, <3>1 DEF Delivered, Waiting
  <2>5. CASE j \in dlq \/ status[j] \in Terminal
    BY <1>0, <1>4, <2>5 DEF Delivered
  <2> QED BY <2>1, <2>2, <2>3, <2>4, <2>5 DEF Delivered
<1>5. ASSUME NEW h \in Groups, DeadLetter(h) PROVE Delivered(j)'
  <2>1. dlq' = dlq \cup {Head(queue[h])}
    BY <1>5 DEF DeadLetter
  <2> QED BY <1>4, <1>5, <2>1 DEF DeadLetter, stream
<1>6. ASSUME NEW w \in Invocations, Return(w) PROVE Delivered(j)'
  <2> DEFINE h == GroupOf[job[w]]
  <2>1. h \in Groups /\ recent' = recent /\ outbox' = outbox /\ dlq' = dlq
    BY <1>0, <1>6 DEF RunningHasJob, Running, Return, stream
  <2>2. CASE UNCHANGED queue
    BY <1>0, <1>1, <2>1, <2>2
  <2>3. CASE ~ UNCHANGED queue
    <3>1. pc[w] = "acking" /\ holder[h] = w /\ queue' = [queue EXCEPT ![h] = Tail(@)]
      BY <1>6, <2>3 DEF Return
    <3>2. queue[h] # <<>> /\ job[w] = Head(queue[h])
      BY <2>1, <3>1 DEF IInv, ReceiptInv, ReceiptOf, Running, Invocations
    <3>3. status[Head(queue[h])] \in Terminal
      BY <1>0, <3>1, <3>2 DEF AckInv
    <3> QED BY <1>4, <2>1, <3>1, <3>2, <3>3
  <2> QED BY <2>2, <2>3
<1>7. ASSUME NEW w \in Invocations, Work(w), ~ Return(w) PROVE Delivered(j)'
  <2>1. UNCHANGED <<stream, lane>>
    BY <1>7 DEF Work, Claim, ClaimRefused, ClaimError, FetchSource, DeleteSource, Heartbeat,
       WorkFails, Complete, Cleanup, Crash
  <2> QED BY <1>0, <1>1, <2>1 DEF stream, lane
<1>8. ASSUME UNCHANGED <<queue, dlq, recent, outbox>> PROVE Delivered(j)'
  BY <1>0, <1>1, <1>8
<1> QED
  BY <1>2, <1>3, <1>5, <1>6, <1>7, <1>8
     DEF Next, Upload, Receive, Tick, stream, lane, vars

\* The inductive invariant of the queue.
THEOREM Inductive == Spec => []IInv
<1>1. Init => IInv
  <2> SUFFICES ASSUME Init PROVE IInv
    OBVIOUS
  <2> USE PriorityAssumption DEF PriorityAssumption, Init
  <2>1. TableOK /\ StreamOK
    BY DEF TableOK, StreamOK, Statuses, OutboxStates
  <2>2. LaneOK
    BY DEF LaneOK
  <2>3. WorkersOK
    BY DEF WorkersOK, Steps
  <2>4. TypeOK
    BY <2>1, <2>2, <2>3 DEF TypeOK, Running
  <2>5. ReceiptInv /\ FreshInv /\ AckInv /\ DeliveredInv /\ OutboxInv
    BY DEF ReceiptInv, ReceiptOf, FreshInv, AckInv, DeliveredInv, OutboxInv
  <2> QED BY <2>4, <2>5 DEF IInv
<1>2. IInv /\ [Next]_vars => IInv'
  BY TypeStep, ReceiptStep, FreshStep, AckStep, OutboxStep, DeliveredStep DEF IInv
<1> QED BY <1>1, <1>2, PTL DEF Spec

\* Type correctness, for every instance of the queue.
THEOREM TypeCorrect == Spec => []TypeOK
<1>1. IInv => TypeOK
  BY DEF IInv
<1> QED BY <1>1, Inductive, PTL

\* No accepted job is ever lost, whatever is sent twice, received late, acknowledged
\* with a stale receipt or interrupted by a crash.
THEOREM NoJobIsLost == Spec => []NoLostJob
<1>1. IInv => NoLostJob
  BY DEF IInv, TypeOK, StreamOK, OutboxInv, DeliveredInv, Delivered, NoLostJob, Parked,
         OutboxStates
<1> QED BY <1>1, Inductive, PTL

\* A complete or failed job is never touched again.
THEOREM TerminalStaysFinal == Spec => TerminalIsFinal
<1>1. TypeOK /\ [Next]_vars =>
        [\A j \in Jobs : status[j] \in Terminal =>
             status'[j] = status[j] /\ result'[j] = result[j]]_vars
  BY TerminalStep
<1> QED BY <1>1, TypeCorrect, PTL DEF Spec, TerminalIsFinal

\* While a lease is unexpired, only its owner's own step changes the job.
LEMMA LeaseStep ==
  ASSUME TypeOK, [Next]_vars, NEW j \in Jobs, status[j] = "processing", lease[j] > 0,
         <<status'[j], owner'[j]>> # <<status[j], owner[j]>>
  PROVE  pc[owner[j]] # pc'[owner[j]]
<1>0. TableOK /\ WorkersOK
  BY DEF TypeOK
<1>1. ~ UNCHANGED <<status, owner>>
  OBVIOUS
<1>2. \A i \in Jobs : ~ Submit(i) /\ ~ DispatchMark(i)
  BY <1>0 DEF TableOK, Submit, DispatchMark
<1>3. PICK w \in Invocations : Work(w)
  BY <1>1, <1>2 DEF Next, Upload, DispatchSend, DispatchFail, DedupExpire, Receive, DeadLetter,
     Tick, table, vars
<1>4. ~ Claim(w)
  BY <1>0 DEF TableOK, Claim, Claimable
<1>5. CASE Complete(w)
  <2>1. Owns(w) /\ job[w] = j
    BY <1>0, <1>1, <1>5 DEF TableOK, Complete, LeaveOwner, table
  <2>2. owner[j] = w /\ pc'[w] \in {"acking", "cleanup"} /\ pc[w] \in {"claimed", "reported"}
    BY <1>0, <1>5, <2>1 DEF WorkersOK, Complete, Owns, Goto
  <2> QED BY <2>2
<1>6. CASE Cleanup(w)
  <2>1. Owns(w) /\ job[w] = j
    BY <1>0, <1>1, <1>6 DEF TableOK, Cleanup, LeaveOwner, table
  <2>2. owner[j] = w /\ pc'[w] = "nacking" /\ pc[w] = "cleanup"
    BY <1>0, <1>6, <2>1 DEF WorkersOK, Cleanup, Owns, Goto
  <2> QED BY <2>2
<1> QED
  BY <1>1, <1>3, <1>4, <1>5, <1>6 DEF Work, ClaimRefused, ClaimError, FetchSource,
     DeleteSource, Heartbeat, WorkFails, Return, Crash, table

\* An unexpired lease excludes every other worker and the dispatcher.
THEOREM LeaseExcludesOthers == Spec => LeaseIsExclusive
<1>1. TypeOK /\ [Next]_vars =>
        [\A j \in Jobs : status[j] = "processing" /\ lease[j] > 0
            /\ <<status'[j], owner'[j]>> # <<status[j], owner[j]>>
           => pc[owner[j]] # pc'[owner[j]]]_vars
  BY LeaseStep
<1> QED BY <1>1, TypeCorrect, PTL DEF Spec, LeaseIsExclusive

\* Every step of the queue is a step of the abstract life cycle or leaves it unchanged.
LEMMA LifecycleStep == TypeOK /\ [Next]_vars => [Lifecycle!Next]_(Lifecycle!lifecycleVars)
<1> SUFFICES ASSUME TypeOK, [Next]_vars
             PROVE  [Lifecycle!Next]_(Lifecycle!lifecycleVars)
  OBVIOUS
<1> DEFINE phase == [j \in Jobs |-> PhaseOf(status[j])]
<1>0. TableOK /\ RunningHasJob
  BY DEF TypeOK, RunningHasJob
<1>1. ASSUME UNCHANGED <<status, owner, result>> PROVE UNCHANGED Lifecycle!lifecycleVars
  BY <1>1 DEF Lifecycle!lifecycleVars
<1>2. ASSUME NEW j \in Jobs, Submit(j) PROVE Lifecycle!Accept(j)
  BY <1>0, <1>2 DEF TableOK, Submit, PhaseOf, Lifecycle!Accept
<1>3. ASSUME NEW j \in Jobs, DispatchMark(j) PROVE UNCHANGED Lifecycle!lifecycleVars
  BY <1>0, <1>3 DEF TableOK, DispatchMark, PhaseOf, Lifecycle!lifecycleVars
<1>4. ASSUME NEW w \in Invocations, Claim(w) PROVE job[w] \in Jobs /\ Lifecycle!Start(job[w], w)
  BY <1>0, <1>4 DEF TableOK, RunningHasJob, Running, Claim, Claimable, PhaseOf, Lifecycle!Start
<1>5. ASSUME NEW w \in Invocations, Complete(w)
      PROVE  (job[w] \in Jobs /\ Lifecycle!Complete(job[w])) \/ UNCHANGED table
  <2>1. job[w] \in Jobs
    BY <1>0, <1>5 DEF RunningHasJob, Running, Complete
  <2> QED BY <1>0, <1>5, <2>1 DEF TableOK, Complete, Owns, LeaveOwner, PhaseOf, Lifecycle!Complete
<1>6. ASSUME NEW w \in Invocations, Cleanup(w)
      PROVE  (job[w] \in Jobs /\ (Lifecycle!Fail(job[w]) \/ Lifecycle!PutBack(job[w])))
             \/ UNCHANGED table
  <2>1. job[w] \in Jobs
    BY <1>0, <1>6 DEF RunningHasJob, Running, Cleanup
  <2>2. CASE receive[w] >= MaxReceives
    BY <1>0, <1>6, <2>1, <2>2
       DEF TableOK, Cleanup, Owns, LeaveOwner, PhaseOf, Lifecycle!Fail
  <2>3. CASE ~ (receive[w] >= MaxReceives)
    BY <1>0, <1>6, <2>1, <2>3
       DEF TableOK, Cleanup, Owns, LeaveOwner, PhaseOf, Lifecycle!PutBack
  <2> QED BY <2>2, <2>3
<1> QED
  BY <1>1, <1>2, <1>3, <1>4, <1>5, <1>6
     DEF Next, Work, Upload, DispatchSend, DispatchFail, DedupExpire, Receive, DeadLetter,
         ClaimRefused, ClaimError, FetchSource, DeleteSource, Heartbeat, WorkFails, Return,
         Crash, Tick, table, vars, Lifecycle!Next

\* The job table implements the abstract life cycle.
THEOREM QueueImplementsLifecycle == Spec => ImplementsLifecycle
<1>1. Init => Lifecycle!Init
  BY DEF Init, Lifecycle!Init, PhaseOf
<1> QED BY <1>1, LifecycleStep, TypeCorrect, PTL DEF Spec, ImplementsLifecycle, Lifecycle!Spec

-----------------------------------------------------------------------------
(* The deployed timing.  TimingCovers is the only hypothesis: everything below holds  *)
(* for any lease, visibility timeout and run time that satisfy it.                    *)

\* Messages are sent to the group of their job and stay there.
LEMMA RoutedStep == IInv /\ RoutedInv /\ [Next]_vars => RoutedInv'
<1> SUFFICES ASSUME IInv, RoutedInv, [Next]_vars, NEW g \in Groups, NEW i \in 1..Len(queue'[g])
             PROVE  GroupOf[queue'[g][i]] = g
  BY DEF RoutedInv
<1> USE PriorityAssumption DEF PriorityAssumption
<1>0. /\ LaneOK /\ RunningHasJob /\ queue[g] \in Seq(Jobs)
      /\ \A k \in 1..Len(queue[g]) : GroupOf[queue[g][k]] = g
  BY DEF IInv, TypeOK, LaneOK, RunningHasJob, RoutedInv
<1>1. CASE queue'[g] = queue[g]
  BY <1>0, <1>1
<1>2. CASE queue[g] # <<>> /\ queue'[g] = Tail(queue[g])
  <2>1. i + 1 \in 1..Len(queue[g]) /\ queue'[g][i] = queue[g][i + 1]
    BY <1>0, <1>2
  <2> QED BY <1>0, <2>1
<1>3. ASSUME NEW j \in Jobs, DispatchSend(j) PROVE GroupOf[queue'[g][i]] = g
  <2>1. CASE GroupOf[j] = g /\ queue'[g] = Append(queue[g], j)
    <3>1. \/ i \in 1..Len(queue[g]) /\ queue'[g][i] = queue[g][i]
          \/ queue'[g][i] = j
      BY <1>0, <2>1
    <3> QED BY <1>0, <2>1, <3>1
  <2>2. CASE ~ (GroupOf[j] = g /\ queue'[g] = Append(queue[g], j))
    <3>1. queue'[g] = queue[g]
      BY <1>0, <1>3, <2>2 DEF LaneOK, DispatchSend
    <3> QED BY <1>1, <3>1
  <2> QED BY <2>1, <2>2
<1>4. ASSUME NEW h \in Groups, DeadLetter(h) PROVE GroupOf[queue'[g][i]] = g
  BY <1>0, <1>1, <1>2, <1>4 DEF LaneOK, DeadLetter
<1>5. ASSUME NEW w \in Invocations, Return(w) PROVE GroupOf[queue'[g][i]] = g
  <2> DEFINE h == GroupOf[job[w]]
  <2>1. CASE UNCHANGED queue
    BY <1>1, <2>1
  <2>2. CASE ~ UNCHANGED queue
    <3>1. holder[h] = w /\ queue' = [queue EXCEPT ![h] = Tail(@)] /\ h \in Groups
      BY <1>0, <1>5, <2>2 DEF Return, RunningHasJob, Running
    <3>2. queue[h] # <<>>
      BY <3>1 DEF IInv, ReceiptInv, ReceiptOf, Invocations
    <3> HIDE DEF h
    <3> QED BY <1>0, <1>1, <1>2, <3>1, <3>2 DEF LaneOK
  <2> QED BY <2>1, <2>2
<1>6. CASE UNCHANGED queue
  BY <1>1, <1>6
<1> QED
  BY <1>3, <1>4, <1>5, <1>6
     DEF Next, Work, Upload, Submit, DispatchMark, DispatchFail, DedupExpire, Receive, Claim,
         ClaimRefused, ClaimError, FetchSource, DeleteSource, Heartbeat, WorkFails, Complete,
         Cleanup, Crash, Tick, lane, vars

\* What a step of one invocation leaves alone: the others, the clock, and, unless it
\* returns with an acknowledgement, the receipts.
LEMMA WorkShape ==
  ASSUME TypeOK, NEW v \in Invocations, Work(v)
  PROVE  /\ pc[v] \in Running /\ UNCHANGED started
         /\ \A w \in Invocations \ {v} :
              pc'[w] = pc[w] /\ job'[w] = job[w] /\ left'[w] = left[w]
         /\ pc'[v] \in Running => job'[v] = job[v] /\ left'[v] = left[v]
         /\ pc'[v] # "received" \/ pc[v] = "received"
         /\ \/ UNCHANGED <<hidden, holder>>
            \/ /\ pc[v] = "acking" /\ pc'[v] = "ended" /\ holder[GroupOf[job[v]]] = v
               /\ hidden' = [hidden EXCEPT ![GroupOf[job[v]]] = 0]
               /\ holder' = [holder EXCEPT ![GroupOf[job[v]]] = NoOne]
               /\ UNCHANGED table
<1>0. WorkersOK
  BY DEF TypeOK
<1>1. CASE Claim(v) \/ ClaimRefused(v) \/ ClaimError(v) \/ FetchSource(v) \/ DeleteSource(v)
           \/ WorkFails(v) \/ Complete(v) \/ Cleanup(v)
  <2>1. /\ pc[v] \in Running /\ UNCHANGED <<started, job, left, hidden, holder>>
        /\ \E s \in Steps \ {"received"} : Goto(v, s)
    BY <1>1 DEF Claim, ClaimRefused, ClaimError, FetchSource, DeleteSource, WorkFails, Complete,
       Cleanup, Running, Steps, lane
  <2> QED BY <1>0, <2>1 DEF WorkersOK, Goto
<1>2. CASE Heartbeat(v)
  BY <1>0, <1>2 DEF Heartbeat, Running, lane
<1>3. CASE Return(v)
  <2>1. /\ pc[v] \in Running /\ UNCHANGED table
        /\ \/ UNCHANGED <<hidden, holder>>
           \/ /\ pc[v] = "acking" /\ holder[GroupOf[job[v]]] = v
              /\ hidden' = [hidden EXCEPT ![GroupOf[job[v]]] = 0]
              /\ holder' = [holder EXCEPT ![GroupOf[job[v]]] = NoOne]
    BY <1>3 DEF Return, Running
  <2>2. EndInvocation(v)
    BY <1>3 DEF Return
  <2>3. /\ UNCHANGED started /\ pc'[v] = "ended"
        /\ \A w \in Invocations \ {v} :
             pc'[w] = pc[w] /\ job'[w] = job[w] /\ left'[w] = left[w]
    BY <1>0, <2>2 DEF WorkersOK, EndInvocation
  <2> QED BY <2>1, <2>3 DEF Running
<1>4. CASE Crash(v)
  <2>1. pc[v] \in Running /\ UNCHANGED <<hidden, holder>> /\ EndInvocation(v)
    BY <1>4 DEF Crash, lane
  <2>2. /\ UNCHANGED started /\ pc'[v] = "ended"
        /\ \A w \in Invocations \ {v} :
             pc'[w] = pc[w] /\ job'[w] = job[w] /\ left'[w] = left[w]
    BY <1>0, <2>1 DEF WorkersOK, EndInvocation
  <2> QED BY <2>1, <2>2 DEF Running
<1> QED BY <1>1, <1>2, <1>3, <1>4 DEF Work

\* Steps of the customer, the dispatcher and the queue's own counters do not touch the
\* clock, the receipts and the invocations.
Aside == /\ UNCHANGED <<lease, hidden, holder, owner, workers>>
         /\ \A j \in Jobs : status'[j] = "processing" => status[j] = "processing"

\* Every step is such a step, or a receive, a step of an invocation, or a tick.
LEMMA FourKinds ==
  ASSUME TypeOK, [Next]_vars
  PROVE  \/ Aside
         \/ \E g \in Groups : Receive(g)
         \/ \E v \in Invocations : Work(v)
         \/ Tick
<1>0. TableOK
  BY DEF TypeOK
<1>1. ASSUME NEW j \in Jobs, Submit(j) \/ DispatchMark(j) PROVE Aside
  BY <1>0, <1>1 DEF TableOK, Submit, DispatchMark, Aside, lane
<1> QED
  BY <1>1 DEF Aside, Next, Upload, DispatchSend, DispatchFail, DedupExpire,
     DeadLetter, table, lane, vars

\* Receipts outlive the invocations they were handed to.
LEMMA HeldStep ==
  ASSUME IInv, TimingCovers, RoutedInv, HeldInv, [Next]_vars PROVE HeldInv'
<1> DEFINE Kept(w, g) == holder[g] = w /\ left[w] + HiddenTicks <= hidden[g] + RunTicks
<1> SUFFICES ASSUME NEW w \in Invocations, pc'[w] \in Running
             PROVE  Kept(w, GroupOf[job[w]])'
  BY DEF HeldInv
<1> USE PriorityAssumption DEF PriorityAssumption
<1>0. /\ TypeOK /\ LaneOK /\ WorkersOK /\ RunningHasJob
      /\ \A v \in Invocations : pc[v] \in Running => Kept(v, GroupOf[job[v]])
  BY DEF IInv, TypeOK, RunningHasJob, HeldInv
<1>1. ASSUME pc[w] \in Running, job'[w] = job[w], left'[w] = left[w],
             hidden'[GroupOf[job[w]]] = hidden[GroupOf[job[w]]],
             holder'[GroupOf[job[w]]] = holder[GroupOf[job[w]]]
      PROVE  Kept(w, GroupOf[job[w]])'
  BY <1>0, <1>1
<1>2. CASE Aside
  BY <1>0, <1>1, <1>2 DEF Aside, workers
<1>3. ASSUME NEW h \in Groups, Receive(h) PROVE Kept(w, GroupOf[job[w]])'
  <2>1. /\ started + 1 \in Invocations /\ hidden[h] = 0
        /\ pc' = [pc EXCEPT ![started + 1] = "received"]
        /\ job' = [job EXCEPT ![started + 1] = Head(queue[h])]
        /\ left' = [left EXCEPT ![started + 1] = RunTicks]
        /\ hidden' = [hidden EXCEPT ![h] = HiddenTicks]
        /\ holder' = [holder EXCEPT ![h] = started + 1]
    BY <1>0, <1>3 DEF WorkersOK, Receive, Invocations
  <2>2. CASE w = started + 1
    <3>1. GroupOf[Head(queue[h])] = h
      <4>1. queue[h] \in Seq(Jobs) /\ queue[h] # <<>>
        BY <1>0, <1>3 DEF LaneOK, Receive
      <4>2. 1 \in 1..Len(queue[h]) /\ Head(queue[h]) = queue[h][1]
        BY <4>1
      <4> QED BY <4>2 DEF RoutedInv
    <3>2. job'[w] = Head(queue[h]) /\ left'[w] = RunTicks
          /\ hidden'[h] = HiddenTicks /\ holder'[h] = w
      BY <1>0, <2>1, <2>2 DEF WorkersOK, LaneOK
    <3> QED BY <3>1, <3>2
  <2>3. CASE w # started + 1
    <3>1. pc[w] \in Running /\ job'[w] = job[w] /\ left'[w] = left[w]
      BY <1>0, <2>1, <2>3 DEF WorkersOK
    <3>2. GroupOf[job[w]] \in Groups /\ left[w] \in Nat
      BY <1>0, <3>1 DEF RunningHasJob, WorkersOK
    <3>3. GroupOf[job[w]] # h
      BY <1>0, <2>1, <3>1, <3>2 DEF TimingCovers
    <3> QED BY <1>0, <1>1, <2>1, <3>1, <3>2, <3>3 DEF LaneOK
  <2> QED BY <2>2, <2>3
<1>4. ASSUME NEW v \in Invocations, Work(v) PROVE Kept(w, GroupOf[job[w]])'
  <2>1. pc[w] \in Running /\ job'[w] = job[w] /\ left'[w] = left[w]
    BY <1>0, <1>4, WorkShape
  <2>2. CASE UNCHANGED <<hidden, holder>>
    BY <1>1, <2>1, <2>2
  <2>3. CASE ~ UNCHANGED <<hidden, holder>>
    <3> DEFINE g == GroupOf[job[v]]
    <3>1. /\ pc'[v] = "ended" /\ holder[g] = v
          /\ hidden' = [hidden EXCEPT ![g] = 0] /\ holder' = [holder EXCEPT ![g] = NoOne]
      BY <1>0, <1>4, <2>3, WorkShape
    <3>2. w # v
      BY <3>1 DEF Running
    <3>3. GroupOf[job[w]] # g
      BY <1>0, <2>1, <3>1, <3>2
    <3>4. GroupOf[job[w]] \in Groups
      BY <1>0, <2>1 DEF RunningHasJob
    <3> HIDE DEF g
    <3> QED BY <1>0, <1>1, <2>1, <3>1, <3>3, <3>4 DEF LaneOK
  <2> QED BY <2>2, <2>3
<1>5. ASSUME Tick PROVE Kept(w, GroupOf[job[w]])'
  <2> DEFINE g == GroupOf[job[w]]
  <2>1. pc[w] \in Running /\ job' = job /\ left[w] > 0 /\ left'[w] = Less(left[w])
    BY <1>5 DEF Tick
  <2>2. g \in Groups
    BY <1>0, <2>1 DEF RunningHasJob
  <2>3. left[w] \in Nat /\ hidden[g] \in Nat
    BY <1>0, <2>2 DEF WorkersOK, LaneOK
  <2>4. hidden'[g] = Less(hidden[g]) /\ holder'[g] = IF hidden[g] > 1 THEN holder[g] ELSE NoOne
    BY <1>5, <2>2 DEF Tick
  <2>5. Kept(w, g)
    BY <1>0, <2>1
  <2>6. hidden[g] > 1
    BY <2>1, <2>3, <2>5 DEF TimingCovers
  <2>7. left'[w] = left[w] - 1 /\ hidden'[g] = hidden[g] - 1 /\ holder'[g] = w
    BY <2>1, <2>3, <2>4, <2>5, <2>6 DEF Less
  <2>8. left'[w] + HiddenTicks <= hidden'[g] + RunTicks
    BY <2>3, <2>5, <2>7
  <2> QED BY <2>1, <2>7, <2>8
<1> QED BY <1>0, <1>2, <1>3, <1>4, <1>5, FourKinds

\* Running invocations of one group are one invocation.
LEMMA HeldExcludes ==
  ASSUME HeldInv, NEW v \in Invocations, NEW w \in Invocations,
         pc[v] \in Running, pc[w] \in Running, GroupOf[job[v]] = GroupOf[job[w]]
  PROVE  v = w
BY DEF HeldInv

\* An invocation becomes an owner by its own claim only.
LEMMA OwnerMoves ==
  ASSUME TypeOK, NEW v \in Invocations, Work(v)
  PROVE  \/ UNCHANGED <<status, owner>> /\ (UNCHANGED lease \/ Heartbeat(v))
         \/ /\ Claim(v) /\ job[v] \in Jobs /\ pc[v] = "received"
            /\ status' = [status EXCEPT ![job[v]] = "processing"]
            /\ owner' = [owner EXCEPT ![job[v]] = v]
            /\ lease' = [lease EXCEPT ![job[v]] = LeaseTicks]
         \/ /\ (Complete(v) /\ pc'[v] \in {"acking", "cleanup"}) \/ (Cleanup(v) /\ pc'[v] = "nacking")
            /\ Owns(v) /\ job[v] \in Jobs
            /\ \E s \in {"complete", "failed", "dispatched"} : LeaveOwner(job[v], s)
<1>0. WorkersOK /\ RunningHasJob
  BY DEF TypeOK, RunningHasJob
<1>1. CASE Claim(v)
  BY <1>0, <1>1 DEF Claim, RunningHasJob, Running
<1>2. CASE Complete(v)
  <2>1. job[v] \in Jobs
    BY <1>0, <1>2 DEF Complete, RunningHasJob, Running
  <2> QED BY <1>0, <1>2, <2>1 DEF WorkersOK, Complete, Goto, table
<1>3. CASE Cleanup(v)
  <2>1. job[v] \in Jobs /\ pc'[v] = "nacking"
    BY <1>0, <1>3 DEF Cleanup, RunningHasJob, Running, WorkersOK, Goto
  <2> QED BY <1>3, <2>1 DEF Cleanup, table
<1>4. CASE Heartbeat(v)
  BY <1>4 DEF Heartbeat
<1> QED
  BY <1>1, <1>2, <1>3, <1>4 DEF Work, ClaimRefused, ClaimError, FetchSource, DeleteSource,
     WorkFails, Return, Crash, table

\* Until it claims, an invocation owns nothing.
LEMMA UnclaimedStep == IInv /\ UnclaimedInv /\ [Next]_vars => UnclaimedInv'
<1> SUFFICES ASSUME IInv, UnclaimedInv, [Next]_vars, NEW w \in Invocations, NEW j \in Jobs,
                    pc'[w] = "received" \/ w > started'
             PROVE  owner'[j] # w
  BY DEF UnclaimedInv
<1> USE PriorityAssumption DEF PriorityAssumption
<1>0. /\ TypeOK /\ TableOK /\ WorkersOK
      /\ pc[w] = "received" \/ w > started => owner[j] # w
      /\ w \in Nat /\ started \in Nat /\ (w > started => pc[w] = "idle")
  BY DEF IInv, TypeOK, UnclaimedInv, FreshInv, WorkersOK, Invocations
<1>1. CASE Aside
  BY <1>0, <1>1 DEF Aside, workers
<1>2. ASSUME NEW h \in Groups, Receive(h) PROVE owner'[j] # w
  <2>1. /\ started' = started + 1 /\ pc' = [pc EXCEPT ![started + 1] = "received"]
        /\ owner' = owner
    BY <1>2 DEF Receive, table
  <2>2. w = started + 1 \/ pc[w] = "received" \/ w > started
    BY <1>0, <2>1 DEF WorkersOK
  <2> QED BY <1>0, <2>1, <2>2
<1>3. ASSUME NEW v \in Invocations, Work(v) PROVE owner'[j] # w
  <2>1. owner[j] # w
    BY <1>0, <1>3, WorkShape
  <2>2. CASE Claim(v)
    <3>1. w # v
      BY <1>0, <2>2 DEF WorkersOK, Claim, Goto
    <3> QED BY <1>0, <2>1, <2>2, <3>1 DEF TableOK, Claim
  <2>3. CASE ~ Claim(v)
    <3>1. owner' = owner \/ owner' = [owner EXCEPT ![job[v]] = NoOne]
      BY <1>0, <1>3, <2>3, OwnerMoves DEF LeaveOwner
    <3>2. NoOne # w
      BY DEF Invocations
    <3> QED BY <1>0, <2>1, <3>1, <3>2 DEF TableOK
  <2> QED BY <2>2, <2>3
<1>4. CASE Tick
  BY <1>0, <1>4 DEF Tick
<1> QED BY <1>0, <1>1, <1>2, <1>3, <1>4, FourKinds

\* An attempt that has claimed its job is the only one that can take it away.
LEMMA AttemptStep ==
  ASSUME IInv, HeldInv, AttemptInv, [Next]_vars PROVE AttemptInv'
<1> DEFINE Busy == {"claimed", "auditing", "reported"}
<1> SUFFICES ASSUME NEW w \in Invocations, pc'[w] \in Busy PROVE Owns(w)'
  BY DEF AttemptInv
<1>0. /\ TypeOK /\ TableOK /\ WorkersOK /\ RunningHasJob /\ Busy \subseteq Running
      /\ pc[w] \in Busy => Owns(w)
  BY DEF IInv, TypeOK, RunningHasJob, AttemptInv, Running
<1>1. ASSUME pc[w] \in Busy, job'[w] = job[w], status'[job[w]] = status[job[w]],
             owner'[job[w]] = owner[job[w]]
      PROVE  Owns(w)'
  BY <1>0, <1>1 DEF Owns
<1>2. ASSUME NEW j \in Jobs, Submit(j) \/ DispatchMark(j) PROVE Owns(w)'
  <2>1. pc' = pc /\ job' = job /\ owner' = owner
    BY <1>2 DEF Submit, DispatchMark, workers
  <2>2. pc[w] \in Busy /\ status[job[w]] = "processing" /\ job[w] \in Jobs
    BY <1>0, <2>1 DEF Owns, RunningHasJob
  <2>3. status'[job[w]] = status[job[w]]
    BY <1>0, <1>2, <2>2 DEF TableOK, Submit, DispatchMark
  <2> QED BY <1>1, <2>1, <2>2, <2>3
<1>3. ASSUME NEW g \in Groups, Receive(g) PROVE Owns(w)'
  <2>1. started + 1 \in Invocations
    BY <1>0, <1>3, PriorityAssumption DEF WorkersOK, Receive, Invocations, PriorityAssumption
  <2>2. pc[w] \in Busy /\ job'[w] = job[w]
    BY <1>0, <1>3, <2>1 DEF WorkersOK, Receive
  <2> QED BY <1>1, <1>3, <2>2 DEF Receive, table
<1>4. ASSUME NEW v \in Invocations, Work(v) PROVE Owns(w)'
  <2>1. CASE v # w
    <3>1. pc[v] \in Running /\ pc[w] \in Busy /\ job'[w] = job[w]
      BY <1>0, <1>4, <2>1, WorkShape
    <3>2. pc[w] \in Running /\ job[v] # job[w]
      BY <1>0, <2>1, <3>1, HeldExcludes
    <3>3. job[w] \in Jobs
      BY <1>0, <3>2 DEF RunningHasJob
    <3>4. status'[job[w]] = status[job[w]] /\ owner'[job[w]] = owner[job[w]]
      BY <1>0, <1>4, <3>2, <3>3, OwnerMoves DEF TableOK, LeaveOwner
    <3> QED BY <1>1, <3>1, <3>4
  <2>2. CASE v = w /\ Claim(w)
    <3>1. job'[w] = job[w] /\ job[w] \in Jobs
      BY <1>0, <2>2 DEF Claim, RunningHasJob, Running
    <3> QED BY <1>0, <2>2, <3>1 DEF TableOK, Claim, Owns
  <2>3. CASE v = w /\ ~ Claim(w)
    <3>1. pc[w] \in Busy /\ job'[w] = job[w]
      BY <1>0, <1>4, <2>3
         DEF WorkersOK, Work, ClaimRefused, ClaimError, FetchSource, DeleteSource, Heartbeat,
             WorkFails, Complete, Cleanup, Return, Crash, EndInvocation, Goto
    <3>2. UNCHANGED <<status, owner>>
      BY <1>0, <1>4, <2>3, OwnerMoves
    <3> QED BY <1>1, <3>1, <3>2
  <2> QED BY <1>4, <2>1, <2>2, <2>3
<1>5. CASE UNCHANGED <<status, owner, pc, job>>
  BY <1>0, <1>1, <1>5
<1> QED
  BY <1>2, <1>3, <1>4, <1>5
     DEF Next, Upload, DispatchSend, DispatchFail, DedupExpire, DeadLetter, Tick, table,
         workers, vars

\* A lease is taken and renewed only while its message is hidden for longer.
LEMMA LeaseEndsStep ==
  ASSUME IInv, TimingCovers, HeldInv, UnclaimedInv, LeaseInv, [Next]_vars PROVE LeaseInv'
<1> DEFINE Ends(j, g) ==
      /\ owner[j] \in Invocations /\ holder[g] = owner[j] /\ lease[j] <= hidden[g]
      /\ pc[owner[j]] \in Running => job[owner[j]] = j
<1> SUFFICES ASSUME NEW j \in Jobs, status'[j] = "processing", lease'[j] > 0
             PROVE  Ends(j, GroupOf[j])'
  BY DEF LeaseInv
<1> DEFINE g == GroupOf[j]
<1> USE PriorityAssumption DEF PriorityAssumption
<1>0. /\ TypeOK /\ TableOK /\ LaneOK /\ WorkersOK /\ RunningHasJob /\ g \in Groups
      /\ status[j] = "processing" /\ lease[j] > 0 => Ends(j, g)
      /\ lease[j] \in Nat /\ hidden[g] \in Nat
  BY DEF IInv, TypeOK, RunningHasJob, LeaseInv, TableOK, LaneOK
<1>1. ASSUME Ends(j, g), owner'[j] = owner[j], holder'[g] = holder[g], lease'[j] <= hidden'[g],
             pc'[owner[j]] \in Running => /\ pc[owner[j]] \in Running
                                          /\ job'[owner[j]] = job[owner[j]]
      PROVE  Ends(j, g)'
  BY <1>1
<1>2. CASE Aside
  BY <1>0, <1>1, <1>2 DEF Aside, workers
<1>3. ASSUME NEW h \in Groups, Receive(h) PROVE Ends(j, g)'
  <2>1. /\ started + 1 \in Invocations /\ hidden[h] = 0 /\ UNCHANGED table
        /\ pc' = [pc EXCEPT ![started + 1] = "received"]
        /\ job' = [job EXCEPT ![started + 1] = Head(queue[h])]
        /\ hidden' = [hidden EXCEPT ![h] = HiddenTicks]
        /\ holder' = [holder EXCEPT ![h] = started + 1]
    BY <1>0, <1>3 DEF WorkersOK, Receive, Invocations
  <2>2. Ends(j, g) /\ lease[j] > 0
    BY <1>0, <2>1 DEF table
  <2>3. g # h
    BY <1>0, <2>1, <2>2
  <2>4. owner[j] # started + 1
    BY <1>0, <2>1 DEF UnclaimedInv, WorkersOK
  <2> HIDE DEF g
  <2>5. /\ owner'[j] = owner[j] /\ holder'[g] = holder[g] /\ lease'[j] = lease[j]
        /\ hidden'[g] = hidden[g]
    BY <1>0, <2>1, <2>3 DEF LaneOK, table
  <2>6. pc'[owner[j]] = pc[owner[j]] /\ job'[owner[j]] = job[owner[j]]
    BY <1>0, <2>1, <2>2, <2>4 DEF WorkersOK
  <2> QED BY <1>1, <2>2, <2>5, <2>6
<1>4. ASSUME NEW v \in Invocations, Work(v) PROVE Ends(j, g)'
  <2>0. /\ pc[v] \in Running /\ job[v] \in Jobs /\ left[v] \in Nat
        /\ pc'[v] \in Running => job'[v] = job[v]
        /\ \A w \in Invocations \ {v} : pc'[w] = pc[w] /\ job'[w] = job[w]
    BY <1>0, <1>4, WorkShape DEF RunningHasJob, WorkersOK
  <2>1. CASE UNCHANGED <<hidden, holder>> /\ status[j] = "processing" /\ lease[j] > 0
             /\ owner'[j] = owner[j] /\ lease'[j] = lease[j]
    BY <1>0, <1>1, <2>0, <2>1
  <2>2. CASE ~ UNCHANGED <<hidden, holder>>
    <3> DEFINE h == GroupOf[job[v]]
    <3>1. /\ pc[v] = "acking" /\ holder[h] = v /\ UNCHANGED table /\ pc'[v] = "ended"
          /\ hidden' = [hidden EXCEPT ![h] = 0] /\ holder' = [holder EXCEPT ![h] = NoOne]
      BY <1>0, <1>4, <2>2, WorkShape
    <3>2. Ends(j, g) /\ status[j] = "processing"
      BY <1>0, <3>1 DEF table
    <3>3. status[job[v]] \in Terminal
      BY <3>1 DEF IInv, AckInv
    <3>4. g # h
      BY <2>0, <3>1, <3>2, <3>3 DEF Terminal
    <3> HIDE DEF g, h
    <3>5. /\ owner'[j] = owner[j] /\ holder'[g] = holder[g] /\ lease'[j] = lease[j]
          /\ hidden'[g] = hidden[g]
      BY <1>0, <3>1, <3>4 DEF LaneOK, table
    <3> QED BY <1>1, <2>0, <3>2, <3>5
  <2>3. CASE UNCHANGED <<hidden, holder>> /\ job[v] = j /\ owner'[j] = v /\ lease'[j] = LeaseTicks
             /\ pc'[v] \in Running
    <3>1. holder[g] = v /\ left[v] + HiddenTicks <= hidden[g] + RunTicks
      BY <2>0, <2>3 DEF HeldInv
    <3>2. LeaseTicks <= hidden[g]
      BY <1>0, <2>0, <3>1 DEF TimingCovers
    <3> QED BY <2>0, <2>3, <3>1, <3>2
  <2>4. CASE UNCHANGED <<hidden, holder>>
    <3>1. CASE Claim(v)
      <4>1. /\ status' = [status EXCEPT ![job[v]] = "processing"]
            /\ owner' = [owner EXCEPT ![job[v]] = v]
            /\ lease' = [lease EXCEPT ![job[v]] = LeaseTicks]
            /\ pc'[v] \in Running
        BY <1>0, <3>1 DEF Claim, WorkersOK, Goto, Running
      <4> QED BY <1>0, <2>1, <2>3, <2>4, <4>1 DEF TableOK
    <3>2. CASE Heartbeat(v)
      <4>1. /\ status' = status /\ owner' = owner /\ pc'[v] \in Running
            /\ \/ lease' = lease
               \/ owner[job[v]] = v /\ lease' = [lease EXCEPT ![job[v]] = LeaseTicks]
        BY <2>0, <3>2 DEF Heartbeat
      <4> QED BY <1>0, <2>1, <2>3, <2>4, <4>1 DEF TableOK
    <3>3. CASE UNCHANGED <<status, owner, lease>>
      BY <1>0, <2>1, <2>4, <3>3
    <3>4. ASSUME NEW s \in {"complete", "failed", "dispatched"}, LeaveOwner(job[v], s)
          PROVE  Ends(j, g)'
      <4>1. j # job[v]
        BY <1>0, <3>4 DEF TableOK, LeaveOwner
      <4> QED BY <1>0, <2>1, <2>4, <3>4, <4>1 DEF TableOK, LeaveOwner
    <3> QED BY <1>0, <1>4, <3>1, <3>2, <3>3, <3>4, OwnerMoves
  <2> QED BY <2>2, <2>4
<1>5. ASSUME Tick PROVE Ends(j, g)'
  <2>1. /\ status' = status /\ owner' = owner /\ pc' = pc /\ job' = job
        /\ lease'[j] = Less(lease[j]) /\ hidden'[g] = Less(hidden[g])
        /\ holder'[g] = IF hidden[g] > 1 THEN holder[g] ELSE NoOne
    BY <1>0, <1>5 DEF Tick
  <2>2. lease[j] > 1 /\ lease'[j] = lease[j] - 1
    BY <1>0, <2>1 DEF Less
  <2>3. Ends(j, g)
    BY <1>0, <2>1, <2>2
  <2>4. hidden[g] > 1 /\ hidden'[g] = hidden[g] - 1 /\ lease'[j] <= hidden'[g]
    BY <1>0, <2>1, <2>2, <2>3 DEF Less
  <2> QED BY <1>1, <2>1, <2>3, <2>4
<1> QED BY <1>0, <1>2, <1>3, <1>4, <1>5, FourKinds

\* With the deployed timing the strengthened invariant is inductive.
LEMMA TimedInductive == ASSUME TimingCovers PROVE Spec => []TimingInv
<1>1. Init => TimingInv
  <2> SUFFICES ASSUME Init PROVE TimingInv
    OBVIOUS
  <2> USE PriorityAssumption DEF PriorityAssumption, Init
  <2>1. RoutedInv
    BY DEF RoutedInv
  <2>2. HeldInv /\ AttemptInv
    BY DEF HeldInv, AttemptInv, Running
  <2>3. UnclaimedInv /\ LeaseInv
    BY DEF UnclaimedInv, LeaseInv, Invocations
  <2> QED BY <2>1, <2>2, <2>3 DEF TimingInv
<1>2. IInv /\ TimingInv /\ [Next]_vars => TimingInv'
  BY RoutedStep, HeldStep, UnclaimedStep, LeaseEndsStep, AttemptStep DEF TimingInv
<1> QED BY <1>1, <1>2, Inductive, PTL DEF Spec

\* With the deployed timing no receive is wasted on a busy job: when a message is handed
\* out, the lease of its last attempt, renewed or not, has run out.
THEOREM NoReceiveIsWasted == TimingCovers => (Spec => []ReceiveFindsFreeLease)
<1> SUFFICES ASSUME TimingCovers PROVE Spec => []ReceiveFindsFreeLease
  OBVIOUS
<1>1. IInv /\ TimingInv => ReceiveFindsFreeLease
  <2> SUFFICES ASSUME IInv, TimingInv, NEW w \in Invocations, pc[w] = "received",
                      status[job[w]] = "processing", lease[job[w]] # 0
               PROVE  FALSE
    BY DEF ReceiveFindsFreeLease
  <2>1. pc[w] \in Running /\ job[w] \in Jobs
    BY DEF IInv, TypeOK, Running
  <2>2. lease[job[w]] > 0
    BY <2>1 DEF IInv, TypeOK, TableOK
  <2>3. owner[job[w]] = w
    BY <2>1, <2>2 DEF TimingInv, LeaseInv, HeldInv
  <2> QED BY <2>1, <2>3 DEF TimingInv, UnclaimedInv
<1> QED BY <1>1, Inductive, TimedInductive, PTL

\* With the deployed timing the attempts of a message group never overlap, although every
\* function may be killed, every receipt may lapse and every send may be repeated.
THEOREM AttemptsAreSerial == TimingCovers => (Spec => []OneAttemptAtATime)
<1> SUFFICES ASSUME TimingCovers PROVE Spec => []OneAttemptAtATime
  OBVIOUS
<1>1. TimingInv => OneAttemptAtATime
  BY HeldExcludes DEF TimingInv, OneAttemptAtATime
<1> QED BY <1>1, TimedInductive, PTL

\* With the deployed timing an attempt that has claimed its job owns it until it writes
\* for the last time: its completion is never refused.
THEOREM AttemptsOwnTheirJob == TimingCovers => (Spec => []AttemptInv)
<1> SUFFICES ASSUME TimingCovers PROVE Spec => []AttemptInv
  OBVIOUS
<1>1. TimingInv => AttemptInv
  BY DEF TimingInv
<1> QED BY <1>1, TimedInductive, PTL
==============================================================================
