---------------------------- MODULE JobLifecycle ----------------------------
(***************************************************************************)
(* What the priority queue promises its clients about one job record,      *)
(* whatever happens to streams, messages, leases and workers underneath    *)
(* (services/api-access/PRIORITY_QUEUE.md, "Job states"):                   *)
(*                                                                         *)
(*   - a job is accepted once;                                             *)
(*   - it may be started, handed over and put back any number of times;    *)
(*   - only the attempt that runs it can end it, and it ends once: the     *)
(*     result of a complete job is the work of the attempt that ended it.  *)
(***************************************************************************)
CONSTANTS Jobs,       \* job ids
          Attempts,   \* ids of the worker invocations that may run a job
          NoOne       \* no attempt

VARIABLES phase,      \* [Jobs -> Phases]
          runner,     \* [Jobs -> Attempts \cup {NoOne}], who runs the job
          result      \* [Jobs -> Attempts \cup {NoOne}], who produced its result

lifecycleVars == <<phase, runner, result>>

Phases == {"absent", "accepted", "running", "complete", "failed"}

Init == /\ phase  = [j \in Jobs |-> "absent"]
        /\ runner = [j \in Jobs |-> NoOne]
        /\ result = [j \in Jobs |-> NoOne]

Accept(j) == /\ phase[j] = "absent"
             /\ phase' = [phase EXCEPT ![j] = "accepted"]
             /\ UNCHANGED <<runner, result>>

\* A first start, a retry, or a take-over from an attempt that stopped answering.
Start(j, a) == /\ phase[j] \in {"accepted", "running"}
               /\ phase'  = [phase EXCEPT ![j] = "running"]
               /\ runner' = [runner EXCEPT ![j] = a]
               /\ UNCHANGED result

PutBack(j) == /\ phase[j] = "running"
              /\ phase'  = [phase EXCEPT ![j] = "accepted"]
              /\ runner' = [runner EXCEPT ![j] = NoOne]
              /\ UNCHANGED result

Complete(j) == /\ phase[j] = "running"
               /\ phase'  = [phase EXCEPT ![j] = "complete"]
               /\ result' = [result EXCEPT ![j] = runner[j]]
               /\ runner' = [runner EXCEPT ![j] = NoOne]

Fail(j) == /\ phase[j] = "running"
           /\ phase'  = [phase EXCEPT ![j] = "failed"]
           /\ runner' = [runner EXCEPT ![j] = NoOne]
           /\ UNCHANGED result

Next == \E j \in Jobs :
           \/ Accept(j)
           \/ \E a \in Attempts : Start(j, a)
           \/ PutBack(j)
           \/ Complete(j)
           \/ Fail(j)

Spec == Init /\ [][Next]_lifecycleVars
=============================================================================
