-------------------------- MODULE ConfirmationPromise --------------------------
(***************************************************************************)
(* What services/entitlements promises about the confirmation of a paid    *)
(* contract, whatever happens to streams, messages, leases and workers     *)
(* underneath (README.md of the service, "durable handoff"):                *)
(*                                                                         *)
(*   - one payment of a scan is granted its entitlement, and it alone is    *)
(*     owed a confirmation;                                                *)
(*   - a confirmation is attempted once at a time, an attempt mails it once *)
(*     at most, and an attempt may be given up before or after the mail;    *)
(*   - only an attempt that has mailed it ends the matter, for good.        *)
(***************************************************************************)
EXTENDS Naturals

CONSTANTS Payments, Scans,
          ScanOf,      \* [Payments -> Scans]
          NoOne        \* no payment

VARIABLES granted,     \* [Scans -> Payments \cup {NoOne}]
          progress,    \* [Payments -> Progress], the confirmation of each payment
          mails        \* [Payments -> Nat], mails sent

promiseVars == <<granted, progress, mails>>

Progress == {"none", "owed", "attempted", "mailed", "confirmed"}

Init == /\ granted  = [s \in Scans |-> NoOne]
        /\ progress = [p \in Payments |-> "none"]
        /\ mails    = [p \in Payments |-> 0]

Grant(p) == /\ granted[ScanOf[p]] = NoOne /\ progress[p] = "none"
            /\ granted'  = [granted EXCEPT ![ScanOf[p]] = p]
            /\ progress' = [progress EXCEPT ![p] = "owed"]
            /\ UNCHANGED mails

Attempt(p) == /\ progress[p] = "owed"
              /\ progress' = [progress EXCEPT ![p] = "attempted"]
              /\ UNCHANGED <<granted, mails>>

Mail(p) == /\ progress[p] = "attempted"
           /\ progress' = [progress EXCEPT ![p] = "mailed"]
           /\ mails'    = [mails EXCEPT ![p] = @ + 1]
           /\ UNCHANGED granted

Confirm(p) == /\ progress[p] = "mailed"
              /\ progress' = [progress EXCEPT ![p] = "confirmed"]
              /\ UNCHANGED <<granted, mails>>

GiveUp(p) == /\ progress[p] \in {"attempted", "mailed"}
             /\ progress' = [progress EXCEPT ![p] = "owed"]
             /\ UNCHANGED <<granted, mails>>

Next == \E p \in Payments :
           Grant(p) \/ Attempt(p) \/ Mail(p) \/ Confirm(p) \/ GiveUp(p)

Spec == Init /\ [][Next]_promiseVars
================================================================================
