------------------------------ MODULE ApiAccess ------------------------------
(***************************************************************************)
(* API keys and the monthly credit ledger of services/api-access: the      *)
(* service (service.js), the Lambda authorizer that runs it for every      *)
(* protected request (authorizer.js) and the DynamoDB tables under it      *)
(* (dynamo-store.js): accounts, keys, usage and idempotency records.       *)
(*                                                                         *)
(* A call reads the account first and writes later, so the plan it acts    *)
(* on may be stale, the key may be revoked and the month may end in        *)
(* between.  Each conditional update or transaction is one action.  Any    *)
(* call may stop forever, and a committed write may lose its answer.       *)
(*                                                                         *)
(* Definitions marked Fault are mistaken variants of the definition after  *)
(* them; no specification uses them.                                       *)
(***************************************************************************)
EXTENDS Integers, FiniteSetsExt

CONSTANTS
  Accounts,
  Keys,        \* key ids; random, so an id may be drawn that exists
  Plans,
  KeyLimit,    \* [Plans -> Nat], maxActiveKeys
  Credits,     \* [Plans -> Nat], monthlyCredits
  Tokens,      \* idempotency keys, at most 128 characters of a fixed alphabet
  Charges,     \* the credit amounts of the calls, at least 1
  Nothing,     \* no account, key or token
  MaxMonth,    \* bound: months 0..MaxMonth
  Calls        \* bound: the service calls of a behaviour

ASSUME ApiAccessAssumption ==
  /\ IsFiniteSet(Keys) /\ IsFiniteSet(Tokens)
  /\ Nothing \notin Accounts \cup Keys \cup Tokens
  /\ KeyLimit \in [Plans -> Nat] /\ Credits \in [Plans -> Nat]
  /\ Charges \subseteq Nat \ {0} /\ 1 \in Charges
  /\ MaxMonth \in Nat

VARIABLES
  plan,      \* [Accounts -> Plans]
  open,      \* [Accounts -> BOOLEAN], the subscription gives access now
  keyCount,  \* [Accounts -> Int], activeKeyCount of the account item
  keyState,  \* [Keys -> KeyStates]
  keyOwner,  \* [Keys -> SUBSET Accounts], accountId of the key item, {} if there is none
  month,     \* the current usage period
  used,      \* [Accounts -> [Months -> Nat]], usage items; 0 if there is none
  ledger,    \* [Accounts -> [Months -> [Tokens -> Nat]]], units of the idempotency
             \* record; 0 if there is none, since a charge is at least one credit
  step,      \* [Calls -> Steps], where a call is, or what it answered
  local      \* [Calls -> Locals], what a call has been given and has read

accountVars == <<plan, open>>
keyVars     == <<keyCount, keyState, keyOwner>>
usageVars   == <<used, ledger>>
vars        == <<accountVars, keyVars, month, usageVars, step, local>>

Months    == 0..MaxMonth
KeyStates == {"absent", "active", "revoked"}
Answers   == {"revoked", "consumed", "duplicate", "ended"}
Steps     == {"idle", "issuing", "revoking", "checking", "touching",
              "metering", "charging"} \cup Answers
Locals    == [account : Accounts \cup {Nothing}, key : Keys \cup {Nothing},
              token : Tokens \cup {Nothing}, units : Charges, limit : Nat,
              month : Months, tries : 0..2]
Blank     == [account |-> Nothing, key |-> Nothing, token |-> Nothing, units |-> 1,
              limit |-> 0, month |-> 0, tries |-> 0]

Init ==
  /\ plan \in [Accounts -> Plans]
  /\ open = [a \in Accounts |-> FALSE]
  /\ keyCount = [a \in Accounts |-> 0]
  /\ keyState = [k \in Keys |-> "absent"]
  /\ keyOwner = [k \in Keys |-> {}]
  /\ month = 0
  /\ used   = [a \in Accounts |-> [m \in Months |-> 0]]
  /\ ledger = [a \in Accounts |-> [m \in Months |-> [t \in Tokens |-> 0]]]
  /\ step  = [c \in Calls |-> "idle"]
  /\ local = [c \in Calls |-> Blank]
------------------------------------------------------------------------------
(* What happens around the calls *)

\* provisionSubscription stores a plan and a status, and time opens or ends the access:
\* active, trialing, or past due within its grace period.
AccountChanges(a) ==
  /\ \E p \in Plans, o \in BOOLEAN :
       /\ plan' = [plan EXCEPT ![a] = p]
       /\ open' = [open EXCEPT ![a] = o]
  /\ UNCHANGED <<keyVars, month, usageVars, step, local>>

NextMonth ==
  /\ month < MaxMonth
  /\ month' = month + 1
  /\ UNCHANGED <<accountVars, keyVars, usageVars, step, local>>

\* A call starts with its arguments and its first read.
Begin(c, s, l) ==
  /\ step[c] = "idle"
  /\ step'  = [step EXCEPT ![c] = s]
  /\ local' = [local EXCEPT ![c] = l]

Goto(c, s) == step' = [step EXCEPT ![c] = s] /\ UNCHANGED local

\* The call fails, is killed, or has nothing more to say.
End(c) ==
  /\ step'  = [step EXCEPT ![c] = "ended"]
  /\ local' = [local EXCEPT ![c] = Blank]

\* The write of a call committed; its answer arrives or is lost.
Answer(c, s) == Goto(c, s) \/ End(c)
------------------------------------------------------------------------------
(* Keys *)

\* issueApiKey: the account gives access, and its plan sets the limit.
StartIssue(c, a) ==
  /\ open[a]
  /\ Begin(c, "issuing", [Blank EXCEPT !.account = a, !.limit = KeyLimit[plan[a]]])
  /\ UNCHANGED <<accountVars, keyVars, month, usageVars>>

\* Fault: the limit is compared the wrong way round the increment.
BelowLimitLate(c) == keyCount[local[c].account] <= local[c].limit

BelowLimit(c) == keyCount[local[c].account] < local[c].limit

AddKey(c, k) ==
  LET a == local[c].account IN
  /\ keyCount' = [keyCount EXCEPT ![a] = @ + 1]
  /\ keyState' = [keyState EXCEPT ![k] = "active"]
  /\ keyOwner' = [keyOwner EXCEPT ![k] = {a}]
  /\ End(c)

\* Fault: the put of the key is unconditional.
PutKeyOverwrites(c, k) ==
  /\ step[c] = "issuing"
  /\ \/ BelowLimit(c) /\ AddKey(c, k)
     \/ ~ BelowLimit(c) /\ End(c) /\ UNCHANGED keyVars
  /\ UNCHANGED <<accountVars, month, usageVars>>

\* putKeyWithLimit with a fresh random id: the counter and the key are one transaction.
\* A collision draws another id, three times in all; then the limit is looked at.
PutKey(c, k) ==
  /\ step[c] = "issuing"
  /\ \/ keyState[k] = "absent" /\ BelowLimit(c) /\ AddKey(c, k)
     \/ /\ keyState[k] # "absent"
        /\ IF local[c].tries < 2
           THEN local' = [local EXCEPT ![c].tries = @ + 1] /\ UNCHANGED step
           ELSE End(c)
        /\ UNCHANGED keyVars
     \/ /\ keyState[k] = "absent" /\ ~ BelowLimit(c)
        /\ End(c)
        /\ UNCHANGED keyVars
  /\ UNCHANGED <<accountVars, month, usageVars>>

\* revokeApiKey: only the owner's key, and a revoked key is answered at once.
StartRevoke(c, k) ==
  /\ \E a \in keyOwner[k] :
       Begin(c, IF keyState[k] = "revoked" THEN "revoked" ELSE "revoking",
             [Blank EXCEPT !.account = a, !.key = k])
  /\ UNCHANGED <<accountVars, keyVars, month, usageVars>>

\* Fault: the conditions on the key's and the counter's state are missing.
RevocableAlways(c) == local[c].account \in keyOwner[local[c].key]

Revocable(c) ==
  /\ keyState[local[c].key] = "active"
  /\ local[c].account \in keyOwner[local[c].key]
  /\ keyCount[local[c].account] > 0

\* revokeKeyAndDecrement: the key and the counter are one transaction.
RevokeKey(c) ==
  /\ step[c] = "revoking"
  /\ IF Revocable(c)
     THEN /\ keyState' = [keyState EXCEPT ![local[c].key] = "revoked"]
          /\ keyCount' = [keyCount EXCEPT ![local[c].account] = @ - 1]
          /\ UNCHANGED keyOwner
          /\ Answer(c, "revoked")
     ELSE /\ IF keyState[local[c].key] = "revoked" THEN Goto(c, "revoked") ELSE End(c)
          /\ UNCHANGED keyVars
  /\ UNCHANGED <<accountVars, month, usageVars>>
------------------------------------------------------------------------------
(* Protected requests and their charge *)

\* authorize reads the key of the bearer token: it exists and is not revoked.
StartRequest(c, k) ==
  /\ keyState[k] = "active"
  /\ \E a \in keyOwner[k], t \in Tokens :
       Begin(c, "checking", [Blank EXCEPT !.account = a, !.key = k, !.token = t])
  /\ UNCHANGED <<accountVars, keyVars, month, usageVars>>

CheckAccount(c) ==
  /\ step[c] = "checking"
  /\ IF open[local[c].account] THEN Goto(c, "touching") ELSE End(c)
  /\ UNCHANGED <<accountVars, keyVars, month, usageVars>>

\* touchKey is conditional: a key revoked since the first read authorizes nothing.
TouchKey(c) ==
  /\ step[c] = "touching"
  /\ IF keyState[local[c].key] = "active" THEN Goto(c, "metering") ELSE End(c)
  /\ UNCHANGED <<accountVars, keyVars, month, usageVars>>

\* POST /internal/usage/consume: the charge of a workload, with the caller's token.
StartCharge(c, a) ==
  /\ \E t \in Tokens, u \in Charges :
       Begin(c, "metering", [Blank EXCEPT !.account = a, !.token = t, !.units = u])
  /\ UNCHANGED <<accountVars, keyVars, month, usageVars>>

\* consumeUsage of the service: the account is read again, for the limit of its plan,
\* and the clock for the period.
Meter(c) ==
  LET a == local[c].account IN
  /\ step[c] = "metering"
  /\ IF open[a]
     THEN /\ step'  = [step EXCEPT ![c] = "charging"]
          /\ local' = [local EXCEPT ![c].limit = Credits[plan[a]], ![c].month = month]
     ELSE End(c)
  /\ UNCHANGED <<accountVars, keyVars, month, usageVars>>

Recorded(c) == ledger[local[c].account][local[c].month][local[c].token]

\* Fault: the usage item is found by the clock, the record by the period read before.
UsageMonthNow(c) == month

UsageMonth(c) == local[c].month

\* Fault: the limit is compared with the usage before the charge.
WithinLimitBefore(c) == used[local[c].account][UsageMonth(c)] <= local[c].limit

\* The condition of the usage update: the first charge of a period is not limited.
WithinLimit(c) ==
  LET u == used[local[c].account][UsageMonth(c)] IN
  u = 0 \/ u + local[c].units <= local[c].limit

\* Fault: the put of the idempotency record is unconditional.
ChargeableAgain(c) == WithinLimit(c)

Chargeable(c) == Recorded(c) = 0 /\ WithinLimit(c)

\* consumeUsage of the store: the record and the usage are one transaction.  If it is
\* cancelled, the record tells a duplicate from a conflict or an exceeded quota.
Charge(c) ==
  LET l == local[c] IN
  /\ step[c] = "charging"
  /\ IF Chargeable(c)
     THEN /\ ledger' = [ledger EXCEPT ![l.account][l.month][l.token] = l.units]
          /\ used'   = [used EXCEPT ![l.account][UsageMonth(c)] = @ + l.units]
          /\ Answer(c, "consumed")
     ELSE /\ IF Recorded(c) = l.units THEN Goto(c, "duplicate") ELSE End(c)
          /\ UNCHANGED usageVars
  /\ UNCHANGED <<accountVars, keyVars, month>>
------------------------------------------------------------------------------
Next ==
  \/ NextMonth
  \/ \E a \in Accounts : AccountChanges(a)
  \/ \E c \in Calls :
       \/ \E a \in Accounts : StartIssue(c, a) \/ StartCharge(c, a)
       \/ \E k \in Keys : StartRevoke(c, k) \/ StartRequest(c, k) \/ PutKey(c, k)
       \/ RevokeKey(c) \/ CheckAccount(c) \/ TouchKey(c) \/ Meter(c) \/ Charge(c)

Spec == Init /\ [][Next]_vars
------------------------------------------------------------------------------
(* Properties *)

\* Every variable stays in its type.
TypeOK ==
  /\ plan \in [Accounts -> Plans]
  /\ open \in [Accounts -> BOOLEAN]
  /\ keyCount \in [Accounts -> Nat]
  /\ keyState \in [Keys -> KeyStates]
  /\ keyOwner \in [Keys -> SUBSET Accounts]
  /\ month \in Months
  /\ used \in [Accounts -> [Months -> Nat]]
  /\ ledger \in [Accounts -> [Months -> [Tokens -> Nat]]]
  /\ step \in [Calls -> Steps]
  /\ local \in [Calls -> Locals]

ActiveKeys(a) == {k \in Keys : keyState[k] = "active" /\ keyOwner[k] = {a}}

\* The counter the limit is enforced with is the number of the account's active keys,
\* whatever issues, revokes and lost answers overlap.
KeyCount == \A a \in Accounts : keyCount[a] = Cardinality(ActiveKeys(a))

\* However many issuers race and whatever plan each of them has read, an account never
\* counts more active keys than some plan allows.
KeysWithinPlans == \A a \in Accounts : \E p \in Plans : keyCount[a] <= KeyLimit[p]

\* A key id never comes back to life and never changes hands, even when the random
\* generator draws an id again.
KeysAreFinal ==
  [][\A k \in Keys :
       /\ keyState[k] = "revoked" => keyState'[k] = "revoked"
       /\ keyState[k] # "absent" => keyOwner'[k] = keyOwner[k]]_vars

\* The usage of a month is the sum of its idempotency records: no charge is counted
\* twice and none is lost, also when the month ends between the read and the write.
LedgerSum ==
  \A a \in Accounts, m \in Months :
    used[a][m] = MapThenSumSet(LAMBDA t : ledger[a][m][t], Tokens)

\* A token is consumed once per account and month: of all the calls and retries that
\* carry it only one is told "consumed", and everyone who is told "consumed" or
\* "duplicate" finds its own amount recorded.
ConsumedOnce ==
  \A c \in Calls :
    /\ step[c] \in {"consumed", "duplicate"} => Recorded(c) = local[c].units
    /\ \A d \in Calls \ {c} :
         step[c] = "consumed" /\ step[d] = "consumed" =>
           \/ local[c].account # local[d].account
           \/ local[c].month # local[d].month
           \/ local[c].token # local[d].token

Charged(a, m) == {t \in Tokens : ledger[a][m][t] > 0}

\* Usage above the limit of every plan can only be a single charge, the first of its
\* month: racing charges and plan changes never add up to more.
OverQuotaOnlyAtFirst ==
  \A a \in Accounts, m \in Months :
    (\A p \in Plans : used[a][m] > Credits[p]) =>
      \A s, t \in Charged(a, m) : s = t

\* The strengthening that makes the invariants above inductive.

\* A call has been given, or has read, what its next step uses.
LocalOK(c) ==
  /\ step[c] = "issuing" =>
       local[c].account \in Accounts /\ \E p \in Plans : local[c].limit = KeyLimit[p]
  /\ step[c] \in {"revoking", "checking", "touching"} =>
       local[c].account \in Accounts /\ local[c].key \in Keys
  /\ step[c] \in {"checking", "touching", "metering", "charging", "consumed", "duplicate"} =>
       local[c].account \in Accounts /\ local[c].token \in Tokens
  /\ step[c] = "charging" => \E p \in Plans : local[c].limit = Credits[p]
LocalInv == \A c \in Calls : LocalOK(c)

\* A key has an owner, and one only, from its creation on.
OwnerOK(k) == IF keyState[k] = "absent" THEN keyOwner[k] = {}
              ELSE \E a \in Accounts : keyOwner[k] = {a}
OwnerInv == \A k \in Keys : OwnerOK(k)

\* A recorded charge is in the usage of its month.
UsageInv == \A a \in Accounts, m \in Months, t \in Tokens :
              ledger[a][m][t] > 0 => used[a][m] > 0

IInv == /\ TypeOK /\ LocalInv /\ OwnerInv /\ UsageInv
        /\ KeyCount /\ KeysWithinPlans /\ ConsumedOnce /\ OverQuotaOnlyAtFirst
==============================================================================
