# SolveLang: formal models

TLA+ models of SolveLang, the TLC instances that check them and TLAPS proofs about them.
Six parts of the repository are modelled so far:

| part | code | modules |
| --- | --- | --- |
| Priority processing queue | `services/api-access`: `priority-*.js`, `customer-priority-executor.js` | `JobLifecycle`, `PriorityQueue`, `PriorityQueueProofs`, `MCPriorityQueue` |
| API keys and credit ledger | `services/api-access`: `service.js`, `authorizer.js`, `dynamo-store.js` | `ApiAccess`, `FiniteSums`, `ApiAccessProofs`, `MCApiAccess` |
| Subscription webhook | `services/api-access`: `subscriptions.js`, `subscription-event-store.js`, `dynamo-store.js` | `AccountProjection`, `Subscriptions`, `SubscriptionsProofs`, `MCSubscriptions` |
| Customer sign-in | `services/api-access`: `customer-auth.js`, `customer-auth-store.js` | `SessionAuthority`, `CustomerAuth`, `CustomerAuthProofs`, `MCCustomerAuth` |
| Contract confirmations | `services/entitlements`: `service.ts`, `store.ts`, `confirmation*.ts` | `ConfirmationPromise`, `Entitlements`, `EntitlementsProofs`, `MCEntitlements` |
| Module loading of the language | `solvec/src/module_resolver.rs`, `solvec-core/src/evaluator.rs` | `ModuleSystem`, `ModuleSystemProofs`, `MCModuleSystem` |

Check one instance with `tlc -config MCPriorityQueue.cfg MCPriorityQueue.tla`, the proofs of one
component with `tlapm PriorityQueueProofs.tla`. Every safety property of a passing run is also a
theorem, for every value of the constants that the module's assumption admits (one,
`ReceiveFindsFreeLease`, for every timing with `TimingCovers`); only the four liveness properties
stay with TLC.
`PROJECT.json` maps every definition to the lines it stands for, and lists the hazards of the code
with the properties that cover them.

## 1. The system

SolveLang is a small workflow language (Rust: lexer, parser, type checker, evaluator, CLI,
WebAssembly wrapper) and the hosted services around it (JavaScript and TypeScript on AWS
Lambda, DynamoDB, SQS and SES), a Next.js site, an MCP server, editor plugins and a
conformance suite.

| component | state | operations | what is hard |
| --- | --- | --- | --- |
| **Priority queue** (`services/api-access`) | job table, its stream, FIFO lane queue with a dead-letter queue, source bucket, worker invocations | submit, dispatch, receive, claim, heartbeat, complete, fail, release, return | at-least-once streams and messages; two workers on one job; kills between any two calls; leases against visibility timeouts; lost answers |
| **Keys and ledger** (`services/api-access`) | accounts, keys, usage and idempotency items | issue, revoke, authorize, consume, provision | conditional transactions that race; plans read before they change; month ends between a read and a write; retries with the same token |
| **Module loading** (`solvec`, `solvec-core`) | resolver's stack and order; evaluator's module scopes, call frames, step counter | resolve an import, check, initialise, call, return, fail | sharing and cycles in any graph; isolation of a failing run; copies of scopes that must not go stale |
| **Subscriptions** (`services/api-access`) | account item, event items with claims, checkout reservation | deliver, claim, take over, load, write, normalize, complete, release, reserve | events duplicated and out of order; claim leases; stops between the account's write and the card |
| **Customer sign-in** (`services/api-access`) | links, sessions, auth versions, MFA challenges, backup codes | request and open a link, password, second factor, five changes of the credentials, sign out | single use under races; attempt limits; sign-ins and changes that read the account too early |
| **Contract confirmations** (`services/entitlements`) | payment intents, entitlements, outbox and its stream, FIFO queue, deliveries | checkout, webhook, dispatch, receive, reserve, mail, mark | two payments of one scan; dispatches and messages repeated; mail leases; lost marks |
| Merge governance (`services/merge-governance`) | queue records, decision log, daily usage, repository record | webhook ingress, worker, queue read, reconcile | whole-record overwrites by two writers; batch redelivery; errors that acknowledge |
| Customer priority submission (`services/api-access`) | (of the two above) | charge, then create a job | a stop between the charge and the job |
| Evaluator and front end (`solvec-core`) | one program run | lex, parse, check, evaluate | budgets before every allocation; no concurrency |
| CLI, language server, AI adapter, WebAssembly | none between calls | input and output around the evaluator | - |
| Admin consoles and gateways, MCP server, site, tools | none, or not shared | pages, proxies, reports | - |

How they interact: the priority submission charges the ledger of *Keys and ledger* and then
creates the job of *Priority queue*; subscription events change the plan and status that keys
and charges read; the CLI's runtime (`ast_runtime.rs`) hands the resolver's graph to the
evaluator. Merge governance and entitlements share nothing with the others but the operator.

What makes each of them correct: a job is neither lost nor run to two ends; an account has no
more keys than a plan allows and no charge counts twice; a program loads what it imports, in
order, and a failing run leaves no trace; a governed pull request is counted once; an older
subscription event never overwrites a newer one, and none is lost; a link signs in once, and no
session outlives the credentials it was opened with; a paid entitlement is confirmed, and a
confirmation marked sent is not sent again.

## 2. Priority queue

### Model and code

`PriorityQueue` models one lane. Its variables fall into groups that mirror the stores:
`status`, `owner`, `lease`, `result` are the attributes of a job item; `outbox` and `deliveries`
are the INSERT record of the job on the table's stream; `queue`, `receives`, `hidden`, `holder`,
`recent`, `dlq` are the FIFO queue, its message groups, deduplication and dead-letter queue;
`pc`, `job`, `receive`, `left`, `beating` are the local state of a worker invocation.

- Each action is one call on shared state. Between two calls of a worker anything else may run,
  the function may be killed (`Crash`, and at its time limit `TimeOut`), and time may pass.
- `Submit` is `putJob` (conditional, so a repeated id changes nothing). `DispatchSend`,
  `DispatchMark` and `DispatchFail` are the dispatcher on one stream record.
- `Claim`, `ClaimRefused`, `ClaimError`, `FetchSource`, `DeleteSource`, `Heartbeat`, `WorkFails`,
  `Complete`, `Cleanup` and `Return` are the worker in the order of `processLaneRecord`. A lost
  answer of a committed write is a choice of the next step: a claim whose answer is lost goes to
  `nacking`, a completion whose answer is lost goes to the catch block.
- `ClaimRefused` covers the failed update and the read that follows it; a job released between
  the two ends in the same place as `ClaimError`.
- `Receive`, `DeadLetter` and `DedupExpire` are SQS as `priority-template.yaml` configures it:
  one message at a time per group, `maxReceiveCount`, a five-minute deduplication window. They
  are the only part taken from configuration instead of program text.
- Deadlines are counters of what is left, so time needs no bound.

`JobLifecycle` is the abstract promise: a job is accepted once, started and put back any number
of times, and ended once by the attempt that runs it. `PriorityQueue` implements it with
`phase` derived from `status` and `runner` from `owner` (`ImplementsLifecycle`).

The deployed entry point (`priority-worker-handler.js`) passes no `executeCustomerJob`, so audit
jobs run only where a caller supplies one, as the tests do; canaries run in both. The model has
both job types.

### What is checked

| run | instance | properties |
| --- | --- | --- |
| `priority_overlap` | a canary and an audit in one group, three invocations, two receives; the lease and the visibility timeout (1) are shorter than the run time (2), so a stale worker overlaps with its successor | `TypeOK`, `NoLostJob`, `TerminalIsFinal`, `LeaseIsExclusive`, `ImplementsLifecycle` |
| `priority_deployed` | one audit with the deployed timing in ticks of 30 s: lease 60, visibility 90, function 30; three receives; six invocations; one stream retry | `ReceiveFindsFreeLease`, `EveryJobSettles` |
| `priority_dead_letter` (violated) | as `priority_deployed` | `CrashedIsReclaimable` |

- *NoLostJob*: an unfinished job always has an undispatched stream record, a message, or an entry
  in a queue an operator watches.
- *TerminalIsFinal*, *LeaseIsExclusive*: no stale worker, late dispatch mark or redelivery changes
  a finished job, and no one but the owner changes a job under an unexpired lease.
- *ReceiveFindsFreeLease*: with the deployed timing no receive is spent on a busy job. It fails
  with a longer lease, so it guards the numbers in the template.
- *EveryJobSettles*: every accepted job completes, fails or reaches an operator's queue.
- `priority_dead_letter` is a disagreement of code and documentation. `PRIORITY_QUEUE.md:30` says
  that a crashed worker loses ownership after the lease, "allowing the message retry to reclaim
  the job". When a worker has claimed the job and is killed (or loses the answer of its claim),
  and the receives after it, if any are left, end before their claims, SQS dead-letters the
  message. Nobody claims the job again, and it stays `processing` without a lease until its record
  expires: `failed` is written only by a worker's own catch block. A job that no worker ever
  claimed stays `queued` or `dispatched` in the same way; the run is about the first case only.

Bounds: three invocations are enough for a worker, its successor and the successor's successor;
with two receives the group's last receive and the dead-letter move happen; six invocations
under three receives allow a second life of a message after a resend. Two jobs in one group are
needed for the acknowledgement of the wrong message; a second group would only add independent
copies. In `priority_overlap` a stream record is delivered once, as with two the instance is too
large for a run; the dispatcher's repeated send is in `priority_deployed`, with one job, and the
theorems hold for any number of deliveries. The deployed run has one job, since liveness of a group is that of its first message.
Deadlock checking is off: a system with no jobs left, or with all invocations used, stops.

Fairness (`FairSpec`, for `EveryJobSettles` only): stream records are delivered, visible
messages are received, full counters are dead-lettered, functions past their time limit are
killed and time passes. AWS does these. Nothing makes a worker finish its work, and nothing
makes an invocation succeed.

### What is proved

`PriorityQueueProofs` proves, for any jobs, groups, sources, timing and number of invocations,
`TypeOK`, `NoLostJob`, `TerminalIsFinal`, `LeaseIsExclusive` and the refinement of
`JobLifecycle`, from `PriorityAssumption` alone; and `ReceiveFindsFreeLease` for any timing that
satisfies `TimingCovers`. The inductive invariant `IInv` adds to the types:

- `ReceiptInv`: a valid receipt belongs to the head of its group. Without it an acknowledgement
  could delete another job's message.
- `AckInv`: only finished jobs are acknowledged. Together they make deletions safe.
- `DeliveredInv`: a deduplicated or sent message still exists, was dead-lettered, or its job
  ended. Without it a send that SQS deduplicates could lose the job.
- `OutboxInv` and `FreshInv`: every job had a stream record, and invocation ids are not reused.

`TimingCovers` says that lease and run time together fit into the visibility timeout
(`LeaseTicks + RunTicks <= HiddenTicks`). The deployed numbers satisfy it with nothing to spare:
60 s of lease, 30 s of run time, 90 s of visibility. With one tick less of visibility TLC finds a
receive that meets a busy lease. Under this hypothesis `TimingInv` is inductive on top of `IInv`:
a message at work is hidden for longer than its lease can last (`HeldInv`, `LeaseInv`), nobody
holds a lease on a message that can be received (`UnclaimedInv`), and who has claimed a job owns
it (`AttemptInv`). Three theorems follow:

- `NoReceiveIsWasted` (`ReceiveFindsFreeLease`): no receive is spent on a busy job.
- `AttemptsAreSerial`: a message group is worked on by one invocation at a time. The lease is
  what the code trusts; the timing alone is already enough.
- `AttemptsOwnTheirJob`: a worker that claimed its job owns it until it writes its result, so its
  completion is never refused. Without the hypothesis `priority_overlap` reaches such refusals.

Only model-checked: `EveryJobSettles` (liveness).

Not modelled: the seven-day expiry of records, the four-day retention of messages, redrives by
an operator, more than one clock, the choice of a lane.

## 3. API keys and credit ledger

### Model and code

`ApiAccess` has accounts (`plan`, `open`), keys (`keyState`, `keyOwner`) with the counter
`keyCount` of the account item, and the monthly ledger (`used`, `ledger`). A service call is a
little process: `step` says where it is or what it answered, `local` what it has read. Each
conditional update or transaction is one action; between the account read and the write the
plan may change, the key may be revoked and the month may end.

- `StartIssue` and `PutKey` are `issueApiKey` with its three draws of a random id;
  `StartRevoke` and `RevokeKey` are `revokeApiKey`.
- `StartRequest`, `CheckAccount`, `TouchKey`, `Meter` and `Charge` are a protected request from
  the bearer token to the charge of one credit; `StartCharge`, `Meter` and `Charge` are
  `POST /internal/usage/consume`.
- `open` stands for status, period end and grace. A charge is at least one credit, so 0 stands
  for an item that does not exist.
- Any call may stop for good at any step, and a committed write may lose its answer (`Answer`).

The DynamoDB condition at `dynamo-store.js:44` is written
`attribute_not_exists(#used) OR #used + :units <= :limit`. The condition grammar of DynamoDB has
no arithmetic; the model takes the meaning the text intends. It allows every charge that the code
may allow, so what holds of it holds of the code. That it lets the first charge of a month pass
whatever its amount is no finding: the service may refuse such a condition altogether.

The transactions of a charge and of a revocation are one step together with the reads that
follow a refusal (`dynamo-store.js:61-73`, `:309-312`): those reads only choose the answer.

### What is checked

Run `api_access`: four calls on one account, with three key ids, two plans and two months.

- *KeyCount*: the counter that enforces the limit is the number of active keys; *KeysWithinPlans*:
  racing issuers with stale plans never exceed every plan; *KeysAreFinal*: a revoked id never
  comes back and no id changes hands.
- *LedgerSum*: a month's usage is the sum of its charges; *ConsumedOnce*: a token is charged once
  per month however often it is retried; *OverQuotaOnlyAtFirst*: usage above all plans is one
  charge, the first of its month.

Bounds: four calls on one account let two issuers race a revocation, or a charge race its
retry and a third charge; three key ids let an id collide; two plans are a smaller and a larger
limit; two months let the month end once within a call; charges of 1 and 4 are one below and
one above all limits. Calls and tokens are symmetric, which is sound since no property of the
run is a liveness property. That no id changes hands needs a second account, and is covered by
the theorem only. No fairness is assumed. Calls run out, so deadlock checking is off.

### What is proved

`ApiAccessProofs` proves `TypeOK`, `KeyCount`, `KeysWithinPlans`, `ConsumedOnce`,
`OverQuotaOnlyAtFirst` and `KeysAreFinal` for any accounts, keys, plans, tokens, amounts, months
and calls, from `ApiAccessAssumption`. `IInv` adds to these: `LocalInv` (a call holds what its
next step uses, and a limit it holds is that of some plan), `OwnerInv` (an existing key has one
owner; without it the counter of the wrong account could fall) and `UsageInv` (a recorded charge
is in the usage; without it a month with charges could look like one without).

`LedgerIsExact` (`LedgerSum`): the usage of a month is the sum of its recorded charges, for any
finite set of tokens. Tokens are finite in `ApiAccessAssumption`, as the strings that
`service.js:29` accepts are. A sum over a set calls for induction, which the provers cannot
instantiate; `FiniteSums` gets by with the least counterexample instead. It proves that a sum of
zeros is zero, that a sum of naturals is one, and what a sum becomes when one summand changes.

Nothing of this component is only model-checked.

Not modelled: account suspension (`accountAccess`, another module), scopes, listing, expiry of
idempotency records, rotation of the pepper, HTTP.

## 4. Module loading

### Model and code

`ModuleSystem` follows one run of a program from its entry file to its end.

- `imports` is the import statements of each file and never changes; `Init` ranges over all graphs.
- The resolver: `stack` is `Resolver.stack`, `next` the position of each `for` over a file's
  statements, `order` is `Resolver.order` (and stands for `canonical` and `modules`, which are
  filled with it), `cycle` is the cycle an error names. `ImportCycle`, `ImportKnown` and
  `ImportNew` are the three ways `resolve_target` and `visit` go; `FinishModule` is the end of
  `visit_loaded`; `ResolveFails` is every other error.
- The evaluator before the entry: `CheckProgram` checks the order as `run_modules` does and moves
  to `rejected` where it would refuse; `CheckFails` is the static checks and size limits;
  `InitializeModule` and `InitializationFails` fill `staged`, the scopes of the separate
  evaluator; `StartEntry` replaces the state of the earlier run.
- The run: `scopes` is `module_scopes`, `frames` the active scope on top of the ones
  `invoke_function` has saved, `steps` the step counter. `Write` is an assignment to a module
  variable, `OtherStatement` any other statement, `Call`, `Return`, `Fail` and `Unwind` are
  `invoke_function`, `Finish` the end of the entry.

The variables of a module are represented by the set of writes they show. Writes are numbered in
`log`; 0 stands for what an earlier run left. This is enough to tell a fresh copy from a stale
one. A module's top level may not call functions, so initialisation makes no writes. Functions of
the entry put the entry's variables back when they return, so the entry has none in the model.
The language has no way to catch an error, so an error unwinds every frame.

### What is checked

Run `module_system`: every import graph of three files with at most two import statements each,
before and after an earlier run; seven steps; calls three deep.

- *NeverRejected*: the resolver's order always passes the evaluator's checks; the two were
  written apart and agree by convention only.
- *LoadsWhatIsImported*: the files loaded are the ones the entry leads to, no fewer and no more.
- *CycleIsReal*: a reported cycle is a closed path of import statements.
- *ImportsAreLive* (ADR 0003, live bindings): running code sees every write to its own module
  and to the modules it imports. A module function that calls out and, by way of other modules,
  reaches shared modules again works on copies; this says that none of them is ever stale.
- *EpochIsAtomic*: a program that fails before its entry starts leaves the earlier run's state
  whole; one that starts leaves none of it.
- *CallsAreTransactions*: stored variables change only when the outermost call into their module
  returns; calls that returned before a failure keep their writes, open ones lose theirs.
- *Terminates*: every run ends, by finishing or by a limit.

Bounds: three files hold a file reached by two paths, an import written twice, a self-import,
cycles of one, two and three files, a cycle that leaves out the entry, and a file nobody imports.
Seven steps with calls three deep hold a module that calls itself and another module, with
writes at each level. There is no symmetry, as `Terminates` is a liveness property. Fairness is
`WF_vars(Next)`: a run is one synchronous call and stops only at its end. A finished run stops,
so deadlock checking is off.

### What is proved

`ModuleSystemProofs` proves every property of the run but `Terminates`, for any set of files,
any import graph and any limits, from `ModuleSystemAssumption`, and of `Terminates` the half that
needs no fairness. `IInv` says:

- `PathInv`: the stack is a path of imports; `SortedInv` and `BehindInv`: a finished file comes
  after the files it imports, and an open file has behind it what it has already visited;
  `FreshInv`, `EntryLast`: nothing is open and finished at once, the entry is last.
- `NeededInv`: what is open or finished is in every set that holds the entry and is closed under
  imports. `LoadsWhatIsImported` speaks of the least such set without a recursive definition.
- `StageInv`: staged modules are dependencies and the stored scopes belong to the right run.
- `FramesInv`: along the frames each module is the one below or imported by it, and (through
  `Descending`) later frames come earlier in the order, so a module's open frames are neighbours.
  That is why comparing only with the last active call (`same_module_call`) is enough.
- `LiveInv`: a stored scope shows all writes of its module unless a call into it is open, and
  then the topmost frame of that module does.

The last two rest on the order being topological: with cyclic imports a module could be
entered again from a module it had called, and `ImportsAreLive` would fail.

`RunsAreBounded`: every step lowers `StepsLeft`, a natural number, for any finite set of files.
While resolving, it counts the import statements not yet looked at, the files not yet finished
and, as a later phase follows, the files to check and `AfterCheck`; while initializing, the files
not yet staged; while running, two for each step left to charge and one for each open frame,
since a call charges a step before it opens a frame. So no run is longer than its import
statements, twice its files, twice the step limit and four. Cycles, files reached by many paths
and recursion cannot make the loops of `module_resolver.rs` or the evaluator go on.

Only model-checked: `Terminates` itself, which says that a step can be taken until the end
(`ENABLED`, under fairness).

Not modelled: identities that collide after a path is converted to text (the evaluator refuses
duplicates), byte budgets, export tables, agents, the incremental run without modules, files
that change during resolution.

## 5. Subscription webhook

### Model and code

`Subscriptions` follows one account. Stripe delivers each event at least once and in any order;
a delivery is one run of `processEvent`.

- `claim` holds the event items: absent, processing under a claim token and a lease, retryable or
  completed. `ClaimNew`, `Inspect` and `Reclaim` are the three calls of `claimEvent`.
- `account` is the event the account item was last written from: `putAccount` sets every
  subscription attribute from one event, so the event stands for them all. `reservation` is the
  pair of `pendingCheckout` attributes of the same item.
- `Load` reads the account and decides on a conflict; `Provision` is the conditional write,
  `Reread` the read after it was refused; `Normalize` makes the paid card the default in Stripe
  (two updates there; when one of them fails the call has failed); `Complete` and `Release` end
  the claim under its token.
- A lease is read from the clock when the delivery begins: `local[c].past` is the token whose
  lease was over at that moment. A lease that is renewed later has another token.
- `Reserve` and `ReleaseReservation` are the store operations of the checkout, called at any time.
- A call's id is its claim token, and `Fresh` keeps an id from being used again while any item or
  call knows it. Tokens are random UUIDs in the code.

Four faults share one budget, `MaxFaults`: a delivery is killed (`Crash`), a call fails without
effect (`CallFails`), a call takes effect and its answer is lost (`Answer`), and a lease runs out
while its delivery is still running (`LeaseEnds`; the lease may be configured down to a second).

`AccountProjection` is the abstract promise (README of the service: "replay claims and ordered
projections"): the account shows one event and only a later one replaces it; an event is refused
only in conflict with the one shown; it is settled only when refused, shown or overtaken.
`Subscriptions` implements it with `shown` as `account` and `settled` as the completed events.

### What is checked

| run | instance | properties |
| --- | --- | --- |
| `subscription_webhook` | two deliveries at a time; three events of one subscription, two of them of one order, and one of another; one checkout; one fault | `TypeOK`, `SettledIsAccounted`, `PaidIsNormalized`, `NoCheckoutOverSubscription`, `ClaimIsFenced`, `ImplementsProjection`, `EverySettled` |
| `checkout_reservation` (violated) | two deliveries, two events of one subscription, two checkouts | `ReservationHolds` |
| `subscription_takeover` (violated) | two deliveries, the first events of two subscriptions | `NoTakeover` |

- *SettledIsAccounted*: no event is lost. Stripe repeats an event until it is completed, so a
  completion before the account's write would lose it.
- *PaidIsNormalized*: a delivery writes the account and dies before the card. The next delivery
  finds its own event stale; it must still make the card the default. Of two events of one order
  only one can be written.
- *NoCheckoutOverSubscription*: a reservation and a running subscription exclude each other,
  whichever write comes first.
- *ClaimIsFenced*: a slow delivery never ends the claim of its successor.
- *EverySettled*: whatever claim a fault leaves behind, the event is completed at last.
- `checkout_reservation`: `putAccount` removes the reservation with every write, also for an
  event of the old, replaceable subscription. The account shows an event that left it unpaid, a
  checkout reserves it while the cancellation of the same subscription is being delivered, and the
  cancellation's write removes the reservation of the pending checkout
  (against `test/subscriptions.test.js:74`).
- `subscription_takeover`: the conflict of two subscriptions is decided on an account read before
  the write, and the write compares the event order only. Two deliveries that both find no account
  let the second subscription replace the active first one (against
  `test/subscriptions.test.js:231`).

Bounds: two deliveries at a time are a slow one and its successor, or one of another event, and
an id is used again when nothing knows it any more, so that an event may be delivered any number
of times. One fault makes a delivery die, lose an answer or outlive its lease; four events hold a
stale one, a conflict and a tie of seconds. One account is enough: items of different accounts
share nothing. There is no symmetry, since `EverySettled` is a liveness property. Deadlock
checking is off, as an account without events is at rest.

Fairness (`FairSpec`, for `EverySettled` only): a running handler goes on, leases run out, Stripe
delivers every event again. The delivery is strongly fair since whether a call is free is a bound
of the model and none of the code. Nothing is assumed of the faults but their bound.

### What is proved

`SubscriptionsProofs` proves all but `EverySettled` for any events, orders, statuses, calls,
checkouts and faults, from `SubscriptionsAssumption`. `IInv` adds to the types:

- `AchievedInv`: a delivery that asks for the completion has refused its event, or the account
  covers it and its card is set. Once achieved this stays so: an account that has left an event
  behind never returns to it, because orders only grow.
- `TokenInv`: a delivery that has no claim yet has a token that nobody has seen. Without it the
  fence on the token would not tell two deliveries apart.
- `PastInv`: a lease that a delivery saw expired is expired, so that it takes over only then.

Only model-checked: `EverySettled` (liveness).

Not modelled: the checkout services, which hold a reservation while they call Stripe; the
management portal; events refused as invalid before their claim; event items of the format
without fingerprints, and a second payload under one event id; the expiry of items after 400
days; periods and grace. An event refused in conflict is completed for good; the model has this
(`ignored`), and the code promises nothing of the account that follows.

## 6. Customer sign-in

### Model and code

`CustomerAuth` follows one account. `account` is the account item with its auth version,
password, authenticator secret, last time step and backup codes; `pending` is the setup of an
authenticator, `links`, `sessions` and `challenges` are the other items of the table. A request
reads the account and writes later, in one conditional write or transaction; `pc` says which
call comes next and `local` what was read. Requests interleave between any two calls and may
stop before each (`Stop`).

- `RequestLink`, `PutLink` are `requestMagicLink`; `ReadLink`, `OpenLink` are `verifyMagicLink`
  with `consumeMagicLinkForAuth`; `ReadPassword`, `OpenPassword` are `loginWithPassword`.
- `ReserveAttempt`, `ReadMfa`, `OpenMfa` are `verifyMfaChallenge`: the attempt is counted first,
  then the proof is looked up in the account, then one transaction over challenge, session and
  account checks it again (`ProofStands`).
- A change is `Authenticate`, its own reads (`CheckSetup`, `ReadPending`, `CheckProof`), the
  store's `Read` of the version, and the transaction: `SetCredentials`, `EnableTotp`,
  `RotateBackupCodes`, `DisableTotp`, `RevokeAllSessions`. `Fenced` is the condition they share.
- What a request creates has the request's name, so passwords, secrets and lists of codes are
  told apart without their contents. A presented secret is the right one, or the request ends.

`SessionAuthority` is the abstract promise, in which nothing overlaps: a session is let in by what
the account asks for at that moment, or comes too late and stays out; a session that is in may ask
for a change; a session that has asked changes the credentials and puts out all others in the same
step. A session that was put out, or came too late, changes nothing, even if it had asked before.
`CustomerAuth` implements it with `standing` as `Standing` ("none" without an item, "in" while
`authenticate` accepts it, "left" when it is revoked but has the version of the account, "out" with
an earlier version) and `asked` as `Asked`, the sessions of the changes under way.

"left" is there because a change compares the version of its session and not its revocation
(`sessionVersionUpdate`, `customer-auth-store.js:52`): a customer who signs out while a change is
under way may still see it happen. Asking for one takes a session that is in.

Three details of the code are kept as they are: a session that changes the password or the
authenticator goes along with the new version (`Migrated`), a backup code is removed by its
index in the list that was read, and `setCredentials` checks its proof without spending it.

### What is checked

Run `customer_auth`: three overlapping requests of any kind, with every `Init` of an account with
or without password and authenticator, one session, one link and one challenge.

- *CredentialsAreCurrent*: an accepted session was opened with the password in force and, where
  there is an authenticator, with that authenticator, however old the read behind it.
- *ChangeSignsOut*: a change leaves no session signed in but its own, sign out everywhere none.
- *ImplementsAuthority*: requests that read first and write later let sessions in and change the
  credentials as if in one step, and only for a session that asked while it was in and has not
  been put out since. Who is put out stays out, also when a change of its own was under way.
- *UsedOnce*: no link, backup code or step of the authenticator in force is good twice, whether it
  signs in or changes the authenticator, and a code is good only while it is in the list, however
  codes were removed or replaced since it was found there.
- `TypeOK` includes the attempt limit of a challenge.

Run `customer_auth_replay` (violated): four requests, two time steps, no codes and no challenges
(`CodeCount` and `Limit` 0), with the property `NoReplay`: no time step is taken for a second
session or change, whichever authenticator it is of, as `docs/optional-authenticator-2fa-design.md:193`
says. `regenerateBackupCodes` and `disableTotp` check password and code on one read of the account;
the store then reads it again for the version it compares (`customer-auth-store.js:601`, `:655`),
and its transaction compares neither the secret nor the password, only the last time step. When in
between the same session disables the authenticator and sets up another one, with an earlier step,
a step that was used passes for the new one. It takes four requests of one session within the
minute or so in which a step is valid; three requests do not suffice. `UsedOnce` leaves out exactly
this case, a change with a step of another authenticator (`Former`); sign-ins have no such case,
since their transaction compares the version at which the code was checked.

Bounds: two requests race, the third changes what they have read. Two codes are a list in which
an index can name another code; two time steps are an earlier and a later one; the limit of two
attempts is reached and tried once more. Requests are symmetric, and the run has no liveness
property. No fairness is assumed. Requests run out, so deadlock checking is off. With four
requests, one code and one attempt, `ImplementsAuthority` and `UsedOnce` hold as well (1 545 696
states, too long for a run of the project).

### What is proved

`CustomerAuthProofs` proves all five properties for any set of requests, any limit, any number
of codes and steps, from `CustomerAuthAssumption`, and `RefusedForGood` (a session that is refused
is refused for good) besides. `IInv` adds to the types:

- `CurrentInv`: what carries the version of the account (a session, a challenge, a read) carries
  its password and secret; `VersionInv`: nothing is ahead of the account. So an item that is
  behind stays behind, and a change makes all but its own session such an item.
- `SpentInv`: what was spent is not good any more; `PendingInv`: a pending secret was never in
  use. Without the second a confirmed authenticator could bring spent time steps back.
- `UsedInv`: a name appears in an item only after its request is done; `FitsInv`: a request holds
  what its next step uses.

`ProofsUsedOnce` (`UsedOnce`) rests on `SpentInv` and `PendingInv`. `SignInIsAtomic` is the refinement
(`ImplementsAuthority`), one lemma per kind of step: a first factor is `LetIn`, `TooLate` or
`FollowLink`, depending on the version and the authenticator it read; a second factor is `LetIn`; a
change is `ChangePassword`, `ChangeAuthenticator` or `SignOutEverywhere`, of a session that has
asked (`AskedBefore`); signing out is `Logout` or nothing; what only reads or prepares is `Ask`,
`GiveUp` or a stutter (`PreparingIsSeen`).

Not modelled: expiry, throttling and the wrong secret, which only refuse more; the unique user
name; the recent e-mail proof that `setCredentials` may ask for; pepper rotation; security
notices; account suspension; accounts of the format without an auth version.
`revokeAllSessions` passes an expression value that its update does not use
(`customer-auth-store.js:734`); whether the table service accepts that is outside the model,
which takes the update to work.

## 7. Contract confirmations

### Model and code

`Entitlements` follows payments of the Workflow Preflight from checkout to confirmation mail.

- `CreateIntent` and `RecordConsent` are the two Stripe calls of `createCheckout`. While Stripe
  remembers the key `preflight-<scan>` a scan has one intent; after `ForgetKey` a second
  checkout makes another, and both may be paid (`Pay`). The code stores the consent under a
  key per scan and terms (`service.ts:267`), which may refuse it for a second intent; the model
  never refuses it, and so allows more.
- `CommitPaid` is the payment webhook with its transaction on entitlement and outbox record.
  Deliveries that change nothing (the answer 200 for an event already committed, a refusal) are
  steps that leave all variables alone. `EmailInEvent` says whether the gateway's event has the
  receipt address that the webhook requires.
- `stream` is the INSERT record of the outbox item and how far its dispatcher invocation is:
  `DispatchSend`, `DispatchMark`, `DispatchDone`, and `DispatchFail`, after which the stream
  delivers the record again. The MODIFY record of the mark is found dispatched and does nothing.
- `queue`, `receives`, `hidden`, `holder`, `recent`, `dlq` are the FIFO queue, as in
  `PriorityQueue`, with the one message group of contract confirmations.
- `Look` and `Reserve` are `reserveDelivery`: the clock and the delivery are read, then a put or
  an update is made under a condition. `age` is how old that clock is when the write comes, for
  the lease is computed from it. `SendMail`, `MarkSent`, `Acknowledge` are the rest of the worker,
  and `Stop` its errors and kills.

`ConfirmationPromise` is the abstract promise: one payment of a scan is granted its entitlement
and owed a confirmation; an attempt mails it once at most and may be given up before or after the
mail; only an attempt that has mailed it confirms it. `Entitlements` implements it with `progress`
as `ProgressOf`: attempted and mailed are states of the worker that has reserved the confirmation.

### What is checked

| run | instance | properties |
| --- | --- | --- |
| `entitlement_confirmations` | one scan paid twice; one failed delivery per stream record; four worker invocations, two receives per message; run time 1, lease 3, visibility timeout 1 | `TypeOK`, `NoLostConfirmation`, `MailerHoldsLease`, `SentIsFinal`, `ImplementsPromise`, `EveryPaymentConfirmed` |
| `entitlement_events` (violated) | the same with the events of `stripe.ts` | `PaidIsEntitled` |

- *NoLostConfirmation*: a committed confirmation is pending in the outbox, queued, dead-lettered,
  or mailed and marked.
- *MailerHoldsLease*: two workers are never between reservation and mark with one confirmation.
- *SentIsFinal*: what is marked sent is never mailed again. A mail whose mark was lost may go out
  twice, as the service's README says.
- *ImplementsPromise*: only the payment that holds the entitlement of its scan is owed a
  confirmation, attempts of it do not overlap, each mails once at most, and only one that has
  mailed ends the matter. The second payment of a scan gets neither entitlement nor mail; the
  webhook fails for it until Stripe gives up.
- *EveryPaymentConfirmed*: a payment is mailed at last, unless its scan was already paid for, its
  message is dead-lettered, or the stream dropped a record that still says pending.
- `entitlement_events`: `constructEvent` builds the payment event without the receipt address
  (`stripe.ts:60`), and the webhook refuses an event without it (`service.ts:291`), so that no
  payment behind this gateway gets an entitlement, against `README.md:23` of the service. The
  tests of the webhook use a fake gateway that adds the address.

Bounds: the deployed times are 15 s for the function, 60 s for the lease and 90 s for the
visibility timeout, with five receives. The instance keeps a lease longer than two invocations,
which `Reserve` relies on, and makes the visibility timeout shorter than the lease: then a
receive may find the lease held, which the deployed timing rules out (see
`WorkersFollowOneAnother` below) and the code handles. Four
invocations and two receives let the message be retried, and a second message, sent outside the
deduplication window, be retried too. Two payments of one scan are a first and a late one. No
symmetry; deadlock checking is off, as everything may be done.

Fairness (`FairSpec`): Stripe repeats a payment event until it is accepted, the stream delivers
its records, visible messages are received or dead-lettered, a function at its time limit is
killed, time passes. No worker is assumed to finish. That the bound on invocations does not hide
a loop shows in `EveryPaymentConfirmed`: the receive limit dead-letters before invocations run out.

### What is proved

`EntitlementsProofs` proves the five safety properties, and `ConfirmedIsEntitled` (only the payment
that holds the entitlement is confirmed by mail) besides, for any intents, scans and invocations and
every timing with `2 * RunTicks < LeaseTicks`, from `EntitlementsAssumption`. `IInv` adds:

- `OutboxInv`, `RecordInv`: outbox record and entitlement exist together, which is what the
  transaction is for; `SourceInv`: only what has an outbox record is queued, worked on or mailed.
- `HandedInv`: a message that was sent, or that SQS deduplicates, is queued, dead-lettered or
  mailed and marked. With `ReceiptInv` (a valid receipt belongs to the first message) and `AckInv`
  (only what is marked is acknowledged) a deletion loses nothing.
- `AgeInv` and `LeaseInv`: a worker's clock is no older than its invocation, so a granted lease
  has more left than the worker. Nobody else finds it expired while the worker may still mail.

`ServiceKeepsPromise` is the refinement (`ImplementsPromise`), one lemma per action that touches
the promise (`CommitGrants`, `GrantedAttempts`, `SendMails`, `MarkedConfirms`, `EndedGivesUp`) and
one for all the others, which stutter. It rests on the lease: were two workers at one confirmation
at once (`Alone` excludes it), the progress of the payment would not be a function of the state.

`WorkersFollowOneAnother` is about the deployed timing, where lease and function fit into the
visibility timeout (`TimingCovers`: 60 s + 15 s within 90 s). Then mail workers follow one another
and nothing a worker asks for is refused (`WorksAlone`): it meets nobody's lease, its conditional
writes succeed, its return deletes its message. So a confirmation is mailed twice only after an
invocation ended between mail and mark, never because two were at it. `TimingInv` is inductive
on top of `IInv`: a working invocation has the receipt (`ReceiptCovers`), a lease that runs was
taken under the present receipt, which outlives it (`LeaseCovers`), and what a worker saw still
holds when it reserves (`SeenInv`). TLC agrees with a visibility timeout of 4 ticks in the
instance above (35 284 states), and finds `WorksAlone` violated with 3.

Only model-checked: `EveryPaymentConfirmed` (liveness).

Not modelled: refund events and the entitlement token. The token endpoint asks Stripe for the
refund status and not the stored record, so the order of refund and payment events decides
nothing there. Also not modelled: withdrawals, which use a message group and a throttle of their
own; Turnstile; the 30-day expiry of outbox and delivery records; the `disabled` and `test-sink`
providers.

## 8. Faults and the properties that notice them

Every property has a mistaken variant of a modelled definition (marked Fault in the modules)
under which its run finds a violation.

| module | fault | noticed by |
| --- | --- | --- |
| `PriorityQueue` | lease longer than the visibility timeout allows (`ClaimTooLong`) | `TypeOK`, `ReceiveFindsFreeLease` |
| | a busy job's message is acknowledged (`ClaimRefusedAcks`) | `NoLostJob` |
| | dispatch mark without its condition (`DispatchMarkUnguarded`) | `TerminalIsFinal` |
| | claim without looking at the lease (`ClaimableEarly`) | `LeaseIsExclusive` |
| | updates not fenced by the worker id (`OwnsAnyones`) | `ImplementsLifecycle` |
| | no failure destination on the stream (`DispatchFailDropped`) | `EveryJobSettles` |
| `ApiAccess` | revocation without conditions (`RevocableAlways`) | `TypeOK` |
| | unconditional put of a key (`PutKeyOverwrites`) | `KeyCount`, `KeysAreFinal` |
| | limit compared with `<=` (`BelowLimitLate`) | `KeysWithinPlans` |
| | period taken from the clock again (`UsageMonthNow`) | `LedgerSum` |
| | unconditional put of the token (`ChargeableAgain`) | `ConsumedOnce` |
| | limit compared before the charge (`WithinLimitBefore`) | `OverQuotaOnlyAtFirst` |
| `Subscriptions` | a released item keeps its token (`ReleaseKeepsToken`) | `TypeOK` |
| | an error is swallowed and the event completed (`FailSwallowed`) | `SettledIsAccounted` |
| | a stale event never sets the card (`CurrentNever`) | `PaidIsNormalized` |
| | the write leaves the reservation (`PutAccountOnly`) | `NoCheckoutOverSubscription` |
| | a claim compared by status only (`HoldsAnyones`) | `ClaimIsFenced` |
| | the account put without its condition (`NewerAlways`) | `ImplementsProjection` |
| | a lease never counts as expired (`ExpiredNever`) | `EverySettled` |
| `CustomerAuth` | an attempt counted without the limit (`AttemptFree`) | `TypeOK` |
| | a session gets the version of the moment it is put (`EnterNow`) | `CredentialsAreCurrent` |
| | sign out everywhere revokes one session (`RevokeOne`) | `ChangeSignsOut` |
| | the session's version not compared (`FencedByAccount`) | `ImplementsAuthority` |
| | a code removed by its index alone (`ProofStandsByIndex`) | `UsedOnce` |
| `Entitlements` | no redrive policy (`ReceiveUnlimited`) | `TypeOK` |
| | the outbox marked before the send (`DispatchSendMarked`) | `NoLostConfirmation` |
| | two puts instead of a transaction (`CommitPaidSplit`) | `ImplementsPromise` |
| | put and update without conditions (`ReserveUnconditional`) | `MailerHoldsLease`, `SentIsFinal` |
| | a leased delivery acknowledged (`LookActiveReturns`) | `EveryPaymentConfirmed` |
| `ModuleSystem` | one call too many (`AtDepthLimit`) | `TypeOK` |
| | a file finished before its imports (`WithFinishedFirst`) | `NeverRejected` |
| | the last import not visited (`ImportsDoneEarly`) | `LoadsWhatIsImported` |
| | the whole chain reported as the cycle (`FromEntry`) | `CycleIsReal` |
| | every call starts from the stored scope (`NeverSameModule`) | `ImportsAreLive` |
| | initialisation in the old evaluator (`InitializeInPlace`) | `EpochIsAtomic` |
| | a failed call stores its variables (`UnwindAndStore`) | `CallsAreTransactions` |
| | an expression that charges no step (`FreeExpression`) | `Terminates` |

## 9. Plan

In this order; each module is to be written so that it can be proved about (constants with
assumptions, one action per operation, no recursive operators).

1. **MergeGovernance** (`services/merge-governance`): webhook ingress, FIFO queue, the worker's
   five writes per message, batch redelivery after a crash and acknowledgement after an error,
   queue reads that put whole records. Two pull requests of one repository, four events, one
   read. To check: a pull request is counted at most once plus once per queue read that
   overwrote it, no more is counted than decided, decisions never exceed events received. A run
   against the comment at `worker.js:9` ("replays and later synchronizes do not double-count"),
   which a queue read between two synchronizes is expected to contradict.
2. **PrioritySubmission**: composes `ApiAccess` and `PriorityQueue` by the submission that
   charges and then creates the job. To check: no job without a charge, and a charge without a
   job only while its submission can be repeated.
3. **SubscriptionCheckout**: the three checkout services around `reserve`, Stripe and `release`,
   with `AccountProjection` in place of the webhook. To check: a reservation is given back or
   expires; a repeated request makes one Stripe session.
4. Refunds, tokens and withdrawals of `services/entitlements`, beside `Entitlements`.

Theorems to follow: type correctness and the counting invariants of `MergeGovernance`, its counts
with the lemmas of `FiniteSums`. Liveness stays with TLC.

## 10. Not modelled, and why

- The evaluator and front end compute data over programs of any size; TLC would only sample
  them. The limits that end a run are in `ModuleSystem`.
- The CLI, language server, WebAssembly wrapper, MCP server, admin gateways and consoles keep no
  state of their own between calls.
- The site is pages and report formatting, editors and tools are assets and packaging.
- `customer-priority-usage.js:39` passes `credits` and `now` to a store that takes `units` and
  `expiresAt`. This is a mismatch of names, not of behaviour over time: a model of either side
  would have to assume it away.
- A charge that is retried after its month has ended is charged again, as the idempotency key is
  scoped by the period on purpose; `ConsumedOnce` is per month.
