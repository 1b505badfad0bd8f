# Recognitium XRPL lending: a TLA+ verification of the code

This directory holds TLA+ models of the program in this repository, the TLC runs
that check them on small instances, and TLAPS proofs of the most important
results for every instance. `PROJECT.json` is the index: components, runs,
mutants, theorems, hazards, and for every definition the source lines it models.

    tlc -workers 2 -config LendingServiceMC.cfg LendingServiceMC    # one run
    tlapm LendingServiceProofs.tla                                  # the proofs

## 1. The system

Money only moves on an XRPL test network; everything that must not go wrong off
the ledger is kept in JSON files (local) or in blobs (hosted site).

| Component | State it keeps | Operations | What is hard |
| --- | --- | --- | --- |
| `LendingService` + `Store` (`requests/service.ts`, `store.ts`) | `data/requests/<id>.json`, `data/writer.lock` | create, approve, receiptAgreement, prepareExternalReceipt, attachRecoveredReceipt, sign, advance, receiptExecution | awaits on ledger and authority inside read-modify-write handlers; server, CLI and worker are separate processes; metered receipts without idempotency; crashes; late validation |
| `Journal` (`requests/journal.ts`) | `data/operations/<id>.json` | register, advance | one signed blob per operation for ever; unknown outcomes |
| `Cycle` (`xrpl/cycle.ts`) | `data/cycles/native.json`, wallets | setup, prepareRequest, refusal, repay, withdraw, fund | multi-step handlers rerun after any failure; conclusive refusals replaced under a new operation ID |
| `AutomaticRound` (`xrpl/automatic-round.ts`, tick in `server/index.ts`) | `data/automatic/<id>.json` | run, approve, tick | a step that throws pauses the round; people and the timer act on one job |
| Execution queue and worker (`hosted/execution-queue.ts`, `scripts/execution-worker.ts`) | job blobs | enqueue, step, saveJob | unconditional overwrite; jobs that never end |
| Adapter, `HealthMonitor` (`xrpl/adapter.ts`, `server/health.ts`) | one client, `identity`, the last observation | connect, prepare, check, view | three users of one connection that also reconnects by itself |
| Bridge (`scripts/bridge.ts`, `bridge/plan.ts`) | `data/runs/<id>/plan.json` | prepare, publish, the native commands, automatic | the hosted request and match change after the plan was bound |
| `HostedIntake` + `IntakeService` (`hosted/intake.ts`, `blob.ts`, `requests/intake.ts`) | shared intake blob | create, review, list | serverless instances on one blob; lost answers; late writes |
| Market (`hosted/market.ts`, `requests/matching.ts`, `hosted/api.ts`) | market blob | offer, match, receipt, decision | two blobs that are never written together; stale request list; expiry |
| Progress, budget (`hosted/runs.ts`, `assistant-budget.ts`) | blobs | publishRun, reserveAssistantCall | conditional writes; limits; order |
| Dashboard (`server/dashboard.ts`) | revisions and fingerprints in memory | snapshot | joined reads; which actions it offers |
| Pages (`web/`) | cursor, role, access, inbox, dialogs, pending copy in localStorage, balances, conversation | refresh, openIntake, submit, applyReview, confirmAction, applyLoan, readWallet, send | answers out of order; uncertain submissions; decisions on what has changed |
| Receipt client (`recognitium/`) | none | issue, verify, recover | lost answers |

Interaction: the pages poll the local server's dashboard or the hosted API, and post
to them. The local server, the CLI (`scripts/native-cycle.ts`) and the bridge call
`LendingService` and `Cycle` under `processLock`; both call the adapter and the
receipt client, and write through `Store`. The timer of the server, and the worker
through the bridge, take one step of an automatic round at a time with the same
handlers. The hosted API calls `HostedIntake` and the market; an accepted match is
carried over to the intake by two more writes. The bridge copies a reviewed request,
and its match, into a local run, and publishes that run's progress.

What makes each component correct:

- *LendingService*: a receipt is charged once; a charge is never forgotten; a blob
  reaches the ledger only when authorised and saved; the phase tells the truth;
  nothing on record is lost; the ledger's verdict is reported in the end.
- *Journal and Cycle*: one blob per operation; nothing is paid or deposited twice;
  steps reach the ledger in order; evidence is what the ledger decided; a yield is
  reported only if it was earned; a verdict is journaled in the end.
- *Automatic round, queue, worker*: no step is taken twice for being taken by two;
  the job never claims more than the records; an outcome is final; an approved
  round settles or stops visibly, unless a process has died and left its lock; a
  signature comes from a command that found plan, match and consent in force.
- *Connection*: a posted action starts only on an identified, fit server; no outage
  leaves the connection unusable.
- *Bridge, faucet*: the accounts approved are those whose keys exist and those of
  the accepted match; no account is provisioned twice.
- *Hosted intake*: whoever is told of success finds it recorded for ever; concurrent
  snapshots change the blob as one caller at a time would; every call ends.
- *Market*: no availability or request is promised twice; what was recorded is
  final; an acknowledged acceptance holds in both blobs.
- *Progress, budget*: publications do not go back; paid calls stay in their limits.
- *Dashboard, pages*: what is shown never goes back and agrees with the ledger; what
  is offered is accepted; a decision is of what was shown; an uncertain submission
  is not made twice.

## 2. Modules

| Module | Models | Kind |
| --- | --- | --- |
| `LoanPromise` | what a loan request promises to its two people, with no file or process in it | abstract specification |
| `LendingService` | every handler of `service.ts` with each await a step, the lock and file of `store.ts` | detailed specification |
| `LendingServiceProperties` | its properties, its refinement mapping to `LoanPromise`, its fairness | properties |
| `RequestView` | the three readings of a request record: dashboard, customer page, journey | operators and properties |
| `Cycle`, `CycleProperties` | the five handlers of `cycle.ts` over `journal.ts` | detailed specification |
| `CycleView` | the operations the dashboard offers on a cycle, what the lender is told | operators and properties |
| `Round`, `RoundProperties` | the automatic round: local timer, hosted queue and worker, bridge, people; its refinement mapping to `LoanPromise` | composition |
| `LedgerAccess` | the shared ledger connection and its three users | detailed specification |
| `Blob` | one object of the hosted store under conditional writes (external) | component |
| `IntakePromise` | what the shared intake promises | abstract specification |
| `HostedIntake`, `HostedIntakeProperties` | `mutate` over `Blob`, `IntakeService` as pure operators | detailed specification |
| `MarketPromise` | what the matching market promises, one command at a time | abstract specification |
| `HostedMarket`, `HostedMarketProperties` | `/api/market` over a `Blob` of its own, composed with `IntakePromise`; its refinement mapping to `MarketPromise` | composition |
| `Preparation` | the bridge's prepare, with its plan and `Cycle.fund` | detailed specification |
| `Publications`, `AssistantBudget` | `publishRun` and the reservation of a paid call, each over a `Blob` | detailed specifications |
| `HostedSite` | the three modules above as one instance | composition |
| `PageSnapshots`, `PageRequests`, `ExactReview`, `PageReadings` | the page's polls, its private side, its dialog for exact actions, what it asks for on demand | detailed specifications |
| `CustomerPage` | the four sides of the pages and their properties | composition |
| `*Proofs` | theorems | proofs |
| `*MC` | instances for TLC | |

### LendingService

`disk` is the request's JSON file, `lock` the process named by `writer.lock`,
`run[p]` the handler of process `p`: the operation, the await it has reached and
its copy `r` of the record. A call is an action that takes the free lock, makes the
handler's checks on the file and copies it. Each later action is the code between
two awaits: `intend` and the other file writes, `seal` and `verify` at the
authority, `lookup`, the bound, `submit`. `callFails` is a rejected remote call
(a charge may have happened), `writeFails` a failed write, `crash` the end of a
process at any await, leaving lock and file as they are; `clearStaleLock` is the
operator's repair. The world around it: `closeLedger` (with validation of a sent
blob up to LastLedgerSequence), `consentExpires`, `sealExternally` (a human seals
a hash handed out by `prepareExternalReceipt`, at any time). `chain` and `issued`
are the truths outside the program that the record must not contradict.
A call naming other hashes is refused and changes nothing, so it is not a step.

`RequestView` translates what three files derive from this record, each by its own
conditions: `funding` and `requestActions` (`dashboard.ts`), `outcome`
(`customer-model.mjs`), `title`, `next` and `done` (`journey-model.mjs`). Wording is
reduced to what is claimed, and the three are compared with each other, with the
ledger, and with what the handlers accept.

### Cycle

`journal` holds the operation files, `record` the cycle file, `handler` the one
handler in progress. Handlers exclude one another by `processLock`; that this lock
is exclusive is part of what is proved for `LendingService` (`OneWriter`), and is
assumed here. `sent` and `verdict` are the ledger's side. Whether an operation's
LastLedgerSequence has passed is the set `passed`: an index would add states and
nothing else, because the code only compares. The ledger's answers respect its own
books (`VaultAvailable`) and may otherwise be a refusal at any time, which includes
sequence conflicts between the accounts' transactions. `registerThrows` and
`advanceCatches` are failing remote calls; `stop` is a crash, a failed write, or a
ledger read that throws outside `advance`. The loan itself is one action,
`fundLoan`, since `LendingService` models it. The repayment's amount is the constant
the ledger asks for; the arithmetic of the top-up is left out, and the faucet is in
`Preparation`. `CycleView` adds `cycleActions` and the lender's outcome.

### Round

A step of `advanceAutomaticRound` is chosen from the files by `NextStep`, in the
code's order, and is one call of `LendingService` or `Cycle`. Those are taken apart
in their own modules; here a call returns, or throws leaving any of the partial
effects that it can leave there: a receipt charged and marked but not stored
(`receipt`), a blob sent but unresolved (`advance`, `operate`). `loan` and `steps`
are what the two files say, `chain` and `issued` what is true. `job` is the status
of `data/automatic/<id>.json` locally (`approveLocally`, `run`, `automaticTick`) and of
the job blob on the hosted site (`enqueue`, `workerSteps`, `workerSaves`), where
`pending` is the status the worker is about to save without condition and `view` the
publication that the run route reads. People take any step in between (`byHandLocally`,
`byHandOnBridge`), `recover` and `prepareExternalReceipt` included, after which a
person has the receipt sealed at any time (`handed`, `sealByHand`). `passes` lets a
deadline pass: the consent, the bound of the transaction, the repayment date, or, on
the hosted site, the request (`intake`) and the match that were planned.

A command runs under the writer lock from its first check to its last write, so most
commands are one step. It is not one step where a check precedes network calls during
which what was checked may lapse: the bridge checks plan and match (`plans`), then
connects, and does its work afterwards (`bridgeGoesOn`); `sign` checks the
approvals and their expiry (`MaySign`) and signs after it has asked the ledger and the
authority (`signsLocally`, `signsOnBridge`). Between these steps `command` is the holder
of the lock, where it is, and, for the property only, whether nothing a
signature rests on had lapsed when it took the lock (`fresh`). All else that people can
do needs the lock; deadlines, the ledger and the worker's own death do not. A process
that dies leaves its lock in `stale` (`callEnds`, `writeJob`, `bridgeEnds`,
`workerDies`): no command begins then, and a tick does nothing at all, until
`clearStaleLock`, the operator's repair, which is not assumed to happen.

### LedgerAccess

`node` is the ledger's server, `connected` and `identity` the adapter's client and
what `connect` has learnt of the server behind it, `ledger` the monitor's last
observation. `task` says what each of the three awaits: a `check` of the health
monitor (no lock), a `tick` and an operator's `post` (under `processLock`, `writer`).
`dialled`, `identified`, `amended` are `connect`, `connectFails` is its disconnect
for all; `asked` is `checkLedger`; `Ready` is the view on which an action is
admitted. `drops`, `reconnects`, `returns`, `restarts` are the world: lost
connections, outages, the client's own reconnection, and a server that comes back
with another build. Which step is taken is left open: that is `Round`.

### HostedIntake and Blob

A put carries the etag that its writer has read. It takes effect only under that
etag, late or never, and its writer learns of it or not: `swapFails` stands for a
conflict, an outage, a timeout and a lost answer alike, because the code cannot
tell them apart. A put given up stays in `puts` and may still land, until another
put does. `mutate` begins a call, `readSettles` is a snapshot that refuses the
input or shows that it has been applied, `readThenPut` computes the new records
and sends them, `confirmed` and `swapFails` end the attempt. `create`, `review`
and their refusals are pure operators on the records.

### HostedMarket

`call` lists the requests once (`api.ts:60`) and the attempts use that list, as in
the code. Commands are refused by `offerRefused`, `matchRefused`, `receiptRefused`
and `decisionRefused`, and applied by `applied`. Amount, duration, balance and
syntax checks, and the check for an existing native run, are a call that may always
fail (`readSettles`). A write that changes nothing is confirmed or fails without
being sent: the store's content is the same either way. After its write an
acceptance goes on with `reread` and `mutate`, which reviews the intake. The intake
is the abstract `IntakePromise` rather than `HostedIntake`, which implements it;
a write that lands after its call gave up is then a broker's review. Callers name
offers and matches that exist, as their IDs are digests.

### Preparation, Publications, AssistantBudget

`Preparation` follows the bridge's prepare from the request's match to the prepared
agreement: `plans`, `lends` (the matched lender's wallet), `binds`, `checksMatch`,
then for each role the awaits of `Cycle.fund` (`generates`, `asks`, `provisions`,
`saves`, `appears`, `adopts`, or `funded` where nothing is left to do), then
`keepsAccounts` and `agrees`. `proposed`, `decides` and `lapses` are the market going
on meanwhile; `stopped` is a crash or a failing call at any await, after which it is
run again from the files. `provisioned` counts the accounts that the faucet made.

`Publications` is `publishRun` with its attempts, for bridges of several runs that
share one document; `facts` are a run's local records, read under that run's lock.
`AssistantBudget` is the reservation before a model call; `granted` counts the calls
really made. Both are writers of a `Blob`. The three meet only in the intake and the
market, which each takes to change at any time, so `HostedSite` puts them side by side
and a behaviour exercises one `part`.

### CustomerPage

`PageSnapshots`: `polls` overlap; `arrives` and `answers` are `Dashboard.snapshot`
with its joined flight, fingerprints and revisions; `receives` is
`SnapshotCursor.accept`; `restart` makes the server count anew. `PageRequests`: role,
access, inbox reads, the review dialog, the submission with its draft, its pending
copy and `stored` (localStorage), `reload`; the server's intake is what
`IntakePromise` promises. `ExactReview`: `exact` is the dialog's copy of what is
reviewed, `sameReview` the page's check against the newest snapshot, `Accepts` the
server's check of the hashes, and `starts` a server started over another directory
that holds another agreement under the same ID. Requests whose timeout has passed
stay in `late` and `abandoned` and may take effect. `PageReadings`: `readings` and
`lookups` are `WalletReadings.read` with the two ledger calls of `readBorrowerWallet`,
`chat.version` is what tells an answer of the guide from one to an earlier conversation,
`register.version` likewise for the receipts. No read depends on what another
reads and dialogs are modal, so a behaviour exercises one `side`.

## 3. Runs

| Run | Instance | Shows |
| --- | --- | --- |
| `lending` | 2 processes, window 2, ledgers 0..4, 2 faults, `FairSpec` | charges, approvals, signature and verdict are safe through crashes and an uncooperative authority; `KeepsPromise`; what is told is true (`ToldTruthfully`) and what is offered is accepted (`OfferedIsAccepted`); `VerdictIsReported`, `LockIsFreed` |
| `cycle_safety` | amounts 4/2/1, 2 faults | `InOrder`, `OneBlob`, `EvidenceIsTrue`, `YieldIsEarned`, `RecordKeepsHistory`, `OfferedUntilRedeemed` |
| `cycle_liveness` | no faults, `FairSpec` | `VerdictIsJournaled` |
| `round` | both deployments, 2 faults; 2 builds, 4 breaks; `FairSpec` | `KeepsPromise` (of `LoanPromise`), `NeverReissued`, `JobIsTruthful`, `SignatureIsAuthorized`, `OutcomeStands`, `RoundSettles`; `StartsIdentified`, `ConnectionRecovers` |
| `hosted_intake` | 2 requests for 1 place, 2 details, 2 callers, 2 attempts, 2 writes under way | `AckIsDurable`, `KeepsPromise` |
| `market_acceptance` | 1 request, 1 offer, 2 callers, 2 attempts | `AcceptanceIsWhole`, `KeepsPromise` |
| `market_allocation` (`HostedMatchesMC`) | 2 requests under review, 3 offers of 2 wallets for 2 places, 2 matches, 5 writes | `NoDoubleAllocation` |
| `hosted_site` | 2 proposals, 3 stops; 2 publishing bridges, 3 writes; 2 racing reservations across an hour, limits 3/2/2 | `OneAccountPerRole`, `PublishedStands`, `GrantedWithinLimits` |
| `page` | 3 polls, 1 restart; 2 requests, 3 reads, 2 posts, 1 reload; 2 agreements, 2 starts; 2 loans, 2 accounts, 3 ledgers, 4 questions | `NeverShowsOlder`, `UncertainIsRemembered`, `DecisionIsOfWhatIsShown`, `AnswersBelong` |
| `recovery_claim`, `refusal_claim`, `eligible_claim` | small | the disagreements of section 5 |

Why the bounds are enough. The lending handlers read one record and make at most
one charge and one submission each, so two processes and two faults reach every
pair of a handler and the failure that precedes it, including a crash during the
repair of a crash; a window of two ledgers puts the bound before, at and after each
await. In the cycle two faults allow a rerun of a rerun, and 4/2/1 keeps the deposit
above the principal and the yield positive, the only comparisons made. In the round
a fault is a crash or a failed write; what a call throws is not counted, so every
step may throw again and again, and two are a death during the repair of the first. Two builds and four breaks are an outage, an upgrade,
a lost connection and a timeout within one check, and one more during the next. In
the intake two callers, two attempts and two writes under way are an applied write
whose answer is lost, an intervening change and a late write at once, and the limit
of one request for two makes the limit bite. In `market_allocation` one caller is
enough, since a write it has given up competes with its next call as another
caller's would; `market_acceptance` has two because the reviews after a write are per
caller. Receipts are switched off in the former: allocation ends before they matter. Its five
writes are two offers, two proposals and one decision, or a third offer after one has
expired; two requests, two matches and three offers of which two are of one wallet are
the least in which each of the three could be promised twice without the others.
In `hosted_site` three stops allow a preparation cut short at the faucet's answer, at
its rerun and at the record; the limits let the total, the hour and the session each
bite first. In `page` three polls are one overtaken by another while a third spans the
restart; two agreements are the one a dialog shows and the one the server holds by the
time the request arrives; four questions are a balance asked for again after another
directory or another choice. `CustomerPageProofs` covers every bound of this run. Limits
of the code (100 requests, 20 runs, 200/60/20 calls, 3 attempts) are constants of the
modules; the configurations say which values stand for them.

The runs that combine modules by `side` or `part` exercise one of them per behaviour.
This loses nothing that the properties relate: none of those modules reads a variable
of another, and what one does to another is an action of the other's environment (a
lost connection is an exception of a step of the round, a snapshot is `refreshed` in
`PageRequests`, the market's decisions are `decides` in `Preparation`).

Symmetry is declared over callers, requests, details, runs and sessions
where no definition distinguishes them, and only in runs without liveness properties.

Deadlock is not checked (CHECK_DEADLOCK FALSE) in `lending` and `recovery_claim`, where
no call is accepted any more once consent has expired before the signature and the
ledger bound is reached; in `hosted_site`, where preparation ends with the agreement and
the other two parts stop at their bounds; and in `page`, where the counters of polls,
reads and posts stop at theirs. The other runs check it.

Every property of a passing run has a mutant: a definition as a plausible bug would
have it (a dropped guard, a record saved too late, a retry that signs again), under
which TLC finds that property violated. They stand above the definition they change.

## 4. Fairness

- Lending: a started handler goes on (every remote call has a timeout, the event
  loop runs), the operator clears a stale lock and repeats submit
  (`README.md`: "Repeat `submit` to look up validation"), and a lookup repeated for
  ever is answered in the end: strong fairness, since each try may fail.
- Cycle: a handler goes on, its 45 s deadline ends a wait, people repeat the
  operation and a repeated lookup is answered in the end.
- Round: the timer fires (`setInterval` in `index.ts`; strong fairness, as a tick that
  finds the lock held throws and the next one tries again), the worker's loop goes on
  and saves, a command that holds the lock comes to an end (its calls have timeouts),
  deadlines pass. Nobody is assumed to clear a lock left by a dead process: while one
  is left the local round does not move, and `RoundSettles` names that as the one silent
  stop. A step that can return is not assumed to throw (`TickGoesOn`, `WorkerGoesOn`),
  since one throw ends the round; that it may throw is in the safety properties. The
  ends that the worker does not know count when the records tell them
  (`ToldByRecords`); see section 5.
- Connection: the health timer goes on (`DASHBOARD_LIVE_CHECKS=1`) and every call is answered or times out.
  `ConnectionRecovers` is conditional on a ledger that in the end stays up, fit and of
  the build the adapter knows; the code owes nothing otherwise.
- Intake, market, hosted site and pages: no liveness is claimed. Attempts are counted
  and every read and put has a timeout, so a call ends by itself; the store owes
  nothing, and a person may stop at any time.

## 5. Disagreements between code and text

Three are findings, each with a run that ends in the violation:

1. `UnresolvedIsRecoverable`: `README.md:155-157` sends an unresolved receipt to the
   recovery endpoint. A failed verification followed by `sign` leaves an agreement
   attempt that the endpoint refuses.
2. `RefusalPrecedesRepayment`: `cycle.ts:177` reads the cycle record, which learns of
   a repayment only with its verdict. After a repayment that timed out the refusal
   is still sent, and may succeed. Likewise after a late repayment, which leaves
   `steps.repay` unset; the vault's balance then differs before and after the refusal,
   and the evidence of the round can no longer be exported (`cycle.ts:178-186` and the
   last check of `evidence.ts`).
3. `AcceptedIsEligible`: `matching.ts:24` refuses to decide on a declined request,
   from a list read before the market's attempts began. A match accepted on the old
   list is final and keeps the availability allocated until it expires.

Met while modelling, and visible in the models though no run is devoted to them:

- `service.ts:126` says expiry prevents a first submission. SUBMITTED is written before
  `submit` is called, so a request interrupted in between is sent for the first time
  by a later call, after expiry (`SentIsAuthorized` holds of it all the same).
- `hosted/intake.ts:13-14` says a retry reconciles a prior success. It does so for the
  last review only: if another review followed, the caller is told "Request changed".
- A round that people repaid and withdrew by hand is reported COMPLETE without a
  refusal on record (`automatic-round.ts:29` precedes `:30`); therefore
  `CompleteIsTrue` asks that no refusal succeeded, not that one was made.
- Any thrown tick, also a failed connection, pauses the round for good
  (`index.ts:38-42`), while `index.ts:152` and `customer.js:295` speak of a saved
  outcome to reconcile; a repeated approval overwrites PAUSED (`index.ts:160`). Receipts
  are not charged twice by this, as `NeverReissued` shows.
- After a crash inside a tick the writer lock stays (`store.ts:30`); every later tick
  throws at `index.ts:32`, before the try that would pause the job, and `index.ts:204`
  swallows it. The job goes on saying that it is worked on, until an operator removes the
  lock. `RoundSettles` therefore ends in `stale # {}` as well.
- `bridge.ts:53` says that changed intake never authorises a new send. A submit by hand
  compares the plan while the phase is SIGNED (`:61-62`); the automatic command does so
  only while nothing is signed (`:58`), and sends a signed transaction on a changed plan.
  No check is repeated after the waits that follow it, so a match may lapse, or consent
  expire, between the check and the signature; `SignatureIsAuthorized` asks that all held
  when the signing command took the lock.
- The worker recognises COMPLETE only. A round that ends REJECTED, EXPIRED_UNRESOLVED
  or YIELD_CHECK_FAILED stays on its list and is started for ever.
- The tick asks only whether the client is connected: after a failed connect and the
  client's own reconnection `identity` is undefined and `prepare` throws, which pauses
  the round. A build change blocks actions if the client reconnected by itself; a later
  `connect` accepts it silently (`health.ts:50-53`).
- The dashboard has dead ends: an agreement attempt unresolved after signing and
  funding leaves neither receipt button; a crash between creating and binding a request,
  or between the withdrawal's step and its yield, leaves no operation (`CutShort`).
- A pending match that has expired can never be declined and blocks prepare ("Multiple
  active matches", `bridge.ts:35`, `:37`); a plan without a match can be bound before one
  is proposed and accepted; an accepted match that lapses first cannot be prepared.
- Actions other than approve are sent by request ID, without the hashes that were shown;
  `DecisionIsOfWhatIsShown` speaks of reviews and approvals. A submission that was refused
  conclusively keeps the page's pending copy for ever. Two tabs share one
  localStorage key; the model has one tab.
- The market panel has none of the guards of `PageReadings`: a refresh under way when an
  offer or a decision is sent may answer after it and show the market as it was, until
  the next refresh (`market.js`).

## 6. What is proved

Eight modules hold the proofs; all hold for every value of the constants under the
assumptions named in the modules that declare them.

`LendingServiceProofs`, for any set of processes, window, ledger bound and number of
faults: `TypeOK`, `ChargedAtMostOnce`, `ChargeIsOnRecord`, `SentIsAuthorized`,
`PhaseIsTruthful`, `NothingForgotten`, `NeverRewinds`, `ToldTruthfully`,
`OfferedIsAccepted` (the requirements that each handler makes have names in
`LendingService`, so the dashboard's conditions are compared with those), and that the
service implements `LoanPromise` (`KeepsPromise`). None is inductive. `IInv` adds to the
types: `OneWriter` (only the process named by the lock is inside a handler, so a
copy is never older than the file but for its own writes); `Coherent` (what one
record says about itself); `Charges` (the file accounts for every charge, and for
every handoff that has not been used, which is why a service-side issuance and a
human cannot both happen); `SendIsSaved` (the file knew of the blob first);
`Handlers` with `Extends` and `AtAwait` (what a handler has established at each
await, and that writing its copy forgets nothing); `HandoffIsMarked`. Each action
preserves it, one lemma per group of actions. The refinement needs one more,
`StepInv`: a handler's copy is at most one step of the promise ahead of the file
(`OneMore`), and never a lower phase, so that each write is one step of `LoanPromise`.

`CycleProofs`, for any amounts and faults: `TypeOK`, `InOrder`, `EvidenceIsTrue`,
`RecordKeepsHistory`, `OneBlob`, `OfferedUntilRedeemed`, and `YieldIsEarned` under
`Interest <= Deposit` (otherwise a refusal that moved the deposit would look like profit
to `cycle.ts`). The invariant: `JournalIsSound` (what was signed had all it needs, and the
journal repeats only the ledger), `LedgerIsSound`, `IsTrue` of the record and of the
handler's copy (`CopyIsTrue`), `OperationIsDue` and `PlaceIsRight` (what the handler at
each await has established). `SetupIsKnown` adds that a record which knows anything
later knows the deposit; without it the operator could be left without a button.

`RoundProofs`, for any number of faults and both deployments: `TypeOK`, `NeverReissued`,
`JobIsTruthful`, `SignatureIsAuthorized`, `OutcomeStands`, and that `Round` implements
`LoanPromise`: the calls that `Round` takes as one step each, with their partial effects,
promise what `LendingService` is proved to promise await by await. `Facts` relates the two files
to the ledger and the authority (`ChargesAreOnRecord`, `HandedAreMarked`, `StagesFollow`,
`CapitalIsTracked`) and is kept by every step whoever takes it; `JobFollows` says what
the job, the worker's unsaved status and the publication say of the files.
`CommandFollows` says what the holder of the lock has established at each wait: a
command on its way to a signature was fresh when it began, unless the consent has passed
since, in which case `MaySign` refuses it. The theorems are about `Round!Spec`; the run takes the same steps where its `side` is the round.

`LedgerAccessProofs`: `StartsIdentified`, from the types and the await that an
operator's action can be at. It speaks of posted actions; a tick of the timer reads no
identity before it begins (section 5).

`HostedIntakeProofs`, for any requests, details, callers, limits and attempts:
`HostedIntake` implements `IntakePromise`, and `AckIsDurable`. Its invariant says that a
write whose etag is still current carries exactly the records that one accepted input
makes of the present ones (`PutsAreCurrent`, `SwapsAreCurrent`), that the last review noted
in a request is in its history (`Sound`), and that whatever a caller may be told of next
has been applied (`LandedIsApplied`). `LandingIsOneInput` reduces every landing write to
one accepted input, and `AcceptedIsPromised` maps that to a step of the promise.

`HostedMarketProofs`: `NoDoubleAllocation`, `AcceptanceIsWhole`, that nothing recorded is
erased or reversed (`HistoryIsFinal`), and that `HostedMarket` implements `MarketPromise`
(`KeepsPromise`). `MarketIsSound` says of the blob and of every write still under way that they are
`Single` (nothing promised twice) and `Whole`, and that a write whose etag is current is
`Later` than the blob; `CallersKnow` and `AckedHold` carry an acceptance from the market
to the intake through the reviews that follow it. The refinement adds `PutsArePromised`:
a write whose etag is current is one command of the promise, taken on what the blob holds
now (`Promised`). An offer that lapses after the write was sent only frees what the
command needed to be free, so the write is still promised when it lands.

`HostedSiteProofs`, each for any number of runs, callers, attempts and limits:
`OneAccountPerRole`, `PublishedStands`, `GrantedWithinLimits`. `WalletIsSound` counts the accounts of a role by
what its wallet file says, `PlanIsSound` ties a bound match to the market's decision,
which is final, `AccountsAreSound` and `PlaceIsRight` carry both to the record. `ProgressInv`: a write whose etag is current
holds all that is published, and a write that landed is still published or was replaced
by a later version of its run, so what a bridge confirms stays. `BudgetInv`: the calls
made and the reservations that landed but were not yet answered are together within the
shared count, of which every current write is one more; the calls are counted by
`Cardinality`, with the lemmas of FiniteSetTheorems. It assumes `BudgetAssumption` (the
limits are numbers).

`CustomerPageProofs`: `NeverShowsOlder` (`SInv`: no poll that the cursor would still accept
can be answered with older content than is shown; `IInv`: the same of inbox reads by
session and ticket), `UncertainIsRemembered` (`PInv`: whatever was sent without a seen
outcome is the pending copy, in memory or stored), `DecisionIsOfWhatIsShown` (`EInv`:
what is on its way carries what its dialog showed; reviews and exact approvals, not
submissions), `AnswersBelong` (`WInv`: a lookup
under way keeps its key busy and is of a ledger no older than what is kept).

Every invariant and every action property that a passing run checks is proved. Only
model-checked: liveness (`VerdictIsReported`, `LockIsFreed`, `VerdictIsJournaled`,
`RoundSettles`, `ConnectionRecovers`), which is out of this prover's reach.

## 7. What is left

- `LendingService` and `Cycle` under one lock in one instance: each takes the other as
  one action now, and `Round` takes both as calls with their partial effects.
- `HostedMarket` over `HostedIntake` itself rather than over the promise that it is
  proved to implement.
- Two tabs of the customer page over one localStorage; the market panel
  (`web/market.js`).

## 8. Not modelled, and why

Rendering, routing, authorisation and wording. Digests, canonical JSON and signatures
(computations on data: the models take a digest to be what it identifies). The hash
chain of receipts, and exports and offline verification of bundles (`evidence.ts`, `verify`:
pure functions of finished files). The templates of transactions and the arithmetic of
the top-up. The language model behind the assistant: its answers are valid
or not. Argument syntax of the command-line tools. `docs/app/` holds
build copies of `web/`, which is what the models follow. Display-only health checks of
the receipt service and the hook, which change nothing else. Schema checks of inputs,
which refuse before any state is read, are a call that may always fail.
