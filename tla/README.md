# Verification of the Hunch funding core

Hunch is one front end to several prediction-market venues (Polymarket,
Limitless, Kalshi through DFlow). Its core is *funding*: moving a user's cash
from where it is to the venue where a trade is to be made, and keeping, over
crashes, lost answers and concurrent requests, the promise that cash moves once,
buys once or comes back, and that what arrives is credited and converted once. This directory holds TLA+ models of that core, TLC
instances that check them, and TLAPS proofs about them.

Every statement of the code lives in a PostgreSQL transaction, so the unit of
interleaving in all modules is a transaction, an external call (a venue, a
provider, a chain, a wallet) or a tick of a clock.

- [1. Inventory](#1-inventory)
- [2. Plan](#2-plan)
- [3. The modules](#3-the-modules)
- [4. The runs](#4-the-runs)
- [5. Fairness](#5-fairness)
- [6. The proofs](#6-the-proofs)
- [7. Findings](#7-findings)
- [8. Not modelled, and what is next](#8-not-modelled-and-what-is-next)

To check: `tlc -config <cfg> <module>` for each row of section 4 and
`tlapm <module>` for each module named `*Proofs`.

## 1. Inventory

Paths are relative to `src/apps/api/src/` unless they start with `src/`.

| component | where | state it keeps | operations | what is hard | correct when |
|---|---|---|---|---|---|
| **Reconciliation queue and worker pass** | `funding/persistence/funding-operation-repository.ts`, `funding/reconciliation/funding-reducer.ts` | `funding_reconciliation_jobs`: status, due time, lease token, lease deadline; the status cache of `funding_operations` | wake, claim, finish, renew; `processLease`; repair of stopped operations | two passes on one operation after a lost lease; evidence that arrives between reduction and finish; crash between claim and finish; a refused finish inside a catch block | a lease is ended by its holder only; evidence that woke the job is reduced at last; a job never sleeps for ever |
| **Trade attempts** | `funding/persistence/funding-trade-attempt-repository.ts`, `funding-evidence-repository.ts`, `services/api-trading-service.ts`, the venue services and the two attempt reconcilers | `funding_trade_attempts` (state, claim token, claim lease), the settled `balance_reservations` row and its consumer | claim, reclaim, mark started, outcome, link and consume, abandon, expire, exact-status and evidence-only reconciliation, order sync | two orders against one reservation; a request that outlives its claim; a lost answer; an order that is not found yet | the money buys once or comes back, never both, and never comes back while it may still buy |
| **Source lanes** | `funding/execution/*-submission.ts`, `solana-preparation.ts`, `operation-action-runtime.ts`, `step-receipt-reconciler.ts`, `funding/lifecycle/funding-lifecycle-projector.ts`, the evidence and receipt repositories | step attempts (outcome, preparation lease, reference, receipt), source reservations, the operation's manual-recovery flag | start, admit, post, record the result, register, report, cancel, close a lapsed lease, expire a wait, resolve by provider, receipts, movement observations, reduction | replay of a submission after a lost answer; a lease that lapses while it is used; siblings whose reports arrive in any order; "expired" transactions that land | a lane's cash moves once; its reservation stays as long as a transfer may land; unused cash is freed |
| **Source admission and shared capacity** | `commitFundingOperationInTransaction`, `funding/planner/runtime-service.ts`, `funding/planner/source-reservation-capacity.ts`, `account-value/*`, `services/wallet-balance-observation.ts` | `funding_operations`, `funding_quotes`, reservations; the process's balance memo; the connection pool | commit with three locks, capacity check, replay, conflict | locks held over a read through another connection; a cached balance older than the evidence subtracted from it; pool exhaustion | operations that share a source are covered by its cash; a repeated commit is answered, not failed |
| **Receive sessions and deposit scanners** | `funding/persistence/funding-receive-session-repository.ts`, `funding/receive/receive-session-observer.ts`, `evm-receive-event-scanner.ts` | sessions (status, `closed_at`, windows, opening time), one scan cursor per session, receipts; a poll's batch in memory | open, expire, cancel, claim, scan and persist, settle | several sessions show one address; each scans at its own pace; opening races with the settlement of old work; a poll outlives the row it read | one address is open; a closed one stays closed; no deposit ends up behind every cursor |
| **Classification of incoming transfers** | `funding/receive/receive-session-observer.ts` (`persistCanonicalEvents`), `funding-evidence-repository.ts`, `owned-route-destination-observer.ts` | the canonical event table (verdict, error code, session), handoff attempts, routes | match with a handoff by envelope or transaction, hold for a route, allocate, suppress, quarantine, refuse | the same event read by several sessions before and after it is explained; a lost answer of a handoff | a transfer gets one verdict, for ever; the program's own is not a deposit |
| **Receipt router and reviews** | `funding/receive/receive-receipt-router.ts`, `receive-session-service.ts`, the receive session repository | receipts (status, child, plan, quote, tries) and their child operations; a pass's list in memory | list, create, record, defer, settle; quote, commit, give up a review | two passes with lists of different age; a receipt detached and bound again; a review committed beside a pass | a deposit is converted by one child at most; a receipt without a route is given up in the end |
| **Delegated executor** | `funding/execution/delegated-funding-executor.ts`, `privy-delegated-funding-driver.ts` | the child's attempt row; the worker's claim, a compare-and-set on the time of change | claim, reject, recover, cross the boundary, call, resolve, look up | a worker dies between the commit of the boundary and the answer; two recover one attempt | what may have been sent is on record; an attempt gets an outcome |
| Telegram and router continuations | `funding/reconciliation/telegram-router-continuation*.ts`, `services/telegram-funding-buy-continuation.ts` | parent and continuation operations, buy intents | commit continuation, hand over, release the parent | a parent released while its balance trades | balance handed over once |
| Planner and policies | `funding/planner/`, `funding/policies/` | none (quotes are rows) | quote, choose routes, prepare a commit | data, not order | plans satisfy the policy |
| Venue preparation and position actions | `funding/preparation/`, `funding/position-actions/` | runs with leases | prepare, redeem, claim | leases, retries | one run at a time |
| Relay and other providers | `funding-providers/relay/` | none | build and validate steps, poll status | the provider's answers | answers validated before use |
| Account value | `account-value/` | none (memoised reads) | project balances, reservations, debits | consistency of several reads | cash is not promised twice (the slice that commits use is modelled) |
| Trading services and venue adapters | `services/*-trading-execution-service.ts` | orders | build, sign, place, sync | venue answers | the funding slice is modelled |
| Telegram bots, rewards, social, content, research | `services/`, `routes/` | many tables | product features | I/O | outside the money path |
| Accounts, authentication, admin | `auth.ts`, `routes/admin.ts` | sessions, users | single statements | | |
| Finance worker scheduler | `src/apps/finance-worker/src/scheduler.ts` | timers, process-local locks | run interval jobs | a job that times out is retried while its first run goes on | one run of a job at a time |
| AI worker; venue indexers; market matcher; Telegram preview | `src/apps/*` | caches of venue data | ingest, match, generate | upserts | outside the money path |
| Shared packages; contracts; operations | `src/packages/`, `src/ops`, `src/scripts` | migrations, pool wrappers, Solidity | | | the helpers the modules rest on are mapped |

How the modelled parts interact:

```
  chain ──► scan ──► classify ──► receipt ──► router ──► child operation
              ▲      (own transfer?)            ▲            │        │
        receive session ◄── derived status ─────┘     executor    wallet
                                                             │        │
  commit ──► funding_operations + reservations + first wake  │        │
               │                     ▲                       │        │
               ▼                     │ released / consumed   ▼        ▼
  lanes: start ► admit ► post ► receipt / observation ──► wake(job) ◄─┘
               │                                             │
               ▼                                             ▼
       settled reservation ◄── reduce ◄── pass ◄── claim ◄── queue
               │
               ▼
  trade: claim ► start ► send ► accepted/ambiguous ► reconcilers
```

Money comes in at the top: a scan of a `ReceiveSessions` session finds a
transfer, `CreditClassification` tells whether it is a deposit, the receipt of a
deposit is converted by a child operation that `ReceiptRouting` creates and that
the user's wallet or the `DelegatedExecutor` executes. It goes out at the
bottom: `SourceCapacity` creates the operation whose lanes `SourceLanes` moves;
what the lanes' rows imply is decided in a reduction, which a pass of
`ReconciliationJobs` runs when evidence has woken the operation's job; the
settled result of a completed route is the reservation that `TradeAttempts`
spends.

`DelegatedExecutor` is composed with `ReceiptRouting` (it extends it; both write
the child's life). The other modules meet at stated promises instead of being
composed into one state machine: `SourceCapacity` uses of an operation only what
`LaneCash` says (`Land`, `Release`), `SourceLanes` uses of the queue only that
passes recur, `ReconciliationJobs` abstracts a reduction to the verdict it
gives, `CreditClassification` uses of the sessions that a poll is atomic, which
the version of the session row in `ReceiveSessions` makes it (a stale poll only
rolls back), and `ReceiveSessions` uses of the router only which status a
receipt can be given. Their product would be far beyond exploration, and none of
the properties below relates states of two of them that a promise does not
carry.

The hazards of this code, each at its line with the properties that would catch
it, are listed in `PROJECT.json`. Their order gave the order of the modules.

## 2. Plan

1. `ReconciliationJobs` and the promise `EvidencePromise`: everything else
   relies on evidence being reduced. *Done, proved.*
2. `TradeAttempts` and the promise `FundedPurchase`: the last step, where money
   becomes a position. *Done, proved.*
3. `SourceLanes` and the promise `LaneCash`: where money leaves. *Done, proved.*
4. `SourceCapacity`: how operations are admitted to shared cash. *Done, proved;
   the sums of amounts rest on the laws of `SumLaws`.*
5. Receive sessions and classification: `ReceiveSessions`,
   `CreditClassification` and the promise `DepositLedger`. *Done, proved.*
6. Router and delegated executor: `ReceiptRouting`, `DelegatedExecutor` and the
   promise `DepositConversion`. *Done, proved.*
7. Parent and continuation operations: hand-over of a settled balance while a
   trade attempt may have started on it; composes with `TradeAttempts`.
8. Preparation and position-action runs, and the finance worker's scheduler
   (two small lease protocols).
9. More admission: sources known by several aliases, plans over several sources
   and the order in which their locks are taken.

Abstract specifications worth stating: the five above and, for 7, one for a
balance that is handed from operation to operation. Theorems worth proving next:
the refinement of 7, and for 9 that locks taken in a total order never form a
cycle (`NoCircleOfLocks` is that statement for one source).

## 3. The modules

| module | kind | about |
|---|---|---|
| `EvidencePromise` | promise | recorded evidence is reduced at last, or the work is stopped and published |
| `ReconciliationJobs` | model | the queue and the pass; implements `EvidencePromise` |
| `FundedPurchase` | promise | settled money buys once or comes back |
| `TradeAttempts` | model | attempts on one settled reservation; implements `FundedPurchase` |
| `LaneCash` | promise | a lane's cash moves once, and never after it was given back |
| `SourceLanes` | model | lanes of one operation; implements `LaneCash` |
| `SourceCapacity` | model | commits against one physical source |
| `ReceiveSessions` | model | the sessions of one address, their scans and receipts |
| `DepositLedger` | promise | a transfer gets one verdict, once |
| `CreditClassification` | model | deposits and the program's own transfers told apart; implements `DepositLedger` |
| `DepositConversion` | promise | a deposit is converted by one child at most |
| `ReceiptRouting` | model | router passes, reviews and the life of a child |
| `DelegatedExecutor` | model | executor workers, composed with `ReceiptRouting`; implements `DepositConversion` |
| `MC*` | TLC | symmetry sets and constant values of the model they extend |
| `*Proofs` | TLAPS | the theorems of the model they extend |
| `SumLaws` | TLAPS | laws of sums over sets (`SumFunctionOnSet`), for `SourceCapacityProofs` |

In each model the operators marked `mutant:` are wrong versions of the operator
below them, kept to show which property notices the bug.

### ReconciliationJobs

One row per operation: `job[o]` with the status, the due time (past, future, or
the `infinity` that a claim writes), the token and whether the lease deadline is
ahead. `verdict[o]` is what `deriveFundingLifecycle` would derive from the facts
now, `cached[o]` what was last materialised in `funding_operations`,
`pending[o]` the evidence no reduction has seen: *loud* if it came with a wake
that may change the due time of a live lease, *quiet* if it was recorded with
`wakeDuringLease: false`. `pass[p]` is one run of `processLease` or of
`recoverStoppedFundingOperations`.

| code | action |
|---|---|
| `wakeFundingReconciliationInTransaction` | `Woken`, inside every `Record` |
| `claimFundingReconciliationJobsInTransaction` | `Claim` |
| `finishFundingReconciliationLease` (completed with a wake reschedules, requeue keeps the earlier due time, dead letter escalates) | `Finish`, `FinishRefused` |
| `processLease`: lapsed preparations, load, unbroadcast wait, polls, reduction, disposition, timeouts, reorg incident | `CloseExpiredPreparations` … `DecideTimeout` |
| its catch block, from any await | `Throw`, `CatchTimeout`, `CatchError` |
| `markFundingOperationRecoveryRequiredInTransaction` | `MarkRecovery` |
| `recoverStoppedFundingOperations` | `RepairClaim` … `RepairReduce` |
| reports, scanners | `Report`, `ScanDestination` |
| clocks, process death | `LeaseRunsOut`, `ComesDue`, `OperationExpires`, `Crash` |

A pass draws the worker identity from nowhere, because no statement compares it.
Renewal extends a live lease and is a stutter here. New evidence may move the
verdict to any value: the queue must be correct whatever the projector says.

### TradeAttempts

One reservation, because every transaction involved locks the operation and the
reservation first. `attempt[k]` is the row of the exact signed order `k` (which
is also its idempotency key): the state and the holder of a *live* claim lease.
`venue` and `flight` are the venue's side; `req[r]` is a running handler or
reconciler pass. The three execution paths differ: a Limitless CLOB order can be
looked up exactly and closed as absent once old enough; a Polymarket order can
only be found, never proved absent; an AMM trade is sent by the browser and
reports through its own endpoint, the server never reconciles it.
`kalshi_dflow` attempts take the same statements as the AMM path and are not
modelled apart.

| code | action |
|---|---|
| `claimFundingTradeAttemptInTransaction` | `ClaimNew`, `Reclaim` |
| `markFundingTradeAttemptSubmissionStartedInTransaction` | `MarkStarted` |
| `recordFundingTradeAttemptOutcomeInTransaction` with the abandonment | `FailAndAbandon` in `PreSubmitFailure`, `Rejected`; `NotBroadcast`, `RecordAmbiguous` |
| `consumeFundingReservationForLinkedConsumerInTransaction` | `Consume` in `StoreOrder`, `StoreFound`, `OrderSync` |
| `releaseFundingReservationForAbandonedTradeInTransaction` | `Abandoned` in `Abandon`, `ProveAbsent`, `ProveRefused` |
| the claim statements of the two reconcilers | `Lease` |
| the exact-status and the order-evidence lookup | `Lookup`, `LookupEvidence` |
| `attachRecoveredPolymarketAttemptOrderInTransaction` | `Attach` |
| `expireSettledConsumerReservation` | `ExpireReservation` |

`SlowRequests` are the handlers that may take longer than the 15-second claim
lease between claim and start. The code lets them (nothing renews the lease);
which properties survive them is part of the result. A definitive rejection is
taken to be one.

### SourceLanes

Several lanes of one operation, each with one money-moving action, one of four
submission protocols (`embedded`, `safe`, `solana`, `client`), attempts, and the
reservation of its cash. `posts` and `fate` are the world: how often an attempt
was sent and what became of it. The lifecycle projector is written as operators
over the attempt rows (`Actionable`, `Status`, `Freed`), the handlers as actions
that write a row and, where the code reduces in the same transaction, apply
`Reduced`.

| code | action |
|---|---|
| `startFundingStepAttemptForUserInTransaction` | `Start` |
| `admitEmbedded…`, `admitSafeFundingSubmissionInTransaction` | `Admit` |
| `submitEmbeddedFundingAction`, `submitSafeFundingAction` | `Post`, `Reply`, `RequestDies` |
| the report endpoint by protocol and outcome | `Register`, `ReportSubmitted`, `ReportUnknown`, `ReportStopped` |
| `cancelFundingOperationForUser`; `expireUnbroadcastActionWait` | `CancelWaiting`; `ExpireWait` |
| `closeExpired…PreparationsInTransaction` | `CloseExpired` |
| `releaseExpiredUnusedSourceReservations` | `ReleaseExpiredUnused` |
| provider resolution; receipts; observations | `ResolveProvider`; `Receipt`; `ObserveMovement` |

Left out: dependencies between actions and approvals, evidence timeouts (they
release nothing that `ReleaseExpiredUnused` does not), mismatched receipts and
reorgs of finalized receipts, consumers and receive sessions; delegated lanes
are `DelegatedExecutor`'s. The browser is honest, though it may stop at any point. Every lane is
independent in the projector's sense (`independentLane`: a route leg of its own
and no dependency, so it may be started while a sibling is uncertain); a plan
that chains its lanes allows fewer starts than the model.

### SourceCapacity

Quotes over one physical source, committed by concurrent transactions.
`req[r].pc` says which locks a transaction holds: the advisory lock of its
idempotency key, its quote's row, the advisory lock of the source. An unheld
source is reserved on the quote's own balance; a held one only after the account
has been collected again, which goes through the process memo (`memo`) over a
second connection of the same pool. `Available` is the account projection: raw
balance, less active reservations not yet debited, less debits newer than the
balance. The environment is what an operation does with its cash (`Land`,
`RecordDebit`, `RecordCredit`, `Release`), restricted by what `LaneCash`
promises.

The proofs need the set of quotes to be finite, so that a set of them has a sum
(`QuotesAssumption`); a table never has infinitely many rows.

`FenceQuotes` are plans that also reserve a credit still to come; they are only
admitted to an unheld source. `Withdrawals` are the plans that send the source's
own asset straight out: the check holds them to their amount only, every other
plan also to the fee reserve (`Fee`). The user-row lock is not relied on.
`QuickCredits = FALSE` is an assumption about the deployment: no credit becomes
final while a balance read that is older than its transfer is still in use (the
memos keep a read for up to five seconds each). With `TRUE` the main invariant
fails (section 7). One component and one alias per source; other reservation
modes, open-order locks and outside spending are left out.

### ReceiveSessions

All sessions of one user and destination show the same physical address, so a
deposit may match several. Every transaction runs under the lock of that scope,
which is why each is one action. `born` and `start` are what the request reads
before it takes the lock: the clock and the height of the chains, here in one
step (`Ask`), with the insertion (`Open`) at any later time, in any order.
`window` is the time until `expires_at` and `observe_until`; all windows have the
same lengths. `poll[w].fresh` stands for the version of the session row that the
poll compares when it persists.

| code | action |
|---|---|
| `initializeFundingReceiveEventCursors`, then `createOrReuseFundingReceiveSession` (supersede, pause, conflict) | `Ask`, then `Open` with `Replaced`, `Paused`, `HoldsLease` |
| `expireFundingReceiveSessions`; `cancelFundingReceiveSessionForUser` | `Expire`; `Cancel` |
| `claimObservableFundingReceiveSessions` | `Claim` with `Observable` |
| `persistCanonicalEvents`: target selection, allocation, disposition, cursor, derived status | `Persist` with `IsTarget`, `Disposition`, `Effective` |
| a failed or overtaken poll, process death | `Abandon` |
| link, settle and review statements of the router and the sweep | `Link`, `Settle`, `Refuse` with `Refreshed` |
| blocks, time | `Mine`, `Elapse` |

Left out: the observation by balance difference, the queries that choose which
receipts a sweep looks at, nodes that lag behind the height they reported.

### CreditClassification

The same poll seen from the event table. An event is a deposit, the transfer of a
handoff the wallet sends (`Sent`, matched by `Envelope` until its transaction is
known) or the delivery of a route (`Deliveries`). `attempt[x]` is the handoff's
row: `started`, then `referenced` with its transaction, `unknown` when the answer
was lost, `enriched` when an unknown one is named later, `dropped` when nothing
was sent. `verdict[e]` folds `allocation_status` and `allocation_error_code`.

| code | action or operator |
|---|---|
| the attempt's start and the three kinds of report | `BeginHandoff`, `Report` |
| `deriveFundingLifecycle` over the operation's other actions | `OperationEnds`, `OperationResumes` |
| the route's polls of its provider | `RouteStarts`, `RouteEnds` |
| candidates by envelope and by transaction, the two quarantines | `Candidates`, `ManyEvents`, `Class` |
| the correlation hold, its backlog | `RouteClass`, `Backlog` |
| `claimFundingReceiveCanonicalEventAllocation` | `Ruling`, `Credited` |
| the poll as a whole, and the verdict that makes it throw | `Poll`, `Refused` |

`ended[x]` says whether other actions of the handoff's operation have made it
terminal, as its lifecycle is derived: never, now or before. A started attempt is
no candidate while its operation is terminal. `Joined` are the handoffs whose
operation has such actions.

Left out: several assets and routes, key rotation of encrypted references, the
overflow of the handoff lookup.

### ReceiptRouting and DelegatedExecutor

`receipt[r]` is the row: status, child, whether a review is planned, whether a
quote is attached, how often a disposition was recorded (`tries`: each record adds
one to what the row has by then, though the limit was compared with the count that
was listed). `seen[w]` is what a pass listed,
with the broadcast flags of that moment, and the lifecycle it reads later.
`life[c]` is what the projector derives for the child, `wire[c]` its transfer.
The child of a web receipt is executed by the user's wallet, with one action per
step (module `SourceLanes` has the protocols); that of a Telegram receipt by
executor workers.

| code | action |
|---|---|
| `listFundingReceiveReceiptsForRouting` | `List` with `Due`, `Begun` |
| `createExactChildOperation`; disposition; deferral | `Create`; `Record`; `Defer` |
| `loadFundingReceiveChildOperationLifecycle`, `settleFundingReceiveReceiptRouting` | `ReadChild`, `Settle` with `Outcome` |
| `setFundingReceiveReceiptReviewQuote`, `commitReview`, the spent-review sweep | `Quote`, `CommitReview`, `GiveUpReview` |
| the web child | `ClientStarts`, `WalletSends`, `ClientReports`, `Cancel` |
| evidence; manual recovery | `Observe`; `Escalate` |
| `claimPolymarketRouterInTransaction`; rejection; recovery by compare-and-set | `ClaimAttempt`; `RejectAttempt`; `Recover` |
| the two retry intervals | `Lapse` |
| the boundary decision: crossed, or void | `Cross`, `Void` |
| `submit`, `recover` of the driver | `Inspect`, `Call` |
| `resolveAmbiguousProvider…`; `lookupProviderReferences` | `Resolve`; `LookupReference` |
| pause, lost answer, process death | `Drop` |

`SlowCalls = FALSE` is an assumption about the provider: a call ends within the
five minutes after which another worker may replay its attempt. With `TRUE` the
refinement still holds (and is proved); `CalledIsOnRecord` does not. An evidence
timeout leaves the receipt waiting; only a manual review is `stuck`. Left out: the
executor's other profiles (Relay cleanup, trade shortfall), what its checks look
at, the pricing of a route.

## 4. The runs

| run | module, cfg | properties | bounds | states |
|---|---|---|---|---|
| `jobs_safety` | `MCReconciliationJobs`, `JobsSafety` | `TypeOK`, `LoudEvidenceKeepsItsJob`, `ReducedCacheIsCurrent`, `LiveLeaseEndsByItsHolder` | 1 operation, 2 passes, 3 tokens, 1 fault | 960 090 |
| `jobs_liveness` | `MCReconciliationJobs`, `JobsLiveness` | `PromiseIsKept`, `StoppedEvidenceIsRepaired` | 1 operation, 1 pass, 2 tokens, 1 fault | 41 722 |
| `trades` | `MCTradeAttempts`, `Trades` | `TypeOK`, `OneOrderPerReservation`, `OrderIsTracked`, `UncertainTradeKeepsReservation`, `OutcomeIsFinal`, `ImplementsPurchase`, `LiveOrderIsLinked`, `UnusedFundingIsReturned` | 3 requests, one trade per path, 2 faults, no slow request | 84 088 |
| `trades_orphan` | `MCTradeAttempts`, `TradesOrphan` | `AcceptedTradeIsNotReturned` *violated* | the same | |
| `lanes_safety` | `MCSourceLanes`, `LanesSafety` | `TypeOK`, `OneTransferPerLane`, `SubmittedLaneKeepsItsCash`, `StoppedWasNotSent`, `ImplementsLaneCash` | 2 lanes, any two of four protocols, 2 requests, 2 attempts | 1 199 467 |
| `lanes_liveness` | `MCSourceLanes`, `LanesLiveness` | `UnusedCashIsFreed`, `LandedIsSettled` | 2 lanes, embedded and solana, 1 request, 1 attempt | 62 536 |
| `lanes_sibling` | `MCSourceLanes`, `LanesSibling` | `SiblingReportKeepsCash` *violated* | 2 client lanes | |
| `capacity` | `MCSourceCapacity`, `Capacity` | `TypeOK`, `SharedHoldsAreCovered`, `AvailabilityIsReal`, `AdmittedRequestIsFirst`, `CommitEnds` | an ordinary quote, a fence and a direct withdrawal of 1, 2 and 3, cash 4, fee 1, 2 keys, 2 requests, 2 connections | 258 776 |
| `receive` | `MCReceiveSessions`, `Receive` | `TypeOK`, `OneOpenAddress`, `NothingIsPassedOver`, `ClosedAddressStaysClosed`, `DepositIsCredited` | a web and a Telegram session, 2 deposits, 2 blocks, 1 observer | 201 904 |
| `classify` | `MCCreditClassification`, `Classify` | `TypeOK`, `KnownHandoffIsNotADeposit`, `ImplementsLedger`, `EventIsDecided` | 2 sessions, 2 handoffs of one amount, one of them sent, the operation of one with other actions, 1 deposit, 1 delivery, 2 blocks | 158 253 |
| `classify_unknown` | `MCCreditClassification`, `ClassifyUnknown` | `HandoffIsNotADeposit` *violated* | the same | |
| `routing` | `MCDelegatedExecutor`, `Routing` | `TypeOK`, `CalledIsOnRecord`, `TriesAreLimited`, `ImplementsConversion`, `AttemptIsDecided` | 1 receipt, web or Telegram, 2 children, 2 passes, 2 workers, a limit of 2 tries | 256 040 |

Why the bounds are enough for what the runs are meant to show:

- *Jobs.* Operations share nothing but the order in which they are claimed, so
  one is enough. Two passes give the case the fencing exists for (a stale pass
  beside the holder); three tokens are one for each and a fresh one for the next
  claim. One fault may be a throw, a crash or an outage at any point;
  leases run out and wakes come without bound. The liveness run has one pass,
  with which faults and lost leases still interleave with everything else.
- *Trades.* With one trade per execution path, and so one order of each kind,
  any two of them compete for the reservation. Three requests let a stale
  handler, its successor and a reconciler be active together. Faults count
  crashes and reconciliations that outlive their lease; two let the recovery of
  a crash crash. Lost answers (`Throws`) are not bounded.
- *Lanes.* Two lanes give siblings; the protocols are chosen in `Init`, so every
  pair is explored, equal ones too. Two attempts give a retry whose predecessor may still
  land; two requests give the race and the replay of an admission. The liveness
  run takes the two leased protocols with different senders and one attempt: a
  retry restarts the same argument.
- *Capacity.* The cash falls short of what the three quotes ask for together:
  two commits race for the remainder of a held source. The ordinary quote fits
  beside the fence with the fee; the withdrawal fits beside the ordinary quote
  only without it, and takes the last of the cash. There are as many requests as connections, the smallest case in which all
  connections could be held by transactions that wait for one more. (The price: a
  commit that collects the account never runs beside another one that holds a
  connection; what such a pair could read is what the source lock excludes, and
  the proofs of `SourceCapacityProofs` do not depend on the pool.)
- *Receive.* Two sessions of different channels give every way one replaces
  another. Two blocks put a deposit before, between and after the two scans, and
  let a cursor stop in between; one deposit is routed and one credited at once.
  Observers share nothing but rows, and a stale poll only rolls back, so a second
  observer repeats what `Abandon` shows; the proofs are for any number.
- *Classification.* Two handoffs with one envelope, one of them never sent, are
  the smallest ambiguous match; with one deposit, one delivery and two sessions
  every kind of event is read by both, in one batch and in two.
- *Routing.* Two children are the one a receipt leaves and the one it is bound to
  next; two passes give a settlement older than that change, and two records of a
  try that listed the same count. Two workers give a recovery beside the worker
  it takes over from; a third child repeats the second. The tries are not capped:
  `TriesAreLimited` keeps them below 4, and they reach 3. Receipts share no row.

Symmetry is declared only in runs without liveness. Deadlock is checked for jobs
and capacity, where the environment never stops; elsewhere a finished
reservation, operation, scope or receipt is a legal end, so it is not.

Every property of a passing run has a mutant in `PROJECT.json`: a plausible bug
in a mapped operator that makes the property fail under the run's own cfg.

What the properties do not claim:

- `SubmittedLaneKeepsItsCash` excepts a lane of a browser protocol with a
  stopped sibling, and `ImplementsLaneCash` looks only at lanes whose transfer
  the server posts; `lanes_sibling` shows why.
- `ImplementsPurchase` counts an accepted trade as spent money, whatever its
  reservation row says; `trades_orphan` shows the row that disagrees.
- `UnusedFundingIsReturned` excepts funding under an uncertain Polymarket or AMM
  trade, and `UnusedCashIsFreed` lanes of the client protocol: the code has no
  step that resolves those, they wait for a person.
- `NothingIsPassedOver` and `DepositIsCredited` are about deposits some session
  covers; a transfer after every window has ended is nobody's.
- `KnownHandoffIsNotADeposit` is about handoffs whose answer was not lost and
  whose operation no other action has made terminal; `classify_unknown` shows the
  first exception, section 7 explains the second. `EventIsDecided` excepts events behind a
  poll that is refused: such a session waits for a person.
- `TriesAreLimited` says that a receipt the passes keep coming to is not tried
  for ever, not that they come to it (section 7), nor that its child ends: a web
  child may wait for its user for ever.
- `SharedHoldsAreCovered` promises the execution fee until a direct withdrawal is
  admitted. The code holds withdrawals to no fee reserve, so one may use it up.

## 5. Fairness

- *Jobs.* The finance worker's scheduler ticks for ever. A running pass takes
  its next step (WF on `Advance`), and may throw or crash only as often as
  `MaxFailures` says; deadlines pass. A job that is claimable again and again is
  claimed (SF on `Claim`, `RepairClaim`): a batch orders by priority and due time
  and excludes what it has processed, and the repair scan walks with a cursor.
- *Trades.* A running handler or lookup goes on, the venue decides each order it
  has received, deadlines pass; the reconcilers select every unresolved CLOB
  attempt whose lease is free (SF on `Lease`), and an attempt that is ambiguous
  again and again grows old (SF on `Age`; a lookup in progress disables it).
  Nobody is obliged to trade, cancel or sync.
- *Lanes.* Requests end, time passes, the chain decides what was sent, and the
  worker's passes recur (which `jobs_liveness` justifies). Users never have to
  act: no browser, wallet or cancellation is fair.
- *Capacity.* PostgreSQL grants contended locks, and the pool its connections,
  in order of arrival; hence SF on the work of each request. A chain read ends
  (WF on `Stamp`, `Load`). Clients, evidence and failures are not fair.
- *Receive.* Every poll pass begins by expiring what has lapsed (WF on `Expire`)
  and claims the session that waited longest (SF on `Claim` per session). A poll
  ends (WF on `Abandon`), and one of a session that is polled again and again
  reaches the head before its row changes (SF on `Reach`): rows change when
  users and routers act, which they do not after every claim. Nothing is assumed
  of users, the chain, or the router.
- *Classification.* A session in its window is polled to the head again and again
  (SF on `Poll(s, head)`, which the receive run justifies); the provider of a
  route says in the end what it did (WF on `RouteEnds`). Handoffs need never be
  reported.
- *Routing.* Executor batches recover, look up and end (WF on `Recover`,
  `LookupReference`, `Drop`), attempts grow old (WF on `Lapse`), and the control
  plane and the provider do not refuse for ever (SF on `Cross`, `Call`). Nothing is
  assumed of the user, the chain, the sweep, or of the process, which may die
  between any two steps (`Leave`, `Drop`), nor of the router: its list does not
  rotate (section 7), so it promises no receipt a turn.

## 6. The proofs

All proofs are for arbitrary sets of operations, passes, requests, lanes,
quotes, keys, sessions, deposits, receipts and workers, and any bound on faults,
attempts or tries; they use only the named assumptions of the module (constants
that stand for null differ from the sets they extend; execution paths partition
the trades; there are finitely many quotes, handoffs and router passes; bounds
are natural numbers). Every safety property, action property and refinement that
a passing run checks is stated by a theorem. Three conditions appear as
hypotheses of theorems, never as assumptions of a module: `SlowRequests = {}`,
`~QuickCredits` and `~SlowCalls`. The code does not enforce them, so each is
written into the theorems that need it, and what holds without it is proved
beside them.

**`ReconciliationJobsProofs`.** `IInv` adds to the checked invariants that a live
row is a leased row (`LiveRowsAreLeased`), that running passes have different
tokens (`RunningTokensDiffer`) and, the heart of the argument,
`HolderHasReducedLoudEvidence`: a pass that still holds its lease and may
complete it has loud evidence pending only if the due time of the row is no
longer `infinity`. A wake during the lease therefore turns completion into a new
schedule; without that conjunct `LoudEvidenceKeepsItsJob` is not inductive. From
it: `TypeCorrect`, `JobsCanBeClaimed`, `OneHolder`, `LoudEvidenceIsKept`,
`CacheIsCurrent`; from it and a case analysis of steps `LeasesAreFenced` (an
action property) and `QueueImplementsPromise` (the safety part of the
refinement).

**`TradeAttemptsProofs`.** `RowInv` relates rows to each other: at most one attempt is
open or accepted, and an uncertain attempt implies an active reservation.
`SendInv` adds what a running submission knows about its order, that a trade
nobody has started is unknown to the venue, and that a consumed reservation was
traded. They give `TypeCorrect`, `UncertainTradeIsKept`, `SpentFundingBought`,
`OutcomesAreFinal`, and with `SubmitterIsOpen` also `OneSubmitter`, for slow
requests too. `TrackInv` adds that an order in flight or live has a started,
ambiguous or accepted row, and what that rests on (a claimed request holds its
claim or has lost it for good, an aged ambiguity is quiet); it is inductive only if `SlowRequests = {}`, which
`OrdersAreTracked` and `ReservationBuysOnce` assume in their statement. The
refinement `RowsImplementPurchase` needs no such condition: it reads the rows
alone. Its mapping of every row state is lemma `MoneyOfRows`, its step
`MoneyStep`. `LinkInv` says what an accepted row stands for: its order is live
(`AcceptedIsLive`), and unless the status-only recovery of Polymarket accepted
it, it is the trade that consumed the reservation. The second needs to know that
this recovery works on Polymarket attempts only (`EvidenceIsPolymarket`);
together they are the boundary of finding `trades_orphan`
(`LinkedTradesAreSpent`, slow requests or not). With `OrdersAreTracked` the first
gives `InFlightIsKept`: an order in flight is not live, so its tracked row is not
accepted but unresolved, and an unresolved row keeps the reservation active.

**`SourceLanesProofs`.** `LaneInv` = `TypeOK`, the shape of the attempt list
(`RowsShape`: every attempt but the last is proven not to have executed),
`FateShape` (which rows a sent, landed or dropped transfer may have),
`RequestShape` and `WalletShape` (what an admitted request or an acknowledged
wallet implies about its row). It gives `LaneMovesOnce`, `StoppedIsUnsent`,
`UncertaintyIsOnRecord`, `DecisionsAreFinal`. `CashShape` says that a released
lane whose movement was not seen is *idle*: it can start nothing more, and has
nothing pending (a browser lane: unless a sibling stopped it). Lemma `FreedIsIdle` is the reducer's
correctness: whatever the projector frees is idle; `LanesMove` that idle lanes
stay so. They give `CashIsReserved` and the refinement `LanesImplementCash`.

**`SourceCapacityProofs`.** `CapInv` says which locks exclude whom (`Exclusive`),
that a request past its key lock is the first with its key (`KeyIsNew`), past its
quote lock the first with its quote (`QuoteIsNew`), that a fence past the source
lock faces an unheld source (`FenceIsClear`), and that operations consume their
quotes. It gives `TypeCorrect`, `LocksDecide`, `FencesAreAlone`, and
`NoCircleOfLocks`: of the commits that run, one that is furthest along waits for
no lock of another.

`CashInv` is the invariant of the money. Reservations belong to consumed quotes
and transfers to reservations; a transfer whose debit and credit are both
unknown still counts as an active reservation (`UnseenIsHeld`); a balance in use
includes every debit that was on record when it was stamped, and, if credits are
not quick, every transfer that is already credited (`ReadsKnow`); a request that
passed the check fits beside everything outstanding (`ClearedFits`).
`ReadIsBounded` is the arithmetic behind it: what the projection subtracts,
active reservations and debits newer than the balance, covers all that is
outstanding and all that left after the balance was read, except transfers that
are credited and not in it. Hence `OverpromisesAreCredited` with no condition,
and `BalancesAreReal` under `~QuickCredits`, when there is no such exception.
`ClearedFits` is what makes `SharedHoldsAreCovered` inductive: the check and the
commit are two steps, and between them cash leaves and reservations end, but the
source lock keeps others from being admitted. It gives `SharedCashIsCovered` and
the action property `SourcesStayCovered`. Both speak of the fee as far as the
check does: `Reserve` is the fee until a direct withdrawal is admitted, and cover
with the fee lasts until the next one.

**`SumLaws`.** `SumFunctionOnSet` of the community modules is a fold, which is
defined by a recursive function on sets and a choice of the next element. The
module shows that such a fold over a finite domain has the table of partial sums
one expects, and from it the lemmas `SumEmpty`, `SumType`, `SumRemove`, `SumUnion` and
`SumMonotonic`. There is no induction theorem to cite, since those take an
operator as parameter; each law is proved by its smallest counterexample
instead: among the sets that break it one is minimal (`MinimalSet`), and taking
the chosen element out of that one contradicts it. That the order of
summation does not matter (`SumRemove` at any element) is argued this way too.

**`ReceiveSessionsProofs`.** `SessionInv` orders the sessions: births are
distinct and count the requests (`BornInOrder`), windows end in the order of
births (`WindowsInOrder`), receipts belong to sessions, an open session is not
closed, and of two sessions that still hold the address the elder's window is
over and it is not open (`YoungestIsAlone`). From it `OneAddressIsOpen` and
`ClosedAddressesStayClosed`. `ScanInv` is for the scans: cursors stay between
start and head, starts follow births, and `LeftToYounger`: if a covering session
has passed an uncredited deposit, some younger one that covers it has not, and as
windows end in order that one outlasts it. That is the whole of
`NothingIsLeftBehind`; lemma `ScanPersist` shows that a poll leaves a deposit
alone only for such a session.

**`CreditClassificationProofs`.** `ClassInv` says that causes come first (a sent
handoff on chain has begun, a delivery has a route), that only events on chain
have verdicts, and, with it, `KnownHandoffIsNotADeposit`, which is inductive
because such an event, while its operation has not ended under it, always has its
own attempt among its candidates. The
refinement `PollsImplementLedger` needs it only for deliveries (`OwnDelivery`) and
rests on one lemma about a single row, that `Ruling` changes retryable verdicts
only.

**`DelegatedExecutorProofs`.** Every action is first classified as a step of one
of five kinds: a child's life moves, its transfer travels, a receipt turns, a
receipt is bound, or a pass looks (`StepOfAKind`). `RoutingInv` is preserved by
the kinds: owners and bindings match, a child that its receipt has left is over
and will never move (`DetachedIsOver`), ends are real, and what a pass read of a
finished child is still true (`SeenIsTrue`: that is why an old read may be acted
on). `DepositsAreConvertedOnce` follows for slow calls too, and so does
`LiveTransfersAreBound`, which looks at transfers that have not landed yet: a
detached child has sent nothing or was reverted, so no late client or chain can
move a deposit that was bound again. `CallInv` adds the
workers: one call per attempt at a time, none under an attempt that may be
recovered, nothing sent where a first call is about to be made; it needs
`~SlowCalls`, which `CallsAreOnRecord` states. `TriesInv` counts the passes that
may still have a receipt tried again (`Hopeful`): once its tries are used up none
joins them, and each that is left has one. With a finite number of passes that
bounds the tries (`ReceiptsAreGivenUp`).

Only model-checked:

- everything under fairness: `PromiseIsKept` as a liveness property,
  `StoppedEvidenceIsRepaired`, `LiveOrderIsLinked`, `UnusedFundingIsReturned`,
  `UnusedCashIsFreed`, `LandedIsSettled`, `CommitEnds`, `DepositIsCredited`,
  `EventIsDecided`, `AttemptIsDecided`;
- the three violations.

Some theorems are about properties that no run lists, because a stronger one
covers them on the small instance: `OneHolder`, `JobsCanBeClaimed`,
`OneSubmitter`, `SpentFundingBought`, `UncertaintyIsOnRecord`,
`DecisionsAreFinal`, `FencesAreAlone`, `QueueImplementsPromise`; or because they
say where a limit of section 7 ends: `LinkedTradesAreSpent`, `InFlightIsKept`,
`OverpromisesAreCredited`, `SourcesStayCovered`, `NoCircleOfLocks`,
`LiveTransfersAreBound`. TLC agrees with each on the instance of its module's
run.

## 7. Findings

Each is a run whose one property TLC violates; the quotation and its line are in
`PROJECT.json`.

1. `trades_orphan`. A Polymarket order attached as evidence is accepted but leaves
   the reservation active; the next buy that is refused its claim abandons the
   reservation as if nothing had been submitted.
2. `lanes_sibling`. A failed or cancelled report of one lane releases the
   reservation of a sibling whose wallet has already sent its transaction and
   whose report is on its way.
3. `classify_unknown`. A handoff whose answer was lost is stored as ambiguous
   without a transaction. The matching of incoming transfers looks for started
   attempts by envelope and for others by transaction only, so the transfer of
   this one matches nothing and is credited as the user's deposit.

Limits of the code that the models state but no run checks. Each is a definition
in its module whose comment says that the code does not keep it, or the value of
a constant:

- `CompletedJobHasNoEvidence`: evidence recorded without a wake while a pass ends
  in manual review stays unreduced until the repair scan.
- `InFlightKeepsReservation`: a handler that stays claimed beyond 15 s and then
  throws fails the attempt its successor has started. Theorem `InFlightIsKept`:
  requests that start within their lease keep it.
- `QuickCredits = TRUE`: if a credit is final within the memo's life, the debit
  correction is dropped and the capacity check passes on an old balance. The later
  transfer fails on chain; no money is lost. Theorem `OverpromisesAreCredited`
  bounds how much such a balance can be too high.
- `RefusalMeansAllocated`: a poll is refused for other disagreements than a credit
  already given.
- `DetachedIsUnsent`: the router decides from the lifecycle read now and the flags
  listed before; a child that was sent and reverted in between is taken for one
  that failed before its broadcast. The deposit has not moved and the child can
  no longer move it (theorem `LiveTransfersAreBound`), so nothing is converted
  twice.
- `SlowCalls = TRUE`: an inspection that proves "not broadcast" for a first call
  may be older than the call of the worker that replayed the attempt.

Limits of the code that are outside the models, or that a property excepts:

- The router lists the 25 oldest due receipts without rotating, and a receipt
  stays due while its web child waits for the user or its evidence is being
  recovered. That many of them keep every later receipt from being routed or
  settled; no liveness property of receipts is therefore stated.
- The lookup passes a started handoff over while other actions have made its
  operation terminal, to tell a live overlap from a route that has ended. A
  transfer that a wallet sends for such a handoff, before its report is in, is
  credited as a deposit (finding 2 shows how an operation ends under a wallet
  that has sent). `KnownHandoffIsNotADeposit` excepts it.

## 8. Not modelled, and what is next

Items 7 to 9 of section 2, in that order. The hand-over between parent and
continuation operations comes first: it is the last part of the money path
without a model, and it uses the settled reservation of `TradeAttempts`.

Not planned: the planner's choice of routes, account valuation, provider
payloads, order building and signing (computations over large records with no
protocol of their own); bots, content, AI, indexers and admin (outside the money
path, I/O and upserts); contracts and deployment. These are most of the
repository's lines; the map covers the part of it that moves money.

Six of the listed hazards have no property and say why: the outcome of a slow
handler and the child that is taken for unsent (stated, and not kept by the
code), the AMM trade whose hash is never reported and the receipts that are
never listed (the code has no step for them), the handoff of an operation that
has ended (excepted by the code), and the parent that is released while its
balance trades (item 7).
