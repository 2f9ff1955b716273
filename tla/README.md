# SceneAxi in TLA+

Models of the parts of SceneAxi whose correctness depends on the order of things:
concurrent processes on one project directory, crashes in the middle of a
transaction, a desktop session over a journal it does not own alone, concurrent
requests on one credit account, redelivered payment events, payouts whose answer
is lost. Every definition is read off the source (`src/`), and `PROJECT.json` says
which lines each stands for.

Contents: [the system](#the-system), [the modules](#the-modules),
[the runs](#the-runs), [the proofs](#the-proofs),
[what the models leave out](#what-the-models-leave-out), [the plan](#the-plan).

## The system

SceneAxi is a TypeScript monorepo: an authoring core that edits scene documents on
disk, a deterministic engine kernel, desktop, web and command-line front ends, and
a site with identity, credits and payments. Its state lives in three places: the
files of a project, the site's database, and the memory of one session.

### Components, their state and what makes them correct

| Component | State | Operations | Correct when | Model |
|---|---|---|---|---|
| Advisory lock (`authoring-core/atomic-write.ts`) | lock file, reclaim claim, working files | acquire, reclaim a dead owner's lock, verify, release | two live processes never write together; nothing left behind blocks for ever | `LockFile` |
| Multi-document write (`atomic-write.ts`) | documents, staged files | stage, rename one by one, roll back | all documents change or none | `ApplyJournal` (steps `Rename`, `RolledBack`, `LeftPartial`) |
| Apply journal (`apply-journal.ts`) | `active.json`, archived entries, completion sequence | prepare, activate, archive, clear, recover, undo, redo | a transaction is atomic through every crash; undo and redo are exact and in order | `ApplyJournal`, `ProjectHistory` |
| Propose and apply (`propose-apply.ts`) | proposals | propose, apply, direct edit | what apply answers stays true | `ApplyJournal` |
| Project migration (`project-model.ts`) | migration journal, manifest, evidence | propose, commit, recover | finished once, never over an edited document | planned |
| Project git view (`project-git.ts`, `internal/project-git-authority.ts`) | the repository | inspect, stage, commit | what is staged is a settled project | planned |
| Model provider port (`model-provider-port.ts`) | none; evidence to a callback | complete, tool call, stream | evidence recorded once, before the last chunk | planned |
| Credit ledger and store (`billing/ledger.ts`, `store.ts`, migration 0008, Neon adapter) | ledger rows, reservations, reconciliation records | append or replay, reserve, save, finish, release | the ledger stays a valid chain; reserved credits stay there | `CreditStore`, `CreditAccount` |
| Hosted model call (`billing/hosted-ai.ts`, `metering.ts`) | none of its own | the seven awaited steps of one call | paid work is done once, charged if and only if done | `HostedCall` |
| Credit-pack webhook (`billing/stripe-webhook.ts`, `umbrella/credit-webhook.ts`) | none of its own | deliver, decide, append, record, answer | acknowledged only when durable; nothing taken back that was not given | `CreditWebhook` |
| Credits sale (`revenue-share.ts`, `catalog-listings.ts`) | two ledgers, share and settlement records | settle | both legs or none; decided on current ledgers | planned |
| Stripe Connect (`stripe-connect.ts`) | accounts, intents, statuses, outcomes | onboard, refresh, pay out | a sale is paid out once, its outcome recorded truthfully, money only to the account on record | `ConnectPayout` |
| Checkout, packs, entitlements, live mode | none | pure decisions | | not modelled: stateless |
| Identity (`packages/auth`) | users, sessions | sign in, authenticate, revoke | a disabled user or revoked session is refused | planned |
| Kernel session (`engine-kernel/session.ts`) | entities, queue, event log | dispatch, advance, save, replay | replay of a save reproduces it; a session never wedges | planned |
| Scene, sculpt and gameplay sessions | simulation state | step | deterministic | not modelled: numeric |
| Desktop session (`desktop-shell/session.ts`) | phase, proposal, pending transaction, list of applied roots | propose, stage, accept, reject, recover, undo, redo | undo works on what this session applied; no unfinished apply is forgotten | `DesktopSession` |
| Linux desktop host (`desktop/linux`, `importers/asset-preparation-worker.ts`) | preparations, the import under review | the authoring operations, prepare, cancel, restart, close | a retired result is never staged; the evidence of an import lives as long as its edit is open | `DesktopBridge` |
| Plugin host, schemas, importers, presentation, physics, profiles, catalogs, CLI, web shell, site kit | none shared, or one caller | | | not modelled: stateless, generated, numeric or front ends |

### How they interact

* Every operation of the authoring core takes the lock of the project's operation
  resource, recovers an interrupted transaction first, and then writes through the
  journal. `apply` recovers before its transaction begins (`recoveryDiagnostics`,
  `propose-apply.ts:628`), and rejects if an entry is active again once it has. CLI,
  web shell and desktop are separate *processes* on the same directory; they meet only
  on files.
* A hosted call, a webhook delivery and a sale are separate *requests* in separate
  processes; they meet only in the database. Each statement of migration 0008
  locks the account row, so a statement is atomic and everything between two
  statements of a request is not.
* The desktop host calls one session; its import worker answers whenever it is done,
  and a CLI or a second desktop changes the same project meanwhile.
* A payout request meets others only in the database and at the provider, which holds
  what it was asked under a key even when the request that asked is gone.
* Stripe delivers an event at least once, in any order, until it is answered 2xx.
  The provider of a hosted call is external: it may do the work and lose the answer.

### What is hard

Interleavings of the file-system calls of several processes on three names; a death
between any two of them; the rename that took effect although its write reports
a failure; a decision made on a ledger that has moved since; a paid call whose
answer is lost; a refund that overtakes its grant; a background result that arrives
after the review it was meant for; a payout retried at a later time. `PROJECT.json` lists these
hazards at their lines, with the properties aimed at each, and those of the planned
modules with the module that is to cover them. Not listed there, and not covered: the
in-memory credit store counts a call between its debit and its completion twice
(`store.ts:676`); a kernel session near its event limit must keep room for the advance
that lets its queue be saved (`session.ts:753`).

## The modules

```
LockFile                      one lock path, per file-system call
   | assumed: at most one operation at a time
ApplyJournal  ==refines==> ProjectHistory
   | assumed: a project is a log of whole transactions and at most one open entry
DesktopSession                one session over such projects
   |- DesktopBridge           the host around it: imports, workers, other programs
CreditStore                   one account: ledger, reservations, SQL statements
   |- HostedCall  ==refines==> CreditAccount      requests over it
   |- CreditWebhook  ==refines==> CreditAccount   deliveries over it, hosted calls abstracted
ConnectPayout                 store, requests and provider of one creator
```

`MC<Module>` holds constants for TLC, `<Module>Proofs` theorems.

### LockFile

State: `lock`, `claim` and `work[p]` are the three directory names of one lock path,
each pointing at an inode `<<owner, token>>` or nothing; the rest is per-process.
One action per file-system call: `Scan`/`Judge` (readdir and removal of leftover
working files), `CheckClaim`, `Link`, the seven calls of `removeStaleLock`
(`ReclaimExists` ... `ReclaimClean`), `Verify` (`requireActiveLockSet`), `ReadToken`
and `Unlink` (`releaseLocks`), and `Crash`. `raced` is a history variable: it becomes
true when a reclaimer meets one of the two windows of `removeStaleLock`, a second
claim of an inode already claimed, or an owner that dies between the inode
comparison and the liveness check.

### ApplyJournal and ProjectHistory

State on disk: `docs`, `active` (active.json), `archive` (one file per transaction),
`seq` (completion sequence). `job` is the operation that holds the operation lock and
its program counter; a step is one durable write. `told` and `superseded` are history.

| Action | Code |
|---|---|
| `Propose`, `Discard` | `propose`, and proposal files that are never used |
| `Begin`, `NothingToRecover`, `RecoveryRefused`, `RecoverEntry` | taking the lock, `recoverIncompleteAppliesLocked` |
| `ApplyVerify`, `Reserve`, `ReserveFails` | the hash check of `apply`, `reserveCompletionOrder` |
| `Undo`, `Redo`, `Edit` | `undoLastApply`, `redoLastApply`, `writeCanonicalDocument` |
| `Activate`, `ActivateFails` | `writeActiveJournal(entry)` |
| `Rename`, `Committed`, `RolledBack`, `LeftPartial` | `atomicWriteAll` and its rollback |
| `Archive`, `ArchiveFails`, `Clear`, `ClearFails`, `Retract` | `writeJournal`, `writeActiveJournal(null)` and the failures of each |
| `Crash`, `Foreign`, `DamageSequence` | the environment |

A durable write may fail in two ways (`Faults`): "clean", the old bytes are back, and
"stuck", it reports a failure but the new bytes stay, which happens when the rename
went through and both the directory sync and the rollback failed.

`ProjectHistory` says the same without files: `Commit`, `Undo`, `Redo`, `Abort` of a
whole transaction at once, and `Write`. The refinement mapping counts a transaction as
undecided while its entry is active, so that `Clear` is the step where it takes effect.

### CreditStore, HostedCall, CreditWebhook

`CreditStore` is one account: `ledger` and `holds`, with the SQL statements as
operators: `AppendOrReplay`/`AppendAnswer` (insert under the chain trigger or read the
committed row), `ReserveAnswer`, `SaveAccepted`, `FinishAccepted`, `ReleaseAccepted`.
Rows are never changed or removed, so what a request read earlier is a prefix of the
ledger and its length (`view`) stands for it: staleness is modelled exactly, without
copies.

`CreditAccount` is the promise both of its users keep, without rows, statuses, stale reads
or retries: credits are free or promised to a call; a promise is spent or given back,
whole and once; any other movement happens once, by its own amount, out of what is free.
The mapping takes the balance less the reservations for what is free, so a row decided on
a stale ledger, a lost update or a second charge would each be a step the account cannot
take.

`HostedCall` makes each awaited step of `runMeteredModelCall` an action: `Resolve`,
`Reserve`, the provider (`ProviderAnswers`, `ProviderFails`, `ProviderUncertain`),
`SaveResponse`, `Release`, `Reload`, `Meter`, `AppendDebit`, `Finish`. A request may be
abandoned before any of them; a statement whose answer is lost is a statement followed
by `Abandon`. `Movement` is every other writer of the account, deciding on a prefix.

`CreditWebhook` makes each awaited step of a delivery an action: `Lookup`, `ReadLedger`,
`DecideMovement`, `AppendMovement`, `Record`. Every event has an id of its own; a grant
is keyed by the id (`stripe-webhook.ts:784`), a reversal by the purchase. So it is an
event that grants once: two completed events of one purchase grant it twice, and a
refund then takes back one pack. Nothing in the code refuses the second; that a purchase
is granted once also needs Stripe to send one completed event for a checkout. Hosted
calls appear as three atomic actions (`HostedCall` has their steps), because a delivery
sees only rows and reservations.

### DesktopSession and DesktopBridge

`DesktopSession` is the closure of `createDesktopSession`: `session` holds its phase,
proposal, pending transaction, whether recovery is awaited and the list of roots it
applied to. A project is what `ProjectHistory` promises of it (bytes, log, an open
entry), so each journal call is one step with the outcomes `ApplyJournal` shows it can
have: done, done with the entry left open (`Through`), half way (`Halfway`), refused.

| Action | Code |
|---|---|
| `ProposeEdit`, `Accept`, `Reject`, `RefreshRecovery`, `Undo`, `Redo` | the methods of the session (synchronous, so atomic) |
| `Stage`, `StageRead`, `StageInstall` | `stagePreparedProposal` up to its reads, after them, and after the file is closed |
| `Propose`, `ImportAsset`, `ImportReplayed`, `AcceptOp`, `RecoverOp`, `RejectOp`, `UndoRedoOp` | the operations of `bridge.ts`, each with the import evidence it keeps or drops |
| `Prepare`, `WorkerReads`, `WorkerRefused`, `WorkerAnswers`, `Admit` | `prepareAssetImport`, its worker, and the publication of what it staged |
| `Cancel`, `Replace` | cancelling or changing profile; restart and close |
| `Elsewhere` | external: other programs on the same projects |

`own` and `strayed` are history: the applies this session began, each with whether it
was answered "rejected", and whether one of five things has happened after which its
list of applied roots no longer mirrors the journal: another program applied or undid;
`redo`, which does not extend the list (`session.ts:829`); an undo that reported failure
and is carried out by the next recovery; an apply that was rejected and is carried out
by the next recovery, because the write of its entry reported a failure and stayed
(`propose-apply.ts:1008`); an `undo` or `redo` during a pending recovery, which
`session.ts` does not refuse (the desktop's own chrome does,
`docs/engine-desktop-surface.md:455`; another caller need not). `AppliedIsExact` claims
the list up to the first of these. `NoApplyForgotten` excepts the last two: of an apply
answered "rejected" the session knows nothing, and goes on with its review.

`pendingImport` is the evidence of an import (`pendingAssetImport`). `accept` and
`recover` give it away with their answer once the edit is applied and nothing is left to
recover; then, too, the files the document names are copied. The files themselves are
not modelled: they are also copied when a scene is read (`bridge.ts:785`) and when an
import turns out to be a replay (`bridge.ts:868`, `977`), from the document on disk
whatever the journal says, so that a copy may precede the end of the apply that named
it. The two replays are actions (`WorkerRefused`, `ImportReplayed`) that only end the
preparation.

Once `close` has let go of the session the host drops the bridge
(`desktop/linux/src/electron/main.ts:732`), so only what is under way goes on.
A worker of a retired preparation counts as busy until it is gone, as in the code. The
publication of an import follows the install of its review without another task in
between, and is one action with it.

### ConnectPayout

One creator's rows (`account`, `links`, `statuses`, `intents`, `outcomes`), what the
provider holds (`created`, `observed`, `payout`) and the requests. Each call of the
store or of the provider is an action: `BeginOnboarding`, `Onboard`, `CommitOnboarding`;
`ObserveStatus`, `AppendStatus`; `BeginPayout`, `CheckStatus`, `CommitPayoutIntent`,
`FindOutcome`, `CreatePayout`, `Answer`, `RecordOutcome`. `OnboardingStops` and
`PayoutStops` end a request at any point; an effect whose answer was lost is the effect
followed by such a stop. `Decide` lets the provider pay or refuse after the request gave
up. `Times` is what the clock of a request may show; it is part of the intent.

The provider is external. It is assumed to do what its idempotency keys promise: what
was asked first under a key stays, with one answer, however often it is asked again.
Two racing onboardings may leave an account at the provider that the store never names;
`OneAccount` says that nothing is ever sent there. The run `payouts` has one observation
of the status, so a status that changes between check and use is covered by the theorem
`MoneyFollowsAccount` only. `commitPayoutIntent` also stores the sale's split, which may
stay without an intent when the key is taken (`provider-adapters.ts:1332`); nothing
modelled reads it.

### Code outside `src/`

Two more assumptions about code outside `src/`: a provider error other than
`HostedAiProviderUncertainError` means no work was done (that is what `release` relies
on); Stripe emits a refund or dispute only after the checkout completed, though it may
deliver them in the other order. A charge refunded in part and a disputed one are events
of their own kinds, which only go on record; `webhook_events` has neither,
`webhook_recorded` a dispute, and the theorems cover both.

## The runs

Times are for two workers. Model values stand for identities, so two or three of each
are the least that makes the interleavings of interest happen: two to race and one to
be reclaimed from, two transactions to be out of order, two requests under one key.

| Run | Instance | Shows |
|---|---|---|
| `lock_safe` | 2 live processes, 1 departed, 1 crash; fair (18 s) | two processes write together only if a window was hit; no file is left by lost races; the last survivor gets the lock in one call |
| `lock_evicted` | 2 live, 1 departed | **violation**: finding 1 |
| `journal_atomic` | 2 documents, 1 transaction, clean faults; fair (40 s) | refinement: no half transaction; answers of `apply` stay true; interrupted transactions are finished |
| `journal_history` | 1 document, 2 transactions, no write faults | refinement and unique orders under all orders of apply, undo, redo, crash, foreign change |
| `journal_stuck` | 2 documents, stuck faults | nothing foreign is overwritten |
| `journal_redo` | 1 document, 2 transactions | **violation**: finding 2 |
| `hosted_calls` | 2 requests, 2 keys, 2 prices, 2 other movements, 1 death; fair (45 s) | work once per key, charged only if done, valid ledger, reserved credits covered; the rows are those of a `CreditAccount`; a saved answer is charged in the end |
| `webhook_events` | 4 events of 2 purchases, two of them completions of one, 2 deliveries at once, 1 hosted call, 1 failure; fair (0.4 million states, 150 s) | acknowledged is durable; refund follows grant; each completed event grants once, each purchase is taken back at most once (`CreditAccount`); every event is answered in the end, unless a reservation is stuck |
| `webhook_recorded` | 4 events of 2 purchases, one of them a dispute, 2 deliveries | **violation**: finding 3 |
| `desktop_review` | 2 projects, 2 preparations, 2 transactions, 1 trouble (2.1 million states, 80 s) | the list of applied roots is exact; no open apply is forgotten; a review is never exchanged, least of all by a retired import; the evidence of an import is neither lost nor given away while its edit may be taken back |
| `payouts` | 2 payout slots used without end, 2 onboardings, 2 of each key, sale, account and time (0.5 million states, 45 s) | one payout per sale, true outcomes, one account, under all races, stops and retries |
| `payout_retry` | 1 of each, 2 times | **violation**: finding 4 |

Symmetry is used only in runs without liveness, over interchangeable model values.
`MaxBalance` plays `Number.MAX_SAFE_INTEGER` and is reached: grants at the limit are
refused in the runs. `MaxOrder` plays the same for completion orders and is reached too.
`MaxCrashes`, `MaxDeaths`, `MaxFailures`, `MaxProposals`, `MaxTx`, `MaxTroubles`,
`MaxObservations` and `Events` (which events Stripe emits) are bounds of the check and
not of the code. One trouble (an entry left open, or a change by another program) and
two transactions are what each hazard of a session needs: one apply goes wrong while
another is to be undone. Deadlock is checked for the lock and the journal. The other
models stop where keys, transactions or preparations are used up, so it is off there.

Every property of a passing run has a mutant in `PROJECT.json`: a definition changed the
way a plausible bug would (a dropped check, a swapped order, a missing reset), under
which TLC finds that property violated in the same run. Their operators stand beside
the definitions they change, marked "Mutant of".

### Findings

1. `lock_evicted`: `removeStaleLock` compares inodes and then unlinks a *name*. Two
   processes that reclaim the lock of a dead one can each hold a claim of it; the
   slower one's unlink then removes the lock the faster one just took
   (`atomic-write.ts:564`).
2. `journal_redo`: after apply, undo, apply, undo, a redo applies the transaction
   of the branch the second apply had ended (`apply-journal.ts:736`).
3. `webhook_recorded`: of two concurrent deliveries of one refund, one can record the
   credits as spent and the other take them back after a top-up
   (`stripe-webhook.ts:1038`).
4. `payout_retry`: an intent carries the time of its request and is compared field by
   field, so a retry a millisecond later conflicts with its own first attempt and never
   reads the outcome (`stripe-connect.ts:1114`).

A fifth case has no run of its own. A write of `active.json` that reports a failure but
stays on disk makes `apply` reject a proposal that the next recovery applies
(`propose-apply.ts:1008`): `RejectedStaysRejected` holds in `journal_atomic`, and TLC
refutes it in that instance with `Faults = {"clean", "stuck"}`. The desktop model has
the same outcome: the session is told "rejected" and goes on reviewing, the next
operation on the project carries the entry out, and accepting again is then refused as a
conflict. The list of applied roots does not have that apply, so that `undo` may revert it in
place of one that is listed, or never get to it.

One difference from the documentation has no run: `docs/auth-credits.md` describes two
requests under one key as both entering the provider; since migration 0008 the
reservation refuses the second, as `ProviderOnce` shows.

### Fairness

* Calls of the authoring core are synchronous: a process that is inside one and lives
  goes on. Hence weak fairness of `Continue(p)` in `LockFile` and of `Step` in
  `ApplyJournal`, and none of starting a call, of crashes or of foreign changes.
* `Recovers` also needs recovery to be *called*: every propose, undo, redo and open
  begins with it, so strong fairness of its `Begin` (it competes with other operations
  for the lock). It is stated for behaviours in which crashes and failing writes stop:
  a disk on which every write fails leaves the entry where it is.
* A request's next statement is issued unless it is cut short: weak fairness of each
  request's step. Deaths are bounded, as an unbounded number of them makes every
  liveness claim false.
* `SavedIsCharged` needs the caller to retry the key, at its price: strong fairness of
  `Retry(k)`. No code of the repository does it on its own; the property says that
  retrying is enough.
* Stripe redelivers until it is answered: strong fairness of `Redeliver(e)`.
  `EventsSettle` excludes, in its statement, a reservation that stays pending for ever,
  which no code releases by design; such a reservation really does keep a refund's
  event unanswered.

## The proofs

Checked by TLAPS for every value of the constants that satisfies the named ASSUMEs.

| Module | Theorem | Says |
|---|---|---|
| `LockFileProofs` | `TypeCorrect`, `ExclusionUnlessRaced`, `NothingLeftBehind` | for any number of processes, departed owners and crashes |
| `ApplyJournalProofs` | `TypeCorrect`, `OrdersStayUnique`, `ForeignBytesSurvive` | for any documents, proposals and orders, and failures of both kinds |
| | `AckIsDurable`, `RejectionIsFinal` | the same, when failed writes restore the old bytes (`"stuck" \notin Faults`) |
| `ApplyJournalRefinement` | `HistoryIsImplemented` | `ApplyJournal` implements `ProjectHistory`, when failed writes restore the old bytes |
| `CreditStoreProofs` | lemmas only | sums over finite sets of keys; what each statement does to the ledger and to what is free |
| `HostedCallProofs` | `TypeCorrect`, `OneExecution`, `ChargesAreEarned`, `LedgerStaysValid`, `FundsStayCovered`, `AccountIsImplemented` | for any number of calls, keys, prices and deaths |
| `CreditWebhookProofs` | `TypeCorrect`, `AcknowledgedIsDurable`, `RefundsFollow`, `AccountIsImplemented` | for any number of purchases, events, deliveries and hosted calls |
| `DesktopBridgeProofs` | `TypeCorrect`, `AppliesAreWaitedFor`, `AppliedListIsExact`, `ReviewKept`, `RetiredNeverReviewed`, `EvidenceKept` | for any number of projects, preparations, transactions and troubles |
| `ConnectPayoutProofs` | `TypeCorrect`, `SalePaidOnce`, `OutcomeStaysTrue`, `PaidOnRecord`, `MoneyFollowsAccount` | for any number of requests, onboardings, keys, sales, accounts and times |

**LockFile.** `MutualExclusion` is not inductive: it says nothing of a reclaimer about
to unlink. The invariant adds that a candidate carries its owner's identity
(`OwnCandidate`), that a live reclaimer has a working file (`HasWork`), and, while no
window was hit, that no two working files share an inode (`DistinctWork`), that a
verified lock is still the verifier's (`Held`), and that the lock a reclaimer found
dead is still the one it claimed (`Judged`). The history variable is what makes the
last three inductive: the two steps that break them set it. `NothingLeftBehind` is
another induction: each working file belongs to a process inside `removeStaleLock`
(`WorkOwned`), the claim to one about to rename it (`ClaimOwned`), the lock to a departed
owner or to a process that has it (`LockOwned`), as long as nobody died.

**ApplyJournal.** Two inductions. The first, `BaseInv`, holds whatever a failed write
leaves on disk: the types, that an archived entry is filed under its own name
(`ArchiveOK`), and that a job past its first write carries an entry which is still
active or has been withdrawn (`WorkOK`; a failed `writeActiveJournal(null)` may have
removed it under the job). On it rest `TypeCorrect` and two theorems. For
`OrdersStayUnique`, `OrderInv` adds that the sequence is lost or not below any order
given out, and that the order of the active entry, and of the one the job carries,
belongs to no other: the job may still archive it when it is no longer active. For
`ForeignBytesSurvive`, `DocsOK` says that an operation past its check finds in every
document it may still write one of the two images of its plan, also after a rollback
that stopped half way; other programs do not write inside a critical section, which is
the assumption this rests on.

The second, `IInv`, is about answers, for failures that restore the old bytes.
`AckDurable` and `RejectedStaysRejected` constrain answers only, so the invariant adds
what the operation under way knows of the disk: which entry is active at each of its
steps and what is archived by then (`JobOK`), that an apply is about a transaction
nobody was told of (`ApplyOK`), that undo and redo concern an archived one
(`ReversalOK`). A crash keeps it since the disk does not change and no job is left. The
hypothesis is needed: with "stuck" faults TLC refutes `RejectedStaysRejected` (the
fifth case above), `AckDurable` and `ImplementsHistory` (an abort whose last write
stayed on disk, `apply-journal.ts:548`).

**The history.** `Clear` is the step where a transaction takes effect, as a `Commit`,
`Undo`, `Redo` or `Abort` of `ProjectHistory`; a direct edit or a foreign write is a
`Write`; every other step changes nothing the mapping shows. What `Clear` needs was
established long before, when the entry was drawn up, perhaps in a process that died.
`StandingOK` keeps it: the entry about to be applied has an order above every settled
one, the entry being undone is the newest applied one, the entry being redone is the
nearest undone one above all applied (`EntryOK`), and while the entry is active no
other archive changes. `ImagesOK` says that under a live job the documents hold the
image the transaction starts from before the commit and after a rollback, and the image it goes
to once committed, so the whole change is visible at once when the entry is cleared.
That orders are unique (`OrderInv`) makes the candidate of a redo strictly the lowest.

**HostedCall.** The reservation of a key is a lock: `WorkOK` says that a request between
reservation and saved answer holds it pending and alone, `RanOK` that the status of the
reservation tells how often the provider worked (none: never; past pending: once),
`SettleOK` that a request on its way to the debit is past pending. `ChainValid` is
inductive by itself, by the trigger's check in `ChainAccepts` and the absence of the
key; the lemma `ChainAppend` carries it.

**CreditWebhook.** What a delivery has read stays true because rows only grow: the
ledger at its `view` is a prefix, and a record is never removed. `HandlerOK` says which
statements an event of each kind reaches, and that a refund about to be appended has
a grant of its purchase in the ledger, `AckedOK` that an answered event has its effect, `FollowOK`
that a reversal's row stands above one of a grant of its purchase; `AppendedFollows` carries it over an
append. `KeysApart` says that grants, reversals and calls never share a key. This
induction types balances loosely (`Typed`); `TypeCorrect` follows from the account.

**The account.** What is held is a sum over the reservations, which the community
modules define as a fold by recursion over finite sets. `CreditStoreProofs` proves that
the recursion has a solution, that it is unfolded one element at a time, and that any
element may be taken first (`TotalRemove`); an induction over cardinality is an induction
over a set of numbers (`NatBySuccessors`), so it needs no operator parameter. The keys
need not be finite in number, the reservations are (`StoreOK`). `StoreOK` is
inductive with `FundsCovered` in it, and under it each statement is one movement of
`CreditAccount` or none: a reservation a promise, a release its return, a debit its
spending, and a row decided on a stale ledger is refused by the trigger and moves
nothing. In `CreditWebhook` every debit in the ledger is the one its completed call
spent (`ChargedOK`). The initial states correspond by `InitAccount`, the steps by
`StepAccount`.

**ConnectPayout.** The provider's side is tied to the store's: whatever was asked under a
key has an intent with that sale and account (`AskedOK`), and two intents never share a
sale (`SaleOK`), so the uniqueness of rows becomes the uniqueness of payments.
`RequestOK` says what a request has established at each call it may make next.
`AccountOK` holds because the first account stays.

**DesktopBridge.** `PreparationsOK` ties the three sets of preparations together (under
way, retired, detached), and `HeldOff` says that no staging still able to install its
review is left while the session refuses one: `ReviewKept` and `RetiredNeverReviewed`
rest on these two. For the list of roots, each operation, the session's own or another
program's, is shown to do one of three things to the journal as it will read once its
open entry is recovered: nothing, add the next transaction, or mark one done or undone.
So every journal is ordered by transaction number and no two projects share a
transaction (`LogsOK`, `OwnOK`), and while nothing strayed nobody else's transaction
comes after the session's first (`OthersAreOlder`). The last transaction done, which
`undo` picks, is then the last root on the list. The list is stated as an increasing,
onto enumeration of the positions of `own` in effect (`Lists`); `ListOK` leaves out the
one apply still waited for, which `SessionOK` says is the last. An apply that was rejected
with its entry in place sets `strayed`, and its row of `own` says so, as `NoApplyForgotten`
needs to know. `EvidenceFollowsImport` is inductive by itself: every step sets session and
evidence together.

**Model-checked only.** Liveness (`SoloProgress`, `Recovers`, `SavedIsCharged`,
`EventsSettle`): this prover does not handle fairness. `LiveLockNotEvicted`,
`RedoSkipsSuperseded`, `RecordedStaysRecorded` and `RetryFindsOutcome` are refuted.

## What the models leave out

* Power loss: a completed rename is durable. What an fsync failure leaves behind is
  the "stuck" fault of `ApplyJournal`; `LockFile` has no failing fsync.
* In `ApplyJournal`, foreign writes *inside* a critical section, and corrupt journal
  files, which recovery refuses.
* The re-entrant lock set of one process, path containment and symbolic links.
* The per-process cache of the newest completed entry (`apply-journal.ts:700`): it feeds
  the display of what can be undone; undo itself reads the archive.
* `ApplyJournal` takes the exclusion of `LockFile` as given. Where finding 1 breaks it,
  none of the journal's properties is claimed.
* Credits: one account; free, admin and unmetered routes; signature checks, parsing and
  everything decided before the first store access; the in-memory store, which adds
  up reservations differently (`store.ts:676`).
* Desktop: one document per project, no status report, ownership lease, selection,
  sculpt, play, windows or local RPC endpoint. A project is
  taken at the level of `ProjectHistory`, with its open entry; `NextUndone` redoes what
  the code redoes, finding 2 included. Two failures in one apply, where a write that
  reports a failure has withdrawn the entry and the recovery after it fails as well, are
  left out: the answer is "indeterminate" with nothing left to recover. Imported files
  are left out, see above.
* Payouts: one creator, one provider account type, no record validators; an expired
  onboarding link only refuses and is left out.
* The content of documents, proposals, prompts and answers.

## The plan

Done: `LockFile`, `ApplyJournal` with `ProjectHistory`, `CreditStore`, `HostedCall` and
`CreditWebhook` with `CreditAccount`, `DesktopSession` with `DesktopBridge`, `ConnectPayout`, and
their proof modules.

Next modules, in order:

1. `KernelSession`: dispatch, advance, save, replay with small capacities. Properties:
   replay of a save reproduces it; a session with queued commands can always be
   advanced or saved again (a queued move out of range keeps every advance from
   clearing the queue, `engine-kernel/session.ts:788`).
2. `ProjectMigration`: prepared and completed journal over the multi-document write,
   with `ApplyJournal`'s operation lock; refinement of a one-step abstract migration.
   A prepared journal beside a document edited since is the case to look at.
3. `SaleSettlement`: two accounts of `CreditStore` and a settlement that commits both
   legs or none, against webhook and hosted-call movements; credits are conserved.
4. Smaller: `SessionLife` (identity), `ProjectGit` snapshots beside a running apply, the
   evidence of a provider stream, the local bridge endpoint.

Abstract specification: the one-step migration.

Next proof: what remains of `AckDurable`, `RejectedStaysRejected` and `ImplementsHistory`
with "stuck" faults, where all three are false as they stand. The weaker form has to be
found with TLC first: which answers can be wrong, and only about the entry that a failed
write left active or withdrew.
