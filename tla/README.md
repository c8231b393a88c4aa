# EvoFence in TLA+

A verification project for EvoFence (TypeScript, `src/src`): TLA+ models of the parts that
carry its protocol logic, TLC configurations that check them on small instances, and TLAPS
proofs of what matters most for every instance. Paths below are relative to `src/src`.

EvoFence runs agent work under one rule: the agent proposes, the environment measures, the
gate decides. Its kernel keeps one event journal per session. Everything else - the outbox
of effects, node states, leases, the budget, the dispatch mode - is a pure projection of that
journal, and every command is *read the journal, decide, commit a batch at the revision that
was read*. What is hard is what lies between the read and the commit: hosts and evaluators
are awaited, other commands run, processes are lost, receipts come late or twice.

## 1. Inventory

| Component | State it keeps | Operations | Correct when |
|---|---|---|---|
| **Journal store** `storage/`, `kernel/store/` | per session: events, effects, receipts, request index, idempotency keys, cached epoch/revision/sequence | `append`, `dispatchEffect`, `applyReceipt`, `reconcileEffect`, `replay`, `outbox`, `nextEffects` | the caches are the replay of the log; no effect is claimed twice; stale evidence moves nothing; no update is lost; content and journal agree |
| **Store recovery** `store-recovery.ts`, `memory-snapshot-store.ts` | exports, one snapshot per session | `exportSession`, `restoreSession`, `save`, `recover` | intact exports revive, damaged ones are refused, a snapshot never changes the answer |
| **Budget pool** `kernel/policy/{budget,usage}.ts` | ledger: reservations, settlements, request count | `openBudgetLedger`, `reserve`, `settle`, `releaseUnspent`, `budgetSnapshot`, `usageCompleteness` | a request is charged once, on evidence; the overrun of the cap is bounded |
| **Session service** `runtime/session/` | nothing but seeds; projects the journal | `step`, `receive`, `reconcile`, `evaluate`, `pause`, `resume`, `cancel`, `observe` | see section 3 |
| **Scheduler** `kernel/scheduler/` | claims, leases (projected) | `computeFrontier`, `dispatchRound`, `grantLease`, `claimNode`, fan-in, progress | one claim per attempt, writers exclude each other |
| **Task graph** `kernel/graph/` | none (compiled document) | `compile`, `patch`, `evaluateReadiness`, `decide`, joins | a decision moves the node and enables exactly the edges it matches |
| **Policy decision** `kernel/policy/{authority,negotiate,risk}.ts` | none | `deriveAuthority`, `negotiate`, `decide` | authority only shrinks; what is sent had its evidence when it was sent |
| **Artifacts** `kernel/artifacts/` | immutable store | `put`, `readArtifact`, `verifyForConsumer` | withheld or expired content is not served; a reference keeps its content |
| **Kernel evaluation** `kernel/evaluation/` | none | report, `evaluate`, feedback, providers | success was measured, failure was seen; only the evaluator is told of what is held out |
| **Host port** `runtime/host-port/` | none: grants and usage rows are values | `grantCovers`, `delegateGrant`, `normalizeUsage`, `verifyEffect`, replay and fake hosts | a grant only shrinks; an effect begins at most once and what is answered about it stays true, for a caller who does not ask again for what was called not executed |
| Workspace `workspace/` | lock directories, fence token, application records, files | `run`, `reconcile`, `recoveryLock` | one writer; a change is applied at most once over crashes |
| Promotion `learning/promotion/` | registry, pointers, promotions | `promote`, `rollback`, `activate`, `reconcile`, `revoke` | a pointer names a qualified asset; each evaluation is used once |
| Revocation `evaluation/revocation/` | plan records | `begin`, `recover` | every cancellation and restore of the plan is settled once |
| Asset registry `learning/assets/` | histories | qualification, writer | states move forward |
| Context, proposals, retrieval `learning/*` | none | assembly, ranking | - |
| Evolution experiments `evaluation/evolution/` | registrations, observations | judgement, statistics | registered before observed |
| **Pi adapter** `hosts/pi/` | flags of the binding, the invocation in progress, entries in the session's file; records and executions of children, the shared pool | `execute`, `cancel`, `reconcile`, hooks of turns and sessions; delegation, requests of children | an effect is prompted once; an answer is of all of the work; children stay in their ceiling and their parent's life |
| **DSH adapter** `hosts/dsh/` | one entry per session beside its journal; a store of delegation records shared by instances | install, attach, create, resume, `execute`, `cancel`, `reconcile`, hooks; delegation to teammates and its evidence | a surprise stops and pauses; what was lost starts nothing before it was resumed; a teammate is given its work once |
| Ledger database `lib/ledger*` | SQLite tables, hash chain | `insertEventTx`, generations, rollback, `verifyChain` | the chain detects alteration |
| Generation runner `lib/exec`, `lib/runner.ts` | run, iteration | preflight, baseline, candidate, evaluate | stops at its bounds |
| Gate, codecs, bridge, CLI, reports, legacy import | none | pure checks, formatting, I/O | - |

How they interact. The session service calls the store (`append`, `dispatchEffect`,
`exportSession`), the pure kernel (`computeFrontier`, `dispatchRound`, `decide`, `reserve`,
`settle`) and three ports it awaits: host (`observe`, `execute`, `reconcile`), evaluator and
policy. A host also calls back: a receipt may come as a webhook (`receive`). Store recovery
rebuilds the store a session runs on. Workspace, promotion and the bindings are hosts of effects in turn:
they are given an effect by the outbox and answer with receipts; revocation drives promotion, and both bindings
of delegation take grants and usage rows from the host port.

The hard behaviours, each listed at its line under `hazards` in `PROJECT.json`:

* *stale reads* - state captured before `host.observe`, `host.execute`, `host.reconcile`
  or `evaluateTask` is awaited and used after it;
* *claim, then call* - a crash or a second command between the two must not repeat the call;
* *withdraw against claim* - cancel calls an intention unused that a step is about to send;
* *late, repeated, contradicting receipts and usage rows*, of earlier attempts and epochs;
* *chained transitions* - one batch moves a node several times and must still replay;
* *restart* from exports and snapshots that are old, damaged, or of a discarded history;
* *a host with a life of its own*: its user takes turns, its hooks fail or are removed, its sessions are
  replaced, and none of it may be taken for the outcome of an effect.

## 2. Modules

| Module | Models |
|---|---|
| `EventStore` | one session's journal: `store-session.ts`, `memory-event-store.ts`, `outbox.ts`, `projection.ts` |
| `EffectDelivery` | the abstract promise of the outbox (the comment of `outbox.ts`): an effect is absent, intended, claimed, settled, in that order |
| `StoreRecovery` | `EventStore` with exports, snapshots, process loss and restarts |
| `Budget` | the ledger as a value: every function of `budget.ts` and the completeness rule of `usage.ts` as an operator |
| `BudgetPool` | the ledger as a variable, moved by `Budget`'s operators in any order |
| `Session` | the session service, its reducer, a round of the scheduler, decisions of the graph, host and evaluator; uses `Budget` |
| `TaskGraph` | the task graph as a value: index, compilation checks, patches, readiness, joins, decisions, as operators |
| `Scheduler` | rounds, claims, leases, receipts, retries and patches over a `TaskGraph`, with `Budget` as its pool |
| `Workspace` | the lock, the fence, application records and files of one integration target, and the providers' calls |
| `AssetRegistry` | the registry of learned assets as a value: states, dependencies, expiry, transitions |
| `Promotion` | the promotion service: its artifact, the intentions, the pointers of the host |
| `Revocation` | monitoring and recovery of a revocation, driving `Promotion` |
| `HashLedger` | the ledger database as a value: chain, generations, rollback, verification |
| `GateVerdict` | the decision table of an iteration, as an operator |
| `Evolution` | the generation runner and the rollback command over repository and ledger |
| `HostPort` | grants and their delegation, usage rows, as operators both Pi modules use |
| `HostContract` | the abstract promise of a host: it begins an effect at most once, and no two of its verdicts disagree |
| `PiSession` | the binding of one Pi session: prompt, hooks, cancellation, reconciliation, the entries in its file |
| `PiDelegation` | children of a Pi session: derived grants, creation, their effects one by one, their requests in the parent's pool (`Budget`) |
| `DshSession` | the binding of one DSH session to its journal: operations, hooks, faults, pausing, reopening |
| `DshDelegation` | delegation to native teammates: the records and their revisions, hooks, transcripts, receipts |
| `Bindings` | these four side by side, and what they promise together |
| `Policy` | authority, negotiation and the decision as operators |
| `Artifacts` | references and the one path on which they are read, as operators |
| `HostGate` | capabilities, grants, leases and bindings checked before a host is called, and how its answer is read, as operators |
| `HostFake` | the scripted host the kernel is exercised against: keys, receipts, what it ran |
| `Admission` | an effect from planning to its host: `Policy`, `Artifacts`, `HostPort` and `HostFake` composed, while time, probes, approvals, revocations and epochs pass |
| `Evaluation` | the task evaluator: evidence, branches, report, verdict, feedback |
| `MCSession`, `MCWorkspace`, `MCBudgetPool` | instances TLC checks by themselves |
| `MCDelivery`, `MCKernel`, `MCRound`, `MCServices` | instances that put several machines side by side: the journal and the bindings; pool, recovery and scheduler (`MCScheduler`); a session under fairness, admission and evaluation (`MCEvaluation`); revocation and generations |
| `EventStoreProofs`, `KernelProofs`, `AdmissionProofs`, `SessionProofs`, `WorkspaceProofs`, `ServicesProofs`, `BindingsProofs`, `EvaluationProofs` | the theorems, see section 4 |

**EventStore.** `session` is the record of `store-session.ts`. Every operation builds a
request and advances the record with `CommitBatch`, as in the code; `Admissible` lists the
checks of `commitBatch` in conjuncts (`NotYetCommitted`, `AtCurrentRevision`, `AtOneEpoch`,
`EventIdsFresh`, `OutboxOk`, `ReplayOk`). The outbox is not a variable: `Entry(s, e)` projects it
from the log as `projectOutbox` does. Contents stand for their digests: two contents have the
same digest when they are equal. The order of effects and receipts in their maps is left out.

**StoreRecovery.** Adds the last export, the last snapshot and whether the store is up.
`CanRevive` is `reviveSession`: identities, replay, metadata, every request committed again
and compared. Snapshots outlive the restart from an older export, so their history may be one
the journal no longer has.

**Budget, BudgetPool.** Money is an integer count of micro-USD (the code uses safe integers
and refuses others: `NormalizeError`). A digest is what settled a request: a usage row or a release.

**Session.** The service keeps no state, so `s` is the projection (`RuntimeState`) that every
command reads: epoch, dispatch mode, attempts, node states, effects with their outbox entry
and status, the ledger and the usage rows. `Reduce` is `project.ts`, one event at a time; `s.fault`
records that an event could not be replayed (`chain`) or reserved (`budget`), which for the
code is a session nobody can read any more. Each thread is one command in progress with its
program counter, the queue of effects it still has to send and the targets it awaits. Each
`await` ends an action; between two awaits the code runs alone (one JavaScript thread), which
`running` expresses where that stretch takes several actions. `commit` compares the revision
that was read with the present one: the model keeps, instead of a number, the flag `fresh`,
cleared by every other commit (a command whose view is old can only fail).
`host` counts the calls of each effect and the fate the host gave it. `expired` holds
effects whose lease lapsed: the clock is that set.

**TaskGraph, Scheduler.** The library is pure: the caller commits what a round returns at the
revision it read, so call and commit are one step. Nodes move as the session service moves
them. Predicates are sets of outcomes. `CarriesFairness` says whether the caller hands the
counters of one round to the next, as `types.ts` documents, or empties them, as `plans.ts` does. A
patch is one of a small set; `PatchApplies` lists the checks of `patch.ts`. A round is a function of the number of turns
(`Turns`): whose turn comes next (`FirstOf`) is chosen among those left, which is the order `orderFrontier` sorts into. Left out: the
progress report, `claimNode` (nobody calls it), the pure loop settlement, the slots of edge types, the
depth gate, bindings of another epoch, holders that are never reclaimed.

**Workspace.** Several provider instances, each with calls in progress that stop at each
`await`: plan and fence, claim, publication, record. Steps joined: planning with the fence it reads, the existence
test with the arbiter lock, a throw with its catch. Of `lock.ts`, each await may also fail: making the lock directory or writing its
owner (`acquireLock`, awaited at `transactions.ts:49` and `:106` before any `try`, so the call ends and the directory stays
without evidence), removing one or the other (`releaseLock`), and the steps of `recoveryLock`. History field `stuck` marks a
lock such a failure hit. The removal of the arbiter and the lock it is followed by run side by side (`lock.ts:40` is not awaited); the model tells a failed
removal when the new lock is made or refused. If that rejection comes while nobody awaits it, the process may end, which is a crash.
The content of a file is who wrote it
last, and two bases are equal when their revisions are. A caller reconciles only effects that
are claimed or settled, as the session does. The first run gives each instance one call at
a time (`Apart`), the second two (`Together`). Left out: reuse of process ids and several
instances in one process.

**AssetRegistry, Promotion, Revocation.** An evaluation stands for its asset, a snapshot for its asset
or "base"; a promotion and its effect share their id; a context is a host session and scope. Each
thread is a process of its own. A host's `not-executed` fences the call (the host contract): its
fate is "never". Staging and validation happen before `initialize`. What an asset depends on (`DependsOn`) is the
least set closed under its references, which is what the code's walk computes. The id of a restore (`RestoreId`) is a constant
that tells requests and pointers apart, as the code's string of both does.

**HashLedger, GateVerdict, Evolution.** A generation and its commit share an id. SQLite
transactions are external: all or nothing. What an adapter changed and measured is the
model's choice, within the contract's limits. Left out: status texts, diagnostic events, prompts, processes.

**HostPort, HostContract.** A grant is a record of the fields that delegation compares. `HostContract` knows how
often a host began an effect and which definite answers it gave; an acknowledged stop (`native-ack`) is
an answer but no verdict, the receipt follows. `reissued` is a history of the caller: the effects it asked for again after it was told
"not executed". For these the host promises no more than one beginning, and the earlier answer no longer binds it. No caller in the kernel makes
use of that: the journal intends and claims each effect once (`AtMostOneClaim`, `ImplementsDelivery`), and what a later round
intends has a new id (`plans.ts:89`). Only the Pi session needs this exception; the other three keep the promise with `reissued` empty.

**Policy, Artifacts, HostGate, HostFake, Admission.** An operation is planned, its effect is dispatched, delivered once, twice or late, and read
back; each takes the gates of the code in their order. `chain` holds the grants derived under the root. What changes meanwhile
is one step of `Around`, counted by `changes`. Scopes are sets of names. A cancellation passes no budget. Left out: size limits, the
confidence a report shows, the wording of refusals, the verification of a task board and the replay host.

**Evaluation.** An item is a reference with its content, reduced to what its provider measures. What an attempt leaves is collected in any order; a
report captures what there is, and the world goes on until its evaluation. Two gaps of `service.ts` are left out (privacy not checked, `:61`;
evidence of private tests missing, `:89`), so that the model calls more attempts successful than the code. The verdict keeps the report it was of.

**PiSession.** `binding` holds the flags (`attached`, `idle`, `fault`, `unloaded`), `run` is the invocation, `memo`
and `log` are what the binding and the file know of each effect: an append can fail after the memory was written, and a
reopened session starts from the file. An execution may be repeated at any time, also of what was answered: the guard is the code's,
a record, not what was told. Hooks of turns the binding did not start are the user's. Usage is mapped as
`usage.ts` does, with its three reasons for an incomplete row. What an ordinary answer spent is not modelled.

**PiDelegation.** A record moves prepared, created, dispatched, settled, each step journaled before the
next await; `run` says where an execution stands, `fate` what became of the child's effects. Closing interrupts all runs in one step, the code one by one. Each provider request is
reserved in `ledger` with the operators of `Budget` and owned by the invocation of a child or of the parent. The subset check of
capabilities is one flag of a plan (`retained`).

**DshSession.** A step that sends several effects looks at the journal's mode before each (`session/dispatch.ts:16-55`) and at the
health of the binding once; `Claims` asks for both each time. Operations are queued per session, so `op` is one record; a turn runs between its awaits.
`journal` keeps the dispatch mode, whether the epoch is resumed and how far each effect is. What the binding loses with the process
(`dispatched`, receipts not yet journaled) is in `entry`. A binding that was uninstalled while it awaited may
still begin its effect (`stray`). Awaiting the host's context lasts microtasks: nothing of a user fits in. A caller
repeats an effect until it holds a definite answer.

**DshDelegation.** The store is shared: threads, hooks and reconciliations write a record at the revision they read. A transcript is a
sequence of the events the receipt is read from; `Window` is the part since the dispatch. Hooks pick any unsettled
record of the child where the code picks the first of a query. Assumed of the native side: an aborted request leaves an event, and an
interrupted turn passes its first hook.

Abstracted in Session, because no property here tells them apart:

* policy port, authority, artifact and deadline refusals are one action, `Denied`, that ends
  the command where the code returns an error;
* the predicates on edges are a nondeterministic choice of the edge that matched;
* there are no join nodes, data edges or abandoned branches;
* one exclusive resource; a writer node needs it, others need nothing;
* receipts have no id of their own (redelivery of a recorded receipt changes nothing); the
  host is honest: it reports what it did, or `unknown`;
* one usage row per receipt; the fairness order of a round is the declaration order of the
  nodes, since the service always passes `emptyFairness()`.

## 3. What is checked

Every cfg sets `CHECK_DEADLOCK FALSE`: a session may come to rest (everything settled or
cancelled), and the bounds end the rest.

| Run | Shows |
|---|---|
| `delivery` | five machines side by side. *Journal*, with stale, repeated and colliding requests and receipts from any number of callers: `JournalReplays`, `AtMostOneClaim`, `SerialHistory` (no lost update), `ContentMatchesJournal`, `NothingStaleMovesAnEffect`, and that the store implements `EffectDelivery`. *Bindings*: the Pi session, the Pi delegation and the DSH session implement `HostContract`, the Pi session for callers who do not reissue; `DispatchedOnce` for children and teammates; `AnswersAreWhole`; `ChildrenStayBounded`; `PausesAreHonored` of the DSH session (what has a fault is paused, what was lost or disposed of starts nothing before it was resumed) |
| `kernel` | three machines side by side. *Pool*: `ChargedOnce`, `SettledOnEvidence`, `SpendIsExplained` (the overrun is bounded, and rows called complete add up to what was spent) for duplicate, partial, contradicting and oversized rows and releases. *Recovery*: `RecoveryIsExact` (intact exports revive, one with a lost, repeated or altered part is refused, a snapshot never changes the answer). *Scheduler*: `HoldersExclude`, `WorkIsCurrent` (only the newest holder's work counts, and it stands on the graph it was sent out with), `PassedOverOnce` over rounds, expiries, late receipts, retries and patches |
| `workspace` | crashes, exceptions, lapsing leases and foreign changes around competing patches: `OneWriter`, `ReceiptsTellTheTruth` (a receipt agrees with what was published), `KeptLocksAreRecoverable` (a lock an idle live instance leaves names its owner and is for an effect that is reconciled, unless the file system failed on the lock itself) |
| `services` | two machines side by side. *Revocation*: `PointersAreTrue` (they agree with the host, and what is served is active), `RevocationIsHonest` (a cancellation is asked for once, a complete revocation leaves nothing behind). *Generations*: `LedgerIsExplained`, `GenerationsAreGenuine` (pinned, and what was evaluated), `ExhaustedAcceptsNothing` |
| `session_lifecycle` | one node, two commands at a time, all commands and crashes: `StopsAreFinal` (what is withdrawn never runs, what is called cancelled is settled), `StoppedLaunchesNothing` |
| `session_graph` | three nodes, three graphs, two commands at a time, expiring leases: `EachSentOnce` (each effect reaches the host once and one thread holds its claim), `SuccessIsBacked`, `PlansReplay`, `SupersededStays` |
| `session_reconciles` | three machines side by side. *Session*: `UnknownIsReconciled` under fairness, within an epoch. *Admission*: `AuthorityShrinks`, `HostRunsOnce`, `SentOnEvidence` (at the claim the guarantees hold, or only evolution misses one and may; grants live, inputs can be read). *Evaluation*: `OutcomeIsMeasured`, `FeedbackIsPublic` |
| `budget_exhausted` | *violated*: see below |
| `session_reservation` | *violated*: see below |
| `session_reconcile_stale` | *violated*: see below |
| `workspace_overlap` | *violated*: see below |
| `scheduler_forgets` | *violated*: see below |

The machines of `delivery`, of `kernel`, of `session_reconciles` and of `services` share no state: the initial state chooses one, the others
rest, and the state space is the sum of theirs. A property of theirs is a conjunction of what it says of each.

Each property of a passing run has a mutant in `PROJECT.json`: a plausible defect of the code
(written as an operator before the right one, under a comment "Defect") that breaks it.

**Bounds.** `delivery`, the journal: three effects of which two share an idempotency key, eight
revisions, epochs 1-3, eleven append requests written so that each check of `commitBatch`
refuses one and accepts another; the log can hold the whole life of two effects over an
epoch change, which is the longest interaction the code distinguishes. The bindings: one effect of a Pi session with four kinds of
message, two requests and two upsets (a loss, a failure, a replacement or a user's turn); two symmetric children of two
effects each under a ceiling that pays for one request, one tick of time and one upset; one turn and one tool call of a DSH session with two
model answers and two upsets; one new teammate and one member, two executions at a time, one tool call, four events per transcript and one upset.
Two upsets are enough for a failure and a second one in its handling.
`kernel`: for the recovery
one effect and five revisions, enough for two histories that part at the same positions.
For the pool three requests, six policies in which another limit binds first, rows below,
at and above the reservation. For the scheduler four nodes: two writers of one
resource, a reader and writer fed by data and by a route of the first, and a join of all; two agents at a time,
leases of one tick with two ticks of time, four fencing tokens, streaks up to three, four patches.
`workspace`: two instances, an effect and one that competes with or undoes it, two epochs, two upsets (a crash, an exception or a foreign change).
`services`: two assets of which one expires, one pointer, a request in two attempts, two symmetric
processes, one loss; and two runs of two iterations and one with limits of cost and of tokens below what the iterations may spend,
two failures, one idle iteration, one disturbance, stray writes of the same, another and a protected path.
`session_lifecycle`: three effects (an execution, its
cancellation, an execution or cancellation after a resume), two epochs. `session_graph`: two
attempts, three effects and one epoch; the epoch moves in the other instance. `session_reconciles`: for admission four
operations (a run that reads a brief, a delegation, a read-back, a stop), two hours, two epochs and two changes of the surroundings, an alternative that leads
back to itself (the manifest that lacks a guarantee ends in a denial, so substitution is covered by `ClaimsHaveEvidence` of section 4 only); for evaluation one outcome, one branch, private tests, two attempts and runs that
complete, ask for a human or time out. Threads are
interchangeable and declared symmetric, except in the liveness runs, which have one thread.

**Fairness** (`FairSpec`). A command that runs comes to its end (weak fairness: the code
between awaits is straight-line and awaits return), somebody asks again and again to
reconcile (strong fairness of `ReconcileBegin` and `ReconcileNext`: the caller's duty by the
comment of `memory-event-store.ts`), and the host decides each call it got. Nothing is assumed of
webhooks, of steps being started or of crashes ending. In `MCRound` the session is at rest when another machine was chosen; a session at
rest has no action that fairness is asked of, so the assumption excludes no behaviour of the others.

**Disagreements with the documents.**

1. `BudgetSnapshot.exhausted` (`budget.ts:110`) is documented as "no further reservation can be admitted",
   but is false while the remaining cap is positive yet smaller than a reservation. The
   admission gate then passes a round whose reservations are all refused.
2. A decision `needs-human` leaves the node waiting; the next round wakes it in the same
   attempt and epoch, hence plans it under the same `reservationRef`, which is already settled.
   `reserve` is then a no-op, the intention owns no reservation, and `dispatchPending` refuses it
   on every step - against the comment at `dispatch.ts:28` and rule A04 of `OWNERSHIP.md`.
3. After a resume, receipts that `reconcile` fetches for effects of the earlier epoch are
   archived as stale, each time; the effect stays unknown. `ERRORS.md:88` says reconcile in
   the current epoch settles it.

4. `recoveryLock` (`workspace/lock.ts:38`) counts runs, not reconciliations, as activity of a live owner: of two
   reconciliations of one effect by one instance the second removes the lock the first has just
   taken (`TransactionsExclude`), against `workspace/README.md:53`.
5. `planRound` (`plans.ts:66`) passes empty fairness counters to every round: a retried node takes the
   resource again before the one that was deferred (`PassedOverOnce`), against `types.ts:142` and `fairness.ts:4`.

Met while modelling and not made into runs, in the session: a `host.cancel` acknowledgement writes `cancelled`
over a target that a receipt resolved meanwhile (`receipts.ts:88`, which skips the conflict check of
line 68); `evaluate` in a cancelling session may open a new attempt, after which the
acknowledgement is stale.

In graph and scheduler: the branches a join requires are no part of the acyclicity check, so a join
and a branch that depends on it compile and wait for each other; a node noted as waiting whose
upstream is abandoned later is never failed (gaps are noted only for new, pending and ready
nodes); an abandoned node that still runs no longer counts as an agent; a
node that needs two resources can be overtaken for ever although `fairness.ts` says it cannot; the comment of
`resources.ts` lets a patch change a policy mode that `patch.ts` keeps; `edgeBindingChanged` (`patch.ts:66`)
does not compare the source of an edge, so the producer of a running node's input can be exchanged.

In the workspace: `return acquireLock` (`lock.ts:40`) is not awaited, so the arbiter lock is released
while the writer lock is still being taken; a crash inside the arbiter leaves `reconcile.lock` for
ever; between removal and acquisition (`lock.ts:39`) another writer may come in. `acquireLock` makes the directory before it writes
the owner (`lock.ts:11-17`): if the write throws, a lock without evidence stays and every later writer is refused, for an effect that
was never claimed. TLC found that in eight states against the stronger claim that an effect not claimed leaves no lock (it was written, sealed and
intended, its run began, made the directory and threw). `recoveryLock` leaves such a lock to manual inspection (`lock.ts:32`), so
`KeptLocksAreRecoverable` excepts locks that are `stuck` and no other.

In promotion: the resumption of an intention uses the registry read before `host.observe`; an
intention never claimed whose deadline or epoch passed blocks `sessionReady`; after a
`not-executed` a promotion stays pending unless it is revoked.

In the bindings of Pi: a cancellation of a run that has just completed is acknowledged although its receipt will say
completed; one of a dispatched child with two effects can never be acknowledged; a child lost while prepared or created stays unknown for
ever. A cancellation of a run in preparation is answered "not executed" from memory (`binding.ts:228`, `:236`); if the context then
fails (`:149`) or the gate has closed (`:152-153`), the run ends before the record of `:154-156`, and nothing is left of the answer. An
execution repeated afterwards finds no record and prompts. TLC finds it in seven states when `HostContract` has no exception: attach, execute, cancel
(told), refusal, execute, prompt. The binding relies on a caller who takes "not executed" as final, as the journal does; `HostContract` says so with `reissued`.

In the bindings of DSH: `port.ts:87-110` tests `running` before it awaits the context and dispatches even if a fault was latched meanwhile
(the result is then unknown); `step` while the native agent runs latches a permanent fault; `host.cancel` interrupts
whatever turn of the loop is running, a user's too; `health.ts:11` demands that a restart re-admits the journal, but attaching
a journal that was never resumed (`binding.ts:61`, `:214`) or whose read failed (`binding.ts:63-66`) does not pause it: the model calls these
sessions `lapsed` and `PausesAreHonored` asks nothing of their reopening; of two concurrent tool calls of a child the second is
denied because the record's revision moved; a cancellation of a delegation whose receipt is decided but not yet saved interrupts the child's later
work (`delegation.ts:134-138`, against its comment at 171); a handoff can be reported completed before its message was read (against
`delegation-evidence.ts:1`).
A receipt of a teammate compares numbers of requests and attempts (`delegation-evidence.ts`, `inspectChild`) and not which is which: a request
that was admitted and lost with its process leaves no attempt, so that a later one that no hook saw can stand in for it and the delegation is
called completed. It takes three upsets (hooks disposed of, and two losses), one more than run `delivery` has; it was met while
`CompletedIsCovered` was proved. `lost` marks these delegations, and the property excepts them and no other.

In admission: `decide` returns `degrade` before it looks at budget and usage, so less evidence can turn a `needs-authorization` into a
decision that is dispatched; `deriveAuthority` takes the larger of the revocation epochs of root and parent; the memory
artifact store compares id and digest only; a key minted anew for an effect that completed would make the fake host run it again,
which no caller does. In evaluation: a runtime task with required branches that include the one judged finds itself `verifying`
without a decision, which is a gap, so its outcome stays unknown.

In the runner: two runs at once build on the active commit each read at its start, so the second
acceptance drops the first from the lineage; two first runs pin the baseline both and the second's record
fails on its key; a loss between pin and record leaves `refs/evofence/active` ahead of the
ledger until the next baseline; a change taken back between two diffs is not seen.

## 4. What is proved

Each theorem holds for every value of the constants that satisfies the named assumptions of its module; TLC evaluates
these on the instances. Each rests on an inductive invariant: its parts are named below, as is why they are needed.

| Module | Theorems (property of a run) |
|---|---|
| `EventStoreProofs` | `TypeCorrect`, `OutboxAlwaysProjects`, `EffectsAreClaimedOnce` (`AtMostOneClaim`), `JournalAlwaysReplays`, `ContentAlwaysMatches`, `HistoryIsSerial` (`SerialHistory`), `RecoveryStaysExact` (`RecoveryIsExact`) |
| | `NothingStaleMoves` (`NothingStaleMovesAnEffect`), `StoreDelivers` (`ImplementsDelivery`, the refinement) |
| `KernelProofs` (pool) | `PoolTypeCorrect`, `RequestsAreChargedOnce` (`ChargedOnce`), `SpendIsEvidenced` (`SettledOnEvidence`), `SpendStaysExplained` (`SpendIsExplained`) |
| `SessionProofs` | `TypeCorrect` (`TypeOK`), `PlansAreAccepted` (`PlansReplay`), `SentAndClaimedOnce` (`EachSentOnce`), `StopsStay` (`StopsAreFinal`) |
| | `StoppedIsQuiet` (`StoppedLaunchesNothing`), `SuccessesAreBacked` (`SuccessIsBacked`), `SupersededIsLeft` (`SupersededStays`) |
| `KernelProofs` (scheduler) | `TypeCorrect`, `LeasesExclude` (`HoldersExclude`), `WorkStaysCurrent` (`WorkIsCurrent`), `PassedOverAtMostOnce` (`PassedOverOnce`) |
| `AdmissionProofs` | `DelegationShrinks` (`AuthorityShrinks`), `HostNeverRunsTwice` (`HostRunsOnce`), `ClaimsHaveEvidence` (`SentOnEvidence`) |
| `WorkspaceProofs` | `LockProtects` (`OneWriter`), `ReceiptsAreTrue` (`ReceiptsTellTheTruth`), `KeptForRecovery` (`KeptLocksAreRecoverable`) |
| `EvaluationProofs` | `VerdictsAreMeasured` (`OutcomeIsMeasured`), `FeedbackStaysPublic` (`FeedbackIsPublic`) |
| `ServicesProofs` (generations) | `LedgerHolds` (`LedgerIsExplained`), `GenerationsHold` (`GenerationsAreGenuine`), `PinnedFirst`, `LimitsStopRuns` (`ExhaustedAcceptsNothing`) |
| `ServicesProofs` (revocation) | `PointersStayTrue` (`PointersAreTrue`), `RevocationsAreHonest` (`RevocationIsHonest`) |
| `BindingsProofs` | `BindingsKeepTheirPromise` (`ImplementsHostContract`, the refinement), `BindingsDispatchOnce` (`DispatchedOnce`), `BindingsAnswerWhole` (`AnswersAreWhole`) |
| | `BindingsBoundTheirChildren` (`ChildrenStayBounded`), `BindingsHonorPauses` (`PausesAreHonored`) |
| (their parts) | Pi session: `PiKeepsItsPromise`, `PiCompletesWhole`, `PiStopsForGood`; its delegations: `ChildrenKeepThePromise`, `ChildrenRunOnce`, `ChildrenAreWholeAndPaid`, `ChildrenStayUnderCeiling`, `ChildClosedStaysQuiet` |
| | DSH session: `DshKeepsItsPromise`, `DshAnswersCovered`, `DshAcksAgree`, `DshHonorsPauses`; its team: `TeamDispatchesOnce`, `TeamAnswersCovered` |

**The journal.** All four operations change the record by one `CommitBatch` of a well-formed request
(`NextCommits`), so each invariant is shown once for a commit. The typed record is the base; `OutboxProjects` is
preserved because `commitBatch` projects the extended log before it installs it, and it is what implies one
claim per effect: a second claim would be a `dispatched` event whose effect is not intended (`ProjectedClaims`).
`JournalReplays` needs that a replay of a log extends to the replay of the longer one with the same baseline
(`ReplaysFromBaseline`, `CommitReplays`). `SerialHistory` says of each committed request that it was computed at the
revision it follows and that its drafts are exactly the events of that revision; the ids of the requests must be
unique for it, which the index of the requests gives. Assumed: the typing of the constants (`ConstantsAssumption`).

**Delivery.** `NothingStaleMovesAnEffect` needs that an effect has content under one binding for ever (`ContentOf`) and that
effects enter with requests of `append` alone. `CallersAssumption` is what callers in `runtime/session` keep to: claims are
written by `dispatchEffect` only, and a receipt is applied with its content and under the binding its effect was intended with;
`append` itself checks neither. The abstract delivery had to say more than "one effect at a time": one transaction may withdraw several
effects and intend their cancellation (`cancelSession`), and at the level of the store an unknown receipt may follow a
settled one. What stays is the promise: an effect is intended once, claimed once, from there and in its epoch.

**Recovery.** Replay and recommit are recursive functions over the positions of a log (`Projections`, `Recommits`), so that `Induction` over numbers
reaches them. `SurvivorsSound` says of the record in memory, of the one that was exported and of the one a snapshot was taken of that each is `Sound`:
identities are unique, the log replays to the caches, and its requests, committed again from the baseline, make the same record. A commit keeps that
(`CommitStaysSound`), since recommitting a longer list ends with the commit that made it longer (`RecommitGrows`). From it follow the three parts: a sound export
revives (`SoundRevives`); one with a lost event or request, a repeated request or an altered part does not (`DamagedRefused`), since what is recommitted has as
many events and the same index as the requests (`RecommitsMakeAsMany`); and replaying on from a snapshot that agrees with the log is replaying
the log (`RecoveryTells`).

**The pool.** `ChargedOnce` is not inductive: that the counter counts the rows needs finite sets (`FiniteLedger`),
and that a release charges no more than was reserved needs every reservation to hold the same amount (`Uniform`).
`SpendIsExplained` is about sums over sets of rows. A sum is a recursive function on the subsets of a finite set; that it adds up whatever the
order (`TotalRemoves`), and that two sets matched one to one have one sum (`TotalsAgree`), follow by an induction over subsets (`SubsetInduction`).
The state invariant is `SpendInv`: what a complete row measured has been settled (`RowsSettled`), and the committed amount exceeds the cap by at most
the worst overrun of a row for each slot that is *not* in flight (`CapKept`): a settlement frees a slot as it overruns, and the next
reservation, which passes only below the cap, starts the count again. `SettledOnEvidence` gives the converse match, from settlements to rows.

**The session.** None of the seven properties is inductive: each depends on what a *batch* does, and a batch is a fold of `Reduce` over its
events. `History` gives the states between the events of a batch, and an induction over sets of numbers (`Induction`, from the
well-foundedness of finite sets) carries along a batch what one event preserves. So the proof has three storeys. The lowest says what
each batch amounts to: a round leases the admitted nodes and intends one effect for each (`RoundDone`), a receipt
answers its effect and takes the attempt to where `ReceiptEnd` says (`ReceiptDone`), and in the same way `ClaimDone`, `StopDone` (a cancellation withdraws
what is not sent, and targets the rest), `DecisionDone`. The second shows that each keeps the journal `Sound`: a status fits its entry (`StatusFits`, `EntriesFit`),
no attempt has two unresolved effects (`ClaimsFit`), a superseded attempt is at rest and a later one untouched
(`AttemptsFit`), and a cancellation targets everything unresolved, one effect per attempt (`StopsFit`). The third has one lemma per action for the
inductive invariant `Fits`: beside `Sound(s)`, the host has run only what was claimed and reports only what it did (`HostFit`), and every operation
has in hand what it may still rely on (`ThreadFits`): the one about to call has its effect claimed and uncalled in an active
session, the one that evaluates has an effect that is still evaluable unless another commit made its view old. `ThreadFits` is
what the interleavings are about: it names exactly what the code may use after an `await`.
On top stand `OneWriter` (of the live effects at most one holds the writer lease, since a round grants it only when
no unresolved effect has it and `expired` never shrinks), `Backed` (a succeeded attempt has a completed effect) and the action
property `Stepped`, from which `SupersededStays` follows. Its exception is in the code: `planReceipt` (`receipts.ts`) calls every
target of an acknowledged cancellation cancelled, so an acknowledgement that comes after a target completed moves an attempt that already
succeeded or was superseded. Assumed: `SessionAssumption`, what a validated run document and the runtime give: finite bounds, a
pool that can be opened, nodes declared once, `None` outside of all sets.

**The scheduler.** A round walks the frontier, and each turn counts with the leases the turns before it granted, so `RoundFits` states what
holds after each turn and `Induction` carries it to the end: the leases of the round are within their holders (`LeasesFit`), its claims are
those before it and one for each node it dispatched (`ClaimsFit`), and who had a turn goes before everybody left (`OrderFits`). That `GoesBefore` has a
first element in every set of nodes (`FirstOf`) rests on the ranks of different nodes being different, as references resolve.
`LeaseInv` says of the table what the library calls fencing: tokens are distinct and below the next one, and expired grants stay as history. The
count of agents is of claims on nodes *in play*, which a patch or a decision could widen without a grant; `ClaimInv` closes that: a
claim with a live lease is of the current attempt of a node that is leased. A node is leased under a claim that only a receipt, a reclaim or
the end of the lease takes away, and the round refuses a node that holds one. `WorkInv` ties the history of what was
sent out to grants and graph. A patch keeps it because `KeepsWorkInFlight` compares specifications and bindings of locked nodes before
the revision is installed. `AcceptedInv`: an honoured lease is released, and a token once gone does not come back; nobody newer was let in since an exclusive lease counts
only while live, and a resource of that mode has one holder: the hypothesis of `ResourcePolicy` in `ValidConstants`.
`PassedOverOnce` is about two counters of two nodes over any number of rounds: `FairnessInv` says that whoever was passed over
once waits with a longer streak than the one that overtook it, so that the next turn is its own. It holds under
`CarriesFairness`; without it the run `scheduler_forgets` shows it broken. Assumed besides: what decoded documents are (`ValidConstants`: the graph and
the patches are over the nodes declared, a decision that was decoded is one of five).

**Admission and the host.** `ChainInv`: grants of a chain are well-formed, narrow each other pairwise (narrowing is
transitive, so one step extends the whole chain) and are of an epoch the root has seen. `EffectsInv`: what is planned stays as it was planned,
and only that is claimed. `HostInv` is what makes one run of one claim: what is kept under a key is kept for its own effect (`KeysFit`), an operation
that ran has a key (`RunsFit`), and what costs something and is not reported as not executed has run (`ReceiptsFit`); a second key is minted only for
what is unknown, and the host refuses that as a blind retry. `AroundInv` is about time, manifest and revocations.
`ClaimsHaveEvidence` is an action property: that the gates are evaluated at the claim does not yet make them evidence; the proof goes from the
verdict of the negotiation back to what the host reported (`SatisfiedIsProvided`, `ExecutableIsSubstituted`) and
from the derived authority to the life of the root (`AuthorityIsCurrent`). `ValidConstants` is what decoded documents are: complete scopes,
guarantees hard or degradable, references under their own ids.

**Evaluation.** A verdict is decided from the list of gaps, so the lemmas read that list backwards. `GapsAre` takes it apart; `KnownIs` says what
the absence of an unknown gap gives: the bytes are there, each metric has its provider and each of those measured something. With `TestsAre`,
`OutcomesAre`, `DeliverablesAre` and `HostRunsAre`, which say what a status of each provider stands on, success follows from no gap
(`SuccessIs`) and failure from a failed one (`FailureIs`). What they need of the past is `EvaluationInv`. A report may wait while its attempt ends and the next one begins:
`ReportFits` says that its binding is of an attempt up to the current one, and that the observations it names are there unless it is of an earlier
one, which `EvaluateError` refuses. Its branches may settle or reopen meanwhile: by `BranchesAgree` a settled state it reports under the binding the branch
still has is the state of the branch, since a branch settles once in each attempt and a new attempt has a new binding. Without it `BranchGap`, which compares bindings only,
would not show that the state in the report is current. `FeedbackIsPublic` needs `MetricGapIs`: a
gap named after a metric has all items its provider measured among its references, so that one that is told with its reason hid none of them.
Assumed (`ValidRegistration`): a provider has one of the four metrics (`types.ts`); the counts of a test observation are natural numbers, as `testsProvider` refuses
any other; `None` is no outcome, gap or error. The instance of run `session_reconciles` satisfies them.

**The workspace.** `OneCallEach`, that an instance serves one call at a time, is a hypothesis of the theorems and not an
assumption of the module: the run `workspace_overlap` shows what happens without it. `LockInv`: a call that has made the lock
directory owns it (`HoldersOwn`), a call past its claim works on a claimed effect, and a live lock is held by a call, kept
for a claimed effect with its evidence, or stuck (`LocksAreExplained`); recovery takes a lock over only from a dead process or an idle
instance, and that is where the second and third part are used. `HistoryInv`: a snapshot is selected once, revisions grow and are never
shared, so that target and record together tell whether it was (`TargetShowsPublished`); and what each call remembers between its awaits
(`CallInv`: its plan, its record, its outcome) is still true of them. Undoing an effect needs its record (`Recorded`).
`AbsentAssumption` says that `None` is no effect, outcome, base, lock or record.

**Generations.** `LedgerIsExplained` is proved for every interleaving of runs and rollbacks (`LedgerInv`). `RunInv` has what a run knows
at its place: what it pins is pinned (`Pinned`), a run goes on only while no limit is reached (`Affordable`), and what it compared
before and after the measurement (`Compared`). `AcceptedIsEvaluated` holds under `NothingPutBack`: a stray write that replaces
the content while the tests run and is itself undone before the second diff is seen by nobody, since the code compares the
two ends only. Without the hypothesis, `PinnedFirst`, `LedgerHolds` and `LimitsStopRuns` still hold. `ValidConstants` is what a
validated contract and the meters leave possible: positive limits, use in whole units.

**Promotion and revocation.** `StateInv` relates the promotions (as a `book`, by id), their effects in the journal and on the host, the
registry and the pointers: an effect's state, receipt and fate agree (`EffectsFit`), dependencies of what is registered are
registered (`Closed`), an active record is of an asset active in its context (`RecordsFit`), at most one activation of a host session is open (`OneOpen`),
the host is ahead of a pointer only by an open activation (`HostFollows`), and a pointer is at a snapshot some promotion
reached (`PointersFit`). `CallInv` says what a call in progress may rely on across its awaits. `CancelInv` counts: the
request for a cancellation is recorded before it is sent, by one call. `CleanInv` is what completeness needs: what is affected is
revoked and nothing of it can open again, an unfinished promotion of it has a cancellation, a pointer that is or may come to be on it has a restore
(`RevisionFits`); a restore begins when nothing affected is open (`RestoreFits`); and the plan in the hands of a recovery, read before its
awaits, is an earlier form of the record (`Continues`, `RecoveryFits`). Assumed: `RestoreId` differs for different requests and pointers and
from other ids; `None` and `"base"` name nothing else.

**The bindings.** Each of the four has its invariant, and the theorems about module `Bindings` follow from theirs. The promise
(`HostContract`) is about histories only: how often an effect was given to the native session, what was told of it,
and which effects were asked for again after "not executed". `PiInv` relates them to what the binding keeps: what an entry says of its effect is so (`EntriesFit`), in memory and
in the session's file, and a run that has prompted left its entry (`RunFits`). The entry is appended before the prompt, and that
order carries the proof: a binding that is attached to the file after a loss finds the entry of whatever was prompted.
An effect in progress that was once called not executed was asked for again, so `PiExecuteFits` has a reissue to map its step to (`PiOld`).
`ToldFits` and `AbortFits` say the same of verdicts and of stops that are on their way. `DshInv` has the journal in the place of the
file: what is to begin, in this binding or in one that was uninstalled, was sent and not given (`OpFits`, `EffectsFit`), so that
it begins once although nothing is asked again after the context was awaited. What an execution missed stays in its entry until it is answered
(`RunFits`), which makes a verdict one of a whole execution. An execution whose stop was acknowledged ended as aborted; that
it is not told completed needs the counts of `RunFits`: a turn that ends was answered, so two ends took two
answers, and these make the outcome unknown. `EntryFits` is what pauses rest on: a fault comes with the pause or with the admission that it
failed, and a healthy entry of an active journal was admitted. 

`ChildInv` has for each delegation of a Pi session: the file is behind the memory only by an outcome that is not known, of a run that is over
(`ChildRecordFits`); before the child is there none of its effects ran, and while one is on its way all before it are completed and none after
it began (`ChildRunFits`); an effect is called when its fate begins (`ChildCallsFit`). A run begins from an empty record only, so a second
one finds a record, and a record that was dispatched is never run again: `ChildRunsOnce`. What was told is on file, or was told of a child that
was never created (`ChildReceiptFits`), which with `ChildWhole` gives `DoneIsWholeAndPaid` and the promise, where a delegation begins
with its first effect. The ceiling is an invariant of the requests a child owns (`ChildCeilingFits`): they only grow, and each is reserved at the
price the pool was opened with.

`TeamInv` has for each delegation of a DSH team: its record is there since it was sent (`TeamDispatchesFit`), by one execution
(`TeamRunsFit`). For `CompletedIsCovered` it follows the evidence into the transcript: an admitted request was answered, is on its way or was lost
(`TeamRequestsFit`); a call in progress is in the transcript (`TeamCallsFit`); and what no hook admitted stays there, a call that is in no record
(`TeamUnseen`) or a request beside the one that was admitted (`TeamBeside`), so that the counts cannot agree. That a new
teammate is not there before it was made (`TeamFreshFits`) keeps the transcripts of two delegations apart.

Assumed (`Apart`): `Nil` is none of the values; agents and tools are different effects; a plan has at most `MaxSteps` effects and asks for a whole number
of requests, of which there are finitely many; the parent is none of its delegations; `spawnTeammate` makes a member
of its own for each delegation (`delegation.ts:111`, external). The instance of run `delivery` satisfies them.

TLC checked each inductive invariant on the instances before it was proved.

**Only model-checked.** `UnknownIsReconciled` (liveness under fairness). What a recursive definition computes for every input
is in general out of reach, since an induction theorem takes an operator as a parameter, which the provers here cannot instantiate. For `Session`,
`Scheduler` and the recovery an induction over sets of numbers was enough, for `BudgetPool` one over subsets. The modules that are proved about declare no `RECURSIVE` operator.

## 5. Plan

Done: every component of section 1 that has a module, and the proofs above. Next:

1. `Session`'s effects against `EffectDelivery`, as a run, then from `Fits`.

**Not modelled.** Document validation, codecs, formatting, file conversion, statistics and ranking are pure functions
or I/O, where a test reaches what a model would.
