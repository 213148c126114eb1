# ghostgc in TLA+

ghostgc is a daemon that watches coding-agent sessions and, with explicit
authority, cleans up what they leave behind: processes (SIGTERM), shell-snapshot
files (quarantine, restore, purge) and Git worktrees (retire, restore, purge).
Everything it promises is about *side effects*: none without fresh evidence,
none without a durable row written first, none after an ambiguous result. This
project models the three lanes that perform them, the parts they rest on
(sessions, process tree, protections, configuration, storage, socket, log) and
the promise the lanes have in common, checks them with TLC on small instances
and proves with TLAPS, for every value of the constants, all of them that are
about safety.

## Inventory

| Component | State | Operations | Talks to |
|---|---|---|---|
| Process scan (`daemon/scan.go` and the stages it calls) | `d.snapshot`, activity baselines, previous classifications, cadence clocks; `processes`, `sessions`, `session_processes`, `policy_*` rows | `runScan`, `recordScanFailure` | collectors, reconciler, SQLite |
| Manual cleanup (`daemon/approval.go`, `action.go`, `action_revalidation.go`) | `d.approvals`, `actions` rows | preview, apply, revalidate, complete | scan lane through `scanMu`, signal gate |
| Automatic cleanup (`daemon/automatic.go`) | cooldown in `policy_decisions` | one decision per committed evaluation | runs inside the scan's lock |
| Signal gate (`platform/darwin/signal.go`) | none | inspect, compare, `kill` | kernel |
| Cache scan (`daemon/cache_scan.go`, `cachepolicy`, `cacheprovider/codex`) | `cache_artifacts`, `cache_evaluations`, `d.cacheHealthy` | observe, evaluate, persist or fail | filesystem, stored session rows |
| Cache actions (`daemon/cache_*_action.go`, `cache_approval.go`, `cache_revalidation.go`) | `d.cacheApprovals`, `d.cachePurgePlans`, `cache_actions`, `cache_quarantines`, circuit | previews, applies, purge prepare and completion | `cacheMu` then `scanMu`, `cachefs` |
| Worktree lane (`daemon/worktree_*.go`, `internal/worktree`) | `worktrees`, `worktree_actions`, `d.worktreeApprovals`, `d.worktreePurgePlans`, circuit | inventory in the process scan; retire, restore, purge | Git, `worktreeActionMu` then `scanMu` |
| Foreground executors (`cmd/cli/cache.go`, `cmd/cli/worktree.go`) | one plan | check, remove, report | filesystem and Git without any lock, daemon over the API |
| Sessions (`internal/sessions`, `adapters/codex`) | ownership, states, roots and native ids known to the reconciler; their rows | reconcile, commit, seed | process tree, rollout files, SQLite |
| Process tree (`process/tree.go`) | none | links, ancestors, descendants | a snapshot |
| Protections (`internal/protection`) | none | one set of rules per process | snapshot, attribution, configuration |
| Storage (`storage/store.go`, `write.go`) | the database file | open, migrate, move aside, upserts | all lanes |
| Retention (`storage/retention.go`) | all tables | two passes | scans and actions between them |
| Socket (`api/server.go`) | the socket file | listen, serve, shut down | competing daemons |
| Configuration (`internal/config`) | modes, policies | load, overlay, validate, cap | all lanes |
| Service log (`internal/servicelog`) | two files | open, append, compact | whoever else touches the files |
| CLI, rendering, explanations, doctor, redaction | none of interest | print | |

What is hard here: the machine changes between every check and its effect
(pids and inodes are recycled, sessions resume, files are rewritten, checkouts
are moved); applies wait for locks with authority already consumed; every
transaction may fail and the daemon may stop between the write-ahead row, the
effect and the completion row; executors and Git run in other processes with no
lock at all and may be killed half way; approvals, plans and evidence live only
in memory; retention deletes rows others still read; several daemons may start
at once. The list with lines is `hazards` in `PROJECT.json`.

What makes the parts correct: a ledger that is written before the effect and
never claims an effect that did not happen; authority used at most once;
evidence that really spans the configured window, voided by any failure;
cooldown and grace periods that survive restarts; traces of every interrupted
step; no new mutation while the circuit is open; no apply waiting for ever;
memory that agrees with what is stored; ownership that outlives parents and
daemons; inherited evidence that never counts as identity; a ceiling no file
can lift.

## Modules

| Module | What it is |
|---|---|
| `ApprovalLedger` | abstract: intend, effect, settle; what every lane promises |
| `ProcessLane`, `MCProcessLane` | scan → classify → evaluate → approve → revalidate → SIGTERM; its policy sets for TLC |
| `ProcessLaneProofs`, `ProcessAuthorityProofs` | the TLAPS proofs about `ProcessLane` |
| `CacheLaneProofs`, `CacheAuthorityProofs` | about `CacheLane` |
| `WorktreeLaneProofs`, `WorktreeAuthorityProofs` | about `WorktreeLane` |
| `SessionsProofs` | about `Sessions` |
| `HostProofs` | about `Service`, `ServiceLog`, `Retention` and the four pure modules, as parts of `MCHost` |
| `CacheLane`, `MCCacheLane` | cache scan → stable window → preview → quarantine / restore / purge, with the foreground executor |
| `WorktreeLane`, `MCWorktreeLane` | inventory → inactivity window → preview → retire / restore / purge, with Git and the foreground executor |
| `Sessions`, `MCSessions` | the reconciler, what it persists, retention of it, and seeding after a restart; uses `ProcessTree` |
| `ProcessTree` | pure: links, ancestors and descendants of a snapshot |
| `Detection` | pure: how the Codex adapter recognises a process, and how weights combine |
| `Protection` | pure: the hard protections; extends `Detection` |
| `Startup` | pure: profile, file, validation, ceiling, and the authority that results |
| `Service` | several daemons over one database file and one socket |
| `ServiceLog` | the bounded log writer, one system call per step |
| `Retention` | policy, worktree and cache tables under both passes of compaction |
| `MCHost` | one instance for the last seven: a behaviour follows one of them, the pure ones take every input |

In each module an operator whose comment begins "Faulty variant" is a plausible
bug of the definition after it. No specification uses it; `mutants` in
`PROJECT.json` says which property notices it.

### The promise: ApprovalLedger

A grant is spent on at most one attempt; the attempt is durable (`Intend`)
before its effect (`Effect`), which happens at most once and only while the
attempt is open; the outcome is recorded once (`Settle`), and success only of an
effect that happened. Each lane maps its action table and its history of
effects to it (`LedgerEntry`, `Promise`) and is checked to implement it with
every fault it models. A rejected row is no attempt. Rows `purged` and
`removed` are mapped to *stopped*, not *done*: the code infers them from
absence, and a restore may have caused the absence (see the findings).

### ProcessLane

The machine is a table of pids (`proc`: identity, image, status, detachment,
hard protection, membership) with progress counters and live resources (`ctr`)
and one session that ends and resumes. `pc` says what the holder of `scanMu` is
doing: a scan is `ScanStart` (snapshot) and `ScanCommit` or `ScanFail`, so that
processes change between the snapshot, the samples and the commit. `ScanCommit`
is the whole of the rest of `runScan`: activity, classification, policy and the
one transaction, then `AutomaticStart`. An action is `CleanupPreview`,
`CleanupApply` (consumes before the lock), `ManualStart` or `AutoRevalidate`
(fresh snapshot), `Revalidate` (fresh sample, all checks, the `attempting`
row), `SignalGate`, `SignalKill`, `ActionFinish`. Each transaction has a
parameter that makes it fail. `Restart` may happen at any point and keeps only
SQLite.

Abstractions: one agent and one session; the evidence of a sample is
complete / progressed / holds resources, and of the resources only a change of
sockets is progress; a session that is no longer live counts as ended, where
the code, after a restart, may know fewer to have ended and refuses more; one tick is the shortest interval the
cadences distinguish and several samples may share one; which enforceable
decision comes first is left open; `kills`, `quietFrom`, `resetAt`, `truth` are
history that only properties read.

### CacheLane

The filesystem is one original name, a quarantine directory whose slots are
named by artifact id (the inode), and per inode a content version and a ctime.
`renameat` replaces its destination and takes whatever the source name means at
that moment; it changes ctime only, which is why `SameAcrossRename` ignores it.
A scan is `CacheScanStart` (time of the tick, session facts) and
`CacheScanCommit` / `CacheScanFail`. An apply is `CacheApply` (consumes before
the locks), then `ApplyRefused`, or `MoveBegin` → `MoveCheck` → `MoveRename` →
`MoveRecord` / `MoveFail`, or `PurgePrepare`. The executor takes `ExecCheck`,
`ExecUnlink` and reports with `CachePurgeComplete`, interleaved with
everything; `ExecDie` loses it, its request or its answer. `TripElsewhere` is
the worktree lane opening the shared circuit. Process and cache scans run in
one goroutine, so `ProcessScan` never overlaps a cache scan.

Abstractions: one provider root, one owning session, one enabled policy, sizes
within bounds, one directory entry. A scan reads the session facts and the
entry at two instants; a rename and the comparison after it are one step (what
the comparison may find is decided by what happened before the rename). Tokens
and action ids are numbered in the order they are handed out.

### WorktreeLane

One secondary worktree. Path 0 is where the agent put it and p + 1 is
`retirementPath` of p; `tree` is where the directory is, `reg` what Git has
registered, `row` what the store says, and `other` the paths something else
stands at. The inventory is part of the process scan (`ScanStart`,
`ScanCommit`, `ScanFail`) and may work, fail or not be read; `Classify` and
`Continuous` are the inactivity window, bound to daemon start, HEAD, status,
path and sources. An apply holds `worktreeActionMu`, consumes its approval
(`Apply`) and waits for `scanMu`; then `ApplyRefused`, or `MoveBegin` → `GitMove`
→ `MoveRecord` / `MoveError`, or `PurgePrepare`. The foreground command takes
`ExecOpen` (exact directory, links unlinked), `ExecRemove`, and reports with
`PurgeComplete`, which believes only what it verifies. Git is external: it
moves, refuses, or is killed with the directory done and the registration not,
and it puts a checkout *beneath* a directory that stands at its destination.

Abstractions: HEAD, ref and status are one version; `SameAuthority` compares
neither `LastActivityNs`, which is set only where `InactiveSinceNs` is, nor
`RetiredNs`, which is the grace deadline less a constant; every base protection is
one flag; approved environment links are one flag; inventory bounds, Git's
executable snapshot and its output are left out.

### Sessions

The machine is a set of processes (start time, parent, true creator, Codex or
not, thread id) and the task records of the agent. One cycle is `Reconcile`
(roots, sessions, tasks, departed sessions, attribution of every inspected
process) followed by `Persist` and `Commit`, or by nothing at all when the
transaction fails. Pids are recycled, processes reparented, a detail pass may
miss one. `Compact` is retention of the session tables, with the window of
exited processes and that of ended sessions, or half of both. The audit log is
written in the same transaction and never read back: `told` keeps what was last
written of a session, and says nothing of the rows retention has left of it.
`Restart` seeds from
the rows and, where the query does not say which row wins, from any of the
tied ones. Confidences are the three values that the code's thresholds tell
apart; `Detection` has the weights.

### Service, ServiceLog, Retention

`Service`: `Open` is read version, one transaction per migration, and on any
error rename and try again; `Listen` is stat, dial, remove, bind, listen and
chmod. The last three are two lines of code, but the path exists from bind(2)
on and answers only from listen(2) on, and a second start may come between. A
dial may also time out against a live daemon. All of it by any number of daemons
of different builds, with kills, shutdowns and damaged files.

`ServiceLog`: bytes are numbered in the order they are logged, so the file says
what was lost and whether order was kept; every system call is a step, writes
may be short, fail or be the last thing before a kill. Names and descriptors
lead to files of their own, and other programs move, remove, create and link
files at any time. At open any regular, singly linked file of the user's own is
accepted under the name, as in the code, one the log never wrote included; what
is written or emptied later must be the file a check has just found there. One
daemon writes at a time: the log is opened before the socket is taken
(`cmd/cli/daemon.go`), so a second service start shares the file until it fails
to get the socket, and what two writers do to one file is not modelled.

`Retention`: one pass with the configured windows, a second with half of them
when over budget, and scans, actions and evaluations before, between and after.
A worktree scan stores what it observed (`RetTreeScan`); one that failed stores
too (`RetTreeScanFails`): an inventory that failed rewrites every row it had
read as unknown, a process scan that failed resets the live rows and then does
the same with the inventory that was due.

### Pure modules

`ProcessTree`, `Detection`, `Protection` and `Startup` have no state. `MCHost`
takes every input of a small but complete domain: all snapshots of up to four
pids with two start times, all combinations of name, directory, script and
environment keys, all protection inputs, all files over two policies.

## Runs

| Run | Checks | Shows |
|---|---|---|
| `process_manual` | type, `SignalLedger`, `QuietBeforeSignal`, `FailureNeverBecomesAction`, `SingleUse`, `ProcessKeepsPromise` | manual cleanup under exits, pid reuse, session changes, failed samples, scans and transactions, restarts |
| `process_evidence` | `QuietBeforeSignal` | the same window over partial samples, resources, stops, zombies, images, protections, for orphaned, hung and crashed |
| `process_automatic` | `AutomaticCooldown` | automatic enforcement |
| `process_liveness` | `ApplyDecided` | a consumed approval is decided although scans never stop |
| `cache` | type, `CacheLedger`, `StableBeforeQuarantine`, `StrandedIsTraceable`, `CircuitStopsMutations` | all three kinds of action while the agent writes, replaces, removes and others tamper, with failures between row, rename and record |
| `cache_purge` | `GraceBeforePurge`, `CacheKeepsPromise` | competing purges over three actions, dying executors, lost plans |
| `worktree` | type, `WorktreeLedger`, `InactiveBeforeRetire`, `GraceBeforeRemoval`, `CheckoutTraceable`, `RemovedMeansGone`, `WorktreeKeepsPromise` | all three kinds of action with every disturbance, Git and inventory failure |
| `sessions` | `StoreAgrees`, `RootsExact`, `OwnershipSurvives`, `InheritedNotEligible`, `EndsWithKnownRoot` | three processes over two pids, one task, retention, restarts |
| `host` | service: `OpenedIsMigrated`, `RecoveryAudited`, `ExclusiveStarts`; log: `LogBounded`, `NewestKept`, `OnlyCheckedFilesChange`; retention: `DecisionsKept`, `TracesKept`; pure: `AncestryAgrees`, `ConfidenceSound`, `ProtectionsAgree`, `StartupCeiling` | the parts around the lanes |

Violations (findings; each contradicts the text quoted in `PROJECT.json`):

| Run | Property | What happens |
|---|---|---|
| `process_resumed` | `LiveSessionNeverSignalled` | `sessionEnded` believes the stored row over the fresh snapshot |
| `cache_purge_race` | `PurgedMeansUnlinked` | a restore empties the slot and the completion records `purged` |
| `worktree_forgotten` | `RetirementDurable` | one failed scan rewrites the retired row as unknown; the next good one forgets where it came from |

Divergences met while modelling that have no run of their own, with the text
each contradicts:

* an approval that expires while its apply waits for `scanMu` still signals
  (SPEC 0005:70: expired approvals are rejected without signalling);
* a rename that moved another file is `failed` and the circuit stays closed
  (SPEC 0011:99: an unexpected filesystem state trips it);
* a retirement apply does not look at the circuit, only its preview does
  (SPEC 0011:101: further mutation requires a restart);
* audit mode does not reach the worktree lane (dogfooding.md:25: it cannot
  retire a worktree);
* a second start of an older build moves the database of a running newer daemon
  aside (safety-model.md:466: a newer database is refused);
* `Getsid` failing clears the session-leader protection (protection.go:7: every
  rule fails closed);
* retention deletes process actions that are still `attempting`
  (schema_action.go:3: a crash cannot erase evidence of an unresolved effect);
* the root of a session is written once, so a restart may go by an older one
  (safety-model.md:205: "its exact root process");
* a start that dials between another's bind and its listen, or whose dial of a
  live daemon times out, removes a socket that is served (server.go:41: "only
  after confirming that nothing answers on it"): `ExclusiveStarts` names these
  windows as its exception;
* the desktop backend reaches the bar of cleanup policies by its path and its
  name, 0.955 (adapter.go:22: "Nothing reaches this bar by name alone"):
  `ConfidenceSound` says that it is the only one;
* a retired row beyond the bound of the inventory is not read, and a scan that
  sees its worktree stores it as a new, active one (safety-model.md:129, as in
  `worktree_forgotten`): `TracesKept` names this and the failed scan as what it
  does not cover.

Two limits of what is kept, met in the same way: a session's entry in the audit
log may be deleted while its row stays, and `ts_ns` of a provider session is the
time of its task, so the entry listed first need not be the one written last. A
log file replaced by another regular file while no daemon has it open is taken
for the log.

A worktree known only through its session path is not found again once it is
retired, so restore and purge refuse it: the `worktree` run has a configured
root beside the session path.

Three races are in the models and have no property, because nothing in the code
could keep one: a pid that changes hands between the gate and `kill`, a file
created between the destination check and `renameat`, and session facts of the
cache lane that are as old as the last committed process scan.

### Bounds

Windows, cadences, lifetimes and grace are 1 or 2 ticks and the clock runs to 3,
4 or 5, so that "just before", "at" and "after" each deadline occur and a window
can be broken and begin again. One pid with two generations is enough for pid
reuse, two inodes for replacement, one retirement path and one occupied
destination for moves. `MaxMoves` bounds the changes of the machine (and in
`WorktreeLane` the faults), `MaxResets` failures and restarts; each constant
`Disturbances` names which kinds of change a run exercises. Two actions and one
or two approvals are what the ledger and single-use properties relate; a purge
contended by another needs the third of `cache_purge`. `MaxLag` is how far a
scan may run behind the time that stamps it: `StableBeforeQuarantine` and
`InactiveBeforeRetire` hold up to that lag and no better. `sessions` has three
processes over two pids: a root, a descendant and a recycled pid, or two roots
of one session, and windows of one tick for exited processes and two for ended
sessions. `host` has two daemons, interchangeable by symmetry, and three starts
of two builds; a log limit of four bytes with records below, near and above it
and a stream of nine, enough to compact twice; an inventory bound of one for two
worktrees, so that one row is always beyond it; and compaction windows that
differ per table.

`CHECK_DEADLOCK FALSE` in `sessions` and `host`: their clocks, starts and
streams are bounded and the pure parts take one step, so behaviours end. In the
lanes deadlock is checked.

### Fairness

`process_liveness` only. Weak fairness of the lock holder's steps: none of them
waits for anything but the platform and SQLite. Strong fairness of granting
`scanMu` to a waiting apply: the starvation mode of `sync.Mutex` hands the lock
to a waiter after at most 1 ms of being passed over.

## Proofs

Eight modules hold machine-checked proofs, for every value of the constants
that satisfies the `ASSUME`s. Two per lane: `...LaneProofs` proves types and the
ledger, `...AuthorityProofs` extends it and proves what the authority and the
evidence behind an effect amount to. `SessionsProofs` is about reconciliation.
`HostProofs` is about `Service`, `ServiceLog`, `Retention` and, extending
`MCHost`, about the pure modules. Every invariant and every action property a
passing run checks is a theorem, and so are the three refinements of
`ApprovalLedger`. Each proof of an invariant has one lemma per action (actions
that leave the relevant variables alone are treated together), and the theorem
combines them with `PTL`.

| Theorem | Property | Inductive invariant and why it is needed |
|---|---|---|
| `ProcessLaneProofs!TypeOKHolds` | `TypeOK` | `LaneOK`: the later stages read `view` and `job`, so the invariant says what each stage has in hand |
| `LedgerCorrect` | `SignalLedger` | `LedgerInv`: the row in hand is still `attempting`, nothing was sent for it before the kill, and after it the outcome says whether it was |
| `SingleUseCorrect` | `SingleUse` | `SingleUseInv`: an approval is in at most one of waiting, in hand, written, and consumed in all of them |
| `ProcessAuthorityProofs!ProcessImplementsLedger` | `ProcessKeepsPromise` | `LaneInv` (all of the above): each action maps to `Intend`, `Effect`, `Settle` or a stutter of `ApprovalLedger` |
| `QuietCorrect`, `FailureCorrect` | `QuietBeforeSignal`, `FailureNeverBecomesAction` | `EvidenceInv`: while the evidence of a conclusion stands (same occupant, no work since the baseline) its occupant has been quiet since the window opened, and no window reaches back beyond a failed scan or a restart (`WindowSound`); nothing read is ahead of the machine (`NotAhead`) |
| `CooldownCorrect` | `AutomaticCooldown` | `CooldownInv`: the stored cooldown of a process is never before what its last automatic attempt was granted, and a candidate in hand was evaluated after it |
| `WorktreeLaneProofs!TypeCorrect`, `LedgerCorrect` | `TypeOK`, `WorktreeLedger` | `LedgerInv` as above with two writers (lane and executor); `PlaceInv`: where the checkout may be in each stage |
| `WorktreeAuthorityProofs!WorktreeImplementsLedger` | `WorktreeKeepsPromise` | `SingleInv`: single use per token over previews, applies and plans |
| `InactiveCorrect` | `InactiveBeforeRetire` | `ClockInv` (no stored time is ahead of the clock), `WindowInv` (an open window has had no interruption since it began), carried through the move in hand |
| `TraceCorrect` | `CheckoutTraceable` | `TraceInv`: a move that may have happened has an open row until it is recorded |
| `GraceCorrect`, `RemovedCorrect` | `GraceBeforeRemoval`, `RemovedMeansGone` | `GraceInv`, `PlanOK`: a plan is no older than its lifetime, and within it no new inactivity window can complete (`PlanLifetime <= StaleAfter`), so the checkout has not been retired again under it |
| `CacheLaneProofs!TypeCorrect`, `LedgerCorrect` | `TypeOK`, `CacheLedger` | `HeldOK`, `LedgerInv`, `SlotInv`: what the lane and each executor hold, and that a file once recorded in its slot is still there or left it through the daemon |
| `CircuitCorrect` | `CircuitStopsMutations` | an action property; from `HeldOK`: whoever holds the lane found the circuit closed, and nobody can open it meanwhile |
| `CacheAuthorityProofs!CacheImplementsLedger` | `CacheKeepsPromise` | `SingleInv` |
| `GraceCorrect` | `GraceBeforePurge` | `GraceInv` over `Forward`: ctime grows with every rename, so an equal ctime means that the file has not left quarantine since it was planned |
| `StableCorrect` | `StableBeforeQuarantine` | `StableInv`: the content version grows with every write, so an equal version means the file has been quiet since `since`, up to `MaxLag` |
| `TraceCorrect` | `StrandedIsTraceable` | `TraceInv`: rows that did not claim success stay (`OpenKept`); the executor that empties a slot under a move being recorded has its own `purging` row |
| `HostProofs!MigratedCorrect`, `RecoveryCorrect` | `OpenedIsMigrated`, `RecoveryAudited` | `HandleOK`: an open file exists and its schema version is at least the one read or written last; only a second attempt of `Open` has a file to account for |
| `ExclusiveCorrect` | `ExclusiveStarts` | `SocketOK`, one half for each way to be safe: as long as no socket was up for removal, whoever has passed its bind owns the path (`UndoubtedOK`); as long as no two daemons were inside `Listen` or stopping at once, the one that is knows whose the path is, and the one that serves owns it (`ApartOK`) |
| `BoundCorrect`, `NewestCorrect`, `CheckedCorrect` | `LogBounded`, `NewestKept`, `OnlyCheckedFilesChange` | `LogInv`, with `FilesOK` (every file holds its bytes in order, so any may be found under the name) and `TrustOK` (in a stage that writes or truncates, the descriptor is the file the check found): at each system call of a compaction the file followed by what is left to write is an increasing end of the stream, within the limit, cut at a line end; `TailRead` and `PlanSound` say what `readTail` and the room left for a record yield |
| `DecisionsCorrect`, `TracesCorrect` | `DecisionsKept`, `TracesKept` | `PolicyOK` (the newest candidate row carries the running cooldown), `TreeOK` (one row per worktree), `CacheOK` (the artifact row outlives its quarantine row and its unresolved actions), `TraceOK`; `StoreKeeps` says what storing any batch and pruning spare, `Covers` and `Batch` what good and failed scans start from and store |
| `SessionsProofs!StoreCorrect` | `StoreAgrees` | `StoreInv`: whatever retention has removed, what was last written to the audit log of a session is what memory holds, so seeding from rows and committing to memory meet. All `Sessions` theorems rest on one invariant, `SessInv` (`SessInvCorrect`) |
| `RootsCorrect` | `RootsExact` | `MemOK`: a session whose state is known has a known root; the demotion of second roots leaves one |
| `OwnershipCorrect` | `OwnershipSurvives` | `OwnInv` (what memory says of a creator is true too, so that writing it stays true), `DbOK` (an owned process has a process row), `KeysOK` (a key the daemon knows is not one a process yet to be born can get), `MachineOK` |
| `EligibleCorrect` | `InheritedNotEligible` | `LineageInv`: the rows a restart reads claim no more than memory does |
| `EndsCorrect` | `EndsWithKnownRoot` | an action property, from `SessInv`: only a scan that no longer sees the exact root, or a completed task, ends a session |
| `HostProofs!CeilingEveryFile`, `CeilingCorrect` | `StartupCeiling` | no induction over steps: for every file with policy lists of any length, each list is mapped element by element, no mode in it exceeds the cap (`EveryModeCapped`, `RunsBelow`), so the authority that results does not either |
| `AncestrySymmetric`, `AncestryCorrect` | `AncestryAgrees` | any snapshot whose start times compare, any `MaxTreeDepth`: both walks are characterised by paths of intact links (`IsPath`, `Within`), which `Ancestors` reads from one end and `Descendants` from the other |
| `ConfidenceEveryProcess`, `ConfidenceCorrect` | `ConfidenceSound` | any name, path, arguments and environment: the truncating fold stays within 3.3 millionths of the exact product of what the kinds of evidence leave open, in whatever order they are folded (`Near`, `LeftOpen`, `CombinedNear`), which is close enough to decide every comparison the property makes: the backend leaves at most 45 thousandths open (`BackendOpen`), every other name at least 54 |
| `ProtectionsEveryProcess`, `ProtectionsCorrect` | `ProtectionsAgree` | any name and path: by cases over the lists of names; without a protected pattern the evidence left stays below root detection |

The theorems named `...EveryFile`, `...EveryProcess` and `AncestrySymmetric`
quantify over all inputs and not only those `MCHost` enumerates; `InputCorrect`
says that what a part was given is one of those, which makes them invariants of
the instance. What recursion computes is proved by induction up to a bound, in
the form of a least counterexample (`MinInSet`, `BoundedInduction`, `Iterate`,
`AncestorsSeq`, `FoldExists`), because the library's induction rules take an
operator as a parameter.

Assumptions. Process: the configuration passes `validatePolicies`
(`ConfigAssumption`), and the sampling windows are positive. Worktree:
`PlanLifetime <= StaleAfter`, two minutes against the seven days `config.go`
demands. Cache: there is an inode. Retention: ids are positive, the hour used
for a window that is not positive is. Sessions: `None` is neither a time nor a
session state. All: bounds are naturals, and the absent
markers differ from all values (`NoneAssumption`, `NoRecordAssumption`,
`NoEntryAssumption`). The runs evaluate every one of them.

What the proofs changed in the model: `WorktreeLedger` used to be stronger about
failed moves than the code is. The proof attempt failed, and with `MaxMoves` = 3
TLC shows why: a failed row may have moved the checkout when another directory
has since come to stand at the path it left. The property now says so in terms
of that path (`from` of the recorded move). Three operators were rewritten with
the same meaning in a form the prover reads: `Over` instead of `@@` and `:>`,
and index sets instead of `SelectSeq`, in `Sessions`; `ApplyStartupCeiling`
without nested `EXCEPT` paths; and parentheses around a `UNION` in
`ProcessTree`, which the prover and TLC would otherwise bind differently.

Model-checked only:

* `ApplyDecided`: liveness under fairness, out of the prover's reach.
* The three violations, which TLC shows by a behaviour.

## Not modelled

* Platform collectors: system calls; what they return is the machine.
* Request decoding, the client, command line, rendering, explanations, doctor,
  report queries, redaction, repository labels: they read and print.
* Typed relationships and launch contexts of sessions: recorded for display,
  nothing decides by them.
* Rollout file parsing, Git output parsing, YAML: formats; what they yield, or
  that they fail, is an input of the models.
* Process `actions`, audit, scan and observation rows in retention: deleted by
  age alone, with nothing that refers to them.
* Wall-clock steps backwards, filesystem modes and mounts, hard links, the
  traversal limit (an incomplete scan is modelled, its cause is not).

## Plan

The plan, in order: the process lane and the promise of the ledger; the cache
and worktree lanes; sessions; the parts of the host; then proofs of the same in
that order. All of it is done, and every safety property of a passing run is a
theorem. What would come next needs a decision in the code first: the three
findings and the divergences listed under Runs. When one is settled, its
property moves from a violation to an invariant, and its proof belongs in the
module of its lane.
