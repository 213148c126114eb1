---------------------------- MODULE WorktreeLane ----------------------------
(***************************************************************************)
(* The worktree lane: inventory scan -> inactivity window -> preview ->    *)
(* apply (retire / restore / purge), internal/daemon/worktree_*.go over    *)
(* internal/worktree and internal/storage/worktree*.go.                    *)
(*                                                                         *)
(* One secondary worktree of one repository.  Path 0 is where the agent    *)
(* put it, p + 1 is retirementPath of p.  Its id survives registered moves *)
(* (worktree.StableID), so the checkout, its registration and its row may  *)
(* disagree about the path but never about the identity.                   *)
(***************************************************************************)
EXTENDS Integers, Sequences, FiniteSets

CONSTANTS
    MaxPath,          \* deepest retirement path of the model
    Tokens, ActIds,   \* approvals in order of issue, action rows in order of writing
    Kinds,            \* which of retire, restore and purge the run exercises
    Disturbances,     \* which of commit, dirty, use, delete, occupy, touch, circuit,
                      \* restart, and fault: inspections, Git, store writes and answers fail
    Sources,          \* what leads to the repository: its session, a configured root
    StaleAfter, ScanInterval, RetireGrace,   \* cfg.Worktrees
    ApprovalLifetime, \* approvalLifetime
    PlanLifetime,     \* worktreePurgePlanLifetime
    MaxApprovals,     \* maxApprovals
    MaxLag,           \* how long a scan may take from its snapshot to its commit
    MaxTime, MaxMoves,                       \* bounds: clock, disturbances
    None, Lost

ASSUME WorktreeAssumption ==
    /\ {MaxPath, StaleAfter, ScanInterval, RetireGrace, ApprovalLifetime, PlanLifetime,
        MaxApprovals, MaxLag, MaxTime, MaxMoves} \subseteq Nat
    /\ Kinds \subseteq {"retire", "restore", "purge"}
    /\ Disturbances \subseteq {"commit", "dirty", "use", "delete", "occupy", "touch", "circuit",
                               "restart", "fault"}
    /\ Sources \subseteq {"session", "root"} /\ Sources # {}
    /\ Tokens \subseteq Nat /\ ActIds \subseteq Nat
    /\ {None, Lost} \cap (Nat \cup {"session", "root"}) = {} /\ None # Lost
    /\ PlanLifetime <= StaleAfter     \* two minutes; config.go refuses less than seven days

VARIABLES
    \* the machine
    now,        \* wall clock, from 1: 0 is the zero time
    tree,       \* the path of the checkout's directory
    reg,        \* the path Git has registered for it
    other,      \* paths held by a directory that is not a repository
    head,       \* version of HEAD, ref and status fingerprint
    dirty,      \* a baseProtections rule applies: dirty, locked, unpublished, ...
    use,        \* what uses the checkout
    links,      \* its approved environment link exists
    dirv,       \* modification time of its root directory
    moves,      \* how many disturbances and faults there have been
    \* SQLite
    row,        \* worktrees
    act,        \* worktree_actions
    ses,        \* where the last committed scan put a live session
    \* daemon memory
    boot,       \* d.startedAt
    lastWt,     \* d.lastWorktreeAt
    fsHealthy,  \* d.filesystemHealthy
    approvals,  \* d.worktreeApprovals
    waiting,    \* the apply that holds worktreeActionMu and waits for scanMu
    plans,      \* d.worktreePurgePlans
    pc, job,    \* what the holder of scanMu is doing
    \* foreground executors (ghostgc worktree purge --apply)
    exec,
    \* history, read by properties only
    resetAt,    \* when the inactivity of the checkout was last interrupted
    retFrom,    \* when the checkout was last moved to a retirement path
    muts        \* moves and removals that happened

place   == <<tree, reg, other>>
content == <<head, dirty, use, links, dirv>>
machine == <<now, place, content, resetAt, retFrom, muts>>
store   == <<row, act, ses>>
memory  == <<boot, lastWt, fsHealthy, approvals, waiting, plans>>
lane    == <<pc, job>>
vars    == <<machine, moves, store, memory, lane, exec>>

Paths == 0..MaxPath
Nested == MaxPath + 1          \* beneath a directory that stood at the destination
Where == (0..Nested) \cup {None}

----------------------------------------------------------------------------
(* What Git and the filesystem say now. *)

\* os.Lstat finds something
Exists(p) == tree = p \/ p \in other

\* worktreeRepositories and the group's sources: a stored session leads to the
\* path the agent worked at, a root to the primary checkout.
SourcesNow == {s \in Sources : s = "root" \/ tree = 0}

\* A session path that is no repository any more makes `git worktree list` fail.
InventoryReadable == ~("session" \in Sources /\ 0 \in other)

\* Git.Inspect: the fields of an Observation that are compared
Observation == [path |-> reg, present |-> tree = reg, clean |-> ~dirty, head |-> head,
                links |-> links, dirv |-> dirv]

\* validateFreshObservation
FreshOK(r) == /\ reg # None /\ tree = reg /\ reg = r.path
              /\ head = r.head /\ ~dirty

----------------------------------------------------------------------------
(* The inactivity window. *)

\* Faulty variant: the window survives a restart of the daemon.
ContinuousOverRestart(prev, at) ==
    /\ prev # None /\ prev.state \in {"observing", "stale"}
    /\ prev.path = reg /\ prev.sources = SourcesNow
    /\ at >= prev.seen /\ at - prev.seen <= 2 * ScanInterval /\ prev.head = head

\* Classify's continuity, with worktreeRecord's checks of path and sources
Continuous(prev, at) ==
    /\ prev # None /\ prev.state \in {"observing", "stale"}
    /\ prev.path = reg /\ prev.sources = SourcesNow
    /\ prev.boot = boot
    /\ at >= prev.seen /\ at - prev.seen <= 2 * ScanInterval /\ prev.head = head

\* worktree.Classify on the fresh observation
Classify(prev, at, active, complete) ==
    LET since == IF Continuous(prev, at) /\ prev.since # 0 /\ at >= prev.since
                 THEN prev.since ELSE at
    IN IF tree # reg /\ reg \notin other THEN [state |-> "missing", since |-> 0]
       ELSE IF ~complete \/ tree # reg THEN [state |-> "unknown", since |-> 0]
       ELSE IF active THEN [state |-> "active", since |-> 0]
       ELSE IF dirty THEN [state |-> "protected", since |-> 0]
       ELSE [state |-> IF Continuous(prev, at) /\ at - since >= StaleAfter THEN "stale"
                       ELSE "observing", since |-> since]

\* retiredWorktreeRecord, or a new record that knows of no retirement
WorktreeRecord(prev, at, active, complete) ==
    IF prev # None /\ prev.state = "retired"
    THEN [prev EXCEPT !.seen = at, !.registered = TRUE, !.complete = complete /\ FreshOK(prev)]
    ELSE LET c == Classify(prev, at, active, complete)
         IN [path |-> reg, state |-> c.state, head |-> head, seen |-> at, since |-> c.since,
             boot |-> boot, complete |-> complete /\ tree = reg, registered |-> TRUE,
             orig |-> None, grace |-> 0, links |-> links, sources |-> SourcesNow]

\* unknownWorktreeBatch, incompleteProcessWorktreeBatch
UnknownRecord(r, at) ==
    IF r = None \/ r.state = "removed" THEN r
    ELSE [r EXCEPT !.state = "unknown", !.since = 0, !.boot = boot, !.complete = FALSE]

\* The rows that collectWorktrees does not observe
MissingRecord(r, at) ==
    IF r = None \/ r.state = "removed" THEN r
    ELSE IF r.state = "retired" THEN [r EXCEPT !.seen = at, !.registered = FALSE, !.complete = FALSE]
    ELSE [r EXCEPT !.state = "missing", !.since = 0, !.boot = boot,
                   !.complete = FALSE, !.registered = FALSE]

\* ListCurrentWorktrees leaves out tombstones
CurrentRow == IF row # None /\ row.state = "removed" THEN None ELSE row

\* collectWorktrees when it is due.  inventory is "ok", "failed" (Git, roots,
\* bounds) or "unread" (the stored rows could not be listed).
CollectWorktrees(at, active, complete, inventory) ==
    IF inventory = "unread" THEN row
    ELSE IF inventory = "failed" \/ ~InventoryReadable THEN UnknownRecord(row, at)
    ELSE IF reg # None /\ SourcesNow # {} THEN WorktreeRecord(CurrentRow, at, active, complete)
    ELSE MissingRecord(row, at)

Due(at) == lastWt = 0 \/ at - lastWt >= ScanInterval

----------------------------------------------------------------------------
Init ==
    /\ now = 1 /\ tree = 0 /\ reg = 0 /\ other = {} /\ head = 0 /\ dirty = FALSE
    /\ use = "none" /\ links = TRUE /\ dirv = 0 /\ moves = 0
    /\ row = None /\ act = [a \in ActIds |-> None] /\ ses = None
    /\ boot = 1 /\ lastWt = 0 /\ fsHealthy = TRUE
    /\ approvals = [t \in Tokens |-> None] /\ waiting = None /\ plans = {}
    /\ pc = "idle" /\ job = None /\ exec = [a \in ActIds |-> None]
    /\ resetAt = 1 /\ retFrom = 0 /\ muts = <<>>

----------------------------------------------------------------------------
(* The machine: the agent, the user and Git work in the same places. *)

Idle == pc = "idle"
Release == pc' = "idle" /\ job' = None
Disturb(d) == d \in Disturbances /\ moves < MaxMoves /\ moves' = moves + 1
Elsewhere == UNCHANGED <<store, memory, lane, exec>>

Tick ==
    /\ now < MaxTime /\ now' = now + 1
    /\ pc = "scan" => now + 1 - job.at <= MaxLag
    /\ UNCHANGED <<place, content, resetAt, retFrom, muts>> /\ Elsewhere

\* Someone commits, checks out or changes a file and reverts nothing.
Commit ==
    /\ Disturb("commit") /\ tree # None /\ head' = head + 1 /\ resetAt' = now
    /\ UNCHANGED <<now, place, dirty, use, links, dirv, retFrom, muts>> /\ Elsewhere

DirtyFlip ==
    /\ Disturb("dirty") /\ tree # None /\ dirty' = ~dirty
    /\ UNCHANGED <<now, place, head, use, links, dirv, resetAt, retFrom, muts>> /\ Elsewhere

Use(u) ==
    /\ Disturb("use") /\ tree # None /\ use # u /\ use' = u
    /\ UNCHANGED <<now, place, head, dirty, links, dirv, resetAt, retFrom, muts>> /\ Elsewhere

\* The user deletes the directory and may let `git worktree prune` forget it.
Delete ==
    /\ Disturb("delete") /\ tree # None /\ tree' = None /\ use' = "none" /\ reg' \in {reg, None}
    /\ UNCHANGED <<now, other, head, dirty, links, dirv, resetAt, retFrom, muts>> /\ Elsewhere

Occupy(p) ==
    /\ Disturb("occupy") /\ ~Exists(p) /\ other' = other \cup {p}
    /\ UNCHANGED <<now, tree, reg, content, resetAt, retFrom, muts>> /\ Elsewhere

\* An entry of the root directory is created or removed and put back.
Touch ==
    /\ Disturb("touch") /\ tree # None /\ dirv' = dirv + 1
    /\ UNCHANGED <<now, place, head, dirty, use, links, resetAt, retFrom, muts>> /\ Elsewhere

\* The cache lane trips the shared circuit under scanMu.
TripElsewhere ==
    /\ Disturb("circuit") /\ Idle /\ fsHealthy /\ fsHealthy' = FALSE
    /\ UNCHANGED <<machine, store, boot, lastWt, approvals, waiting, plans, lane, exec>>

----------------------------------------------------------------------------
(* Scans: runScan under scanMu. *)

\* SnapshotProcesses and the reconciliation of what it saw
ScanStart ==
    /\ Idle /\ pc' = "scan"
    /\ job' = [at |-> now, active |-> use # "none",
               ses |-> IF use = "session" THEN tree ELSE None]
    /\ UNCHANGED <<machine, store, memory, exec>>

Interrupted(at, active, inventory) ==
    \/ inventory = "failed" \/ ~InventoryReadable
    \/ active \/ dirty \/ tree # reg
    \/ row # None /\ row.path = reg /\ at - row.seen > 2 * ScanInterval

\* persist: the worktree rows are written with the rest of the scan
ScanCommit(complete, inventory) ==
    /\ pc = "scan" /\ Release
    /\ ses' = job.ses
    /\ IF Due(job.at)
       THEN /\ row' = CollectWorktrees(job.at, job.active, complete, inventory)
            /\ lastWt' = job.at
            /\ resetAt' = IF inventory # "unread" /\ (~complete \/ Interrupted(job.at, job.active, inventory))
                             /\ job.at > resetAt
                          THEN job.at ELSE resetAt
       ELSE UNCHANGED <<row, lastWt, resetAt>>
    /\ UNCHANGED <<now, place, content, retFrom, muts, act, boot, fsHealthy, approvals,
                   waiting, plans, exec>>

\* recordScanFailure: ResetWorktreeInactivity, then the inventory, taken with
\* an empty snapshot, as unknown; the transaction may fail too.
ScanFail(inventory, recorded) ==
    /\ pc = "scan" /\ Release
    /\ LET batch == UnknownRecord(CollectWorktrees(job.at, FALSE, TRUE, inventory), job.at)
           reset == IF row # None /\ row.state = "retired" THEN row ELSE UnknownRecord(row, job.at)
       IN IF ~recorded THEN UNCHANGED <<row, lastWt, resetAt>>
          ELSE /\ row' = IF Due(job.at) /\ inventory # "unread" THEN batch ELSE reset
               /\ lastWt' = IF Due(job.at) THEN job.at ELSE lastWt
               /\ resetAt' = IF job.at > resetAt THEN job.at ELSE resetAt
    /\ UNCHANGED <<now, place, content, retFrom, muts, act, ses, boot, fsHealthy, approvals,
                   waiting, plans, exec>>

----------------------------------------------------------------------------
(* Fresh validation. *)

\* Faulty variant: the directory's identity is not bound.
ValidationNoDir == [head |-> head, links |-> links]

\* What worktreeValidation binds and sameValidation compares
Validation == [head |-> head, dirv |-> dirv, links |-> links]

\* validateWorktreeRemoval; it does not consult the circuit.
ValidRemoval(r) ==
    /\ r # None /\ r.state = "stale" /\ r.complete /\ r.boot = boot
    /\ r.since # 0 /\ now - r.since >= StaleAfter
    /\ InventoryReadable /\ SourcesNow # {} /\ SourcesNow = r.sources   \* validateWorktreeDiscovery
    /\ FreshOK(r)
    /\ ses # r.path                                                    \* activeSessionInWorktree
    /\ use # "process" /\ links = r.links
    /\ Classify(r, now, FALSE, TRUE).state = "stale"

\* Faulty variant: the deadline is not looked at.
ValidRetiredNoGrace(r, needGrace) ==
    /\ fsHealthy
    /\ r # None /\ r.state = "retired" /\ r.registered /\ r.complete /\ r.orig # None
    /\ ~Exists(r.orig) /\ FreshOK(r)
    /\ ses # r.path /\ use # "process" /\ links = r.links

\* validateRetiredWorktree
ValidRetired(r, needGrace) ==
    /\ fsHealthy
    /\ r # None /\ r.state = "retired" /\ r.registered /\ r.complete /\ r.orig # None
    /\ needGrace => now >= r.grace
    /\ ~Exists(r.orig) /\ FreshOK(r)
    /\ ses # r.path /\ use # "process" /\ links = r.links

Valid(kind, r) == IF kind = "retire" THEN ValidRemoval(r) ELSE ValidRetired(r, kind = "purge")

\* sameWorktreeAuthority, sameRetiredAuthority.  Classify sets LastActivityNs
\* only where it sets or clears InactiveSinceNs (since), and RetiredNs is the grace
\* deadline less a constant, so neither is kept apart.
SameAuthority(kind, r, s) ==
    /\ s # None
    /\ r.path = s.path /\ r.head = s.head /\ r.sources = s.sources
    /\ r.since = s.since /\ r.boot = s.boot
    /\ kind # "retire" => r.orig = s.orig /\ r.grace = s.grace

----------------------------------------------------------------------------
(* Previews: under scanMu. *)

\* pruneWorktreeApprovals
Kept(t) == approvals[t] \notin {None, Lost} /\ approvals[t].expires + ApprovalLifetime >= now

\* WorktreeRemovalPreview, WorktreeRestorePreview, WorktreePurgePreview.  When
\* the audit record cannot be appended the approval is withdrawn.
Preview(t, kind, audited) ==
    LET pruned == [u \in Tokens |-> IF approvals[u] = None \/ Kept(u) THEN approvals[u] ELSE Lost]
        new == [kind |-> kind, row |-> row, val |-> Validation,
                expires |-> now + ApprovalLifetime, used |-> FALSE]
    IN /\ kind \in Kinds /\ Idle /\ fsHealthy /\ Valid(kind, row)
       /\ approvals[t] = None /\ \A u \in Tokens : u < t => approvals[u] # None
       /\ Cardinality({u \in Tokens : Kept(u)}) < MaxApprovals
       /\ approvals' = [pruned EXCEPT ![t] = IF audited THEN new ELSE Lost]
       /\ UNCHANGED <<machine, store, boot, lastWt, fsHealthy, waiting, plans, lane, exec>>

----------------------------------------------------------------------------
(* Applies: worktreeActionMu, then the approval, then scanMu. *)

Row(kind, t, result) == [kind |-> kind, token |-> t, result |-> result]

\* InsertWorktreeAction, UpdateWorktreeAction
Begin(a, r) ==
    /\ act[a] = None /\ \A b \in ActIds : b < a => act[b] # None
    /\ act' = [act EXCEPT ![a] = r]
Finish(a, result) == act' = [act EXCEPT ![a].result = result]
FinishIf(ok, a, result) == IF ok THEN Finish(a, result) ELSE act' = act

\* rejectWorktreeAction, whose insert may fail
Reject(kind, t, ok) ==
    IF ok THEN \E a \in ActIds : Begin(a, Row(kind, t, "rejected")) ELSE act' = act

\* worktreeActionMu is free
ActionIdle == waiting = None /\ pc \in {"idle", "scan"}

\* Faulty variant: an approval that is accepted is not marked used.
ApplyReusable(t, matches, ok) ==
    /\ ActionIdle /\ approvals[t] \notin {None, Lost}
    /\ LET appr == approvals[t]
           accepted == ~appr.used /\ now < appr.expires /\ matches
       IN /\ approvals' = [approvals EXCEPT ![t].used = ~accepted]
          /\ IF accepted THEN waiting' = [token |-> t, appr |-> appr, at |-> now] /\ act' = act
             ELSE waiting' = None /\ Reject(appr.kind, t, ok)
    /\ UNCHANGED <<machine, row, ses, boot, lastWt, fsHealthy, plans, lane, exec>>

\* consumeWorktreeApproval and what an apply does before it waits for scanMu;
\* matches is FALSE for the wrong endpoint or confirmation.
Apply(t, matches, ok) ==
    /\ ActionIdle /\ approvals[t] \notin {None, Lost}
    /\ LET appr == approvals[t]
           accepted == ~appr.used /\ now < appr.expires /\ matches
       IN /\ approvals' = [approvals EXCEPT ![t].used = TRUE]
          /\ IF accepted THEN waiting' = [token |-> t, appr |-> appr, at |-> now] /\ act' = act
             ELSE waiting' = None /\ Reject(appr.kind, t, ok)
    /\ UNCHANGED <<machine, row, ses, boot, lastWt, fsHealthy, plans, lane, exec>>

\* The rows are the approved ones, and a fresh validation equals the approved.
Authorised(w) ==
    LET appr == w.appr
    IN /\ SameAuthority(appr.kind, appr.row, row) /\ Valid(appr.kind, row)
       /\ appr.val = Validation
       /\ appr.kind = "retire" => row.path < MaxPath /\ ~Exists(row.path + 1)   \* retirementPath

\* inspected is FALSE when an inspection is incomplete or times out
ApplyRefused(inspected, ok) ==
    /\ Idle /\ waiting # None /\ ~(inspected /\ Authorised(waiting))
    /\ Reject(waiting.appr.kind, waiting.token, ok) /\ waiting' = None
    /\ UNCHANGED <<machine, row, ses, boot, lastWt, fsHealthy, approvals, plans, lane, exec>>

\* executeWorktreeRemoval, executeWorktreeRestore: the attempting row first;
\* without it nothing is done.
MoveBegin(a, ok) ==
    /\ Idle /\ waiting # None /\ waiting.appr.kind # "purge" /\ Authorised(waiting)
    /\ waiting' = None
    /\ LET kind == waiting.appr.kind
       IN IF ok
          THEN /\ Begin(a, Row(kind, waiting.token, "attempting")) /\ pc' = "git"
               /\ job' = [kind |-> kind, action |-> a, row |-> row,
                          to |-> IF kind = "retire" THEN row.path + 1 ELSE row.orig,
                          quiet |-> now - resetAt]
          ELSE act' = act /\ UNCHANGED lane
    /\ UNCHANGED <<machine, row, ses, boot, lastWt, fsHealthy, approvals, plans, exec>>

Mutation(op, a, from, quiet, sat) ==
    [op |-> op, action |-> a, from |-> from, quiet |-> quiet, sat |-> sat]

\* git worktree move (external): refuses what it does not find; a directory at
\* the destination receives the checkout; killed half way it has renamed the
\* directory and not updated the registration.
GitMove(how) ==
    LET from == job.row.path
        dest == IF job.to \in other THEN Nested ELSE job.to
        movable == tree = from /\ reg = from
    IN /\ pc = "git"
       /\ \/ /\ how # "refused" /\ movable
             /\ tree' = dest /\ reg' = IF how = "moved" THEN dest ELSE reg
             /\ retFrom' = IF job.kind = "retire" THEN now ELSE retFrom
             /\ resetAt' = IF job.kind = "restore" THEN now ELSE resetAt
             /\ muts' = Append(muts, Mutation(job.kind, job.action, from, job.quiet, 0))
             /\ pc' = IF how = "moved" THEN "verify" ELSE "error"
          \/ /\ how = "refused" \/ ~movable
             /\ pc' = "error" /\ UNCHANGED <<tree, reg, retFrom, resetAt, muts>>
       /\ UNCHANGED <<now, other, content, store, memory, job, exec>>

\* Faulty variant: every error of Git is called a failure.
MoveErrorPlain(ok) ==
    /\ pc = "error" /\ Release
    /\ FinishIf(ok, job.action, "failed")
    /\ UNCHANGED <<machine, row, ses, boot, lastWt, approvals, waiting, plans, exec, fsHealthy>>

\* ambiguousWorktreeMove: failed only if the source is there and the
\* destination is not; else the circuit trips.
MoveError(ok) ==
    /\ pc = "error" /\ Release
    /\ LET ambiguous == ~Exists(job.row.path) \/ Exists(job.to)
       IN /\ fsHealthy' = (fsHealthy /\ ~ambiguous)
          /\ FinishIf(ok, job.action, IF ambiguous THEN "partial" ELSE "failed")
    /\ UNCHANGED <<machine, row, ses, boot, lastWt, approvals, waiting, plans, exec>>

RetiredRow == [job.row EXCEPT !.orig = job.row.path, !.path = job.to, !.state = "retired",
                              !.seen = now, !.complete = TRUE, !.registered = TRUE,
                              !.grace = now + RetireGrace]
RestoredRow == [job.row EXCEPT !.path = job.to, !.orig = None, !.state = "observing",
                               !.complete = FALSE, !.seen = now, !.since = 0, !.grace = 0]

\* Faulty variant: the row is written by a transaction of its own.
MoveRecordSplit(readable, ok) ==
    /\ pc = "verify" /\ Release
    /\ Finish(job.action, IF job.kind = "retire" THEN "retired" ELSE "restored")
    /\ row' = IF ok THEN IF job.kind = "retire" THEN RetiredRow ELSE RestoredRow ELSE row
    /\ UNCHANGED <<machine, ses, boot, lastWt, approvals, waiting, plans, exec, fsHealthy>>

\* verifyRetiredWorktree, then the row and the action in one transaction, which
\* may fail and leave the action attempting; readable is FALSE when Git cannot
\* list the registrations.
MoveRecord(readable, ok) ==
    /\ pc = "verify" /\ Release
    /\ LET verified == readable /\ ~Exists(job.row.path) /\ tree = job.to /\ reg = job.to
       IN /\ fsHealthy' = (fsHealthy /\ verified)
          /\ IF verified
             THEN /\ FinishIf(ok, job.action, IF job.kind = "retire" THEN "retired" ELSE "restored")
                  /\ row' = IF ~ok THEN row
                            ELSE IF job.kind = "retire" THEN RetiredRow ELSE RestoredRow
             ELSE FinishIf(ok, job.action, "partial") /\ row' = row
    /\ UNCHANGED <<machine, ses, boot, lastWt, approvals, waiting, plans, exec>>

----------------------------------------------------------------------------
(* Purge: the daemon only plans, a foreground command removes. *)

Plan(w, a) == [action |-> a, row |-> row, val |-> w.appr.val, expires |-> w.at + PlanLifetime]

\* prepareWorktreePurge: the purging row is durable before a plan exists; at
\* most one plan is outstanding, and the row fails if there is no room.
PurgePrepare(a, ok) ==
    /\ Idle /\ waiting # None /\ waiting.appr.kind = "purge" /\ Authorised(waiting)
    /\ waiting' = None
    /\ LET w == waiting
           outstanding == {x \in plans : x.expires >= w.at}
       IN \/ ~ok /\ UNCHANGED <<act, plans, exec>>
          \/ /\ ok /\ outstanding = {} /\ Begin(a, Row("purge", w.token, "purging"))
             /\ plans' = {Plan(w, a)}
             /\ exec' = [exec EXCEPT ![a] = [plan |-> Plan(w, a), stage |-> "ready",
                                             sat |-> 0, failed |-> FALSE]]
          \/ /\ ok /\ outstanding # {} /\ plans' = outstanding /\ UNCHANGED exec
             /\ \E r \in {"failed", "purging"} : Begin(a, Row("purge", w.token, r))
    /\ UNCHANGED <<machine, row, ses, boot, lastWt, fsHealthy, approvals, lane>>

Stage(a, s) == exec[a] # None /\ exec[a].stage = s
Foreground == UNCHANGED <<store, memory, lane>>

\* executeWorktreePurge and Finalize up to the removal: expiry, links and the
\* exact directory, then the approved links are unlinked.
ExecOpen(a) ==
    /\ Stage(a, "ready")
    /\ LET p == exec[a].plan
           exact == /\ now < p.expires
                    /\ tree = p.row.path /\ links = p.val.links /\ dirv = p.val.dirv
       IN /\ exec' = [exec EXCEPT ![a].stage = IF exact THEN "remove" ELSE "report",
                                  ![a].sat = now - retFrom, ![a].failed = ~exact]
          /\ links' = (links /\ ~exact) /\ dirv' = IF exact /\ links THEN dirv + 1 ELSE dirv
    /\ UNCHANGED <<now, place, head, dirty, use, resetAt, retFrom, muts>> /\ Foreground

\* git worktree remove (external) without force: refuses a dirty or moved
\* checkout; killed half way it has deleted the directory only.  After an error
\* the approved links are put back beneath the opened directory.
ExecRemove(a, how) ==
    LET p == exec[a].plan.row.path
        removable == tree = p /\ reg = p /\ ~dirty
    IN /\ Stage(a, "remove")
       /\ \/ /\ how # "refused" /\ removable
             /\ tree' = None /\ reg' = IF how = "moved" THEN None ELSE reg
             /\ muts' = Append(muts, Mutation("purge", a, p, 0, exec[a].sat))
             /\ exec' = [exec EXCEPT ![a].stage = "report", ![a].failed = how # "moved"]
             /\ UNCHANGED <<links, dirv>>
          \/ /\ how = "refused" \/ ~removable
             /\ exec' = [exec EXCEPT ![a].stage = "report", ![a].failed = TRUE]
             /\ links' = (links \/ (tree # None /\ exec[a].plan.val.links))
             /\ dirv' = IF links' # links THEN dirv + 1 ELSE dirv
             /\ UNCHANGED <<tree, reg, muts>>
       /\ UNCHANGED <<now, other, head, dirty, use, resetAt, retFrom>> /\ Foreground

\* The command is killed, or its request or the daemon's answer is lost.
ExecDie(a) ==
    /\ exec[a] # None /\ exec' = [exec EXCEPT ![a] = None]
    /\ UNCHANGED machine /\ Foreground

RemovedRow(p) == [p.row EXCEPT !.state = "removed", !.registered = FALSE, !.complete = FALSE,
                               !.seen = now]

\* Faulty variant: the executor's word is taken for the removal.
PurgeCompleteTrusting(a, readable, ok) ==
    /\ Idle /\ ActionIdle /\ Stage(a, "report") /\ exec' = [exec EXCEPT ![a] = None]
    /\ LET p == exec[a].plan
       IN p \in plans /\ plans' = plans \ {p} /\ Finish(a, "removed") /\ row' = RemovedRow(p)
    /\ UNCHANGED <<machine, ses, boot, lastWt, fsHealthy, approvals, waiting, lane>>

\* WorktreePurgeComplete with verifyWorktreeAbsent; readable is FALSE when Git
\* cannot list the registrations.  A plan that was dropped or lost in a restart
\* completes nothing.
PurgeComplete(a, readable, ok) ==
    /\ Idle /\ ActionIdle /\ Stage(a, "report") /\ exec' = [exec EXCEPT ![a] = None]
    /\ LET p == exec[a].plan
           expired == now >= p.expires
           absent == readable /\ ~Exists(p.row.path) /\ reg # p.row.path
           untouched == /\ exec[a].failed \/ expired
                        /\ readable /\ ValidRetired(p.row, TRUE) /\ p.val = Validation
       IN IF p \notin plans THEN UNCHANGED <<plans, act, row, fsHealthy>>
          ELSE /\ plans' = plans \ {p}
               /\ \/ /\ ~absent /\ untouched
                     /\ FinishIf(ok, a, "failed") /\ UNCHANGED <<row, fsHealthy>>
                  \/ /\ (absent /\ expired) \/ (~absent /\ ~untouched)
                     /\ fsHealthy' = FALSE /\ FinishIf(ok, a, "partial") /\ row' = row
                  \/ /\ absent /\ ~expired /\ UNCHANGED fsHealthy
                     /\ FinishIf(ok, a, "removed") /\ row' = IF ok THEN RemovedRow(p) ELSE row
    /\ UNCHANGED <<machine, ses, boot, lastWt, approvals, waiting, lane>>

----------------------------------------------------------------------------
\* The daemon stops anywhere and starts again: memory is gone, the circuit is
\* closed, and every inactivity window belongs to an earlier daemon.
Restart ==
    /\ Disturb("restart") /\ boot' = boot + 1
    /\ lastWt' = 0 /\ fsHealthy' = TRUE
    /\ approvals' = [t \in Tokens |-> IF approvals[t] = None THEN None ELSE Lost]
    /\ waiting' = None /\ plans' = {} /\ Release
    /\ resetAt' = now
    /\ UNCHANGED <<now, place, content, retFrom, muts, store, exec>>

\* A step goes as it should, or one of the faults of the bound is used up.
Lucky(b) == IF b THEN UNCHANGED moves ELSE Disturb("fault")
Inventories == {"ok", "failed", "unread"}
GitOutcomes == {"moved", "refused", "killed"}
Replayed(t) == approvals[t] \notin {None, Lost} /\ approvals[t].used

Next ==
    \/ Commit \/ DirtyFlip \/ Delete \/ Touch \/ TripElsewhere
    \/ \E u \in {"none", "process", "session"} : Use(u)
    \/ \E p \in Paths : Occupy(p)
    \/ Tick /\ UNCHANGED moves
    \/ ScanStart /\ UNCHANGED moves
    \/ \E c \in BOOLEAN, i \in Inventories : Lucky(c /\ i = "ok") /\ ScanCommit(c, i)
    \/ \E ok \in BOOLEAN, i \in Inventories : Lucky(FALSE) /\ ScanFail(i, ok)
    \/ \E t \in Tokens, k \in Kinds, ok \in BOOLEAN : Lucky(ok) /\ Preview(t, k, ok)
    \/ \E t \in Tokens, m, ok \in BOOLEAN : Lucky(m /\ ok /\ ~Replayed(t)) /\ Apply(t, m, ok)
    \/ \E i, ok \in BOOLEAN : Lucky(i /\ ok) /\ ApplyRefused(i, ok)
    \/ \E a \in ActIds, ok \in BOOLEAN : Lucky(ok) /\ (MoveBegin(a, ok) \/ PurgePrepare(a, ok))
    \/ \E how \in GitOutcomes : Lucky(how = "moved") /\ GitMove(how)
    \/ \E ok \in BOOLEAN : Lucky(ok) /\ MoveError(ok)
    \/ \E r, ok \in BOOLEAN : Lucky(r /\ ok) /\ MoveRecord(r, ok)
    \/ \E a \in ActIds : ExecOpen(a) /\ UNCHANGED moves
    \/ \E a \in ActIds : Lucky(FALSE) /\ ExecDie(a)
    \/ \E a \in ActIds, how \in GitOutcomes : Lucky(how = "moved") /\ ExecRemove(a, how)
    \/ \E a \in ActIds, r, ok \in BOOLEAN : Lucky(r /\ ok) /\ PurgeComplete(a, r, ok)
    \/ Restart

Spec == Init /\ [][Next]_vars

----------------------------------------------------------------------------
(* Types. *)

OrNone(S) == S \cup {None}
States == {"active", "observing", "stale", "protected", "unknown", "missing", "retired", "removed"}
WtRow == [path : Where, state : States, head : Nat, seen : Nat, since : Nat, boot : Nat,
          complete : BOOLEAN, registered : BOOLEAN, orig : Where, grace : Nat,
          links : BOOLEAN, sources : SUBSET Sources]
WtKinds == {"retire", "restore", "purge"}
WtResults == {"rejected", "attempting", "purging", "retired", "restored", "removed",
              "failed", "partial"}
ValType == [head : Nat, dirv : Nat, links : BOOLEAN]
WtApproval == [kind : WtKinds, row : WtRow, val : ValType, expires : Nat, used : BOOLEAN]
PlanType == [action : ActIds, row : WtRow, val : ValType, expires : Nat]
ScanJob == [at : Nat, active : BOOLEAN, ses : Where]
MoveJob == [kind : {"retire", "restore"}, action : ActIds, row : WtRow, to : Where, quiet : Int]
MutType == [op : WtKinds, action : ActIds, from : Where, quiet : Int, sat : Int]
ActType == [kind : WtKinds, token : Tokens, result : WtResults]
WaitType == [token : Tokens, appr : WtApproval, at : Nat]
ExecType == [plan : PlanType, stage : {"ready", "remove", "report"}, sat : Int, failed : BOOLEAN]

\* A missing record is none of the records.
ASSUME NoRecordAssumption ==
    /\ None \notin WtRow \cup ActType \cup WaitType \cup ExecType
    /\ {None, Lost} \cap WtApproval = {}

\* Type invariant of the worktree lane.
TypeOK ==
    /\ now \in Nat /\ tree \in Where /\ reg \in Where /\ other \subseteq Paths
    /\ head \in Nat /\ dirty \in BOOLEAN /\ use \in {"none", "process", "session"}
    /\ links \in BOOLEAN /\ dirv \in Nat /\ moves \in Nat
    /\ row \in OrNone(WtRow) /\ ses \in Where
    /\ act \in [ActIds -> OrNone(ActType)]
    /\ boot \in Nat /\ lastWt \in Nat /\ fsHealthy \in BOOLEAN
    /\ approvals \in [Tokens -> WtApproval \cup {None, Lost}]
    /\ waiting \in OrNone(WaitType)
    /\ plans \subseteq PlanType
    /\ pc \in {"idle", "scan", "git", "verify", "error"} /\ job \in OrNone(ScanJob \cup MoveJob)
    /\ exec \in [ActIds -> OrNone(ExecType)]
    /\ resetAt \in Nat /\ retFrom \in Nat /\ muts \in Seq(MutType)

----------------------------------------------------------------------------
(* Safety. *)

Mutated(a) == \E k \in 1..Len(muts) : muts[k].action = a

\* Write-ahead ledger: every move and removal belongs to an action of its own
\* kind whose row was durable first; rejected rows and failed purges never moved
\* or removed anything, retired and restored rows did.  Git killed half way,
\* crashes and failed transactions included.  A failed move moved nothing either,
\* unless another directory stands where the checkout was: ambiguousWorktreeMove
\* looks at paths, and both may have changed hands since Git was killed.
WorktreeLedger ==
    /\ \A k \in 1..Len(muts) : act[muts[k].action] # None /\ act[muts[k].action].kind = muts[k].op
    /\ \A j, k \in 1..Len(muts) : muts[j].action = muts[k].action => j = k
    /\ \A a \in ActIds : act[a] # None =>
         /\ act[a].result = "rejected" => ~Mutated(a)
         /\ act[a].result = "failed" =>
              \A k \in 1..Len(muts) : muts[k].action = a =>
                 muts[k].op # "purge" /\ muts[k].from \in other
         /\ act[a].result \in {"retired", "restored"} => Mutated(a)

\* A checkout is retired only after StaleAfter without a recorded failure, a
\* restart, a gap in the observations, a change of HEAD or status, or a scan
\* that saw it in use, protected or incomplete; less the time a scan takes.
InactiveBeforeRetire ==
    \A k \in 1..Len(muts) : muts[k].op = "retire" => muts[k].quiet >= StaleAfter - MaxLag

\* No executor reaches the removal of a checkout that has not sat at its
\* retirement path for the whole grace period when it is checked, whatever
\* restarts, expires or is restored in between.
GraceBeforeRemoval ==
    \A k \in 1..Len(muts) : muts[k].op = "purge" => muts[k].sat >= RetireGrace

Unresolved == \E a \in ActIds : act[a] # None /\ act[a].result \in {"attempting", "purging", "partial"}

\* A row names the path the checkout is at, or an unresolved action says where
\* to look: no crash, half-done move or failed transaction strands a checkout.
CheckoutTraceable ==
    row # None /\ tree # None /\ row.state # "removed" /\ row.path # tree => Unresolved

\* Unless a restore moved the checkout, removed is recorded only when it is
\* neither on disk nor registered: what the executor reports, late, lost or
\* after a half-done removal, is never taken for the fact.
RemovedMeansGone ==
    (\E a \in ActIds : act[a] # None /\ act[a].result = "removed")
    /\ ~(\E k \in 1..Len(muts) : muts[k].op = "restore")
        => tree = None /\ reg = None

(* The promise of ApprovalLedger.  A removed row is only stopped: a restore
   may have moved what its executor was to remove. *)

LedgerEntry(a) ==
    IF act[a] = None \/ act[a].result = "rejected" THEN None
    ELSE [grant |-> act[a].token,
          state |-> IF act[a].result \in {"attempting", "purging"} THEN "open"
                    ELSE IF act[a].result \in {"retired", "restored"} THEN "done" ELSE "stopped"]

Promise == INSTANCE ApprovalLedger WITH
    Grants <- Tokens, Actions <- ActIds, ledger <- [a \in ActIds |-> LedgerEntry(a)],
    effects <- {a \in ActIds : Mutated(a)}

\* A missing entry is no entry.
ASSUME NoEntryAssumption == None \notin Promise!Entry

\* Every step of the worktree lane is a step of the ledger or none, git killed
\* half way, lost answers, late executors and restarts included: one token, one
\* attempt; the row first; at most one move or removal, before the outcome.
WorktreeKeepsPromise == Promise!Spec

(* Claims of the repository that the code does not keep. *)

\* docs/references/safety-model.md: "The original path, retirement path, inode,
\* registration, branch, and grace deadline are durable": as long as a retired
\* checkout sits where it was put and no action is unresolved, its row knows
\* where it came from and how long it must stay.
RetirementDurable ==
    tree \in 1..MaxPath /\ ~Unresolved =>
        row # None /\ row.orig = tree - 1 /\ row.grace >= retFrom + RetireGrace
=============================================================================
