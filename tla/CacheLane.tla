----------------------------- MODULE CacheLane -----------------------------
(***************************************************************************)
(* The cache lane: scan -> stability window -> preview -> apply            *)
(* (quarantine / restore / purge), internal/daemon/cache_*.go over         *)
(* internal/cachefs, internal/cachepolicy and internal/storage/cache_*.go. *)
(*                                                                         *)
(* One provider root, one original name, one owning session, one enabled   *)
(* policy.  An artifact id is the entry's inode (cacheartifact.ArtifactID) *)
(* and names its slot in the quarantine directory, so a slot may come to   *)
(* hold another inode.  Identity.ctime is what a rename changes.           *)
(***************************************************************************)
EXTENDS Integers, Sequences, FiniteSets

CONSTANTS
    Inodes,           \* inode numbers, recycled by the filesystem
    Tokens,           \* secrets from newSecret, numbered in order of issue
    ActIds,           \* identifiers from newActionID, numbered as rows are written
    Kinds,            \* which of cleanup, restore and purge the run exercises
    Disturbances,     \* which of write, create, remove, tamper, session, circuit
    Faults,           \* whether store writes, answers and requests may go wrong
    Authority,        \* cfg.Cache.GlobalMode and the policy's mode combined
    MinStable,        \* cfg.Cache.MinStable
    Grace,            \* cfg.Cache.QuarantineGrace
    ApprovalLifetime, \* cacheApprovalLifetime
    PlanLifetime,     \* cachePurgePlanLifetime
    MaxApprovals,     \* maxCacheApprovals
    MaxLag,           \* how far a scan may run behind the tick that started it
    MaxTime, MaxEval, MaxMoves, MaxResets,    \* bounds of the model
    None, Lost        \* no value; an approval pruned or lost in a restart

ASSUME CacheAssumption ==
    /\ {MinStable, Grace, ApprovalLifetime, PlanLifetime, MaxApprovals, MaxLag,
        MaxTime, MaxEval, MaxMoves, MaxResets} \subseteq Nat
    /\ Authority \in {"recommend", "audit"} /\ Faults \in BOOLEAN
    /\ Kinds \subseteq {"cleanup", "restore", "purge"}
    /\ Disturbances \subseteq {"write", "create", "remove", "tamper", "session", "circuit"}
    /\ Tokens \subseteq Nat /\ ActIds \subseteq Nat /\ Inodes # {}
    /\ {None, Lost} \cap (Tokens \cup ActIds \cup Inodes) = {} /\ None # Lost

VARIABLES
    \* the machine
    now,          \* wall clock
    orig,         \* the inode under the artifact's original name
    quar,         \* the inode under each name of the quarantine directory
    file,         \* content version and ctime of each inode
    sesLive,      \* whether the owning session is running now
    moves,        \* how many facts about the machine have changed
    \* SQLite
    sesEnded,     \* the session row says completed, with no live process rows
    eval,         \* MAX(id) of cache_evaluations
    lastScan,     \* last_cache_scan_ns
    art,          \* cache_artifacts
    qrow,         \* cache_quarantines
    act,          \* cache_actions
    \* daemon memory
    cacheHealthy, \* d.cacheHealthy
    fsHealthy,    \* d.filesystemHealthy
    approvals,    \* d.cacheApprovals
    pending,      \* approvals held by applies that wait for cacheMu and scanMu
    plans,        \* d.cachePurgePlans
    pc, job,      \* what the holder of cacheMu is doing, and on whose behalf
    \* foreground executors (ghostgc cache purge --apply), one per purging action
    exec,
    \* history, read by properties only
    quietFrom,    \* when each inode's content last changed
    quarFrom,     \* when each inode last entered the quarantine directory
    muts,         \* renames and unlinks that happened
    resets

machine == <<now, orig, quar, file, sesLive, moves, quietFrom, quarFrom, muts>>
store   == <<sesEnded, eval, lastScan, art, qrow, act>>
health  == <<cacheHealthy, fsHealthy>>
lane    == <<pc, job>>
vars    == <<machine, store, health, approvals, pending, plans, lane, exec, resets>>

----------------------------------------------------------------------------
(* Pure decisions. *)

Ident(i) == [ino |-> i, body |-> file[i].body, ctime |-> file[i].ctime]

\* cachefs.sameAcrossRename: Identity.Equal but for ctime
SameAcrossRename(x, y) == x.ino = y.ino /\ x.body = y.body

\* cachepolicy.stableHistoryEligible
StableHistoryEligible(life) ==
    life \in {"observed", "settling", "stale_candidate", "recommended", "restored"}

\* Faulty variant: the manifest is compared, the identity in it is not.
StableSinceByName(id, at, previous) ==
    IF previous # None /\ StableHistoryEligible(previous.life) /\ previous.path = "orig"
    THEN previous.since ELSE at

\* The stable window continues only over an unchanged identity and manifest.
StableSince(id, at, previous) ==
    IF /\ previous # None /\ StableHistoryEligible(previous.life)
       /\ previous.ident = id /\ previous.path = "orig"
    THEN previous.since ELSE at

\* codex.Provider.Observe: an entry is protected unless the scan was complete
\* and its one owning session has completed.
ObserveProtects(complete, ended) == ~complete \/ ~ended

\* cachepolicy.Evaluate on one observation of the original name; protected
\* says what the provider concluded.
Evaluate(id, at, protected, previous, e) ==
    LET since == StableSince(id, at, previous)
        settled == previous # None /\ at - since >= MinStable
        life == IF protected THEN "protected"
                ELSE IF ~settled THEN "settling"
                ELSE IF Authority = "recommend" THEN "recommended" ELSE "stale_candidate"
    IN [life |-> life, ident |-> id, path |-> "orig", since |-> since, eval |-> e,
        policy |-> ~protected /\ settled]

\* Faulty variant: the shared circuit breaker is not consulted.
CachePolicyEnabledTripped(a) == cacheHealthy /\ Authority = "recommend" /\ a.policy

\* cachePolicyEnabled, for the artifact's own policy
CachePolicyEnabled(a) == cacheHealthy /\ fsHealthy /\ Authority = "recommend" /\ a.policy

\* currentCacheArtifact: the row belongs to the newest evaluation
Current(i) == IF art[i] # None /\ art[i].eval = eval THEN art[i] ELSE None

\* Faulty variant: the deadline is not looked at.
GraceElapsedAlways(at, q) == at >= 0

\* The grace gate of CachePurgePreview and prepareCachePurgeLocked
GraceElapsed(at, q) == at >= q.grace

\* the durable quarantine evidence is consistent and still quarantined
Quarantined(i) ==
    /\ art[i] # None /\ qrow[i] # None /\ qrow[i].status = "quarantined"
    /\ art[i].ident = qrow[i].ident /\ art[i].path = "quar"

----------------------------------------------------------------------------
(* Init. *)

Init ==
    /\ now = 0 /\ orig = CHOOSE i \in Inodes : TRUE
    /\ quar = [s \in Inodes |-> None]
    /\ file = [i \in Inodes |-> [body |-> 0, ctime |-> 0]]
    /\ sesLive = FALSE /\ moves = 0
    /\ sesEnded = TRUE /\ eval = 0 /\ lastScan = 0
    /\ art = [i \in Inodes |-> None] /\ qrow = [i \in Inodes |-> None]
    /\ act = [a \in ActIds |-> None]
    /\ cacheHealthy = FALSE /\ fsHealthy = TRUE
    /\ approvals = [t \in Tokens |-> None] /\ pending = [t \in Tokens |-> None]
    /\ plans = {} /\ pc = "idle" /\ job = None
    /\ exec = [a \in ActIds |-> None]
    /\ quietFrom = [i \in Inodes |-> 0] /\ quarFrom = [i \in Inodes |-> 0]
    /\ muts = <<>> /\ resets = 0

----------------------------------------------------------------------------
(* The machine: the agent and the user work in the same directories. *)

Idle == pc = "idle"
Release == pc' = "idle" /\ job' = None
Disturb(d) == d \in Disturbances /\ moves < MaxMoves /\ moves' = moves + 1
Elsewhere == UNCHANGED <<store, health, approvals, pending, plans, lane, exec, resets>>
Touch(i) ==
    /\ file' = [file EXCEPT ![i] = [body |-> @.body + 1, ctime |-> @.ctime + 1]]
    /\ quietFrom' = [quietFrom EXCEPT ![i] = now]

\* A running scan is never more than MaxLag behind the tick that started it.
Tick ==
    /\ now < MaxTime /\ now' = now + 1
    /\ pc = "scan" => now + 1 - job.at <= MaxLag
    /\ UNCHANGED <<orig, quar, file, sesLive, moves, quietFrom, quarFrom, muts>> /\ Elsewhere

\* The agent writes to its snapshot in place.
Write ==
    /\ Disturb("write") /\ orig # None /\ Touch(orig)
    /\ UNCHANGED <<now, orig, quar, sesLive, quarFrom, muts>> /\ Elsewhere

Unlinked == {i \in Inodes : orig # i /\ \A s \in Inodes : quar[s] # i}

\* The agent creates the name, or replaces what it names, with a new file.
Create(i) ==
    /\ Disturb("create") /\ i \in Unlinked /\ orig' = i /\ Touch(i)
    /\ UNCHANGED <<now, quar, sesLive, quarFrom, muts>> /\ Elsewhere

Remove ==
    /\ Disturb("remove") /\ orig # None /\ orig' = None
    /\ UNCHANGED <<now, quar, file, sesLive, quietFrom, quarFrom, muts>> /\ Elsewhere

\* Something else writes to a quarantined file.
Tamper(s) ==
    /\ Disturb("tamper") /\ quar[s] # None /\ Touch(quar[s])
    /\ UNCHANGED <<now, orig, quar, sesLive, quarFrom, muts>> /\ Elsewhere

SessionFlip ==
    /\ Disturb("session") /\ sesLive' = ~sesLive
    /\ UNCHANGED <<now, orig, quar, file, quietFrom, quarFrom, muts>> /\ Elsewhere

\* A process scan commits what it saw of the session.  It shares the goroutine
\* of the cache scans, and applies hold its lock.
ProcessScan ==
    /\ Idle /\ sesEnded = sesLive /\ sesEnded' = ~sesLive
    /\ UNCHANGED <<machine, eval, lastScan, art, qrow, act, health, approvals, pending,
                   plans, lane, exec, resets>>

\* A worktree action trips the shared circuit; applies hold its lock.
TripElsewhere ==
    /\ "circuit" \in Disturbances /\ pc \in {"idle", "scan"} /\ fsHealthy /\ fsHealthy' = FALSE
    /\ UNCHANGED <<machine, store, cacheHealthy, approvals, pending, plans, lane, exec, resets>>

----------------------------------------------------------------------------
(* Scans: runCacheScan under cacheMu. *)

\* The tick that started the scan may be older than the scan; session facts
\* are read before the directory is.
CacheScanStart(lag) ==
    /\ Idle /\ now - lag >= lastScan
    /\ pc' = "scan" /\ job' = [at |-> now - lag, ended |-> sesEnded]
    /\ UNCHANGED <<machine, store, health, approvals, pending, plans, exec, resets>>

\* PersistCacheEvaluation of what is under the original name; an incomplete
\* observation protects it.  The quarantine directory is skipped.
CacheScanCommit(complete) ==
    /\ pc = "scan" /\ eval < MaxEval /\ Release
    /\ art' = IF orig = None THEN art
              ELSE [art EXCEPT ![orig] =
                      Evaluate(Ident(orig), job.at, ObserveProtects(complete, job.ended),
                               Current(orig), eval + 1)]
    /\ eval' = eval + 1 /\ lastScan' = job.at /\ cacheHealthy' = complete
    /\ UNCHANGED <<machine, sesEnded, qrow, act, fsHealthy, approvals, pending, plans,
                   exec, resets>>

\* recordCacheFailure, whose own write may fail too
CacheScanFail(recorded) ==
    /\ pc = "scan" /\ (recorded => eval < MaxEval) /\ Release
    /\ cacheHealthy' = FALSE
    /\ eval' = IF recorded THEN eval + 1 ELSE eval
    /\ lastScan' = IF recorded THEN job.at ELSE lastScan
    /\ UNCHANGED <<machine, sesEnded, art, qrow, act, fsHealthy, approvals, pending, plans,
                   exec, resets>>

----------------------------------------------------------------------------
(* Previews. *)

\* pruneCacheApprovals
Kept(t) == approvals[t] \notin {None, Lost} /\ approvals[t].expires + ApprovalLifetime >= now

\* Faulty variant: the quarantine row is not bound.
IssueCacheApprovalUnbound(t, kind, i, audited) ==
    LET pruned == [u \in Tokens |-> IF approvals[u] = None \/ Kept(u) THEN approvals[u] ELSE Lost]
        new == [kind |-> kind, id |-> i, art |-> art[i],
                qrow |-> None,
                expires |-> now + ApprovalLifetime, used |-> FALSE]
    IN /\ Idle /\ approvals[t] = None /\ \A u \in Tokens : u < t => approvals[u] # None
       /\ Cardinality({u \in Tokens : Kept(u)}) < MaxApprovals
       /\ approvals' = [pruned EXCEPT ![t] = IF audited THEN new ELSE Lost]
       /\ UNCHANGED <<machine, store, health, pending, plans, lane, exec, resets>>

\* issueCacheApproval: binds the rows as they are now.  When the audit record
\* cannot be appended the approval is withdrawn.
IssueCacheApproval(t, kind, i, audited) ==
    LET pruned == [u \in Tokens |-> IF approvals[u] = None \/ Kept(u) THEN approvals[u] ELSE Lost]
        new == [kind |-> kind, id |-> i, art |-> art[i],
                qrow |-> IF kind = "cleanup" THEN None ELSE qrow[i],
                expires |-> now + ApprovalLifetime, used |-> FALSE]
    IN /\ Idle /\ approvals[t] = None /\ \A u \in Tokens : u < t => approvals[u] # None
       /\ Cardinality({u \in Tokens : Kept(u)}) < MaxApprovals
       /\ approvals' = [pruned EXCEPT ![t] = IF audited THEN new ELSE Lost]
       /\ UNCHANGED <<machine, store, health, pending, plans, lane, exec, resets>>

CacheCleanupPreview(t, i, audited) ==
    /\ "cleanup" \in Kinds /\ Current(i) # None
    /\ CachePolicyEnabled(art[i]) /\ art[i].life = "recommended"
    /\ IssueCacheApproval(t, "cleanup", i, audited)

CacheRestorePreview(t, i, audited) ==
    /\ "restore" \in Kinds /\ art[i] # None /\ CachePolicyEnabled(art[i])
    /\ qrow[i] # None /\ qrow[i].status = "quarantined"
    /\ IssueCacheApproval(t, "restore", i, audited)

CachePurgePreview(t, i, audited) ==
    /\ "purge" \in Kinds /\ art[i] # None /\ CachePolicyEnabled(art[i])
    /\ qrow[i] # None /\ qrow[i].status = "quarantined" /\ GraceElapsed(now, qrow[i])
    /\ IssueCacheApproval(t, "purge", i, audited)

----------------------------------------------------------------------------
(* Applies. *)

Row(token, appr, result) ==
    [kind |-> appr.kind, art |-> appr.id, token |-> token, result |-> result]

Begin(a, row) ==
    /\ act[a] = None /\ \A b \in ActIds : b < a => act[b] # None
    /\ act' = [act EXCEPT ![a] = row]
Finish(a, result) == act' = [act EXCEPT ![a].result = result]

\* rejectCacheAction, whose insert may fail
Reject(t, appr, ok) ==
    IF ok THEN \E a \in ActIds : Begin(a, Row(t, appr, "rejected")) ELSE act' = act

\* consumeCacheApproval: neither replayed nor expired
Consumable(appr) == ~appr.used /\ now < appr.expires

\* Faulty variant: the approval is marked used only when it is refused.
CacheApplyReusable(t, matches, ok) ==
    /\ approvals[t] \notin {None, Lost}
    /\ LET appr == approvals[t]
           accepted == Consumable(appr) /\ matches
       IN /\ approvals' = [approvals EXCEPT ![t].used = ~accepted]
          /\ IF accepted
             THEN pending' = [pending EXCEPT ![t] = [appr |-> appr, at |-> now]] /\ act' = act
             ELSE Reject(t, appr, ok) /\ pending' = pending
    /\ UNCHANGED <<machine, sesEnded, eval, lastScan, art, qrow, health, plans, lane, exec, resets>>

\* What an apply does before the locks: the approval is used up first.  matches is FALSE for
\* the wrong endpoint or confirmation.
CacheApply(t, matches, ok) ==
    /\ approvals[t] \notin {None, Lost}
    /\ LET appr == approvals[t]
           accepted == Consumable(appr) /\ matches
       IN /\ approvals' = [approvals EXCEPT ![t].used = TRUE]
          /\ IF accepted
             THEN pending' = [pending EXCEPT ![t] = [appr |-> appr, at |-> now]] /\ act' = act
             ELSE Reject(t, appr, ok) /\ pending' = pending
    /\ UNCHANGED <<machine, sesEnded, eval, lastScan, art, qrow, health, plans, lane, exec, resets>>

\* freshCleanupArtifact: the committed row is the approved one, and a fresh
\* observation still recommends that exact identity.
FreshCleanup(appr, complete) ==
    LET c == Current(appr.id)
        fresh == Evaluate(Ident(appr.id), now, ObserveProtects(complete, sesEnded), c, eval)
    IN /\ CachePolicyEnabled(appr.art) /\ c # None /\ c = appr.art
       /\ complete /\ orig = appr.id
       /\ fresh.life = "recommended" /\ fresh.ident = c.ident

\* currentQuarantineApproval
CurrentQuarantine(appr) ==
    /\ CachePolicyEnabled(appr.art) /\ Quarantined(appr.id)
    /\ art[appr.id] = appr.art /\ qrow[appr.id] = appr.qrow

Authorised(p, complete) ==
    IF p.appr.kind = "cleanup" THEN FreshCleanup(p.appr, complete)
    ELSE /\ CurrentQuarantine(p.appr)
         /\ p.appr.kind = "purge" => GraceElapsed(p.at, p.appr.qrow)

\* An apply that got cacheMu and scanMu is refused.
ApplyRefused(t, complete, ok) ==
    /\ Idle /\ pending[t] # None /\ ~Authorised(pending[t], complete)
    /\ Reject(t, pending[t].appr, ok)
    /\ pending' = [pending EXCEPT ![t] = None]
    /\ UNCHANGED <<machine, sesEnded, eval, lastScan, art, qrow, health, approvals, plans,
                   lane, exec, resets>>

\* A cleanup or restore is committed as attempting; without its row nothing
\* is done.
MoveBegin(t, a, ok) ==
    /\ Idle /\ pending[t] # None /\ pending[t].appr.kind # "purge"
    /\ Authorised(pending[t], TRUE)
    /\ pending' = [pending EXCEPT ![t] = None]
    /\ LET appr == pending[t].appr
       IN IF ok
          THEN /\ Begin(a, Row(t, appr, "attempting"))
               /\ pc' = "check"
               /\ job' = [kind |-> appr.kind, id |-> appr.id, action |-> a,
                          ident |-> appr.art.ident]
          ELSE act' = act /\ UNCHANGED lane
    /\ UNCHANGED <<machine, sesEnded, eval, lastScan, art, qrow, health, approvals, plans,
                   exec, resets>>

Plan(p, a) == [action |-> a, id |-> p.appr.id, ident |-> p.appr.qrow.ident,
               expires |-> p.at + PlanLifetime]

\* prepareCachePurgeLocked: the purging row is durable before a plan exists;
\* at most one plan is outstanding, and the row fails if there is no room.
PurgePrepare(t, a, ok) ==
    /\ Idle /\ pending[t] # None /\ pending[t].appr.kind = "purge"
    /\ Authorised(pending[t], TRUE)
    /\ pending' = [pending EXCEPT ![t] = None]
    /\ LET p == pending[t]
           outstanding == {x \in plans : x.expires >= p.at}
       IN \/ ~ok /\ UNCHANGED <<act, plans, exec>>
          \/ /\ ok /\ outstanding = {} /\ Begin(a, Row(t, p.appr, "purging"))
             /\ plans' = {Plan(p, a)}
             /\ exec' = [exec EXCEPT ![a] = [plan |-> Plan(p, a), stage |-> "ready", sat |-> None]]
          \/ /\ ok /\ outstanding # {} /\ plans' = outstanding /\ UNCHANGED exec
             /\ \E r \in {"failed", "purging"} : Begin(a, Row(t, p.appr, r))
    /\ UNCHANGED <<machine, sesEnded, eval, lastScan, art, qrow, health, approvals, lane, resets>>

----------------------------------------------------------------------------
(* cachefs.Quarantine and cachefs.Restore: check, then rename, then compare. *)

\* failCacheAction, whose transaction may fail, and the end of the apply
Fail(ok) ==
    /\ IF ok THEN Finish(job.action, "failed") ELSE act' = act
    /\ Release
    /\ UNCHANGED <<machine, sesEnded, eval, lastScan, art, qrow, health, approvals, pending,
                   plans, exec, resets>>

SourceUnchanged == IF job.kind = "cleanup"
                   THEN orig = job.ident.ino /\ Ident(orig) = job.ident
                   ELSE quar[job.id] # None /\ Ident(quar[job.id]) = job.ident
DestinationAbsent == IF job.kind = "cleanup" THEN quar[job.id] = None ELSE orig = None

MoveCheck(ok) ==
    /\ pc = "check"
    /\ \/ /\ SourceUnchanged /\ DestinationAbsent
          /\ pc' = "rename" /\ job' = job
          /\ UNCHANGED <<machine, store, health, approvals, pending, plans, exec, resets>>
       \/ ~(SourceUnchanged /\ DestinationAbsent) /\ Fail(ok)

\* quiet is how long the file had been unchanged, sat how long it had been in
\* quarantine when it was checked.
Mutation(op, a, i, sat) ==
    [op |-> op, action |-> a, ino |-> i, quiet |-> now - quietFrom[i], sat |-> sat]

\* renameat takes whatever the name means by now and replaces what it finds at
\* the destination; the result is compared with what was approved.
MoveRename ==
    LET src == IF job.kind = "cleanup" THEN orig ELSE quar[job.id]
    IN /\ pc = "rename" /\ src # None
       /\ file' = [file EXCEPT ![src].ctime = @ + 1]
       /\ orig' = IF job.kind = "cleanup" THEN None ELSE src
       /\ quar' = [quar EXCEPT ![job.id] = IF job.kind = "cleanup" THEN src ELSE None]
       /\ quarFrom' = [quarFrom EXCEPT ![src] = IF job.kind = "cleanup" THEN now ELSE @]
       /\ muts' = Append(muts, Mutation(job.kind, job.action, src, None))
       /\ LET moved == [Ident(src) EXCEPT !.ctime = @ + 1]
          IN IF SameAcrossRename(moved, job.ident)
             THEN pc' = "record" /\ job' = [job EXCEPT !.ident = moved]
             ELSE pc' = "fail" /\ job' = job
       /\ UNCHANGED <<now, sesLive, moves, store, health, approvals, pending, plans, exec,
                      quietFrom, resets>>

\* Faulty variant: the error of the rename is dropped.
MoveFailIgnored(ok) ==
    /\ pc = "rename" /\ (IF job.kind = "cleanup" THEN orig ELSE quar[job.id]) = None
    /\ Finish(job.action, "quarantined") /\ Release
    /\ UNCHANGED <<machine, sesEnded, eval, lastScan, art, qrow, health, approvals, pending,
                   plans, exec, resets>>

\* The name was gone, or the moved file was not the approved one.
MoveFail(ok) ==
    /\ \/ pc = "fail"
       \/ pc = "rename" /\ (IF job.kind = "cleanup" THEN orig ELSE quar[job.id]) = None
    /\ Fail(ok)

\* Faulty variant: the quarantine row is written by a transaction of its own.
MoveRecordSplit(ok) ==
    /\ pc = "record" /\ job.kind = "cleanup" /\ Release
    /\ Finish(job.action, "quarantined")
    /\ IF ok THEN qrow' = [qrow EXCEPT ![job.id] = [ident |-> job.ident, grace |-> now + Grace,
                                                    status |-> "quarantined"]]
       ELSE qrow' = qrow
    /\ UNCHANGED <<machine, sesEnded, eval, lastScan, art, health, approvals, pending, plans,
                   exec, resets>>

\* RecordCacheQuarantined / RecordCacheRestored: one transaction, which may
\* fail and leave the row attempting.
MoveRecord(ok) ==
    /\ pc = "record" /\ Release
    /\ IF ~ok THEN UNCHANGED <<art, qrow, act>>
       ELSE IF job.kind = "cleanup"
       THEN /\ qrow' = [qrow EXCEPT ![job.id] = [ident |-> job.ident, grace |-> now + Grace,
                                                 status |-> "quarantined"]]
            /\ art' = [art EXCEPT ![job.id].life = "quarantined",
                                  ![job.id].ident = job.ident, ![job.id].path = "quar"]
            /\ Finish(job.action, "quarantined")
       ELSE /\ qrow' = [qrow EXCEPT ![job.id].status = "restored"]
            /\ art' = [art EXCEPT ![job.id].life = "restored", ![job.id].ident = job.ident,
                                  ![job.id].path = "orig", ![job.id].since = now]
            /\ Finish(job.action, "restored")
    /\ UNCHANGED <<machine, sesEnded, eval, lastScan, health, approvals, pending, plans, exec,
                   resets>>

----------------------------------------------------------------------------
(* The foreground executor (executeCachePurge, RealPurger.Purge): no lock. *)

Stage(a, s) == exec[a] # None /\ exec[a].stage = s
Foreground == UNCHANGED <<store, health, approvals, pending, plans, lane, resets>>

\* expired, absent or changed: report an error; otherwise go on to unlink
ExecCheck(a) ==
    /\ Stage(a, "ready")
    /\ LET p == exec[a].plan
           exact == now < p.expires /\ quar[p.id] # None /\ Ident(quar[p.id]) = p.ident
       IN exec' = [exec EXCEPT ![a].stage = IF exact THEN "unlink" ELSE "report",
                               ![a].sat = IF exact THEN now - quarFrom[quar[p.id]] ELSE None]
    /\ UNCHANGED machine /\ Foreground

ExecUnlink(a) ==
    /\ Stage(a, "unlink")
    /\ exec' = [exec EXCEPT ![a].stage = "report"]
    /\ LET s == exec[a].plan.id
       IN IF quar[s] = None THEN UNCHANGED <<quar, muts>>
          ELSE /\ quar' = [quar EXCEPT ![s] = None]
               /\ muts' = Append(muts, Mutation("purge", a, quar[s], exec[a].sat))
    /\ UNCHANGED <<now, orig, file, sesLive, moves, quietFrom, quarFrom>> /\ Foreground

\* The executor dies, or its request or the daemon's answer is lost.
ExecDie(a) ==
    /\ exec[a] # None /\ exec' = [exec EXCEPT ![a] = None]
    /\ UNCHANGED machine /\ Foreground

\* ambiguousCachePurge: trips the shared circuit, then records partial
Ambiguous(a, i, ok) ==
    /\ fsHealthy' = FALSE /\ UNCHANGED qrow
    /\ IF ok THEN Finish(a, "partial") /\ art' = [art EXCEPT ![i].life = "partial"]
       ELSE UNCHANGED <<act, art>>

\* CachePurgeComplete under both locks; statOK is FALSE when QuarantineEntry
\* fails.  A plan that was dropped or lost in a restart completes nothing.
CachePurgeComplete(a, statOK, ok) ==
    /\ Idle /\ Stage(a, "report") /\ exec' = [exec EXCEPT ![a] = None]
    /\ LET p == exec[a].plan
           present == quar[p.id] # None
           exact == present /\ Ident(quar[p.id]) = p.ident
       IN IF p \notin plans THEN UNCHANGED <<plans, act, art, qrow, fsHealthy>>
          ELSE /\ plans' = plans \ {p}
               /\ \/ /\ ~statOK \/ (present /\ ~exact) \/ (~present /\ now >= p.expires)
                     /\ Ambiguous(a, p.id, ok)
                  \/ /\ statOK /\ exact /\ UNCHANGED <<art, qrow, fsHealthy>>
                     /\ IF ok THEN Finish(a, "failed") ELSE act' = act
                  \/ /\ statOK /\ ~present /\ now < p.expires /\ UNCHANGED fsHealthy
                     /\ IF ok THEN /\ Finish(a, "purged")
                                   /\ qrow' = [qrow EXCEPT ![p.id].status = "purged"]
                                   /\ art' = [art EXCEPT ![p.id].life = "purged"]
                        ELSE UNCHANGED <<act, art, qrow>>
    /\ UNCHANGED <<machine, sesEnded, eval, lastScan, cacheHealthy, approvals, pending, lane,
                   resets>>

----------------------------------------------------------------------------
\* The daemon stops anywhere and starts again: memory is gone, no cache scan
\* has been healthy yet and the circuit is closed.
Restart ==
    /\ resets < MaxResets /\ resets' = resets + 1
    /\ cacheHealthy' = FALSE /\ fsHealthy' = TRUE
    /\ approvals' = [t \in Tokens |-> IF approvals[t] = None THEN None ELSE Lost]
    /\ pending' = [t \in Tokens |-> None]
    /\ plans' = {} /\ Release
    /\ UNCHANGED <<machine, store, exec>>

\* Past the bound on evaluations every scan fails unrecorded.
Outcomes == IF Faults THEN BOOLEAN ELSE {TRUE}
Replayed(t) == approvals[t] \notin {None, Lost} /\ approvals[t].used

Next ==
    \/ Tick \/ Write \/ Remove \/ SessionFlip \/ ProcessScan \/ TripElsewhere
    \/ \E i \in Inodes : Create(i) \/ Tamper(i)
    \/ \E lag \in 0..MaxLag : CacheScanStart(lag)
    \/ \E ok \in Outcomes : CacheScanCommit(ok) \/ (Faults /\ CacheScanFail(ok))
    \/ (Faults \/ eval = MaxEval) /\ CacheScanFail(FALSE)
    \/ \E t \in Tokens, i \in Inodes, ok \in Outcomes :
         CacheCleanupPreview(t, i, ok) \/ CacheRestorePreview(t, i, ok) \/ CachePurgePreview(t, i, ok)
    \/ \E t \in Tokens, b, ok \in Outcomes :
         ((Faults \/ ~Replayed(t)) /\ CacheApply(t, b, ok)) \/ ApplyRefused(t, b, ok)
    \/ \E t \in Tokens, a \in ActIds, ok \in Outcomes : MoveBegin(t, a, ok) \/ PurgePrepare(t, a, ok)
    \/ \E ok \in Outcomes : MoveCheck(ok) \/ MoveFail(ok) \/ MoveRecord(ok)
    \/ MoveRename
    \/ \E a \in ActIds : ExecCheck(a) \/ ExecUnlink(a) \/ (Faults /\ ExecDie(a))
    \/ \E a \in ActIds, b, ok \in Outcomes : CachePurgeComplete(a, b, ok)
    \/ Restart

Spec == Init /\ [][Next]_vars

----------------------------------------------------------------------------
(* Types. *)

OrNone(S) == S \cup {None}
IdentType == [ino : Inodes, body : Nat, ctime : Nat]
Lives == {"protected", "settling", "stale_candidate", "recommended", "quarantined",
          "restored", "purged", "partial"}
ArtType == [life : Lives, ident : IdentType, path : {"orig", "quar"}, since : Nat,
            eval : Nat, policy : BOOLEAN]
QuarType == [ident : IdentType, grace : Nat, status : {"quarantined", "restored", "purged"}]
Results == {"rejected", "attempting", "purging", "quarantined", "restored", "purged",
            "failed", "partial"}
CacheKinds == {"cleanup", "restore", "purge"}
RowType == [kind : CacheKinds, art : Inodes, token : Tokens, result : Results]
ApprovalType ==
    [kind : {"cleanup"}, id : Inodes, art : ArtType, qrow : {None}, expires : Nat, used : BOOLEAN]
    \cup [kind : {"restore", "purge"}, id : Inodes, art : ArtType, qrow : QuarType,
          expires : Nat, used : BOOLEAN]
PlanType == [action : ActIds, id : Inodes, ident : IdentType, expires : Nat]
ExecType == [plan : PlanType, stage : {"ready", "unlink", "report"}, sat : OrNone(Int)]
ScanJob == [at : Nat, ended : BOOLEAN]
MoveJob == [kind : {"cleanup", "restore"}, id : Inodes, action : ActIds, ident : IdentType]
MutType == [op : CacheKinds, action : ActIds, ino : Inodes, quiet : Int, sat : OrNone(Int)]
WaitType == [appr : ApprovalType, at : Nat]

\* A missing record is none of the records.
ASSUME NoRecordAssumption ==
    /\ None \notin ArtType \cup QuarType \cup RowType \cup WaitType \cup ExecType
    /\ {None, Lost} \cap ApprovalType = {}

\* Type invariant of the cache lane.
TypeOK ==
    /\ now \in Nat /\ orig \in OrNone(Inodes) /\ quar \in [Inodes -> OrNone(Inodes)]
    /\ file \in [Inodes -> [body : Nat, ctime : Nat]] /\ sesLive \in BOOLEAN /\ moves \in Nat
    /\ sesEnded \in BOOLEAN /\ eval \in Nat /\ lastScan \in Nat
    /\ art \in [Inodes -> OrNone(ArtType)] /\ qrow \in [Inodes -> OrNone(QuarType)]
    /\ act \in [ActIds -> OrNone(RowType)]
    /\ cacheHealthy \in BOOLEAN /\ fsHealthy \in BOOLEAN
    /\ approvals \in [Tokens -> ApprovalType \cup {None, Lost}]
    /\ pending \in [Tokens -> OrNone(WaitType)]
    /\ plans \subseteq PlanType
    /\ pc \in {"idle", "scan", "check", "rename", "record", "fail"}
    /\ job \in OrNone(ScanJob \cup MoveJob)
    /\ exec \in [ActIds -> OrNone(ExecType)]
    /\ quietFrom \in [Inodes -> Nat] /\ quarFrom \in [Inodes -> Nat]
    /\ muts \in Seq(MutType) /\ resets \in Nat

----------------------------------------------------------------------------
(* Safety. *)

Mutated(a) == \E k \in 1..Len(muts) : muts[k].action = a

\* Write-ahead ledger: every rename and unlink belongs to an action of its own
\* kind whose row was durable first and is never called rejected; no action
\* mutates twice; quarantined and restored are recorded only of files that were
\* moved, and purged only of one that left its slot through an unlink or a
\* restore.  Crashes, failed transactions and late, lost or repeated reports
\* between the steps included.
CacheLedger ==
    /\ \A k \in 1..Len(muts) :
         /\ act[muts[k].action] # None
         /\ act[muts[k].action].kind = muts[k].op
         /\ act[muts[k].action].result # "rejected"
    /\ \A j, k \in 1..Len(muts) : muts[j].action = muts[k].action => j = k
    /\ \A a \in ActIds : act[a] # None /\ act[a].result \in {"quarantined", "restored"} => Mutated(a)
    /\ \A a \in ActIds : act[a] # None /\ act[a].result = "purged" =>
         \E k \in 1..Len(muts) : muts[k].ino = act[a].art /\ muts[k].op # "cleanup"

\* A file recorded as quarantined is the approved inode, and nothing wrote to
\* it for MinStable before it was moved, less the lag of the scan that first
\* saw it; whatever rewrote or replaced it in between.
StableBeforeQuarantine ==
    \A k \in 1..Len(muts) :
      act[muts[k].action] # None /\ act[muts[k].action].result = "quarantined" =>
        /\ muts[k].ino = act[muts[k].action].art
        /\ muts[k].quiet >= MinStable - MaxLag

\* No executor gets past its check unless the file it is about to unlink sat
\* in quarantine, uninterrupted, for the whole grace period; restoring and
\* quarantining it again starts the period anew.
GraceBeforePurge ==
    \A k \in 1..Len(muts) : muts[k].op = "purge" => muts[k].sat >= Grace

Unsettled(i) == \E a \in ActIds :
    act[a] # None /\ act[a].art = i /\ act[a].result \in {"attempting", "purging", "partial", "failed"}
Holds(i) == quar[i] # None /\ quar[i] = qrow[i].ident.ino

\* Whenever the quarantine directory and the quarantine row disagree, an action
\* row that did not claim success says which action to look at: no crash or
\* failed transaction loses or strands a file without a trace.
StrandedIsTraceable ==
    \A i \in Inodes :
        /\ qrow[i] # None /\ qrow[i].status = "quarantined" /\ ~Holds(i) => Unsettled(i)
        /\ quar[i] # None /\ (qrow[i] = None \/ qrow[i].status # "quarantined") => Unsettled(i)

\* While the filesystem circuit is open the daemon begins no attempt, prepares
\* no purge and renames nothing, applies that were already waiting included.
CircuitStopsMutations ==
    [][~fsHealthy =>
         /\ \A a \in ActIds : act[a] = None /\ act'[a] # None
                                => act'[a].result \notin {"attempting", "purging"}
         /\ UNCHANGED orig \/ moves' # moves]_vars

(* The promise of ApprovalLedger.  A purged row is only stopped: see
   PurgedMeansUnlinked for what it does not say. *)

LedgerEntry(a) ==
    IF act[a] = None \/ act[a].result = "rejected" THEN None
    ELSE [grant |-> act[a].token,
          state |-> IF act[a].result \in {"attempting", "purging"} THEN "open"
                    ELSE IF act[a].result \in {"quarantined", "restored"} THEN "done" ELSE "stopped"]

Promise == INSTANCE ApprovalLedger WITH
    Grants <- Tokens, Actions <- ActIds, ledger <- [a \in ActIds |-> LedgerEntry(a)],
    effects <- {a \in ActIds : Mutated(a)}

\* A missing entry is no entry.
ASSUME NoEntryAssumption == None \notin Promise!Entry

\* Every step of the cache lane, its executors and its faults is a step of the
\* ledger or none: a token opens one attempt however often and however late it
\* is applied, the row precedes the rename or unlink, nothing is moved after the
\* outcome is recorded, and no outcome is recorded twice.
CacheKeepsPromise == Promise!Spec

(* Claims of the repository that the code does not keep. *)

\* storage.RecordCachePurged "commits permanent quarantine-only deletion
\* evidence": purged means the executor unlinked the file.
PurgedMeansUnlinked ==
    \A a \in ActIds : act[a] # None /\ act[a].result = "purged" => Mutated(a)
=============================================================================
