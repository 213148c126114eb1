---------------------------- MODULE ProcessLane ----------------------------
(***************************************************************************)
(* The process lane of the ghostgc daemon: scan -> classify -> evaluate    *)
(* -> approve -> revalidate -> SIGTERM (internal/daemon/scan.go,           *)
(* activity.go, classification.go, policy.go, approval.go, action.go,      *)
(* action_revalidation.go, automatic.go), over a process table that keeps  *)
(* changing underneath it and a store whose transactions may fail.         *)
(*                                                                         *)
(* One agent, one session, one tick = the shortest interval the cadences   *)
(* tell apart.  Several samples may share a tick, so "strictly later" in   *)
(* the code's nanosecond comparisons reads "later sample" here.            *)
(***************************************************************************)
EXTENDS Integers, Sequences, FiniteSets

CONSTANTS
    Pids,             \* kernel process identifiers, small naturals
    Images,           \* exact images: executable path plus kernel name
    Statuses,         \* process.Status values the run exercises
    Disturbances,     \* which facts about the machine may change in the run
    Qualities,        \* how SampleActivity may turn out in the run
    Tokens,           \* secrets newSecret may return
    ActIds,           \* action identifiers newActionID may return
    Policies,         \* cfg.Policies, as a set of records
    GlobalMode,       \* cfg.GlobalMode
    StrongWindow,     \* classification.StrongConclusionWindow
    ActivityCadence,  \* cfg.Sampling.ActivitySample
    PolicyCadence,    \* cfg.Sampling.PolicyEvaluation
    ApprovalLifetime, \* approvalLifetime
    MaxApprovals,     \* maxApprovals
    MaxTime, MaxGen, MaxWork, MaxResets, MaxMoves,   \* bounds of the model
    None, Lost        \* no value; an approval pruned or lost in a restart

Modes == {"disabled", "audit", "recommend", "enforce"}
States == {"unknown", "active", "waiting", "idle", "suspicious",
           "orphaned", "hung", "crashed"}
PolicyType == [id : STRING, enabled : BOOLEAN, mode : Modes, automatic : BOOLEAN,
               states : SUBSET States, images : SUBSET Images,
               requireDetached : BOOLEAN, requireSessionEnded : BOOLEAN,
               minStable : Nat, cooldown : Nat]

\* Config.validatePolicies, the clauses about one rule's authority.
ValidPolicy(d) ==
    /\ ~(d.enabled /\ d.mode = "disabled")
    /\ d.automatic <=> d.mode = "enforce"
    /\ d.states # {} /\ d.states \subseteq {"orphaned", "hung", "crashed"}
    /\ "orphaned" \in d.states => d.requireDetached /\ d.requireSessionEnded
    /\ d.states \cap {"orphaned", "hung"} # {} => d.minStable >= StrongWindow
    /\ d.cooldown > 0
    /\ d.mode = "enforce" => d.states = {"orphaned"}

ASSUME ConfigAssumption ==
    /\ Pids \subseteq Nat /\ Pids # {} /\ Images # {}
    /\ GlobalMode \in Modes
    /\ Policies \subseteq PolicyType
    /\ \A d \in Policies : ValidPolicy(d)
    /\ \A d, e \in Policies : d.id = e.id => d = e
    /\ \A d, e \in Policies : d.enabled /\ e.enabled /\ d.mode = "enforce"
                                /\ e.mode = "enforce" => d = e
ASSUME BoundsAssumption ==
    /\ {StrongWindow, ActivityCadence, PolicyCadence, ApprovalLifetime,
        MaxApprovals, MaxTime, MaxGen, MaxWork, MaxResets, MaxMoves} \subseteq Nat
    /\ StrongWindow > 0 /\ ActivityCadence > 0
ASSUME StatusAssumption == Statuses \subseteq {"running", "stopped", "zombie"} /\ "running" \in Statuses
ASSUME EnvironmentAssumption ==
    /\ Qualities \subseteq {"full", "partial", "failed"}
    /\ Disturbances \subseteq {"work", "resource", "image", "status", "detach", "protect",
                              "exit", "reuse", "session"}
ASSUME NoneAssumption == /\ {None, Lost} \cap (Tokens \cup ActIds \cup Images) = {}
                         /\ None \notin {"candidate", "cooldown", "refused"}

VARIABLES
    \* the machine
    now,        \* wall clock
    proc,       \* the process table: identity and lifecycle facts per pid
    ctr,        \* what SampleActivity can read: progress counters, live resources
    sesLive,    \* whether the owning agent session is running now
    \* SQLite
    owned,      \* session_processes: keys first seen under an intact parent link
    liveRows,   \* processes rows with exited_at_ns NULL
    sesEnded,   \* sessions.ended_ns is set
    eval,       \* MAX(id) of policy_evaluations
    decisions,  \* policy_decisions of that evaluation
    cool,       \* cooldown_until_ns of the latest candidate, per policy and pid
    act,        \* the actions table
    \* daemon memory
    snapshot,   \* d.snapshot
    baseline,   \* d.activityBaseline
    prev,       \* d.classificationPrevious
    lastActivity, lastPolicy,     \* d.lastActivityAt, d.lastPolicyAt
    approvals,  \* d.approvals
    pending,    \* approvals held by CleanupApply calls that wait for scanMu
    pc,         \* what the holder of scanMu is doing ("idle": not held)
    view,       \* the snapshot the holder took
    job,        \* the authority the holder is acting on
    \* history, read by properties only
    kills,      \* SIGTERMs the kernel delivered
    quietFrom,  \* last tick at which the pid's occupant progressed or began
    resetAt,    \* last failed scan or restart
    resets,     \* how many of those happened
    moves,      \* how many facts about the machine have changed
    truth       \* ground truth at the commit of each attempting row

machine == <<now, proc, ctr, sesLive, moves>>
store   == <<owned, liveRows, sesEnded, eval, decisions, cool>>
memory  == <<snapshot, baseline, prev, lastActivity, lastPolicy>>
lane    == <<pc, view, job>>
history == <<kills, quietFrom, resetAt, resets, truth>>
vars    == <<machine, store, act, memory, approvals, pending, lane, history>>

----------------------------------------------------------------------------
(* Pure decisions. *)

Def(id) == CHOOSE d \in Policies : d.id = id

\* What a process may hold that keeps it from being idle.
Resources == {"socket", "file"}

\* process.DeriveActivity, reduced to what classification reads: whether the
\* evidence is complete, progressed, or holds live resources.  A change of the
\* sockets is progress; a change of the writable files is not.
DeriveActivity(old, new) ==
    IF new = None THEN [complete |-> FALSE, progress |-> FALSE, busy |-> FALSE]
    ELSE LET sameKey == old # None /\ old.gen = new.gen /\ new.at >= old.at
         IN [complete |-> sameKey /\ old.counters /\ new.counters,
             progress |-> /\ sameKey
                         /\ \/ new.work > old.work
                            \/ ("socket" \in new.held) # ("socket" \in old.held),
             busy     |-> new.held # {}]

\* classification.basis of complete evidence
Basis(delta) == IF delta.progress THEN "active" ELSE IF delta.busy THEN "waiting" ELSE "idle"

\* Faulty variant: the window ignores what the evidence was.
SameWindowAnyBasis(p, gen, status, det, ended, at, delta) ==
    /\ p # None /\ p.gen = gen
    /\ p.det = det /\ p.ended = ended /\ p.status = status
    /\ at >= p.at /\ at - p.at <= 2 * ActivityCadence

\* classification.sameWindow: the conclusion window survives only unbroken,
\* unchanged evidence about the same process.
SameWindow(p, gen, status, det, ended, at, delta) ==
    /\ p # None /\ p.gen = gen
    /\ p.basis # "unknown" /\ p.basis = Basis(delta)
    /\ p.det = det /\ p.ended = ended /\ p.status = status
    /\ at >= p.at /\ at - p.at <= 2 * ActivityCadence

\* classification.Classify
Classify(p, gen, status, det, ended, at, delta) ==
    LET since  == IF SameWindow(p, gen, status, det, ended, at, delta)
                  THEN p.since ELSE at
        basis  == Basis(delta)
        strong == at - since >= StrongWindow
        state  == IF ended /\ det /\ basis # "idle" THEN "suspicious"
                  ELSE IF ended /\ det /\ strong THEN "orphaned"
                  ELSE IF status = "stopped" /\ basis # "active" /\ strong THEN "hung"
                  ELSE basis
    IN IF status = "zombie" THEN [state |-> "crashed", basis |-> "crashed", since |-> at]
       ELSE IF ~delta.complete THEN [state |-> "unknown", basis |-> "unknown", since |-> at]
       ELSE [state |-> state, basis |-> basis, since |-> since]

\* policy.Evaluate: None, or the decision's result.
Evaluate(d, image, det, ended, prot, c, at, until) ==
    IF \/ ~d.enabled \/ d.mode = "disabled"
       \/ c.state \notin d.states \/ image \notin d.images
       \/ (d.requireDetached /\ ~det) \/ (d.requireSessionEnded /\ ~ended)
       \/ at - c.since < d.minStable
    THEN None
    ELSE IF prot THEN "refused" ELSE IF until > at THEN "cooldown" ELSE "candidate"

\* d.manualCleanupEnabled and d.automaticCleanupEnabled
ManualEnabled == /\ GlobalMode \in {"recommend", "enforce"}
                 /\ \E d \in Policies : d.enabled /\ d.mode = "recommend"
AutomaticEnabled == /\ GlobalMode = "enforce"
                    /\ \E d \in Policies : d.enabled /\ d.mode = "enforce" /\ d.automatic

\* d.isRecommendation and d.isEnforceable
IsRecommendation(r) == /\ r.result \in {"candidate", "cooldown"}
                       /\ GlobalMode \in {"recommend", "enforce"}
                       /\ Def(r.policy).enabled /\ Def(r.policy).mode = "recommend"
IsEnforceable(r) == /\ r.result = "candidate" /\ GlobalMode = "enforce"
                    /\ Def(r.policy).enabled /\ Def(r.policy).mode = "enforce"
                    /\ Def(r.policy).automatic

\* Store.CurrentPolicyDecisions
CurrentDecisions == {r \in decisions : <<r.pid, r.gen>> \in liveRows}

----------------------------------------------------------------------------
(* Reconciliation: what a snapshot v says of pid p. *)

KeyIn(v, p) == <<p, v.proc[p].gen>>

\* Reconciler.attribute/enrich: live ancestry, or the ownership recorded when
\* this exact key was first seen under its parent.
Attributed(v, p) == /\ v.proc[p].alive /\ v.proc[p].member
                    /\ ~v.proc[p].det \/ KeyIn(v, p) \in owned
Detached(v, p) == v.proc[p].det /\ KeyIn(v, p) \in owned
AttributedPids(v) == {p \in Pids : Attributed(v, p)}

\* Platform.SampleActivity for the exact key the snapshot selected; None when
\* the collector fails or the pid changed hands since the snapshot.
Sample(p, gen, quality) ==
    IF quality = "failed" \/ ~proc[p].alive \/ proc[p].gen # gen THEN None
    ELSE [gen |-> gen, at |-> now, work |-> ctr[p].work, held |-> ctr[p].held,
          counters |-> quality = "full"]

\* Classification and protection of p from view v and sample s; ended is the
\* session lifecycle the caller concluded.
Conclusion(v, p, s, ended) ==
    Classify(prev[p], v.proc[p].gen, v.proc[p].status, Detached(v, p), ended,
             IF s = None THEN v.at ELSE s.at, DeriveActivity(baseline[p], s))
Protected(v, p, ended) == v.proc[p].prot \/ ~ended

----------------------------------------------------------------------------
(* The scan: runScan, holding scanMu. *)

TakeView == view' = [proc |-> proc, live |-> sesLive, at |-> now]

ScanStart ==
    /\ pc = "idle"
    /\ pc' = "scan" /\ TakeView
    /\ UNCHANGED <<machine, store, act, memory, approvals, pending, job, history>>

ActivityDue == lastActivity = None \/ view.at - lastActivity >= ActivityCadence
PolicyDue == ActivityDue /\ (lastPolicy = None \/ view.at - lastPolicy >= PolicyCadence)

\* Faulty variant: the durable cooldown is not consulted.
CooldownForgotten(d, p, gen) == 0

\* Store.LastCandidateCooldown for the exact policy and process
CooldownOf(d, p, gen) == IF cool[d.id][p].gen = gen THEN cool[d.id][p].until ELSE 0

\* evaluatePolicies: the decisions of one evaluation over samples s.
PolicyBatch(s) ==
    LET At(p)     == IF s[p] = None THEN view.at ELSE s[p].at
        Class(p)  == Conclusion(view, p, s[p], ~view.live)
        Result(d, p) == Evaluate(d, view.proc[p].image, Detached(view, p), ~view.live,
                                 Protected(view, p, ~view.live), Class(p), At(p),
                                 CooldownOf(d, p, view.proc[p].gen))
    IN IF GlobalMode = "disabled" THEN {}
       ELSE {[policy |-> x[1].id, pid |-> x[2], gen |-> view.proc[x[2]].gen,
              state |-> Class(x[2]).state, result |-> Result(x[1], x[2]),
              until |-> IF Result(x[1], x[2]) = "candidate" THEN At(x[2]) + x[1].cooldown
                        ELSE IF Result(x[1], x[2]) = "cooldown"
                        THEN CooldownOf(x[1], x[2], view.proc[x[2]].gen) ELSE 0] :
             x \in {y \in Policies \X AttributedPids(view) : Result(y[1], y[2]) # None}}

\* classifyActivity's next d.classificationPrevious
Previous(s) ==
    [p \in Pids |->
        IF ~Attributed(view, p) THEN None
        ELSE LET c == Conclusion(view, p, s[p], ~view.live)
             IN [gen |-> view.proc[p].gen, basis |-> c.basis, det |-> Detached(view, p),
                 ended |-> ~view.live, status |-> view.proc[p].status, since |-> c.since,
                 at |-> IF s[p] = None THEN view.at ELSE s[p].at]]

\* runAutomaticCleanupLocked: at most one enforceable decision of the
\* evaluation just committed; which one is the process table's order.
AutomaticStart(batch, due) ==
    LET eligible == {r \in batch : IsEnforceable(r)}
    IN IF due /\ AutomaticEnabled /\ eligible # {}
       THEN /\ pc' = "auto"
            /\ \E r \in eligible :
                 job' = [authority |-> "automatic", token |-> None, decision |-> r,
                         eval |-> eval', image |-> view.proc[r.pid].image,
                         expires |-> None, action |-> None, outcome |-> None]
       ELSE pc' = "idle" /\ job' = None

ScanCommit(quality) ==
    LET s == [p \in Pids |-> IF Attributed(view, p)
                             THEN Sample(p, view.proc[p].gen, quality[p]) ELSE None]
        batch == PolicyBatch(s)
        keys  == {KeyIn(view, p) : p \in AttributedPids(view)}
    IN /\ pc = "scan"
       /\ owned' = owned \cup keys
       /\ liveRows' = keys
       /\ sesEnded' = ~view.live
       /\ IF PolicyDue
          THEN /\ eval' = eval + 1 /\ decisions' = batch /\ lastPolicy' = view.at
               /\ cool' = [i \in DOMAIN cool |-> [p \in Pids |->
                     IF \E r \in batch : r.policy = i /\ r.pid = p /\ r.result = "candidate"
                     THEN LET r == CHOOSE r \in batch : r.policy = i /\ r.pid = p
                          IN [gen |-> r.gen, until |-> r.until]
                     ELSE cool[i][p]]]
          ELSE UNCHANGED <<eval, decisions, cool, lastPolicy>>
       /\ IF ActivityDue
          THEN baseline' = s /\ prev' = Previous(s) /\ lastActivity' = view.at
          ELSE UNCHANGED <<baseline, prev, lastActivity>>
       /\ snapshot' = view.proc
       /\ AutomaticStart(IF PolicyDue THEN batch ELSE {}, PolicyDue)
       /\ view' = None
       /\ UNCHANGED <<machine, act, approvals, pending, history>>

\* Faulty variant: a failed scan leaves the classification window standing.
ScanFailKeepsEvidence(recorded) ==
    /\ pc = "scan" /\ resets < MaxResets
    /\ lastPolicy' = None
    /\ IF recorded THEN eval' = eval + 1 /\ decisions' = {}
                   ELSE UNCHANGED <<eval, decisions>>
    /\ pc' = "idle" /\ view' = None
    /\ resetAt' = now /\ resets' = resets + 1
    /\ UNCHANGED <<machine, owned, liveRows, sesEnded, cool, act, snapshot, baseline, prev,
                   lastActivity, approvals, pending, job, kills, quietFrom, truth>>

\* recordScanFailure: any stage of runScan failed.  recorded says whether the
\* transaction that supersedes the current decisions committed.
ScanFail(recorded) ==
    /\ pc = "scan" /\ resets < MaxResets
    /\ prev' = [p \in Pids |-> None]
    /\ lastPolicy' = None
    /\ IF recorded THEN eval' = eval + 1 /\ decisions' = {}
                   ELSE UNCHANGED <<eval, decisions>>
    /\ pc' = "idle" /\ view' = None
    /\ resetAt' = now /\ resets' = resets + 1
    /\ UNCHANGED <<machine, owned, liveRows, sesEnded, cool, act, snapshot, baseline,
                   lastActivity, approvals, pending, job, kills, quietFrom, truth>>

----------------------------------------------------------------------------
(* Manual authority: CleanupPreview and CleanupApply. *)

\* pruneApprovals
Kept == [t \in Tokens |->
           IF approvals[t] \notin {None, Lost} /\ approvals[t].expires + ApprovalLifetime < now
           THEN Lost ELSE approvals[t]]
Outstanding(a) == {t \in Tokens : a[t] \notin {None, Lost}}

\* CleanupPreview, serialised by scanMu.  Its audit row may fail to append, in
\* which case the approval is withdrawn before the token is returned.
CleanupPreview(t, r, audited) ==
    /\ pc = "idle" /\ approvals[t] = None
    /\ ManualEnabled
    /\ r \in CurrentDecisions /\ snapshot # None
    /\ snapshot[r.pid].alive /\ snapshot[r.pid].gen = r.gen
    /\ IsRecommendation(r)
    /\ approvals' = IF audited /\ Cardinality(Outstanding(Kept)) < MaxApprovals
                    THEN [Kept EXCEPT ![t] =
                            [decision |-> r, eval |-> eval, image |-> snapshot[r.pid].image,
                             expires |-> now + ApprovalLifetime, used |-> FALSE]]
                    ELSE Kept
    /\ UNCHANGED <<machine, store, act, memory, pending, lane, history>>

\* rejectAction: one rejected row, unless its transaction fails.
Row(r, image, authority, token, result) ==
    [pid |-> r.pid, gen |-> r.gen, image |-> image, policy |-> r.policy, state |-> r.state,
     authority |-> authority, token |-> token, result |-> result, at |-> now]
InsertRow(row, committed) ==
    IF committed THEN \E i \in ActIds : act[i] = None /\ act' = [act EXCEPT ![i] = row]
                 ELSE UNCHANGED act

\* Faulty variant: a consumed approval is not marked used.
CleanupApplyReusable(t, committed) ==
    LET a == approvals[t]
    IN /\ a \notin {None, Lost} /\ now < a.expires
       /\ pending' = [pending EXCEPT ![t] = a]
       /\ UNCHANGED <<machine, store, act, memory, approvals, lane, history>>

\* consumeApproval's refusals: replayed or expired
Refused(a) == a.used \/ now >= a.expires

\* CleanupApply up to scanMu: consumeApproval marks the approval used before it
\* looks at the expiry, and both happen before the lock is awaited.
CleanupApply(t, committed) ==
    LET a == approvals[t]
    IN /\ a \notin {None, Lost}
       /\ approvals' = [approvals EXCEPT ![t].used = TRUE]
       /\ IF Refused(a)
          THEN /\ InsertRow(Row(a.decision, a.image, "manual", t, "rejected"), committed)
               /\ UNCHANGED pending
          ELSE pending' = [pending EXCEPT ![t] = a] /\ UNCHANGED act
       /\ UNCHANGED <<machine, store, memory, lane, history>>

\* The lock is granted: executeCleanupLocked begins with a fresh snapshot.
ManualStart(t) ==
    LET a == pending[t]
    IN /\ pc = "idle" /\ a # None
       /\ pending' = [pending EXCEPT ![t] = None]
       /\ job' = [authority |-> "manual", token |-> t, decision |-> a.decision,
                  eval |-> a.eval, image |-> a.image, expires |-> a.expires,
                  action |-> None, outcome |-> None]
       /\ pc' = "reval" /\ TakeView
       /\ UNCHANGED <<machine, store, act, memory, approvals, history>>

AutoRevalidate ==
    /\ pc = "auto"
    /\ pc' = "reval" /\ TakeView
    /\ UNCHANGED <<machine, store, act, memory, approvals, pending, job, history>>

----------------------------------------------------------------------------
(* The action: executeCleanupLocked after its snapshot. *)

\* d.sessionEnded reads the stored row first and only then the sessions that the
\* fresh result ended.  Every session seen not to be live counts as ended here:
\* the code knows fewer after a restart, and refuses more.
SessionEnded(v) == sesEnded \/ ~v.live

\* revalidateCleanup for the job, over the fresh view and sample s.
Authorized(r) == IF job.authority = "automatic" THEN AutomaticEnabled /\ IsEnforceable(r)
                                                ELSE ManualEnabled /\ IsRecommendation(r)
Revalidated(s) ==
    LET r == job.decision
        p == r.pid
        ended == SessionEnded(view)
        c == Conclusion(view, p, s, ended)
    IN /\ eval = job.eval /\ r \in CurrentDecisions /\ Authorized(r)
       /\ view.proc[p].alive /\ view.proc[p].gen = r.gen
       /\ view.proc[p].image = job.image
       /\ Attributed(view, p)
       /\ s # None
       /\ c.state = r.state
       /\ ~Protected(view, p, ended)
       /\ Evaluate(Def(r.policy), view.proc[p].image, Detached(view, p), ended, FALSE,
                   c, s.at, 0) = "candidate"

Revalidate(quality, committed) ==
    LET r == job.decision
        s == Sample(r.pid, r.gen, quality)
    IN /\ pc = "reval"
       /\ view' = None
       /\ IF ~Revalidated(s)
          THEN /\ InsertRow(Row(r, job.image, job.authority, job.token, "rejected"), committed)
               /\ pc' = "idle" /\ job' = None
               /\ UNCHANGED truth
          ELSE IF ~committed
          THEN pc' = "idle" /\ job' = None /\ UNCHANGED <<act, truth>>
          ELSE \E i \in ActIds :
                 /\ act[i] = None
                 /\ act' = [act EXCEPT ![i] =
                              Row(r, job.image, job.authority, job.token, "attempting")]
                 /\ truth' = [truth EXCEPT ![i] =
                              [quiet |-> now - quietFrom[r.pid], sinceReset |-> now - resetAt,
                               sessionLive |-> view.live, prot |-> view.proc[r.pid].prot,
                               expires |-> job.expires, eval |-> eval,
                               until |-> r.until]]
                 /\ job' = [job EXCEPT !.action = i] /\ pc' = "gate"
       /\ UNCHANGED <<machine, store, memory, approvals, pending, kills, quietFrom, resetAt, resets>>

\* Faulty variant: a refused gate is not turned into a result.
SignalGateSilent(inspected) ==
    LET r == job.decision
        same == inspected /\ proc[r.pid].alive /\ proc[r.pid].gen = r.gen
                          /\ proc[r.pid].image = job.image
    IN /\ pc = "gate"
       /\ pc' = IF same THEN "kill" ELSE "finish"
       /\ UNCHANGED <<machine, store, act, memory, approvals, pending, job, view, history>>

\* SignalProcess, first half: inspect the pid and compare key and image.
SignalGate(inspected) ==
    LET r == job.decision
        same == inspected /\ proc[r.pid].alive /\ proc[r.pid].gen = r.gen
                          /\ proc[r.pid].image = job.image
    IN /\ pc = "gate"
       /\ IF same THEN pc' = "kill" /\ UNCHANGED job
                  ELSE pc' = "finish" /\ job' = [job EXCEPT !.outcome = "failed"]
       /\ UNCHANGED <<machine, store, act, memory, approvals, pending, view, history>>

\* SignalProcess, second half: kill(pid, SIGTERM) reaches whoever holds the pid.
SignalKill(permitted) ==
    LET p == job.decision.pid
        sent == permitted /\ proc[p].alive
    IN /\ pc = "kill" /\ pc' = "finish"
       /\ job' = [job EXCEPT !.outcome = IF sent THEN "signalled" ELSE "failed"]
       /\ kills' = IF sent THEN Append(kills, [action |-> job.action, pid |-> p]) ELSE kills
       /\ UNCHANGED <<machine, store, act, memory, approvals, pending, view,
                      quietFrom, resetAt, resets, truth>>

\* Faulty variants: success is assumed; the scan lane is not released.
ActionFinishOptimistic(committed) ==
    /\ pc = "finish" /\ pc' = "idle" /\ job' = None
    /\ act' = IF committed THEN [act EXCEPT ![job.action].result = "signalled"] ELSE act
    /\ UNCHANGED <<machine, store, memory, approvals, pending, view, history>>
ActionFinishHeldLock(committed) ==
    /\ pc = "finish"
    /\ act' = IF committed THEN [act EXCEPT ![job.action].result = job.outcome] ELSE act
    /\ UNCHANGED <<machine, store, memory, approvals, pending, lane, history>>

\* UpdateAction; when its transaction fails the row stays attempting.
ActionFinish(committed) ==
    /\ pc = "finish" /\ pc' = "idle" /\ job' = None
    /\ act' = IF committed THEN [act EXCEPT ![job.action].result = job.outcome] ELSE act
    /\ UNCHANGED <<machine, store, memory, approvals, pending, view, history>>

----------------------------------------------------------------------------
(* Restart, and the machine outside the daemon. *)

\* A crash or stop at any point, then New and seed: memory is empty, SQLite stays.
Restart ==
    /\ resets < MaxResets
    /\ snapshot' = None /\ baseline' = [p \in Pids |-> None]
    /\ prev' = [p \in Pids |-> None] /\ lastActivity' = None /\ lastPolicy' = None
    /\ approvals' = [t \in Tokens |-> IF approvals[t] = None THEN None ELSE Lost]
    /\ pending' = [t \in Tokens |-> None] /\ pc' = "idle" /\ view' = None /\ job' = None
    /\ resetAt' = now /\ resets' = resets + 1
    /\ UNCHANGED <<machine, store, act, kills, quietFrom, truth>>

OutsideDaemon == UNCHANGED <<store, act, memory, approvals, pending, lane, kills,
                             resetAt, resets, truth>>
Move == moves < MaxMoves /\ moves' = moves + 1 /\ UNCHANGED now /\ OutsideDaemon

Tick == now < MaxTime /\ now' = now + 1
        /\ UNCHANGED <<proc, ctr, sesLive, quietFrom, moves>> /\ OutsideDaemon

\* The occupant of p makes progress (CPU, disk).
Work(p) == /\ "work" \in Disturbances /\ proc[p].alive /\ ctr[p].work < MaxWork
           /\ ctr' = [ctr EXCEPT ![p].work = @ + 1]
           /\ quietFrom' = [quietFrom EXCEPT ![p] = now]
           /\ UNCHANGED <<proc, sesLive>> /\ Move

\* It opens or closes a socket or a writable repository file.
HoldResource(p) == /\ "resource" \in Disturbances /\ proc[p].alive
                   /\ \E h \in SUBSET Resources : ctr' = [ctr EXCEPT ![p].held = h]
                   /\ UNCHANGED <<proc, sesLive, quietFrom>> /\ Move

\* One lifecycle fact changes: execve, a stop or continue, loss of the parent,
\* a terminal or child gained or lost, an exit.
Change(p) == /\ proc[p].alive
             /\ \/ "image" \in Disturbances /\ \E x \in Images : proc' = [proc EXCEPT ![p].image = x]
                \/ "status" \in Disturbances /\ \E x \in Statuses : proc' = [proc EXCEPT ![p].status = x]
                \/ "detach" \in Disturbances /\ proc' = [proc EXCEPT ![p].det = TRUE]
                \/ "protect" \in Disturbances /\ proc' = [proc EXCEPT ![p].prot = ~@]
                \/ "exit" \in Disturbances /\ proc' = [proc EXCEPT ![p].alive = FALSE]
             /\ UNCHANGED <<ctr, sesLive, quietFrom>> /\ Move

\* The kernel hands the pid to a new process, of this session or of nobody.
Reuse(p) == /\ "reuse" \in Disturbances /\ ~proc[p].alive /\ proc[p].gen < MaxGen
            /\ \E m \in BOOLEAN :
                 proc' = [proc EXCEPT ![p] =
                            [alive |-> TRUE, gen |-> @.gen + 1, image |-> @.image,
                             status |-> "running", det |-> FALSE, prot |-> FALSE, member |-> m]]
            /\ ctr' = [ctr EXCEPT ![p] = [work |-> 0, held |-> {}]]
            /\ quietFrom' = [quietFrom EXCEPT ![p] = now]
            /\ UNCHANGED sesLive /\ Move

\* The agent session ends (task_complete, root exit) or resumes (task_started).
SessionFlip == /\ "session" \in Disturbances /\ sesLive' = ~sesLive
               /\ UNCHANGED <<proc, ctr, quietFrom>> /\ Move

----------------------------------------------------------------------------
Init ==
    /\ now = 0 /\ sesLive = TRUE
    /\ \E x \in Images :
         proc = [p \in Pids |-> [alive |-> TRUE, gen |-> 1, image |-> x, status |-> "running",
                                 det |-> FALSE, prot |-> FALSE, member |-> TRUE]]
    /\ ctr = [p \in Pids |-> [work |-> 0, held |-> {}]]
    /\ owned = {} /\ liveRows = {} /\ sesEnded = FALSE /\ eval = 0 /\ decisions = {}
    /\ cool = [i \in {d.id : d \in Policies} |-> [p \in Pids |-> [gen |-> 0, until |-> 0]]]
    /\ act = [i \in ActIds |-> None]
    /\ snapshot = None /\ baseline = [p \in Pids |-> None] /\ prev = [p \in Pids |-> None]
    /\ lastActivity = None /\ lastPolicy = None
    /\ approvals = [t \in Tokens |-> None] /\ pending = [t \in Tokens |-> None]
    /\ pc = "idle" /\ view = None /\ job = None
    /\ kills = <<>> /\ quietFrom = [p \in Pids |-> 0] /\ resetAt = 0 /\ resets = 0 /\ moves = 0
    /\ truth = [i \in ActIds |-> None]

Daemon ==
    \/ ScanStart
    \/ \E q \in [Pids -> Qualities] : ScanCommit(q)
    \/ \E b \in BOOLEAN : ScanFail(b) \/ ActionFinish(b) \/ SignalGate(b) \/ SignalKill(b)
    \/ \E t \in Tokens, b \in BOOLEAN : CleanupApply(t, b)
    \/ \E t \in Tokens, b \in BOOLEAN : \E r \in decisions : CleanupPreview(t, r, b)
    \/ \E t \in Tokens : ManualStart(t)
    \/ AutoRevalidate
    \/ \E q \in Qualities, b \in BOOLEAN : Revalidate(q, b)
    \/ Restart

Machine == Tick \/ SessionFlip \/ \E p \in Pids : Work(p) \/ HoldResource(p) \/ Change(p) \/ Reuse(p)

Next == Daemon \/ Machine
Spec == Init /\ [][Next]_vars

\* The holder of scanMu finishes what it started, and the mutex's starvation
\* mode hands the lock to every waiter in the end.
LaneStep == \/ \E q \in [Pids -> Qualities] : ScanCommit(q)
            \/ \E b \in BOOLEAN : ScanFail(b) \/ ActionFinish(b) \/ SignalGate(b) \/ SignalKill(b)
            \/ AutoRevalidate
            \/ \E q \in Qualities, b \in BOOLEAN : Revalidate(q, b)
FairSpec == Spec /\ WF_vars(LaneStep) /\ \A t \in Tokens : SF_vars(ManualStart(t))

----------------------------------------------------------------------------
(* Types. *)

OrNone(S) == S \cup {None}
ProcType == [alive : BOOLEAN, gen : Nat, image : Images, status : Statuses,
             det : BOOLEAN, prot : BOOLEAN, member : BOOLEAN]
DecisionType == [policy : {d.id : d \in Policies}, pid : Pids, gen : Nat, state : States,
                 result : {"candidate", "cooldown", "refused"}, until : Nat]
SampleType == [gen : Nat, at : Nat, work : Nat, held : SUBSET Resources, counters : BOOLEAN]
PrevType == [gen : Nat, basis : States, det : BOOLEAN, ended : BOOLEAN, status : Statuses,
             since : Nat, at : Nat]
ApprovalType == [decision : DecisionType, eval : Nat, image : Images, expires : Nat,
                 used : BOOLEAN]
JobType == [authority : {"manual", "automatic"}, token : OrNone(Tokens),
            decision : DecisionType, eval : Nat, image : Images, expires : OrNone(Nat),
            action : OrNone(ActIds), outcome : OrNone({"signalled", "failed"})]
Results == {"attempting", "rejected", "signalled", "failed"}
RowType == [pid : Pids, gen : Nat, image : Images, policy : {d.id : d \in Policies},
            state : States, authority : {"manual", "automatic"}, token : OrNone(Tokens),
            result : Results, at : Nat]
KillType == [action : ActIds, pid : Pids]
ViewType == [proc : [Pids -> ProcType], live : BOOLEAN, at : Nat]
TruthType == [quiet : Int, sinceReset : Int, sessionLive : BOOLEAN, prot : BOOLEAN,
              expires : OrNone(Nat), eval : Nat, until : Nat]
PCs == {"idle", "scan", "auto", "reval", "gate", "kill", "finish"}

ASSUME NoRowAssumption == None \notin RowType /\ None \notin ApprovalType /\ None # Lost

\* Type invariant of the process lane.
TypeOK ==
    /\ now \in Nat /\ sesLive \in BOOLEAN /\ moves \in Nat
    /\ proc \in [Pids -> ProcType]
    /\ ctr \in [Pids -> [work : Nat, held : SUBSET Resources]]
    /\ owned \subseteq Pids \X Nat /\ liveRows \subseteq Pids \X Nat /\ sesEnded \in BOOLEAN
    /\ eval \in Nat /\ decisions \subseteq DecisionType
    /\ cool \in [{d.id : d \in Policies} -> [Pids -> [gen : Nat, until : Nat]]]
    /\ act \in [ActIds -> OrNone(RowType)]
    /\ snapshot \in OrNone([Pids -> ProcType])
    /\ baseline \in [Pids -> OrNone(SampleType)] /\ prev \in [Pids -> OrNone(PrevType)]
    /\ lastActivity \in OrNone(Nat) /\ lastPolicy \in OrNone(Nat)
    /\ approvals \in [Tokens -> ApprovalType \cup {None, Lost}]
    /\ pending \in [Tokens -> OrNone(ApprovalType)]
    /\ pc \in PCs /\ job \in OrNone(JobType)
    /\ view \in OrNone(ViewType)
    /\ truth \in [ActIds -> OrNone(TruthType)]
    /\ kills \in Seq(KillType)
    /\ quietFrom \in [Pids -> Nat] /\ resetAt \in Nat /\ resets \in Nat

\* What each stage of the lane has in hand; with TypeOK, inductive.
LaneOK ==
    /\ pc \in {"scan", "reval"} => view \in ViewType
    /\ pc \in {"auto", "reval", "gate", "kill", "finish"} => job \in JobType
    /\ pc \in {"gate", "kill", "finish"} => job.action \in ActIds /\ act[job.action] \in RowType
    /\ pc = "finish" => job.outcome \in {"signalled", "failed"}

----------------------------------------------------------------------------
(* Safety. *)

Attempts == {i \in ActIds : act[i] # None /\ act[i].result # "rejected"}
Windowed(i) == act[i].state \in {"orphaned", "hung"}

\* Write-ahead ledger (executeCleanupLocked): every delivered SIGTERM has a row
\* of its own that was durable first and never says rejected or failed; a row
\* says signalled only if its signal was delivered.  Crashes and failed
\* transactions between the row, the kill and the completion included.
SignalLedger ==
    /\ \A k \in 1..Len(kills) :
         /\ act[kills[k].action] # None
         /\ act[kills[k].action].result \in {"attempting", "signalled"}
         /\ act[kills[k].action].pid = kills[k].pid
    /\ \A j, k \in 1..Len(kills) : kills[j].action = kills[k].action => j = k
    /\ \A i \in ActIds : act[i] # None /\ act[i].result = "signalled"
                           => \E k \in 1..Len(kills) : kills[k].action = i

\* Why the ledger holds (inductive with TypeOK and LaneOK): the row the lane
\* works on is still attempting, and until the kill nothing was sent for it.
Sent(i) == \E k \in 1..Len(kills) : kills[k].action = i
LedgerInv ==
    /\ SignalLedger
    /\ pc \in {"gate", "kill", "finish"} => /\ act[job.action].result = "attempting"
                                            /\ act[job.action].pid = job.decision.pid
    /\ pc \in {"gate", "kill"} => ~Sent(job.action)
    /\ pc = "finish" => (job.outcome = "signalled" <=> Sent(job.action))

\* A process concluded orphaned or hung made no CPU or disk progress for the
\* whole of the policy's minStable before its attempt was committed, whatever
\* samples failed, processes were replaced or scans were missed on the way.
QuietBeforeSignal ==
    \A i \in Attempts : Windowed(i) => truth[i].quiet >= Def(act[i].policy).minStable

\* "Failure never becomes action": a failed scan or a restart voids the
\* evidence, also when recording the failure failed and the old decisions are
\* still the current ones.
FailureNeverBecomesAction ==
    \A i \in Attempts : Windowed(i) => truth[i].sinceReset >= Def(act[i].policy).minStable

\* One approval authorises at most one attempt (consumeApproval), over
\* concurrent and repeated applies.
SingleUse ==
    \A i, j \in Attempts : act[i].token = act[j].token /\ act[i].token # None => i = j

\* Why it holds: an approval is consumed before it waits, waits before it is
\* worked on, and is worked on before its attempt is written, each at most once.
Consumed(t) == approvals[t] # None /\ (approvals[t] = Lost \/ approvals[t].used)
InHand(t) == pc = "reval" /\ job.token = t
SingleUseInv ==
    /\ SingleUse
    /\ \A i \in Attempts, t \in Tokens :
         act[i].token = t => Consumed(t) /\ pending[t] = None /\ ~InHand(t)
    /\ \A t \in Tokens : pending[t] # None => Consumed(t) /\ ~InHand(t)
    /\ \A t \in Tokens : InHand(t) => Consumed(t)
    /\ pc = "auto" => job.token = None

\* After an automatic attempt the same policy does not attempt the same exact
\* process again before the cooldown its candidate row granted, also across
\* failures, restarts and attempts whose outcome was never recorded.
AutomaticCooldown ==
    \A i, j \in Attempts :
        /\ act[i].authority = "automatic" /\ act[j].authority = "automatic"
        /\ act[i].pid = act[j].pid /\ act[i].gen = act[j].gen /\ i # j
        => \/ act[j].at >= truth[i].until
           \/ act[i].at >= truth[j].until

(* The promise of ApprovalLedger.  An automatic attempt spends no approval: its
   grant is None, the standing authority of the policy. *)

LedgerEntry(a) ==
    IF act[a] = None \/ act[a].result = "rejected" THEN None
    ELSE [grant |-> act[a].token,
          state |-> IF act[a].result \in {"attempting"} THEN "open"
                    ELSE IF act[a].result \in {"signalled"} THEN "done" ELSE "stopped"]

Promise == INSTANCE ApprovalLedger WITH
    Grants <- Tokens, Actions <- ActIds, ledger <- [a \in ActIds |-> LedgerEntry(a)],
    effects <- {a \in ActIds : Sent(a)}

ASSUME NoEntryAssumption == None \notin Promise!Entry

\* Every step of the process lane is a step of the ledger or none: one token,
\* one attempt; the row is durable before the SIGTERM; no signal after the
\* outcome is recorded; signalled is recorded only of a signal that was sent.
ProcessKeepsPromise == Promise!Spec

(* Claims of the documentation that the code does not keep. *)

\* docs/references/manual-cleanup.md: apply "freshly verifies ... session
\* lifecycle" and a changed fact sends no signal.
LiveSessionNeverSignalled == \A i \in Attempts : ~truth[i].sessionLive

(* Liveness. *)

\* A CleanupApply that consumed its approval is decided: it does not wait for
\* the scan lane for ever, however scans and other applies compete for it.
ApplyDecided == \A t \in Tokens : pending[t] # None ~> pending[t] = None
=============================================================================
