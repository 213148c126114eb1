------------------------------ MODULE Sessions ------------------------------
(***************************************************************************)
(* Session reconciliation and durable ownership (internal/sessions, the    *)
(* Codex adapter, and the session tables of internal/storage).             *)
(*                                                                         *)
(* Every scan takes a snapshot of the machine, detects the Codex roots in  *)
(* it, turns them and the provider's task records into sessions, assigns   *)
(* every inspected process to a session and ends the sessions whose root   *)
(* is gone.  The result reaches the reconciler's memory only after the     *)
(* transaction that stores it has committed; a restart reads the memory    *)
(* back from the store.  Processes are born, exec, exit and are reparented *)
(* between scans, pids are recycled, single processes escape inspection,   *)
(* transactions fail, and retention deletes what has ended long ago.       *)
(***************************************************************************)
EXTENDS ProcessTree, FiniteSetsExt

CONSTANTS Pids,        \* pids other than init's, as numbers
          Natives,     \* the agent's own task identifiers (thread ids)
          NoNative,    \* an environment without one
          None,        \* no row, no state, NULL
          MaxTime,     \* bound on the clock
          MaxSpawns,   \* bound on process creations
          MaxMoves,    \* bound on exits, execs, task changes and faults
          Faults,      \* the disturbances a run allows
          RetainProcesses, RetainSessions,   \* retention windows, in ticks
          Grace        \* StartingGrace, in ticks

ASSUME SessionsAssumption ==
    /\ Pids \subseteq Nat /\ InitPid \notin Pids /\ NoPid \notin Pids
    /\ MaxTime \in Nat /\ MaxSpawns \in Nat /\ MaxMoves \in Nat
    /\ RetainProcesses \in Nat /\ RetainSessions \in Nat /\ Grace \in Nat
    /\ None \notin Nat \cup {"starting", "active", "completed"}

VARIABLES os,       \* the machine: the living processes by pid
          rollout,  \* the task record the agent keeps per thread id
          mem,      \* the Reconciler: ownership, state, root, native
          db,       \* the session tables
          last,     \* the newest committed snapshot and what it attributed, or None
          truth,    \* history: the root and the structural lineage scans have seen
          told,     \* history: the state the last audit entry written for a session names
          now, spawns, moves

vars == <<os, rollout, mem, db, last, truth, told, now, spawns, moves>>

\* CombineWeights over the signals this model tells apart: an executable
\* named codex alone, the same with a thread id, a thread id alone.
ConfIdentity == 55
ConfNamed    == 95
ConfidenceEnvironmentMembership == 90
ConfidencePolicyEligible == 95

Empty == [x \in {} |-> None]
Over(f, g) == [x \in DOMAIN f \cup DOMAIN g |-> IF x \in DOMAIN f THEN f[x] ELSE g[x]]
Live(state) == state \in {"starting", "active"}

Alive(k) == k[1] \in DOMAIN os /\ os[k[1]].start = k[2]
AliveKeys == {KeyOf(os, p) : p \in DOMAIN os}

(***************************************************************************)
(* Detection.  seen is the set of pids whose detail pass succeeded; only   *)
(* they are judged.                                                        *)
(***************************************************************************)

\* The launcher and the binary it starts are both Codex: the topmost one is
\* the root, unless the lower one names a session of its own.
DetectRootProcesses(seen) ==
    LET candidates == {p \in seen : os[p].codex} IN
    {c \in candidates : \A a \in Range(Ancestors(os, c)) \cap candidates :
                            os[c].native \notin {NoNative, os[a].native}}

RootConfidence(r) == IF os[r].native = NoNative THEN ConfIdentity ELSE ConfNamed

\* The agent's own identifier when there is one, else the root's exact key.
DeriveSessionID(r) == IF os[r].native = NoNative THEN KeyOf(os, r) ELSE os[r].native

\* The nearest root above p, or None.
HostRoot(roots, p) ==
    LET above == Ancestors(os, p)
        at == {i \in 1..Len(above) : above[i] \in roots}
    IN  IF at = {} THEN None ELSE above[Min(at)]

\* What adapters.Graph hands to the later steps: the inspected pids, the
\* roots among them and the nearest root above each.
Graph(seen) ==
    LET roots == DetectRootProcesses(seen)
    IN  [seen |-> seen, roots |-> roots,
         host |-> [p \in seen |-> HostRoot(roots, p)]]

(***************************************************************************)
(* Sessions of one scan.                                                   *)
(***************************************************************************)

\* Several roots may name one session: the earliest-started is its root, and
\* of two that started together the one with the smaller pid.
ChosenRoot(g, s) ==
    LET claimants == {r \in g.roots : DeriveSessionID(r) = s}
        earlier(r, t) == os[r].start < os[t].start \/ (os[r].start = os[t].start /\ r < t)
    IN  CHOOSE r \in claimants : \A t \in claimants \ {r} : earlier(r, t)

MemState(s) == IF s \in DOMAIN mem.state THEN mem.state[s] ELSE None

Transition(s, r) ==
    LET from == MemState(s)
        age == now - os[r].start
    IN  CASE from = None -> IF age < Grace THEN "starting" ELSE "active"
          [] from = "starting" /\ age >= Grace -> "active"
          [] from # None /\ ~Live(from) -> "active"
          [] OTHER -> from

BuildSessions(g) ==
    [s \in {DeriveSessionID(r) : r \in g.roots} |->
        LET r == ChosenRoot(g, s) IN
        [state |-> Transition(s, r), root |-> KeyOf(os, r), ended |-> None]]

\* A living session's thread id, with the exact host recorded for it.
KnownHosts(g, n) ==
    {r \in g.roots : n \in mem.native /\ Live(MemState(n)) /\ mem.root[n] = KeyOf(os, r)}

\* A task is found through the processes that carry its id below a root, or
\* through the session it already has; two hosts make it ambiguous, and so
\* does a task record that cannot be read.
DiscoverProviderSessions(g) ==
    LET carriers(n) == {p \in g.seen : os[p].native = n}
        hosts(n) == {r \in ({g.host[p] : p \in carriers(n)} \ {None})
                           \cup KnownHosts(g, n) : os[r].native # n}
    IN  [n \in {m \in Natives : rollout[m].state # None /\ Cardinality(hosts(m)) = 1} |->
            CHOOSE r \in hosts(n) : TRUE]

BuildProviderSessions(tasks) ==
    [n \in DOMAIN tasks |->
        [state |-> rollout[n].state, root |-> KeyOf(os, tasks[n]),
         ended |-> IF rollout[n].state = "completed" THEN rollout[n].at ELSE None]]

\* Faulty variant: a session lives as long as the pid of its root is in use.
EndByPid(sess) ==
    {s \in DOMAIN mem.root \ DOMAIN sess : Live(MemState(s)) /\ mem.root[s][1] \notin DOMAIN os}

\* Faulty variant: a session this scan did not see has ended, wherever its root is.
EndUnseen(sess) == {s \in DOMAIN mem.root \ DOMAIN sess : Live(MemState(s))}

\* The living sessions this scan did not see and whose exact root is gone.
EndDepartedSessions(sess) ==
    {s \in DOMAIN mem.root \ DOMAIN sess : Live(MemState(s)) /\ ~Alive(mem.root[s])}

(***************************************************************************)
(* Attribution of one inspected process: the task its environment names    *)
(* below that task's host, the root it is or descends from, the ownership  *)
(* recorded for exactly this process, and only then the environment alone. *)
(***************************************************************************)
Answer(s, rel, conf) == [session |-> s, rel |-> rel, conf |-> conf]

ByProviderSession(tasks, p) ==
    LET n == os[p].native IN
    IF n \in DOMAIN tasks /\ IsDescendantOf(os, p, tasks[n])
    THEN Answer(n, "descendant", RootConfidence(tasks[n])) ELSE None

AttributeProcess(g, p) ==
    LET r == g.host[p] IN
    IF p \in g.roots THEN Answer(DeriveSessionID(p), "root", RootConfidence(p))
    ELSE IF r # None THEN Answer(DeriveSessionID(r), "descendant", RootConfidence(r))
    ELSE None

ByRecord(k) ==
    IF k \in DOMAIN mem.own
    THEN Answer(mem.own[k].session, "recorded", mem.own[k].conf) ELSE None

\* Faulty variant: environment membership keeps the weight of the identity.
ByEnvironmentUncapped(p) ==
    IF os[p].native \in mem.native THEN Answer(os[p].native, "environment", ConfNamed) ELSE None

ByEnvironment(p) ==
    IF os[p].native \in mem.native
    THEN Answer(os[p].native, "environment", ConfidenceEnvironmentMembership) ELSE None

\* The first of the four that answers.
Attribute(g, tasks, p) ==
    LET answers == <<ByProviderSession(tasks, p), AttributeProcess(g, p),
                     ByRecord(KeyOf(os, p)), ByEnvironment(p)>>
        given == {i \in 1..4 : answers[i] # None}
    IN  IF given = {} THEN None ELSE answers[Min(given)]

\* A root that is not the chosen claimant of its session is a member of it.
Demoted(g, p, a) ==
    IF /\ p \in g.roots /\ a.session = DeriveSessionID(p)
       /\ p # ChosenRoot(g, a.session)
    THEN [a EXCEPT !.rel = "environment"] ELSE a

\* The claimed parent counts as the creator only if it was seen alive.
WithParent(a, parent, observed) ==
    [session |-> a.session, rel |-> a.rel, conf |-> a.conf, parent |-> parent, observed |-> observed]
Enrich(p, a) ==
    LET k == KeyOf(os, p) IN
    IF k \in DOMAIN mem.own
    THEN WithParent(a, mem.own[k].parent, mem.own[k].observed)
    ELSE WithParent(a, os[p].ppid, Link(os, p) = "intact")

Reconcile(seen) ==
    LET g     == Graph(seen)
        tasks == DiscoverProviderSessions(g)
        sess  == Over(BuildSessions(g), BuildProviderSessions(tasks))
        found == [p \in seen |-> Attribute(g, tasks, p)]
    IN  [sess |-> sess,
         gone |-> EndDepartedSessions(sess),
         own  |-> [k \in {KeyOf(os, p) : p \in {q \in seen : found[q] # None}} |->
                      Enrich(k[1], Demoted(g, k[1], found[k[1]]))],
         lineage |-> {KeyOf(os, p) : p \in {q \in seen : q \in g.roots \/ g.host[q] # None}}]

(***************************************************************************)
(* The store.                                                              *)
(***************************************************************************)

\* Faulty variant: a reopened session keeps its end.
UpsertSessionKeepEnd(s, rec) ==
    IF s \in DOMAIN db.sess
    THEN [rec EXCEPT !.root = db.sess[s].root,
                     !.ended = IF db.sess[s].ended # None THEN db.sess[s].ended ELSE rec.ended]
    ELSE rec

\* The root is written once; everything else follows the newest scan.
UpsertSession(s, rec) ==
    IF s \in DOMAIN db.sess THEN [rec EXCEPT !.root = db.sess[s].root] ELSE rec

\* state and COALESCE(ended_ns, now)
EndSession(row) ==
    [row EXCEPT !.state = "completed", !.ended = IF row.ended = None THEN now ELSE row.ended]

\* Confidence never falls, root stays root, the original parent is written once.
UpsertOwnership(row, rec) ==
    IF row = None THEN [rel |-> rec.rel, conf |-> rec.conf, parent |-> rec.parent, observed |-> rec.observed]
    ELSE [row EXCEPT !.rel = IF row.rel = "root" THEN "root" ELSE rec.rel,
                     !.conf = Max({row.conf, rec.conf})]

Row(f, x) == IF x \in DOMAIN f THEN f[x] ELSE None

Persist(res) ==
    LET sess1 == Over([s \in DOMAIN res.sess |-> UpsertSession(s, res.sess[s])], db.sess)
        links == {<<res.own[k].session, k>> : k \in DOMAIN res.own}
    IN  [sess  |-> [s \in DOMAIN sess1 |->
                       IF s \in res.gone THEN EndSession(sess1[s]) ELSE sess1[s]],
         own   |-> Over([l \in links |-> UpsertOwnership(Row(db.own, l), res.own[l[2]])], db.own),
         procs |-> Over([k \in DOMAIN res.own |-> None],
                       [k \in DOMAIN db.procs |->
                           IF db.procs[k] = None THEN now ELSE db.procs[k]])]

\* AppendAudit, in the transaction of the rows: an entry for every session whose
\* state changed and for every one that ended.  The entries are never read back
\* by the daemon and retention deletes them by age: what is kept here is the
\* order in which they were written.
Audited(res) ==
    LET changed == {s \in DOMAIN res.sess : MemState(s) # res.sess[s].state} \cup res.gone
    IN  Over([s \in changed |-> IF s \in res.gone THEN "completed" ELSE res.sess[s].state], told)

\* Reconciler.Commit: the pending cross-cycle state of a stored result.
Commit(res) ==
    [own    |-> Over(res.own, mem.own),
     state  |-> Over([s \in DOMAIN res.sess |-> res.sess[s].state],
                     Over([s \in res.gone |-> "completed"], mem.state)),
     root   |-> Over([s \in DOMAIN res.sess |-> res.sess[s].root], mem.root),
     native |-> mem.native \cup (DOMAIN res.sess \cap Natives)]

\* Faulty variant: rows attributed from the record itself are not restored.
RestorableLinked ==
    {l[2] : l \in {m \in DOMAIN db.own : db.own[m].rel # "recorded" /\ Row(db.procs, m[2]) = None}}

\* LiveOwnership: of every process that is not marked exited, a row of the
\* highest confidence; the query has no order, so choice settles a tie.
Restorable == {k \in {l[2] : l \in DOMAIN db.own} : Row(db.procs, k) = None}
BestRows(k) ==
    LET rows == {l \in DOMAIN db.own : l[2] = k} IN
    {l \in rows : \A m \in rows : db.own[l].conf >= db.own[m].conf}
Tied == {k \in Restorable : Cardinality(BestRows(k)) > 1}
Restored(l) == [session |-> l[1], rel |-> db.own[l].rel, conf |-> db.own[l].conf,
                parent |-> db.own[l].parent, observed |-> db.own[l].observed]

Seed(choice) ==
    [own    |-> [k \in Restorable |->
                    Restored(IF k \in Tied THEN choice[k] ELSE CHOOSE l \in BestRows(k) : TRUE)],
     state  |-> [s \in DOMAIN db.sess |-> db.sess[s].state],
     root   |-> [s \in DOMAIN db.sess |-> db.sess[s].root],
     native |-> DOMAIN db.sess \cap Natives]

(***************************************************************************)
(* Actions.                                                                *)
(***************************************************************************)
Init ==
    /\ os = Empty
    /\ rollout = [n \in Natives |-> [state |-> None, at |-> 0]]
    /\ mem = [own |-> Empty, state |-> Empty, root |-> Empty, native |-> {}]
    /\ db = [sess |-> Empty, own |-> Empty, procs |-> Empty]
    /\ last = None
    /\ truth = [root |-> Empty, lineage |-> {}]
    /\ told = Empty
    /\ now = 0 /\ spawns = 0 /\ moves = 0

Move(f) == f \in Faults /\ moves < MaxMoves /\ moves' = moves + 1

\* One observation cycle whose transaction commits; hidden is the set of
\* pids that could not be inspected this time.
Observe(hidden) ==
    \E res \in {Reconcile(DOMAIN os \ hidden)} :
    /\ mem' = Commit(res)
    /\ db' = Persist(res)
    /\ told' = Audited(res)
    /\ last' = [present |-> AliveKeys, owned |-> DOMAIN res.own]
    /\ truth' = [root |-> Over([s \in DOMAIN res.sess |-> res.sess[s].root], truth.root),
                 lineage |-> (truth.lineage \cup res.lineage) \cap AliveKeys]
    /\ UNCHANGED <<os, rollout, now, spawns>>
Scan == Observe({}) /\ UNCHANGED moves
ScanPartly == \E p \in DOMAIN os : Observe({p}) /\ Move("hidden")

\* A cycle whose transaction fails leaves the session view untouched: the
\* failure's own transaction writes no session, process or ownership row.
ScanFail == Move("fail") /\ UNCHANGED <<os, rollout, mem, db, last, truth, told, now, spawns>>

\* Retention: ownership and process rows of processes gone for longer than
\* their window, and sessions that ended before theirs.  Over the size budget a
\* second pass runs with both windows halved.
Compact ==
    \E pass \in {1, 2} :
    LET old(t, window) == t # None /\ now - t > window \div pass
        dead == {k \in DOMAIN db.procs : old(db.procs[k], RetainProcesses)}
        kept == {s \in DOMAIN db.sess : ~old(db.sess[s].ended, RetainSessions)}
    IN  /\ db' = [db EXCEPT !.own = [l \in {m \in DOMAIN db.own : m[2] \notin dead} |-> db.own[l]],
                            !.procs = [k \in DOMAIN db.procs \ dead |-> db.procs[k]],
                            !.sess = [s \in kept |-> db.sess[s]]]
        /\ db' # db
        /\ UNCHANGED <<os, rollout, mem, last, truth, told, now, spawns, moves>>

Restart ==
    /\ Move("restart")
    /\ \E choice \in [Tied -> UNION {BestRows(k) : k \in Tied}] :
          /\ \A k \in Tied : choice[k] \in BestRows(k)
          /\ mem' = Seed(choice)
    /\ last' = None
    /\ UNCHANGED <<os, rollout, db, truth, told, now, spawns>>

\* The machine and the agent (external).
Tick == now < MaxTime /\ now' = now + 1
        /\ UNCHANGED <<os, rollout, mem, db, last, truth, told, spawns, moves>>
Spawn ==
    /\ spawns < MaxSpawns /\ spawns' = spawns + 1
    /\ \E p \in Pids \ DOMAIN os, q \in {InitPid} \cup DOMAIN os, codex \in BOOLEAN,
          n \in Natives \cup {NoNative} :
          /\ <<p, now>> \notin DOMAIN db.procs
          /\ os' = Over([x \in {p} |-> [start |-> now, ppid |-> q, creator |-> q, codex |-> codex, native |-> n]], os)
    /\ UNCHANGED <<rollout, mem, db, last, truth, told, now, moves>>
Exit ==
    /\ Move("exit")
    /\ \E p \in DOMAIN os :
          /\ os[p].start < now
          /\ os' = [q \in DOMAIN os \ {p} |->
                       IF os[q].ppid = p THEN [os[q] EXCEPT !.ppid = InitPid] ELSE os[q]]
          /\ truth' = [truth EXCEPT !.lineage = @ \ {KeyOf(os, p)}]
    /\ UNCHANGED <<rollout, mem, db, last, told, now, spawns>>
Exec ==
    /\ Move("exec")
    /\ \E p \in DOMAIN os : os' = [os EXCEPT ![p].codex = ~@]
    /\ UNCHANGED <<rollout, mem, db, last, truth, told, now, spawns>>
Task ==
    /\ Move("task")
    /\ \E n \in Natives, st \in {"active", "completed"} :
          /\ rollout[n].state # st
          /\ rollout' = [rollout EXCEPT ![n] = [state |-> st, at |-> now]]
    /\ UNCHANGED <<os, mem, db, last, truth, told, now, spawns>>

Next == \/ Scan \/ ScanPartly \/ ScanFail \/ Compact \/ Restart
        \/ Tick \/ Spawn \/ Exit \/ Exec \/ Task

Spec == Init /\ [][Next]_vars
(***************************************************************************)
(* Properties.                                                             *)
(***************************************************************************)

\* Memory and rows tell one story and no step of it went unrecorded, whatever
\* transactions failed and whatever retention removed: a session live in memory
\* has a row, a row is in the state memory holds, it has an end exactly when it
\* is not live, and the last entry written to the audit log for it named that
\* state (Commit after persist, ended_ns cleared when a session resumes, retention
\* by ended_ns only).  That the entry is still stored, or listed first, is not
\* claimed: audit rows are deleted by age (retention.go:137) and listed by ts_ns,
\* which is the task's own time for a provider session.
StoreAgrees ==
    /\ \A s \in DOMAIN mem.state :
          IF s \in DOMAIN db.sess THEN db.sess[s].state = mem.state[s] ELSE ~Live(mem.state[s])
    /\ \A s \in DOMAIN db.sess : /\ told[s] = db.sess[s].state
                                 /\ (db.sess[s].ended = None) <=> Live(db.sess[s].state)

\* A recycled pid neither keeps a session alive nor stands in for its root: once
\* the daemon has scanned, the root of every live session was, as that exact
\* process, in the newest snapshot; and of the processes that scan attributed at
\* most one is the root of a session, however many claim it.
RootsExact ==
    last # None =>
        /\ \A s \in DOMAIN mem.state : Live(mem.state[s]) => mem.root[s] \in last.present
        /\ \A k, m \in {x \in last.owned : mem.own[x].rel = "root"} :
              mem.own[k].session = mem.own[m].session => k = m

\* Ownership outlives the parent link and the daemon, and stays true: a living
\* process with ownership rows that was never reported exited is owned in memory
\* by a session recorded for it, and a parent recorded as observed is the process
\* that created it, also when it was first seen after that one had exited.
OwnershipSurvives ==
    \A l \in DOMAIN db.own :
        /\ Alive(l[2]) /\ Row(db.procs, l[2]) = None =>
              l[2] \in DOMAIN mem.own /\ <<mem.own[l[2]].session, l[2]>> \in DOMAIN db.own
        /\ Alive(l[2]) /\ db.own[l].observed => db.own[l].parent = os[l[2][1]].creator

\* An inherited variable never makes a process eligible: a living process
\* recorded with policy-eligible confidence was at some scan a root, or below
\* one, through intact parent links.
InheritedNotEligible ==
    \A k \in DOMAIN mem.own :
        Alive(k) /\ mem.own[k].conf >= ConfidencePolicyEligible => k \in truth.lineage

\* A scan ends a session only when the task record says so or the root of the
\* newest scan that saw the session is gone, provided memory goes by that root.
\* After a restart it may go by an older one, whose uid the row still has.
EndsWithKnownRoot ==
    [][\A s \in DOMAIN db.sess \cap DOMAIN db'.sess :
          (Live(db.sess[s].state) /\ ~Live(db'.sess[s].state) /\ mem.root[s] = truth.root[s]) =>
              \/ ~Alive(truth.root[s])
              \/ s \in Natives /\ rollout[s].state = "completed"]_vars
=============================================================================
