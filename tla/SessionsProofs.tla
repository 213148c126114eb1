--------------------------- MODULE SessionsProofs ---------------------------
(***************************************************************************)
(* Proofs about session reconciliation, for every number of processes,     *)
(* pids, tasks, restarts and failures: memory, rows and audit agree, roots *)
(* are exact processes, ownership survives parents and daemons, inherited  *)
(* evidence never makes a process eligible, and no session is ended while  *)
(* its root lives.                                                         *)
(***************************************************************************)
EXTENDS Sessions, FiniteSetTheorems, SequenceTheorems, NaturalsInduction, TLAPS

(***************************************************************************)
(* The inductive invariant.                                                *)
(***************************************************************************)

PidSet == Pids \cup {InitPid}
Keys == Pids \X Nat
Sids == Natives \cup Keys
States == {"starting", "active", "completed"}
Rels == {"root", "descendant", "recorded", "environment"}
Confs == {ConfIdentity, ConfidenceEnvironmentMembership, ConfNamed}

ProcType == [start : Nat, ppid : PidSet, creator : PidSet, codex : BOOLEAN, native : Natives \cup {NoNative}]
SessType == [state : States, root : Keys, ended : Nat \cup {None}]
RowType == [rel : Rels, conf : Confs, parent : PidSet, observed : BOOLEAN]
OwnType == [session : Sids, rel : Rels, conf : Confs, parent : PidSet, observed : BOOLEAN]

\* The machine: nothing started in the future, and a process whose creator has
\* exited is init's.
MachineOK ==
    /\ now \in Nat /\ DOMAIN os \subseteq Pids /\ os \in [DOMAIN os -> ProcType]
    /\ \A p \in DOMAIN os : os[p].start <= now /\ os[p].ppid \in {os[p].creator, InitPid}
    /\ rollout \in [Natives -> [state : {None, "active", "completed"}, at : Nat]]

\* The reconciler: a session whose state it knows has a root it knows.
MemOK ==
    /\ DOMAIN mem.own \subseteq Keys /\ mem.own \in [DOMAIN mem.own -> OwnType]
    /\ mem.state \in [DOMAIN mem.state -> States]
    /\ mem.root \in [DOMAIN mem.root -> Keys] /\ DOMAIN mem.state \subseteq DOMAIN mem.root
    /\ mem.native \subseteq Natives

\* The tables: an owned process has a process row.
DbOK ==
    /\ db = [sess |-> db.sess, own |-> db.own, procs |-> db.procs]
    /\ db.sess \in [DOMAIN db.sess -> SessType]
    /\ DOMAIN db.own \subseteq Sids \X Keys /\ db.own \in [DOMAIN db.own -> RowType]
    /\ DOMAIN db.procs \subseteq Keys /\ \A l \in DOMAIN db.own : l[2] \in DOMAIN db.procs

\* A key the daemon knows is not one that a process to be born can get.
Taken(k) == k[2] <= now /\ (k[2] = now => Alive(k))
KeysOK == (\A k \in DOMAIN mem.own : Taken(k)) /\ (\A k \in DOMAIN db.procs : Taken(k))

\* The last audit entry written for a session names the state memory holds, also
\* when retention has deleted its row; whether the entry is still stored is not said.
StoreInv ==
    /\ StoreAgrees /\ DOMAIN db.sess \subseteq DOMAIN told
    /\ \A s \in DOMAIN mem.state : s \in DOMAIN told /\ told[s] = mem.state[s]

\* What memory says of a creator is true as well, so that writing it stays true.
OwnInv ==
    /\ OwnershipSurvives
    /\ \A k \in DOMAIN mem.own : Alive(k) /\ mem.own[k].observed => mem.own[k].parent = os[k[1]].creator

\* The rows that a restart reads claim no more than memory does.
LineageInv ==
    /\ InheritedNotEligible
    /\ \A l \in DOMAIN db.own : Alive(l[2]) /\ db.own[l].conf >= ConfidencePolicyEligible => l[2] \in truth.lineage

\* The history variable.
TruthOK == truth = [root |-> truth.root, lineage |-> truth.lineage]

SessInv == MachineOK /\ MemOK /\ DbOK /\ KeysOK /\ StoreInv /\ RootsExact /\ OwnInv /\ LineageInv /\ TruthOK

(***************************************************************************)
(* Walks up the tree are sequences.                                        *)
(***************************************************************************)

\* A set of naturals that is not empty has a least element.
LEMMA LeastElement ==
    ASSUME NEW S \in SUBSET Nat, S # {}
    PROVE  Min(S) \in S /\ \A y \in S : Min(S) <= y
  <1>1. IsWellFoundedOn(OpToRel(<, Nat), Nat)
    BY NatLessThanWellFounded
  <1>2. PICK x \in S : \A y \in S : ~(<<y, x>> \in OpToRel(<, Nat))
    BY <1>1, WFMin
  <1>3. \A y \in S : y < x => <<y, x>> \in OpToRel(<, Nat)
    BY DEF OpToRel
  <1>4. \A y \in S : ~(y < x)
    BY <1>2, <1>3, Zenon
  <1>5. \A y \in S : x =< y
    BY <1>4
  <1>. QED
    BY <1>5 DEF Min

\* Induction up to a bound, over a set.
LEMMA BoundedInduction ==
    ASSUME NEW N \in Nat, NEW T, 0 \in T, \A d \in 0..(N - 1) : d \in T => d + 1 \in T
    PROVE  \A d \in 0..N : d \in T
  <1>. DEFINE S == {d \in 0..N : d \notin T}
  <1>. SUFFICES ASSUME S # {} PROVE FALSE
    OBVIOUS
  <1>1. Min(S) \in S /\ \A y \in S : Min(S) <= y
    <2>1. S \in SUBSET Nat
      OBVIOUS
    <2>. HIDE DEF S
    <2>. QED
      BY <2>1, LeastElement
  <1>2. PICK m \in 0..N : m = Min(S) /\ m \notin T /\ m # 0
    BY <1>1
  <1>3. m - 1 \in 0..(N - 1) /\ m - 1 \notin S
    BY <1>1, <1>2
  <1>4. m - 1 \in T
    BY <1>3
  <1>. QED
    BY <1>2, <1>3, <1>4

\* The first N iterates of step from base exist.
Iterates(N, S, base, step) ==
    \E f \in [0..N -> S] : f[0] = base /\ \A d \in 1..N : f[d] = step[f[d - 1]]

\* A function can be iterated any number of times.
LEMMA Iterate ==
    ASSUME NEW N \in Nat, NEW S, NEW base \in S, NEW step \in [S -> S]
    PROVE  Iterates(N, S, base, step)
  <1>. DEFINE Good(n, f) == f[0] = base /\ \A d \in 1..n : f[d] = step[f[d - 1]]
              T == {n \in 0..N : \E f \in [0..n -> S] : Good(n, f)}
  <1>1. 0 \in T
    <2>1. PICK f : f = [d \in 0..0 |-> base]
      OBVIOUS
    <2>2. f \in [0..0 -> S] /\ Good(0, f)
      BY <2>1
    <2>3. 0 \in 0..N
      OBVIOUS
    <2>. HIDE DEF Good
    <2>. QED
      BY <2>2, <2>3
  <1>2. ASSUME NEW n \in 0..(N - 1), n \in T PROVE n + 1 \in T
    <2>1. PICK f \in [0..n -> S] : Good(n, f)
      BY <1>2
    <2>. DEFINE g == [d \in 0..(n + 1) |-> IF d = n + 1 THEN step[f[n]] ELSE f[d]]
    <2>2. g \in [0..(n + 1) -> S]
      OBVIOUS
    <2>3. g[0] = base
      BY <2>1
    <2>4. ASSUME NEW d \in 1..(n + 1) PROVE g[d] = step[g[d - 1]]
      <3>1. d - 1 \in 0..(n + 1) /\ d - 1 # n + 1 /\ g[d - 1] = f[d - 1]
        OBVIOUS
      <3>2. CASE d = n + 1
        BY <3>1, <3>2
      <3>3. CASE d # n + 1
        <4>1. d \in 1..n /\ d \in 0..(n + 1) /\ g[d] = f[d]
          BY <3>3
        <4>. QED
          BY <2>1, <3>1, <4>1
      <3>. QED
        BY <3>2, <3>3
    <2>. HIDE DEF g
    <2>5. Good(n + 1, g)
      BY <2>3, <2>4
    <2>6. n + 1 \in 0..N
      OBVIOUS
    <2>. QED
      BY <2>2, <2>5, <2>6
  <1>. HIDE DEF T
  <1>3. N \in T
    <2>1. \A d \in 0..N : d \in T
      BY <1>1, <1>2, BoundedInduction
    <2>. QED
      BY <2>1
  <1>. QED
    BY <1>3 DEF T, Iterates

\* The pids a walk can come across.
Parents(snap, p) == {snap[q].ppid : q \in DOMAIN snap \cup {p}}

\* Ancestors returns a sequence of claimed parents.
LEMMA AncestorsSeq ==
    ASSUME NEW snap, NEW p
    PROVE  Ancestors(snap, p) \in Seq(Parents(snap, p))
  <1>. DEFINE P == Parents(snap, p)
              cur(above) == IF above = <<>> THEN p ELSE Last(above)
              up(above) == IF /\ Link(snap, cur(above)) = "intact"
                              /\ snap[cur(above)].ppid \notin {p} \cup Range(above)
                           THEN Append(above, snap[cur(above)].ppid) ELSE above
              step == [a \in Seq(P) |-> up(a)]
              Is(w) == w = [d \in 0..MaxTreeDepth |-> IF d = 0 THEN <<>> ELSE up(w[d - 1])]
              walk == CHOOSE w : Is(w)
  <1>1. \A a \in Seq(P) : up(a) \in Seq(P)
    <2>. SUFFICES ASSUME NEW a \in Seq(P), Link(snap, cur(a)) = "intact" PROVE Append(a, snap[cur(a)].ppid) \in Seq(P)
      OBVIOUS
    <2>1. cur(a) \in DOMAIN snap
      BY DEF Link
    <2>2. snap[cur(a)].ppid \in P
      BY <2>1 DEF Parents
    <2>. HIDE DEF cur, P
    <2>. QED
      BY <2>2
  <1>2. \E w : Is(w)
    <2>. HIDE DEF up, P
    <2>1. step \in [Seq(P) -> Seq(P)] /\ <<>> \in Seq(P) /\ MaxTreeDepth \in Nat
      BY <1>1, TreeDepthAssumption
    <2>. HIDE DEF step
    <2>2. PICK S, e : S = Seq(P) /\ e = <<>>
      OBVIOUS
    <2>3. Iterates(MaxTreeDepth, S, e, step)
      <3>1. step \in [S -> S] /\ e \in S /\ MaxTreeDepth \in Nat
        BY <2>1, <2>2
      <3>. QED
        BY <3>1, Iterate
    <2>4. PICK f \in [0..MaxTreeDepth -> Seq(P)] : f[0] = <<>> /\ \A d \in 1..MaxTreeDepth : f[d] = step[f[d - 1]]
      BY <2>2, <2>3 DEF Iterates
    <2>5. ASSUME NEW d \in 1..MaxTreeDepth PROVE f[d] = up(f[d - 1])
      <3>1. d - 1 \in 0..MaxTreeDepth
        BY <2>1
      <3>2. f[d - 1] \in Seq(P)
        BY <3>1
      <3>. QED
        BY <2>4, <3>2 DEF step
    <2>6. \A d \in 0..MaxTreeDepth : f[d] = IF d = 0 THEN <<>> ELSE up(f[d - 1])
      BY <2>1, <2>4, <2>5
    <2>7. Is(f)
      BY <2>6
    <2>. QED
      BY <2>7
  <1>3. Is(walk)
    <2>. HIDE DEF Is
    <2>. QED
      BY <1>2, Zenon
  <1>4. Ancestors(snap, p) = walk[MaxTreeDepth]
    BY DEF Ancestors
  <1>. HIDE DEF walk
  <1>5. \A d \in 0..MaxTreeDepth : walk[d] = IF d = 0 THEN <<>> ELSE up(walk[d - 1])
    BY <1>3, Zenon
  <1>. HIDE DEF up, P
  <1>. DEFINE T == {d \in 0..MaxTreeDepth : walk[d] \in Seq(P)}
  <1>6. MaxTreeDepth \in Nat
    BY TreeDepthAssumption
  <1>7. 0 \in T
    <2>1. 0 \in 0..MaxTreeDepth /\ <<>> \in Seq(P)
      BY <1>6
    <2>2. walk[0] = <<>>
      BY <1>5, <2>1
    <2>. QED
      BY <2>1, <2>2
  <1>8. ASSUME NEW d \in 0..(MaxTreeDepth - 1), d \in T PROVE d + 1 \in T
    <2>1. d + 1 \in 0..MaxTreeDepth /\ d + 1 # 0 /\ (d + 1) - 1 = d
      BY <1>6
    <2>2. walk[d + 1] = up(walk[d])
      BY <1>5, <2>1
    <2>. QED
      BY <1>1, <1>8, <2>1, <2>2
  <1>. HIDE DEF T
  <1>9. \A d \in 0..MaxTreeDepth : d \in T
    BY <1>6, <1>7, <1>8, BoundedInduction
  <1>10. MaxTreeDepth \in T
    BY <1>6, <1>9
  <1>. QED
    BY <1>4, <1>10 DEF T, P

(***************************************************************************)
(* What one scan concludes.                                                *)
(***************************************************************************)

\* The host of a process is one of the roots, and there is one when a root is above.
LEMMA HostIsRoot ==
    ASSUME NEW roots \in SUBSET Pids, NEW p
    PROVE  /\ HostRoot(roots, p) \in roots \cup {None}
           /\ \A r \in roots : IsDescendantOf(os, p, r) => HostRoot(roots, p) \in roots
  <1>1. PICK above \in Seq(Parents(os, p)) : above = Ancestors(os, p)
    BY AncestorsSeq
  <1>. DEFINE at == {i \in 1..Len(above) : above[i] \in roots}
  <1>2. HostRoot(roots, p) = IF at = {} THEN None ELSE above[Min(at)]
    BY <1>1 DEF HostRoot
  <1>3. at # {} => above[Min(at)] \in roots
    <2>. SUFFICES ASSUME at # {} PROVE above[Min(at)] \in roots
      OBVIOUS
    <2>1. at \in SUBSET Nat
      OBVIOUS
    <2>2. \A i \in at : above[i] \in roots
      OBVIOUS
    <2>. HIDE DEF at
    <2>. QED
      BY <2>1, <2>2, LeastElement
  <1>4. ASSUME NEW r \in roots, IsDescendantOf(os, p, r) PROVE at # {}
    <2>1. PICK i \in DOMAIN above : above[i] = r
      BY <1>1, <1>4 DEF IsDescendantOf, Range
    <2>2. i \in at
      BY <2>1
    <2>. QED
      BY <2>2
  <1>. HIDE DEF at
  <1>. QED
    BY <1>2, <1>3, <1>4

\* The graph of a scan: roots and hosts are inspected processes.
LEMMA GraphFacts ==
    ASSUME MachineOK, NEW seen \in SUBSET DOMAIN os, NEW g, g = Graph(seen)
    PROVE  /\ g.seen = seen /\ g.roots \subseteq seen /\ g.roots \in SUBSET Pids
           /\ \A p \in seen : g.host[p] \in g.roots \cup {None}
           /\ \A p \in seen, r \in g.roots : IsDescendantOf(os, p, r) => g.host[p] \in g.roots
  <1>1. PICK roots : roots = DetectRootProcesses(seen)
    OBVIOUS
  <1>2. g = [seen |-> seen, roots |-> roots, host |-> [p \in seen |-> HostRoot(roots, p)]]
    BY <1>1 DEF Graph
  <1>3. /\ g.seen = seen /\ g.roots = roots /\ g.host = [p \in seen |-> HostRoot(roots, p)]
    BY <1>2
  <1>4. roots \subseteq seen
    BY <1>1 DEF DetectRootProcesses
  <1>5. roots \in SUBSET Pids
    BY <1>4 DEF MachineOK
  <1>. QED
    BY <1>3, <1>4, <1>5, HostIsRoot

\* Of the roots that claim a session one is chosen, and it claims it.
LEMMA ChosenClaims ==
    ASSUME MachineOK, NEW g, g.roots \subseteq DOMAIN os, NEW s, NEW c \in g.roots, DeriveSessionID(c) = s
    PROVE  ChosenRoot(g, s) \in g.roots /\ DeriveSessionID(ChosenRoot(g, s)) = s
  <1>. DEFINE claimants == {r \in g.roots : DeriveSessionID(r) = s}
              earlier(r, t) == os[r].start < os[t].start \/ (os[r].start = os[t].start /\ r < t)
              starts == {os[r].start : r \in claimants}
              first == {r \in claimants : os[r].start = Min(starts)}
  <1>1. claimants \subseteq DOMAIN os /\ claimants # {} /\ claimants \subseteq Nat
    BY SessionsAssumption DEF MachineOK
  <1>2. \A r \in claimants : os[r].start \in Nat
    BY <1>1 DEF MachineOK, ProcType
  <1>. HIDE DEF claimants
  <1>3. starts \in SUBSET Nat /\ starts # {}
    BY <1>1, <1>2
  <1>4. Min(starts) \in starts /\ \A y \in starts : Min(starts) <= y
    <2>. HIDE DEF starts
    <2>. QED
      BY <1>3, LeastElement
  <1>5. first \in SUBSET Nat /\ first # {}
    BY <1>1, <1>4
  <1>6. Min(first) \in first /\ \A y \in first : Min(first) <= y
    <2>. HIDE DEF first
    <2>. QED
      BY <1>5, LeastElement
  <1>7. PICK r \in claimants : r = Min(first) /\ os[r].start = Min(starts)
    BY <1>6
  <1>8. ASSUME NEW t \in claimants \ {r} PROVE earlier(r, t)
    <2>1. os[r].start \in Nat /\ os[t].start \in Nat /\ r \in Nat /\ t \in Nat /\ r # t
      BY <1>1, <1>2
    <2>2. os[t].start \in starts
      OBVIOUS
    <2>3. os[r].start <= os[t].start
      BY <1>4, <1>7, <2>2
    <2>4. CASE os[t].start = os[r].start
      <3>1. t \in first
        BY <1>7, <2>4
      <3>2. r <= t
        BY <1>6, <1>7, <3>1
      <3>. QED
        BY <2>1, <2>4, <3>2
    <2>5. CASE os[t].start # os[r].start
      BY <2>1, <2>3, <2>5
    <2>. QED
      BY <2>4, <2>5
  <1>9. ChosenRoot(g, s) = CHOOSE x \in claimants : \A t \in claimants \ {x} : earlier(x, t)
    BY DEF ChosenRoot, claimants
  <1>. HIDE DEF earlier
  <1>10. ChosenRoot(g, s) \in claimants
    BY <1>8, <1>9
  <1>. QED
    BY <1>10 DEF claimants

\* The state of a session that has a root is one of a live session.
LEMMA TransitionLive ==
    ASSUME MemOK, NEW s, NEW r
    PROVE  Transition(s, r) \in {"starting", "active"}
  <1>1. MemState(s) \in States \cup {None}
    BY DEF MemState, MemOK
  <1>2. None \notin States
    BY SessionsAssumption DEF States
  <1>. QED
    BY <1>1, <1>2 DEF Transition, Live, States

\* The key of a living process.
LEMMA KeyFacts ==
    ASSUME MachineOK, NEW p \in DOMAIN os
    PROVE  /\ KeyOf(os, p) \in Keys /\ KeyOf(os, p) \in AliveKeys /\ Alive(KeyOf(os, p))
           /\ KeyOf(os, p)[1] = p /\ KeyOf(os, p)[2] = os[p].start /\ os[p].start \in Nat
  <1>1. p \in Pids /\ os[p].start \in Nat
    BY DEF MachineOK, ProcType
  <1>. QED
    BY <1>1 DEF KeyOf, Keys, AliveKeys, Alive

\* A process lives exactly when its key is one of those in the process table.
LEMMA AliveIsListed ==
    ASSUME MachineOK, NEW k \in Keys
    PROVE  Alive(k) <=> k \in AliveKeys
  <1>1. k = <<k[1], k[2]>>
    BY DEF Keys
  <1>. QED
    BY <1>1 DEF Alive, AliveKeys, KeyOf

\* What the record of a session says is true of the machine and of the task.
SessGood(s, rec) ==
    /\ rec \in SessType /\ (rec.ended = None <=> Live(rec.state))
    /\ rec.root \in AliveKeys
    /\ ~Live(rec.state) => s \in Natives /\ rollout[s].state = "completed"

\* The sessions of the roots.
LEMMA RootSessions ==
    ASSUME MachineOK, MemOK, NEW g, g.roots \subseteq DOMAIN os, NEW s \in DOMAIN BuildSessions(g)
    PROVE  SessGood(s, BuildSessions(g)[s])
  <1>1. PICK c \in g.roots : DeriveSessionID(c) = s
    BY DEF BuildSessions
  <1>2. PICK r \in g.roots : r = ChosenRoot(g, s)
    BY <1>1, ChosenClaims
  <1>3. BuildSessions(g)[s] = [state |-> Transition(s, r), root |-> KeyOf(os, r), ended |-> None]
    BY <1>2 DEF BuildSessions
  <1>4. PICK st \in {"starting", "active"} : st = Transition(s, r)
    BY TransitionLive
  <1>5. KeyOf(os, r) \in Keys /\ KeyOf(os, r) \in AliveKeys
    BY KeyFacts
  <1>6. PICK rec : rec = BuildSessions(g)[s]
    OBVIOUS
  <1>7. rec = [state |-> st, root |-> KeyOf(os, r), ended |-> None]
    BY <1>3, <1>4, <1>6
  <1>8. rec \in SessType /\ rec.state = st /\ rec.root = KeyOf(os, r) /\ rec.ended = None
    BY <1>5, <1>7 DEF SessType, States
  <1>. QED
    BY <1>5, <1>6, <1>8 DEF SessGood, Live

\* The host of a task is a root of the scan.
LEMMA TaskHosts ==
    ASSUME MachineOK, NEW seen \in SUBSET DOMAIN os, NEW g, g = Graph(seen),
           NEW n \in DOMAIN DiscoverProviderSessions(g)
    PROVE  n \in Natives /\ DiscoverProviderSessions(g)[n] \in g.roots /\ rollout[n].state # None
  <1>. DEFINE carriers(m) == {p \in g.seen : os[p].native = m}
              hosts(m) == {r \in ({g.host[p] : p \in carriers(m)} \ {None})
                                 \cup KnownHosts(g, m) : os[r].native # m}
  <1>1. DiscoverProviderSessions(g) =
           [m \in {x \in Natives : rollout[x].state # None /\ Cardinality(hosts(x)) = 1} |->
               CHOOSE r \in hosts(m) : TRUE]
    BY DEF DiscoverProviderSessions
  <1>2. hosts(n) \subseteq g.roots
    <2>1. KnownHosts(g, n) \subseteq g.roots
      BY DEF KnownHosts
    <2>2. \A p \in carriers(n) : g.host[p] \in g.roots \cup {None}
      BY GraphFacts
    <2>. QED
      BY <2>1, <2>2
  <1>. HIDE DEF hosts
  <1>3. n \in Natives /\ rollout[n].state # None /\ Cardinality(hosts(n)) = 1
        /\ DiscoverProviderSessions(g)[n] = CHOOSE r \in hosts(n) : TRUE
    BY <1>1
  <1>4. hosts(n) # {}
    BY <1>3, FS_EmptySet
  <1>. QED
    BY <1>2, <1>3, <1>4

\* The sessions of the tasks.
LEMMA TaskSessions ==
    ASSUME MachineOK, NEW seen \in SUBSET DOMAIN os, NEW g, g = Graph(seen),
           NEW tasks, tasks = DiscoverProviderSessions(g), NEW n \in DOMAIN BuildProviderSessions(tasks)
    PROVE  SessGood(n, BuildProviderSessions(tasks)[n])
  <1>1. n \in DOMAIN tasks
    BY DEF BuildProviderSessions
  <1>2. n \in Natives /\ tasks[n] \in g.roots /\ rollout[n].state # None
    BY <1>1, TaskHosts
  <1>3. tasks[n] \in DOMAIN os
    BY <1>2, GraphFacts
  <1>4. KeyOf(os, tasks[n]) \in Keys /\ KeyOf(os, tasks[n]) \in AliveKeys
    BY <1>3, KeyFacts
  <1>5. rollout[n].state \in {"active", "completed"} /\ rollout[n].at \in Nat
    BY <1>2 DEF MachineOK
  <1>6. PICK st \in {"active", "completed"}, e \in Nat \cup {None} :
          st = rollout[n].state /\ e = (IF st = "completed" THEN rollout[n].at ELSE None)
    BY <1>5
  <1>7. PICK rec : rec = BuildProviderSessions(tasks)[n]
    OBVIOUS
  <1>8. rec = [state |-> st, root |-> KeyOf(os, tasks[n]), ended |-> e]
    BY <1>1, <1>6, <1>7 DEF BuildProviderSessions
  <1>9. rec \in SessType /\ rec.state = st /\ rec.root = KeyOf(os, tasks[n]) /\ rec.ended = e
    BY <1>4, <1>6, <1>8 DEF SessType, States
  <1>10. e = None <=> st = "active"
    BY <1>5, <1>6, SessionsAssumption
  <1>. QED
    BY <1>2, <1>4, <1>6, <1>7, <1>9, <1>10 DEF SessGood, Live

\* What the attribution of a process says is true of it.
OwnGood(k, a, lineage) ==
    /\ a \in OwnType
    /\ a.observed => a.parent = os[k[1]].creator
    /\ a.conf >= ConfidencePolicyEligible => k \in lineage

\* An answer of one of the four ways to attribute a process, before its parent
\* is added: a root answers for itself, certainty comes from lineage or record.
AnswerGood(g, p, a) ==
    /\ a = Answer(a.session, a.rel, a.conf)
    /\ a.session \in Sids /\ a.rel \in Rels /\ a.conf \in Confs
    /\ a.conf >= ConfidencePolicyEligible =>
          p \in g.roots \/ g.host[p] # None \/ KeyOf(os, p) \in truth.lineage
    /\ a.rel = "root" => p \in g.roots /\ a.session = DeriveSessionID(p)

\* A session id is a thread id or the key of a root.
LEMMA DerivedIds ==
    ASSUME MachineOK, NEW r \in DOMAIN os
    PROVE  DeriveSessionID(r) \in Sids /\ RootConfidence(r) \in Confs
  <1>1. KeyOf(os, r) \in Keys /\ os[r].native \in Natives \cup {NoNative}
    BY KeyFacts DEF MachineOK, ProcType
  <1>. QED
    BY <1>1 DEF DeriveSessionID, RootConfidence, Sids, Confs

\* The four ways.
LEMMA AnswersGood ==
    ASSUME MachineOK, MemOK, LineageInv, NEW seen \in SUBSET DOMAIN os, NEW g, g = Graph(seen),
           NEW tasks, tasks = DiscoverProviderSessions(g), NEW p \in seen
    PROVE  \A a \in {ByProviderSession(tasks, p), AttributeProcess(g, p), ByRecord(KeyOf(os, p)), ByEnvironment(p)} :
              a # None => AnswerGood(g, p, a)
  <1>1. /\ g.roots \subseteq DOMAIN os /\ g.host[p] \in g.roots \cup {None} /\ None \notin g.roots
        /\ \A r \in g.roots : IsDescendantOf(os, p, r) => g.host[p] \in g.roots
    BY GraphFacts, SessionsAssumption DEF MachineOK
  <1>2. ASSUME ByProviderSession(tasks, p) # None PROVE AnswerGood(g, p, ByProviderSession(tasks, p))
    <2>1. PICK n \in DOMAIN tasks : /\ n = os[p].native /\ IsDescendantOf(os, p, tasks[n])
                                    /\ ByProviderSession(tasks, p) = Answer(n, "descendant", RootConfidence(tasks[n]))
      BY <1>2 DEF ByProviderSession
    <2>2. n \in Natives /\ tasks[n] \in g.roots
      BY TaskHosts
    <2>3. RootConfidence(tasks[n]) \in Confs
      BY <1>1, <2>2, DerivedIds
    <2>4. g.host[p] # None
      BY <1>1, <2>1, <2>2
    <2>5. PICK a : a = ByProviderSession(tasks, p)
      OBVIOUS
    <2>6. /\ a.session = n /\ a.rel = "descendant" /\ a.conf \in Confs
          /\ a = Answer(a.session, a.rel, a.conf)
      BY <2>1, <2>3, <2>5 DEF Answer
    <2>. QED
      BY <2>2, <2>4, <2>5, <2>6 DEF AnswerGood, Sids, Rels
  <1>3. ASSUME AttributeProcess(g, p) # None PROVE AnswerGood(g, p, AttributeProcess(g, p))
    <2>1. PICK a : a = AttributeProcess(g, p)
      OBVIOUS
    <2>2. CASE p \in g.roots
      <3>1. /\ a.session = DeriveSessionID(p) /\ a.rel = "root" /\ a.conf = RootConfidence(p)
            /\ a = Answer(a.session, a.rel, a.conf)
        BY <2>1, <2>2 DEF AttributeProcess, Answer
      <3>2. DeriveSessionID(p) \in Sids /\ RootConfidence(p) \in Confs
        BY DerivedIds
      <3>. QED
        BY <2>1, <2>2, <3>1, <3>2 DEF AnswerGood, Rels
    <2>3. CASE p \notin g.roots
      <3>1. g.host[p] \in g.roots
        BY <1>1, <1>3, <2>3 DEF AttributeProcess
      <3>2. /\ a.session = DeriveSessionID(g.host[p]) /\ a.rel = "descendant" /\ a.conf = RootConfidence(g.host[p])
            /\ a = Answer(a.session, a.rel, a.conf)
        BY <1>1, <2>1, <2>3, <3>1 DEF AttributeProcess, Answer
      <3>3. DeriveSessionID(g.host[p]) \in Sids /\ RootConfidence(g.host[p]) \in Confs
        BY <1>1, <3>1, DerivedIds
      <3>. QED
        BY <1>1, <2>1, <3>1, <3>2, <3>3 DEF AnswerGood, Rels
    <2>. QED
      BY <2>2, <2>3
  <1>4. ASSUME ByRecord(KeyOf(os, p)) # None PROVE AnswerGood(g, p, ByRecord(KeyOf(os, p)))
    <2>1. PICK k \in DOMAIN mem.own : k = KeyOf(os, p)
      BY <1>4 DEF ByRecord
    <2>2. PICK a : a = ByRecord(k)
      OBVIOUS
    <2>3. /\ a.session = mem.own[k].session /\ a.rel = "recorded" /\ a.conf = mem.own[k].conf
          /\ a = Answer(a.session, a.rel, a.conf)
      BY <2>2 DEF ByRecord, Answer
    <2>4. mem.own[k] \in OwnType
      BY DEF MemOK
    <2>5. mem.own[k].session \in Sids /\ mem.own[k].conf \in Confs
      BY <2>4 DEF OwnType
    <2>6. Alive(k)
      BY <2>1, KeyFacts
    <2>7. mem.own[k].conf >= ConfidencePolicyEligible => k \in truth.lineage
      BY <2>6 DEF LineageInv, InheritedNotEligible
    <2>. QED
      BY <2>1, <2>2, <2>3, <2>5, <2>7 DEF AnswerGood, Rels
  <1>5. ASSUME ByEnvironment(p) # None PROVE AnswerGood(g, p, ByEnvironment(p))
    <2>1. os[p].native \in Natives
      BY <1>5 DEF ByEnvironment, MemOK
    <2>2. PICK a : a = ByEnvironment(p)
      OBVIOUS
    <2>3. /\ a.session = os[p].native /\ a.rel = "environment" /\ a.conf = ConfidenceEnvironmentMembership
          /\ a = Answer(a.session, a.rel, a.conf)
      BY <1>5, <2>2 DEF ByEnvironment, Answer
    <2>4. ~(ConfidenceEnvironmentMembership >= ConfidencePolicyEligible)
      BY DEF ConfidenceEnvironmentMembership, ConfidencePolicyEligible
    <2>. QED
      BY <2>1, <2>2, <2>3, <2>4 DEF AnswerGood, Rels, Sids, Confs
  <1>. QED
    BY <1>2, <1>3, <1>4, <1>5

\* The first that answers is one of them.
LEMMA AttributeGood ==
    ASSUME MachineOK, MemOK, LineageInv, NEW seen \in SUBSET DOMAIN os, NEW g, g = Graph(seen),
           NEW tasks, tasks = DiscoverProviderSessions(g), NEW p \in seen, Attribute(g, tasks, p) # None
    PROVE  AnswerGood(g, p, Attribute(g, tasks, p))
  <1>1. PICK a1, a2, a3, a4 : /\ a1 = ByProviderSession(tasks, p) /\ a2 = AttributeProcess(g, p)
                              /\ a3 = ByRecord(KeyOf(os, p)) /\ a4 = ByEnvironment(p)
    OBVIOUS
  <1>. DEFINE answers == <<a1, a2, a3, a4>>
              given == {i \in 1..4 : answers[i] # None}
  <1>2. Attribute(g, tasks, p) = IF given = {} THEN None ELSE answers[Min(given)]
    BY <1>1 DEF Attribute
  <1>3. given # {} /\ Attribute(g, tasks, p) = answers[Min(given)]
    BY <1>2
  <1>4. Min(given) \in given
    <2>1. given \in SUBSET Nat
      OBVIOUS
    <2>. HIDE DEF given
    <2>. QED
      BY <1>3, <2>1, LeastElement
  <1>5. PICK i \in 1..4 : i = Min(given) /\ answers[i] # None
    BY <1>4
  <1>6. answers[i] \in {a1, a2, a3, a4}
    OBVIOUS
  <1>7. \A a \in {a1, a2, a3, a4} : a # None => AnswerGood(g, p, a)
    BY <1>1, AnswersGood
  <1>. HIDE DEF answers, given
  <1>. QED
    BY <1>3, <1>5, <1>6, <1>7

\* A parent that was seen alive is the one that created the process.
LEMMA IntactCreator ==
    ASSUME MachineOK, NEW p \in DOMAIN os, Link(os, p) = "intact"
    PROVE  os[p].ppid = os[p].creator
  <1>1. ClassifyLink(os, p) = "intact"
    BY DEF Link
  <1>2. os[p].ppid # InitPid
    BY <1>1 DEF ClassifyLink
  <1>. QED
    BY <1>2 DEF MachineOK

\* What Demoted and Enrich leave of an answer: a root of its session is the
\* chosen one, and the parent is the recorded one or the one seen.
EnrichedGood(g, p, a, b) ==
    /\ b \in OwnType /\ b.session = a.session /\ b.conf = a.conf
    /\ b.observed => b.parent = os[p].creator
    /\ b.rel = "root" => p \in g.roots /\ a.session = DeriveSessionID(p) /\ p = ChosenRoot(g, b.session)

\* Demoted and Enrich leave an answer so.
LEMMA EnrichGood ==
    ASSUME MachineOK, MemOK, OwnInv, NEW g, NEW p \in DOMAIN os, NEW a, AnswerGood(g, p, a)
    PROVE  EnrichedGood(g, p, a, Enrich(p, Demoted(g, p, a)))
  <1>1. PICK d, b : d = Demoted(g, p, a) /\ b = Enrich(p, d)
    OBVIOUS
  <1>2. /\ d.session = a.session /\ d.conf = a.conf /\ d.rel \in {a.rel, "environment"}
        /\ d.rel = "root" => p \in g.roots /\ a.session = DeriveSessionID(p) /\ p = ChosenRoot(g, a.session)
    <2>1. CASE p \in g.roots /\ a.session = DeriveSessionID(p) /\ p # ChosenRoot(g, a.session)
      <3>1. d = [a EXCEPT !.rel = "environment"]
        BY <1>1, <2>1 DEF Demoted
      <3>2. a = [session |-> a.session, rel |-> a.rel, conf |-> a.conf]
        BY DEF AnswerGood, Answer
      <3>3. d.session = a.session /\ d.conf = a.conf /\ d.rel = "environment"
        BY <3>1, <3>2
      <3>. QED
        BY <3>3
    <2>2. CASE ~(p \in g.roots /\ a.session = DeriveSessionID(p) /\ p # ChosenRoot(g, a.session))
      <3>1. d = a
        BY <1>1, <2>2 DEF Demoted
      <3>. QED
        BY <2>2, <3>1 DEF AnswerGood
    <2>. QED
      BY <2>1, <2>2
  <1>3. PICK parent \in PidSet, observed \in BOOLEAN :
          b = WithParent(d, parent, observed) /\ (observed => parent = os[p].creator)
    <2>1. PICK k : k = KeyOf(os, p)
      OBVIOUS
    <2>2. CASE k \in DOMAIN mem.own
      <3>1. b = WithParent(d, mem.own[k].parent, mem.own[k].observed)
        BY <1>1, <2>1, <2>2 DEF Enrich
      <3>2. mem.own[k] \in OwnType
        BY <2>2 DEF MemOK
      <3>3. mem.own[k].parent \in PidSet /\ mem.own[k].observed \in BOOLEAN
        BY <3>2 DEF OwnType
      <3>4. Alive(k) /\ k[1] = p
        BY <2>1, KeyFacts
      <3>5. mem.own[k].observed => mem.own[k].parent = os[p].creator
        BY <2>2, <3>4 DEF OwnInv
      <3>. QED
        BY <3>1, <3>3, <3>5
    <2>3. CASE k \notin DOMAIN mem.own
      <3>1. b = WithParent(d, os[p].ppid, Link(os, p) = "intact")
        BY <1>1, <2>1, <2>3 DEF Enrich
      <3>2. os[p].ppid \in PidSet
        BY DEF MachineOK, ProcType
      <3>. QED
        BY <3>1, <3>2, IntactCreator
    <2>. QED
      BY <2>2, <2>3
  <1>4. b = [session |-> d.session, rel |-> d.rel, conf |-> d.conf, parent |-> parent, observed |-> observed]
    BY <1>3 DEF WithParent
  <1>5. b.session = d.session /\ b.rel = d.rel /\ b.conf = d.conf /\ b.parent = parent /\ b.observed = observed
    BY <1>4
  <1>6. d.session \in Sids /\ d.rel \in Rels /\ d.conf \in Confs
    BY <1>2 DEF AnswerGood, Rels
  <1>7. b \in OwnType
    BY <1>3, <1>4, <1>6 DEF OwnType
  <1>. QED
    BY <1>1, <1>2, <1>3, <1>5, <1>7 DEF EnrichedGood

\* The result of one cycle: what its sessions, its ownership and its lineage
\* say is true of the machine, and no session has two roots.
ResultGood(res) ==
    /\ \A s \in DOMAIN res.sess : SessGood(s, res.sess[s])
    /\ res.gone = EndDepartedSessions(res.sess)
    /\ DOMAIN res.own \subseteq AliveKeys
    /\ \A k \in DOMAIN res.own : OwnGood(k, res.own[k], truth.lineage \cup res.lineage)
    /\ \A k, m \in DOMAIN res.own :
          res.own[k].rel = "root" /\ res.own[m].rel = "root" /\ res.own[k].session = res.own[m].session => k = m

\* Reconcile returns such a result.
LEMMA ReconcileGood ==
    ASSUME MachineOK, MemOK, OwnInv, LineageInv, NEW seen \in SUBSET DOMAIN os, NEW res, res = Reconcile(seen)
    PROVE  ResultGood(res)
  <1>1. PICK g, tasks : g = Graph(seen) /\ tasks = DiscoverProviderSessions(g)
    OBVIOUS
  <1>2. PICK sess, found : /\ sess = Over(BuildSessions(g), BuildProviderSessions(tasks))
                           /\ found = [p \in seen |-> Attribute(g, tasks, p)]
    OBVIOUS
  <1>3. PICK owned : owned = {KeyOf(os, p) : p \in {q \in seen : found[q] # None}}
    OBVIOUS
  <1>4. res = [sess |-> sess, gone |-> EndDepartedSessions(sess),
               own |-> [k \in owned |-> Enrich(k[1], Demoted(g, k[1], found[k[1]]))],
               lineage |-> {KeyOf(os, p) : p \in {q \in seen : q \in g.roots \/ g.host[q] # None}}]
    BY <1>1, <1>2, <1>3 DEF Reconcile
  <1>5. /\ res.sess = sess /\ res.gone = EndDepartedSessions(sess)
        /\ res.own = [k \in owned |-> Enrich(k[1], Demoted(g, k[1], found[k[1]]))]
        /\ res.lineage = {KeyOf(os, p) : p \in {q \in seen : q \in g.roots \/ g.host[q] # None}}
    BY <1>4
  <1>6. ASSUME NEW s \in DOMAIN sess PROVE SessGood(s, sess[s])
    <2>1. g.roots \subseteq DOMAIN os
      BY <1>1, GraphFacts
    <2>2. PICK f, h : f = BuildSessions(g) /\ h = BuildProviderSessions(tasks)
      OBVIOUS
    <2>3. (s \in DOMAIN f /\ sess[s] = f[s]) \/ (s \in DOMAIN h /\ sess[s] = h[s])
      BY <1>2, <2>2 DEF Over
    <2>. QED
      BY <1>1, <2>1, <2>2, <2>3, RootSessions, TaskSessions
  <1>7. ASSUME NEW k \in owned
        PROVE  /\ k \in AliveKeys /\ k = KeyOf(os, k[1]) /\ OwnGood(k, res.own[k], truth.lineage \cup res.lineage)
               /\ res.own[k].rel = "root" => k[1] = ChosenRoot(g, res.own[k].session)
    <2>1. PICK p \in seen : k = KeyOf(os, p) /\ found[p] # None
      BY <1>3
    <2>2. k \in AliveKeys /\ k[1] = p
      BY <2>1, KeyFacts
    <2>3. PICK a : a = Attribute(g, tasks, p) /\ a # None /\ a = found[p]
      BY <1>2, <2>1
    <2>4. AnswerGood(g, p, a)
      BY <1>1, <2>3, AttributeGood
    <2>5. PICK b : b = Enrich(p, Demoted(g, p, a))
      OBVIOUS
    <2>6. res.own[k] = b
      BY <1>5, <2>2, <2>3, <2>5
    <2>7. /\ b \in OwnType /\ b.session = a.session /\ b.conf = a.conf
          /\ b.observed => b.parent = os[p].creator
          /\ b.rel = "root" => p \in g.roots /\ a.session = DeriveSessionID(p) /\ p = ChosenRoot(g, b.session)
      <3>1. p \in DOMAIN os
        OBVIOUS
      <3>2. EnrichedGood(g, p, a, b)
        BY <2>4, <2>5, <3>1, EnrichGood, Zenon
      <3>. QED
        BY <3>2, Zenon DEF EnrichedGood
    <2>8. b.conf >= ConfidencePolicyEligible => k \in truth.lineage \cup res.lineage
      BY <1>5, <2>1, <2>4, <2>7 DEF AnswerGood
    <2>9. OwnGood(k, b, truth.lineage \cup res.lineage)
      BY <2>2, <2>7, <2>8, Zenon DEF OwnGood
    <2>. QED
      BY <2>1, <2>2, <2>6, <2>7, <2>9, Zenon
  <1>8. DOMAIN res.own = owned
    BY <1>5
  <1>9. ASSUME NEW k \in owned, NEW m \in owned, res.own[k].rel = "root", res.own[m].rel = "root",
               res.own[k].session = res.own[m].session
        PROVE  k = m
    <2>1. k[1] = m[1]
      BY <1>7, <1>9
    <2>2. k = KeyOf(os, k[1]) /\ m = KeyOf(os, m[1])
      BY <1>7
    <2>. QED
      BY <2>1, <2>2, Zenon
  <1>10. res.gone = EndDepartedSessions(res.sess)
    BY <1>5
  <1>11. \A s \in DOMAIN res.sess : SessGood(s, res.sess[s])
    BY <1>5, <1>6, Zenon
  <1>12. \A k \in owned : k \in AliveKeys /\ OwnGood(k, res.own[k], truth.lineage \cup res.lineage)
    BY <1>7
  <1>. QED
    BY <1>8, <1>9, <1>10, <1>11, <1>12, Zenon DEF ResultGood

(***************************************************************************)
(* A committed cycle.                                                      *)
(***************************************************************************)

\* One map laid over another.
IsOver(o, f, h) ==
    /\ DOMAIN o = DOMAIN f \cup DOMAIN h /\ o = [x \in DOMAIN o |-> o[x]]
    /\ \A x \in DOMAIN f : o[x] = f[x]
    /\ \A x \in DOMAIN h : x \notin DOMAIN f => o[x] = h[x]

\* Over lays one map over another.
LEMMA OverFacts ==
    ASSUME NEW f, NEW h
    PROVE  IsOver(Over(f, h), f, h)
  BY DEF Over, IsOver

\* The larger of two confidences.
LEMMA MaxOfTwo ==
    ASSUME NEW a \in Nat, NEW b \in Nat
    PROVE  Max({a, b}) = a \/ Max({a, b}) = b
  <1>1. PICK c \in {a, b} : c >= a /\ c >= b
    OBVIOUS
  <1>. QED
    BY <1>1 DEF Max

\* Commit, field by field.
LEMMA CommitFacts ==
    ASSUME NEW res, ResultGood(res), mem' = Commit(res)
    PROVE  /\ DOMAIN mem'.own = DOMAIN res.own \cup DOMAIN mem.own
           /\ mem'.own = [k \in DOMAIN mem'.own |-> mem'.own[k]]
           /\ \A k \in DOMAIN res.own : mem'.own[k] = res.own[k]
           /\ \A k \in DOMAIN mem.own : k \notin DOMAIN res.own => mem'.own[k] = mem.own[k]
           /\ DOMAIN mem'.state = DOMAIN res.sess \cup res.gone \cup DOMAIN mem.state
           /\ mem'.state = [s \in DOMAIN mem'.state |-> mem'.state[s]]
           /\ \A s \in DOMAIN res.sess : mem'.state[s] = res.sess[s].state
           /\ \A s \in res.gone : s \notin DOMAIN res.sess => mem'.state[s] = "completed"
           /\ \A s \in DOMAIN mem.state : s \notin DOMAIN res.sess \cup res.gone => mem'.state[s] = mem.state[s]
           /\ DOMAIN mem'.root = DOMAIN res.sess \cup DOMAIN mem.root
           /\ mem'.root = [s \in DOMAIN mem'.root |-> mem'.root[s]]
           /\ \A s \in DOMAIN res.sess : mem'.root[s] = res.sess[s].root
           /\ \A s \in DOMAIN mem.root : s \notin DOMAIN res.sess => mem'.root[s] = mem.root[s]
           /\ mem'.native = mem.native \cup (DOMAIN res.sess \cap Natives)
  <1>1. PICK f1, f2, f3 : /\ f1 = [s \in DOMAIN res.sess |-> res.sess[s].state]
                          /\ f2 = [s \in res.gone |-> "completed"]
                          /\ f3 = [s \in DOMAIN res.sess |-> res.sess[s].root]
    OBVIOUS
  <1>2. mem' = [own |-> Over(res.own, mem.own), state |-> Over(f1, Over(f2, mem.state)),
                root |-> Over(f3, mem.root), native |-> mem.native \cup (DOMAIN res.sess \cap Natives)]
    BY <1>1 DEF Commit
  <1>3. /\ mem'.own = Over(res.own, mem.own) /\ mem'.state = Over(f1, Over(f2, mem.state))
        /\ mem'.root = Over(f3, mem.root) /\ mem'.native = mem.native \cup (DOMAIN res.sess \cap Natives)
    BY <1>2
  <1>4. /\ DOMAIN f1 = DOMAIN res.sess /\ \A s \in DOMAIN res.sess : f1[s] = res.sess[s].state
        /\ DOMAIN f2 = res.gone /\ \A s \in res.gone : f2[s] = "completed"
        /\ DOMAIN f3 = DOMAIN res.sess /\ \A s \in DOMAIN res.sess : f3[s] = res.sess[s].root
    BY <1>1
  <1>5. /\ DOMAIN mem'.own = DOMAIN res.own \cup DOMAIN mem.own
        /\ mem'.own = [k \in DOMAIN mem'.own |-> mem'.own[k]]
        /\ \A k \in DOMAIN res.own : mem'.own[k] = res.own[k]
        /\ \A k \in DOMAIN mem.own : k \notin DOMAIN res.own => mem'.own[k] = mem.own[k]
    <2>1. IsOver(mem'.own, res.own, mem.own)
      BY <1>3, OverFacts, Zenon
    <2>. QED
      BY <1>3, <2>1 DEF IsOver
  <1>6. /\ DOMAIN mem'.root = DOMAIN res.sess \cup DOMAIN mem.root
        /\ mem'.root = [s \in DOMAIN mem'.root |-> mem'.root[s]]
        /\ \A s \in DOMAIN res.sess : mem'.root[s] = res.sess[s].root
        /\ \A s \in DOMAIN mem.root : s \notin DOMAIN res.sess => mem'.root[s] = mem.root[s]
    <2>1. IsOver(mem'.root, f3, mem.root)
      BY <1>3, <1>4, OverFacts, Zenon
    <2>. QED
      BY <1>3, <1>4, <2>1 DEF IsOver
  <1>7. PICK f4 : f4 = Over(f2, mem.state)
    OBVIOUS
  <1>8. /\ DOMAIN f4 = res.gone \cup DOMAIN mem.state /\ \A s \in res.gone : f4[s] = "completed"
        /\ \A s \in DOMAIN mem.state : s \notin res.gone => f4[s] = mem.state[s]
    <2>1. IsOver(f4, f2, mem.state)
      BY <1>4, <1>7, OverFacts, Zenon
    <2>. QED
      BY <1>4, <1>7, <2>1 DEF IsOver
  <1>9. mem'.state = Over(f1, f4)
    BY <1>3, <1>7
  <1>10. /\ DOMAIN mem'.state = DOMAIN f1 \cup DOMAIN f4
         /\ mem'.state = [s \in DOMAIN mem'.state |-> mem'.state[s]]
         /\ \A s \in DOMAIN f1 : mem'.state[s] = f1[s]
         /\ \A s \in DOMAIN f4 : s \notin DOMAIN f1 => mem'.state[s] = f4[s]
    <2>1. IsOver(mem'.state, f1, f4)
      BY <1>9, OverFacts, Zenon
    <2>. QED
      BY <1>9, <2>1 DEF IsOver
  <1>11. /\ DOMAIN mem'.state = DOMAIN res.sess \cup res.gone \cup DOMAIN mem.state
         /\ \A s \in DOMAIN res.sess : mem'.state[s] = res.sess[s].state
         /\ \A s \in res.gone : s \notin DOMAIN res.sess => mem'.state[s] = "completed"
         /\ \A s \in DOMAIN mem.state : s \notin DOMAIN res.sess \cup res.gone => mem'.state[s] = mem.state[s]
    BY <1>4, <1>8, <1>10
  <1>. QED
    BY <1>3, <1>5, <1>6, <1>10, <1>11

\* The sessions that get an audit entry and the ownership rows that are written.
Changed(res) == {s \in DOMAIN res.sess : MemState(s) # res.sess[s].state} \cup res.gone
Linked(res) == {<<res.own[k].session, k>> : k \in DOMAIN res.own}

\* Persist, table by table, and the audit entries of the same transaction.
SessWritten(res) ==
    /\ DOMAIN db'.sess = DOMAIN res.sess \cup DOMAIN db.sess
    /\ db'.sess = [s \in DOMAIN db'.sess |-> db'.sess[s]]
    /\ \A s \in DOMAIN res.sess : db'.sess[s] = UpsertSession(s, res.sess[s])
    /\ \A s \in DOMAIN db.sess : s \notin DOMAIN res.sess =>
          db'.sess[s] = IF s \in res.gone THEN EndSession(db.sess[s]) ELSE db.sess[s]
OwnWritten(res) ==
    /\ DOMAIN db'.own = Linked(res) \cup DOMAIN db.own
    /\ db'.own = [l \in DOMAIN db'.own |-> db'.own[l]]
    /\ \A l \in Linked(res) : db'.own[l] = UpsertOwnership(Row(db.own, l), res.own[l[2]])
    /\ \A l \in DOMAIN db.own : l \notin Linked(res) => db'.own[l] = db.own[l]
ProcsWritten(res) ==
    /\ DOMAIN db'.procs = DOMAIN res.own \cup DOMAIN db.procs
    /\ \A k \in DOMAIN res.own : db'.procs[k] = None
    /\ \A k \in DOMAIN db.procs : k \notin DOMAIN res.own =>
          db'.procs[k] = IF db.procs[k] = None THEN now ELSE db.procs[k]
AuditWritten(res) ==
    /\ DOMAIN told' = Changed(res) \cup DOMAIN told
    /\ \A s \in Changed(res) : told'[s] = IF s \in res.gone THEN "completed" ELSE res.sess[s].state
    /\ \A s \in DOMAIN told : s \notin Changed(res) => told'[s] = told[s]

\* A persisted result is written to the three tables.
LEMMA PersistFacts ==
    ASSUME NEW res, ResultGood(res), db' = Persist(res)
    PROVE  /\ db' = [sess |-> db'.sess, own |-> db'.own, procs |-> db'.procs]
           /\ SessWritten(res) /\ OwnWritten(res) /\ ProcsWritten(res)
  <1>1. PICK links : links = Linked(res)
    OBVIOUS
  <1>2. PICK f1, f2, f3, f4, sess1 :
          /\ f1 = [s \in DOMAIN res.sess |-> UpsertSession(s, res.sess[s])]
          /\ f2 = [l \in links |-> UpsertOwnership(Row(db.own, l), res.own[l[2]])]
          /\ f3 = [k \in DOMAIN res.own |-> None]
          /\ f4 = [k \in DOMAIN db.procs |-> IF db.procs[k] = None THEN now ELSE db.procs[k]]
          /\ sess1 = Over(f1, db.sess)
    BY Zenon
  <1>3. db' = [sess |-> [s \in DOMAIN sess1 |-> IF s \in res.gone THEN EndSession(sess1[s]) ELSE sess1[s]],
               own |-> Over(f2, db.own), procs |-> Over(f3, f4)]
    BY <1>1, <1>2, Zenon DEF Persist, Linked
  <1>4. /\ db' = [sess |-> db'.sess, own |-> db'.own, procs |-> db'.procs]
        /\ db'.sess = [s \in DOMAIN sess1 |-> IF s \in res.gone THEN EndSession(sess1[s]) ELSE sess1[s]]
    BY <1>3
  <1>5. db'.own = Over(f2, db.own)
    BY <1>3
  <1>6. db'.procs = Over(f3, f4)
    BY <1>3
  <1>8. \A s \in res.gone : s \notin DOMAIN res.sess
    BY DEF ResultGood, EndDepartedSessions
  <1>9. /\ DOMAIN f1 = DOMAIN res.sess /\ \A s \in DOMAIN res.sess : f1[s] = UpsertSession(s, res.sess[s])
    BY <1>2
  <1>10. DOMAIN f2 = links /\ \A l \in links : f2[l] = UpsertOwnership(Row(db.own, l), res.own[l[2]])
    BY <1>2
  <1>11. /\ DOMAIN f3 = DOMAIN res.own /\ \A k \in DOMAIN res.own : f3[k] = None
         /\ DOMAIN f4 = DOMAIN db.procs
         /\ \A k \in DOMAIN db.procs : f4[k] = IF db.procs[k] = None THEN now ELSE db.procs[k]
    BY <1>2
  <1>13. /\ DOMAIN sess1 = DOMAIN res.sess \cup DOMAIN db.sess
         /\ \A s \in DOMAIN res.sess : sess1[s] = UpsertSession(s, res.sess[s])
         /\ \A s \in DOMAIN db.sess : s \notin DOMAIN res.sess => sess1[s] = db.sess[s]
    <2>1. IsOver(sess1, f1, db.sess)
      BY <1>2, <1>9, OverFacts, Zenon
    <2>. QED
      BY <1>2, <1>9, <2>1 DEF IsOver
  <1>14. /\ DOMAIN db'.sess = DOMAIN res.sess \cup DOMAIN db.sess
         /\ db'.sess = [s \in DOMAIN db'.sess |-> db'.sess[s]]
         /\ \A s \in DOMAIN res.sess : db'.sess[s] = UpsertSession(s, res.sess[s])
         /\ \A s \in DOMAIN db.sess : s \notin DOMAIN res.sess =>
                 db'.sess[s] = IF s \in res.gone THEN EndSession(db.sess[s]) ELSE db.sess[s]
    <2>1. db'.sess = [s \in DOMAIN sess1 |-> IF s \in res.gone THEN EndSession(sess1[s]) ELSE sess1[s]]
      BY <1>4
    <2>2. db'.sess = [s \in DOMAIN db'.sess |-> db'.sess[s]]
      BY <2>1
    <2>3. /\ DOMAIN db'.sess = DOMAIN sess1
          /\ \A s \in DOMAIN sess1 : db'.sess[s] = IF s \in res.gone THEN EndSession(sess1[s]) ELSE sess1[s]
      BY <2>1
    <2>4. DOMAIN db'.sess = DOMAIN res.sess \cup DOMAIN db.sess
      BY <1>13, <2>3
    <2>5. ASSUME NEW s \in DOMAIN res.sess PROVE db'.sess[s] = UpsertSession(s, res.sess[s])
      <3>1. s \in DOMAIN sess1 /\ s \notin res.gone /\ sess1[s] = UpsertSession(s, res.sess[s])
        BY <1>8, <1>13
      <3>. QED
        BY <2>3, <3>1
    <2>6. ASSUME NEW s \in DOMAIN db.sess, s \notin DOMAIN res.sess
          PROVE  db'.sess[s] = IF s \in res.gone THEN EndSession(db.sess[s]) ELSE db.sess[s]
      <3>1. s \in DOMAIN sess1 /\ sess1[s] = db.sess[s]
        BY <1>13, <2>6
      <3>. QED
        BY <2>3, <3>1
    <2>. QED
      BY <2>2, <2>4, <2>5, <2>6, Zenon
  <1>15. /\ DOMAIN db'.own = links \cup DOMAIN db.own
         /\ db'.own = [l \in DOMAIN db'.own |-> db'.own[l]]
         /\ \A l \in links : db'.own[l] = UpsertOwnership(Row(db.own, l), res.own[l[2]])
         /\ \A l \in DOMAIN db.own : l \notin links => db'.own[l] = db.own[l]
    <2>1. IsOver(db'.own, f2, db.own)
      BY <1>5, OverFacts, Zenon
    <2>. QED
      BY <1>10, <2>1 DEF IsOver
  <1>16. /\ DOMAIN db'.procs = DOMAIN res.own \cup DOMAIN db.procs
         /\ \A k \in DOMAIN res.own : db'.procs[k] = None
         /\ \A k \in DOMAIN db.procs : k \notin DOMAIN res.own =>
                 db'.procs[k] = IF db.procs[k] = None THEN now ELSE db.procs[k]
    <2>1. IsOver(db'.procs, f3, f4)
      BY <1>6, OverFacts, Zenon
    <2>. QED
      BY <1>11, <2>1 DEF IsOver
  <1>18. SessWritten(res)
    BY <1>1, <1>14, Zenon DEF SessWritten
  <1>19. OwnWritten(res)
    BY <1>1, <1>15, Zenon DEF OwnWritten
  <1>20. ProcsWritten(res)
    BY <1>1, <1>16, Zenon DEF ProcsWritten
  <1>. QED
    BY <1>4, <1>18, <1>19, <1>20, Zenon

\* The audit entries of a persisted result.
LEMMA AuditedFacts ==
    ASSUME NEW res, told' = Audited(res)
    PROVE  AuditWritten(res)
  <1>1. PICK changed : changed = Changed(res)
    OBVIOUS
  <1>2. PICK f : f = [s \in changed |-> IF s \in res.gone THEN "completed" ELSE res.sess[s].state]
    BY Zenon
  <1>3. told' = Over(f, told)
    BY <1>1, <1>2, Zenon DEF Audited, Changed
  <1>4. DOMAIN f = changed /\ \A s \in changed : f[s] = IF s \in res.gone THEN "completed" ELSE res.sess[s].state
    BY <1>2
  <1>5. IsOver(told', f, told)
    BY <1>3, OverFacts, Zenon
  <1>6. /\ DOMAIN told' = changed \cup DOMAIN told
        /\ \A s \in changed : told'[s] = IF s \in res.gone THEN "completed" ELSE res.sess[s].state
        /\ \A s \in DOMAIN told : s \notin changed => told'[s] = told[s]
    BY <1>4, <1>5 DEF IsOver
  <1>. QED
    BY <1>1, <1>6, Zenon DEF AuditWritten

\* What a committed cycle with result res does.
Cycle(res) ==
    /\ ResultGood(res) /\ mem' = Commit(res) /\ db' = Persist(res) /\ told' = Audited(res)
    /\ last' = [present |-> AliveKeys, owned |-> DOMAIN res.own]
    /\ truth'.lineage = (truth.lineage \cup res.lineage) \cap AliveKeys
    /\ os' = os /\ rollout' = rollout /\ now' = now

\* It leaves the machine alone.
LEMMA CycleMachine ==
    ASSUME MachineOK, NEW res, Cycle(res)
    PROVE  /\ MachineOK' /\ AliveKeys' = AliveKeys /\ \A k : Alive(k)' <=> Alive(k)
  BY DEF Cycle, MachineOK, AliveKeys, Alive, KeyOf

\* The keys of living processes.
LEMMA ListedKeys ==
    ASSUME MachineOK, NEW k \in AliveKeys
    PROVE  k \in Keys /\ Alive(k) /\ Taken(k)
  <1>1. PICK p \in DOMAIN os : k = KeyOf(os, p)
    BY DEF AliveKeys
  <1>2. k \in Keys /\ Alive(k) /\ k[2] = os[p].start
    BY <1>1, KeyFacts
  <1>3. os[p].start <= now
    BY DEF MachineOK
  <1>. QED
    BY <1>2, <1>3 DEF Taken

\* Memory keeps its shape.
LEMMA CycleMem ==
    ASSUME MachineOK, MemOK, NEW res, Cycle(res)
    PROVE  MemOK'
  <1>1. ResultGood(res) /\ mem' = Commit(res)
    BY DEF Cycle
  <1>2. /\ DOMAIN res.own \subseteq Keys /\ \A k \in DOMAIN res.own : res.own[k] \in OwnType
    BY <1>1, ListedKeys DEF ResultGood, OwnGood
  <1>3. \A s \in DOMAIN res.sess : res.sess[s] \in SessType
    BY <1>1 DEF ResultGood, SessGood
  <1>4. \A s \in DOMAIN res.sess : res.sess[s].state \in States /\ res.sess[s].root \in Keys
    BY <1>3 DEF SessType
  <1>5. res.gone \subseteq DOMAIN mem.root
    BY <1>1 DEF ResultGood, EndDepartedSessions
  <1>6. /\ DOMAIN mem'.own = DOMAIN res.own \cup DOMAIN mem.own
        /\ mem'.own = [k \in DOMAIN mem'.own |-> mem'.own[k]]
        /\ \A k \in DOMAIN res.own : mem'.own[k] = res.own[k]
        /\ \A k \in DOMAIN mem.own : k \notin DOMAIN res.own => mem'.own[k] = mem.own[k]
    BY <1>1, CommitFacts
  <1>7. /\ DOMAIN mem'.state = DOMAIN res.sess \cup res.gone \cup DOMAIN mem.state
        /\ mem'.state = [s \in DOMAIN mem'.state |-> mem'.state[s]]
        /\ \A s \in DOMAIN res.sess : mem'.state[s] = res.sess[s].state
        /\ \A s \in res.gone : s \notin DOMAIN res.sess => mem'.state[s] = "completed"
        /\ \A s \in DOMAIN mem.state : s \notin DOMAIN res.sess \cup res.gone => mem'.state[s] = mem.state[s]
    BY <1>1, CommitFacts
  <1>8. /\ DOMAIN mem'.root = DOMAIN res.sess \cup DOMAIN mem.root
        /\ mem'.root = [s \in DOMAIN mem'.root |-> mem'.root[s]]
        /\ \A s \in DOMAIN res.sess : mem'.root[s] = res.sess[s].root
        /\ \A s \in DOMAIN mem.root : s \notin DOMAIN res.sess => mem'.root[s] = mem.root[s]
        /\ mem'.native = mem.native \cup (DOMAIN res.sess \cap Natives)
    BY <1>1, CommitFacts
  <1>9. DOMAIN mem'.own \subseteq Keys /\ mem'.own \in [DOMAIN mem'.own -> OwnType]
    <2>1. \A k \in DOMAIN mem'.own : k \in Keys /\ mem'.own[k] \in OwnType
      BY <1>2, <1>6 DEF MemOK
    <2>2. PICK o : o = mem'.own
      OBVIOUS
    <2>3. o = [k \in DOMAIN o |-> o[k]]
      BY <1>6, <2>2
    <2>. QED
      BY <2>1, <2>2, <2>3
  <1>10. mem'.state \in [DOMAIN mem'.state -> States]
    <2>1. \A s \in DOMAIN mem'.state : mem'.state[s] \in States
      BY <1>4, <1>7 DEF MemOK, States
    <2>2. PICK o : o = mem'.state
      OBVIOUS
    <2>3. o = [k \in DOMAIN o |-> o[k]]
      BY <1>7, <2>2
    <2>. QED
      BY <2>1, <2>2, <2>3
  <1>11. mem'.root \in [DOMAIN mem'.root -> Keys]
    <2>1. \A s \in DOMAIN mem'.root : mem'.root[s] \in Keys
      BY <1>4, <1>8 DEF MemOK
    <2>2. PICK o : o = mem'.root
      OBVIOUS
    <2>3. o = [k \in DOMAIN o |-> o[k]]
      BY <1>8, <2>2
    <2>. QED
      BY <2>1, <2>2, <2>3
  <1>12. DOMAIN mem'.state \subseteq DOMAIN mem'.root /\ mem'.native \subseteq Natives
    BY <1>5, <1>7, <1>8 DEF MemOK
  <1>. QED
    BY <1>9, <1>10, <1>11, <1>12 DEF MemOK

\* Rows keep their shape.
LEMMA RowShapes ==
    ASSUME now \in Nat, NEW s, NEW rec \in SessType, s \in DOMAIN db.sess => db.sess[s] \in SessType
    PROVE  /\ UpsertSession(s, rec) \in SessType
           /\ UpsertSession(s, rec).state = rec.state /\ UpsertSession(s, rec).ended = rec.ended
           /\ EndSession(rec) \in SessType /\ EndSession(rec).state = "completed" /\ EndSession(rec).ended # None
  <1>1. rec = [state |-> rec.state, root |-> rec.root, ended |-> rec.ended]
        /\ rec.state \in States /\ rec.root \in Keys /\ rec.ended \in Nat \cup {None}
    BY DEF SessType
  <1>2. UpsertSession(s, rec) \in SessType
        /\ UpsertSession(s, rec).state = rec.state /\ UpsertSession(s, rec).ended = rec.ended
    <2>1. PICK u : u = UpsertSession(s, rec)
      OBVIOUS
    <2>2. CASE s \in DOMAIN db.sess
      <3>1. db.sess[s].root \in Keys
        BY <2>2 DEF SessType
      <3>2. u = [rec EXCEPT !.root = db.sess[s].root]
        BY <2>1, <2>2 DEF UpsertSession
      <3>3. u = [state |-> rec.state, root |-> db.sess[s].root, ended |-> rec.ended]
        BY <1>1, <3>2
      <3>. QED
        BY <1>1, <2>1, <3>1, <3>3 DEF SessType
    <2>3. CASE s \notin DOMAIN db.sess
      BY <2>3 DEF UpsertSession
    <2>. QED
      BY <2>2, <2>3
  <1>3. EndSession(rec) \in SessType /\ EndSession(rec).state = "completed" /\ EndSession(rec).ended # None
    <2>1. PICK e \in Nat : e = IF rec.ended = None THEN now ELSE rec.ended
      BY <1>1
    <2>2. PICK u : u = EndSession(rec)
      OBVIOUS
    <2>3. u = [rec EXCEPT !.state = "completed", !.ended = e]
      BY <2>1, <2>2 DEF EndSession
    <2>4. u = [state |-> "completed", root |-> rec.root, ended |-> e]
      BY <1>1, <2>3
    <2>5. e # None
      BY SessionsAssumption
    <2>. QED
      BY <1>1, <2>2, <2>4, <2>5 DEF SessType, States
  <1>. QED
    BY <1>2, <1>3

\* An ownership row after an upsert: written from the record, or the old one
\* with the parent it had and the confidence of one of the two.
LEMMA UpsertFacts ==
    ASSUME NEW row, NEW rec \in OwnType, row = None \/ row \in RowType, NEW u, u = UpsertOwnership(row, rec)
    PROVE  /\ u \in RowType
           /\ \/ u.parent = rec.parent /\ u.observed = rec.observed /\ u.conf = rec.conf
              \/ /\ row # None /\ row \in RowType /\ u.parent = row.parent /\ u.observed = row.observed
                 /\ u.conf = row.conf \/ u.conf = rec.conf
  <1>1. rec.rel \in Rels /\ rec.conf \in Confs /\ rec.parent \in PidSet /\ rec.observed \in BOOLEAN
    BY DEF OwnType
  <1>2. CASE row = None
    <2>1. u = [rel |-> rec.rel, conf |-> rec.conf, parent |-> rec.parent, observed |-> rec.observed]
      BY <1>2 DEF UpsertOwnership
    <2>. QED
      BY <1>1, <2>1 DEF RowType
  <1>3. CASE row # None
    <2>1. /\ row = [rel |-> row.rel, conf |-> row.conf, parent |-> row.parent, observed |-> row.observed]
          /\ row.rel \in Rels /\ row.conf \in Confs /\ row.parent \in PidSet /\ row.observed \in BOOLEAN
      BY <1>3 DEF RowType
    <2>2. row.conf \in Nat /\ rec.conf \in Nat
      BY <1>1, <2>1 DEF Confs, ConfIdentity, ConfidenceEnvironmentMembership, ConfNamed
    <2>3. PICK c \in Confs : c = Max({row.conf, rec.conf}) /\ (c = row.conf \/ c = rec.conf)
      BY <1>1, <2>1, <2>2, MaxOfTwo
    <2>4. PICK r \in Rels : r = IF row.rel = "root" THEN "root" ELSE rec.rel
      BY <1>1, <2>1
    <2>5. u = [row EXCEPT !.rel = r, !.conf = c]
      BY <1>3, <2>3, <2>4 DEF UpsertOwnership
    <2>6. u = [rel |-> r, conf |-> c, parent |-> row.parent, observed |-> row.observed]
      BY <2>1, <2>5
    <2>. QED
      BY <1>3, <2>1, <2>3, <2>6 DEF RowType
  <1>. QED
    BY <1>2, <1>3

\* The links a cycle writes, and the row it leaves for each.
LEMMA LinkFacts ==
    ASSUME MachineOK, DbOK, NEW res, Cycle(res), NEW l \in DOMAIN db'.own
    PROVE  /\ db'.own[l] \in RowType /\ l \in Sids \X Keys /\ l[2] \in DOMAIN res.own \cup DOMAIN db.procs
           /\ l[2] \in DOMAIN res.own \/ l \in DOMAIN db.own
           /\ \/ /\ l[2] \in DOMAIN res.own
                 /\ db'.own[l].parent = res.own[l[2]].parent /\ db'.own[l].observed = res.own[l[2]].observed
              \/ /\ l \in DOMAIN db.own
                 /\ db'.own[l].parent = db.own[l].parent /\ db'.own[l].observed = db.own[l].observed
           /\ \/ l[2] \in DOMAIN res.own /\ db'.own[l].conf = res.own[l[2]].conf
              \/ l \in DOMAIN db.own /\ db'.own[l].conf = db.own[l].conf
  <1>1. ResultGood(res) /\ db' = Persist(res)
    BY DEF Cycle
  <1>2. PICK changed, links : changed = Changed(res) /\ links = Linked(res)
    OBVIOUS
  <1>3. /\ DOMAIN db'.own = links \cup DOMAIN db.own
        /\ \A x \in links : db'.own[x] = UpsertOwnership(Row(db.own, x), res.own[x[2]])
        /\ \A x \in DOMAIN db.own : x \notin links => db'.own[x] = db.own[x]
    BY <1>1, <1>2, PersistFacts, Zenon DEF OwnWritten
  <1>4. CASE l \in links
    <2>1. PICK k \in DOMAIN res.own : l = <<res.own[k].session, k>>
      BY <1>2, <1>4 DEF Linked
    <2>2. l[2] = k /\ res.own[k] \in OwnType /\ k \in Keys
      BY <1>1, <2>1, ListedKeys DEF ResultGood, OwnGood
    <2>3. l \in Sids \X Keys
      BY <2>1, <2>2 DEF OwnType
    <2>4. PICK row : row = Row(db.own, l)
      OBVIOUS
    <2>5. row = None \/ (l \in DOMAIN db.own /\ row = db.own[l])
      BY <2>4 DEF Row
    <2>6. row = None \/ row \in RowType
      BY <2>5 DEF DbOK
    <2>7. PICK u : u = db'.own[l] /\ u = UpsertOwnership(row, res.own[k])
      BY <1>3, <1>4, <2>2, <2>4
    <2>8. /\ u \in RowType
          /\ \/ u.parent = res.own[k].parent /\ u.observed = res.own[k].observed /\ u.conf = res.own[k].conf
             \/ /\ row # None /\ row \in RowType /\ u.parent = row.parent /\ u.observed = row.observed
                /\ u.conf = row.conf \/ u.conf = res.own[k].conf
      BY <2>2, <2>6, <2>7, UpsertFacts
    <2>. QED
      BY <2>2, <2>3, <2>5, <2>7, <2>8
  <1>5. CASE l \notin links
    <2>1. l \in DOMAIN db.own /\ db'.own[l] = db.own[l]
      BY <1>3, <1>5
    <2>2. db.own[l] \in RowType /\ l \in Sids \X Keys /\ l[2] \in DOMAIN db.procs
      BY <2>1 DEF DbOK
    <2>. QED
      BY <2>1, <2>2
  <1>. QED
    BY <1>4, <1>5

\* The tables keep their shape.
LEMMA CycleDb ==
    ASSUME MachineOK, DbOK, NEW res, Cycle(res)
    PROVE  DbOK'
  <1>1. ResultGood(res) /\ db' = Persist(res)
    BY DEF Cycle
  <1>2. db' = [sess |-> db'.sess, own |-> db'.own, procs |-> db'.procs]
    BY <1>1, PersistFacts, Zenon
  <1>3. db'.sess \in [DOMAIN db'.sess -> SessType]
    <2>1. /\ DOMAIN db'.sess = DOMAIN res.sess \cup DOMAIN db.sess
          /\ db'.sess = [s \in DOMAIN db'.sess |-> db'.sess[s]]
          /\ \A s \in DOMAIN res.sess : db'.sess[s] = UpsertSession(s, res.sess[s])
          /\ \A s \in DOMAIN db.sess : s \notin DOMAIN res.sess =>
                db'.sess[s] = IF s \in res.gone THEN EndSession(db.sess[s]) ELSE db.sess[s]
      BY <1>1, PersistFacts, Zenon DEF SessWritten
    <2>2. now \in Nat /\ \A s \in DOMAIN db.sess : db.sess[s] \in SessType
      BY DEF MachineOK, DbOK
    <2>3. \A s \in DOMAIN res.sess : res.sess[s] \in SessType
      BY <1>1 DEF ResultGood, SessGood
    <2>4. \A s \in DOMAIN res.sess : UpsertSession(s, res.sess[s]) \in SessType
      BY <2>2, <2>3, RowShapes
    <2>5. \A s \in DOMAIN db.sess : EndSession(db.sess[s]) \in SessType
      BY <2>2, RowShapes
    <2>6. \A s \in DOMAIN db'.sess : db'.sess[s] \in SessType
      BY <2>1, <2>2, <2>4, <2>5
    <2>7. PICK o : o = db'.sess
      OBVIOUS
    <2>8. o = [s \in DOMAIN o |-> o[s]]
      BY <2>1, <2>7
    <2>. QED
      BY <2>6, <2>7, <2>8
  <1>4. DOMAIN db'.own \subseteq Sids \X Keys /\ db'.own \in [DOMAIN db'.own -> RowType]
    <2>1. \A l \in DOMAIN db'.own : db'.own[l] \in RowType /\ l \in Sids \X Keys
      BY LinkFacts
    <2>2. PICK o : o = db'.own
      OBVIOUS
    <2>3. o = [l \in DOMAIN o |-> o[l]]
      <3>1. db'.own = [l \in DOMAIN db'.own |-> db'.own[l]]
        BY <1>1, PersistFacts, Zenon DEF OwnWritten
      <3>. QED
        BY <2>2, <3>1
    <2>. QED
      BY <2>1, <2>2, <2>3
  <1>5. DOMAIN db'.procs = DOMAIN res.own \cup DOMAIN db.procs
    BY <1>1, PersistFacts, Zenon DEF ProcsWritten
  <1>6. DOMAIN db'.procs \subseteq Keys
    BY <1>1, <1>5, ListedKeys DEF ResultGood, DbOK
  <1>7. \A l \in DOMAIN db'.own : l[2] \in DOMAIN db'.procs
    BY <1>5, LinkFacts
  <1>. QED
    BY <1>2, <1>3, <1>4, <1>6, <1>7 DEF DbOK

\* The keys the daemon knows stay out of reach of the processes to be born.
LEMMA CycleKeys ==
    ASSUME MachineOK, KeysOK, NEW res, Cycle(res)
    PROVE  KeysOK'
  <1>1. ResultGood(res) /\ mem' = Commit(res) /\ db' = Persist(res) /\ now' = now
    BY DEF Cycle
  <1>2. DOMAIN mem'.own = DOMAIN res.own \cup DOMAIN mem.own
    BY <1>1, CommitFacts
  <1>3. DOMAIN db'.procs = DOMAIN res.own \cup DOMAIN db.procs
    BY <1>1, PersistFacts, Zenon DEF ProcsWritten
  <1>4. \A k \in DOMAIN res.own : Taken(k)
    BY <1>1, ListedKeys DEF ResultGood
  <1>5. \A k : Taken(k) => Taken(k)'
    BY <1>1, CycleMachine DEF Taken
  <1>. QED
    BY <1>2, <1>3, <1>4, <1>5 DEF KeysOK

\* Memory, rows and audit go on telling one story.
LEMMA CycleStore ==
    ASSUME MachineOK, MemOK, DbOK, StoreInv, NEW res, Cycle(res)
    PROVE  StoreInv'
  <1>1. ResultGood(res) /\ mem' = Commit(res) /\ db' = Persist(res) /\ told' = Audited(res)
    BY DEF Cycle
  <1>2. PICK changed : changed = Changed(res)
    OBVIOUS
  <1>3. /\ DOMAIN mem'.state = DOMAIN res.sess \cup res.gone \cup DOMAIN mem.state
        /\ \A s \in DOMAIN res.sess : mem'.state[s] = res.sess[s].state
        /\ \A s \in res.gone : s \notin DOMAIN res.sess => mem'.state[s] = "completed"
        /\ \A s \in DOMAIN mem.state : s \notin DOMAIN res.sess \cup res.gone => mem'.state[s] = mem.state[s]
    BY <1>1, CommitFacts
  <1>4. /\ DOMAIN db'.sess = DOMAIN res.sess \cup DOMAIN db.sess
        /\ \A s \in DOMAIN res.sess : db'.sess[s] = UpsertSession(s, res.sess[s])
        /\ \A s \in DOMAIN db.sess : s \notin DOMAIN res.sess =>
              db'.sess[s] = IF s \in res.gone THEN EndSession(db.sess[s]) ELSE db.sess[s]
    BY <1>1, PersistFacts, Zenon DEF SessWritten
  <1>5. /\ DOMAIN told' = changed \cup DOMAIN told
        /\ \A s \in changed : told'[s] = IF s \in res.gone THEN "completed" ELSE res.sess[s].state
        /\ \A s \in DOMAIN told : s \notin changed => told'[s] = told[s]
    BY <1>1, <1>2, AuditedFacts, Zenon DEF AuditWritten
  <1>6. now \in Nat /\ (\A s \in DOMAIN db.sess : db.sess[s] \in SessType) /\ None \notin States
    BY SessionsAssumption DEF MachineOK, DbOK, States
  <1>7. \A s \in DOMAIN res.sess : res.sess[s] \in SessType /\ (res.sess[s].ended = None <=> Live(res.sess[s].state))
    BY <1>1 DEF ResultGood, SessGood
  <1>8. \A s \in res.gone : s \notin DOMAIN res.sess /\ Live(MemState(s))
    BY <1>1 DEF ResultGood, EndDepartedSessions
  <1>. DEFINE Told(s) == /\ s \in DOMAIN told'
                         /\ s \in DOMAIN db'.sess => told'[s] = db'.sess[s].state
                                                     /\ (db'.sess[s].ended = None <=> Live(db'.sess[s].state))
                         /\ s \in DOMAIN mem'.state => /\ told'[s] = mem'.state[s]
                                                       /\ s \in DOMAIN db'.sess \/ ~Live(mem'.state[s])
  <1>9. ASSUME NEW s \in DOMAIN res.sess PROVE Told(s)
    <2>1. s \notin res.gone /\ s \in DOMAIN db'.sess /\ mem'.state[s] = res.sess[s].state
      BY <1>3, <1>4, <1>8
    <2>2. /\ db'.sess[s] = UpsertSession(s, res.sess[s])
          /\ UpsertSession(s, res.sess[s]).state = res.sess[s].state
          /\ UpsertSession(s, res.sess[s]).ended = res.sess[s].ended
      BY <1>4, <1>6, <1>7, RowShapes
    <2>3. s \in DOMAIN told' /\ told'[s] = res.sess[s].state
      <3>1. CASE s \in changed
        BY <1>5, <2>1, <3>1
      <3>2. CASE s \notin changed
        <4>1. MemState(s) = res.sess[s].state
          BY <1>2, <3>2 DEF Changed
        <4>2. res.sess[s].state \in States
          BY <1>7 DEF SessType
        <4>3. s \in DOMAIN mem.state /\ mem.state[s] = res.sess[s].state
          BY <1>6, <4>1, <4>2 DEF MemState
        <4>4. s \in DOMAIN told /\ told[s] = mem.state[s]
          BY <4>3 DEF StoreInv
        <4>. QED
          BY <1>5, <3>2, <4>3, <4>4
      <3>. QED
        BY <3>1, <3>2
    <2>. QED
      BY <1>7, <2>1, <2>2, <2>3
  <1>10. ASSUME NEW s \in res.gone PROVE Told(s)
    <2>1. s \notin DOMAIN res.sess /\ mem'.state[s] = "completed"
      BY <1>3, <1>8
    <2>2. s \in DOMAIN mem.state /\ Live(mem.state[s])
      BY <1>8, SessionsAssumption DEF MemState, Live
    <2>3. s \in DOMAIN db.sess
      BY <2>2 DEF StoreInv, StoreAgrees
    <2>4. s \in DOMAIN db'.sess /\ db'.sess[s] = EndSession(db.sess[s])
      BY <1>4, <2>1, <2>3
    <2>5. EndSession(db.sess[s]).state = "completed" /\ EndSession(db.sess[s]).ended # None
      BY <1>6, <2>3, RowShapes
    <2>6. s \in DOMAIN told' /\ told'[s] = "completed"
      BY <1>2, <1>5 DEF Changed
    <2>. QED
      BY <2>1, <2>4, <2>5, <2>6 DEF Live
  <1>11. ASSUME NEW s \in DOMAIN db'.sess \cup DOMAIN mem'.state, s \notin DOMAIN res.sess \cup res.gone PROVE Told(s)
    <2>1. s \in DOMAIN db.sess \cup DOMAIN mem.state /\ s \notin changed
      BY <1>2, <1>3, <1>4, <1>11 DEF Changed
    <2>2. s \in DOMAIN told
      BY <2>1 DEF StoreInv
    <2>3. s \in DOMAIN told' /\ told'[s] = told[s]
      BY <1>5, <2>1, <2>2
    <2>4. s \in DOMAIN db'.sess <=> s \in DOMAIN db.sess
      BY <1>4, <1>11
    <2>5. s \in DOMAIN db.sess => db'.sess[s] = db.sess[s]
      BY <1>4, <1>11
    <2>6. s \in DOMAIN mem'.state => s \in DOMAIN mem.state /\ mem'.state[s] = mem.state[s]
      BY <1>3, <1>11
    <2>. QED
      BY <2>3, <2>4, <2>5, <2>6 DEF StoreInv, StoreAgrees
  <1>12. \A s \in DOMAIN db'.sess \cup DOMAIN mem'.state : Told(s)
    <2>. HIDE DEF Told
    <2>. QED
      BY <1>9, <1>10, <1>11
  <1>. QED
    BY <1>12 DEF StoreInv, StoreAgrees

\* The roots of live sessions are in the snapshot, and each session has one.
LEMMA CycleRoots ==
    ASSUME MachineOK, MemOK, NEW res, Cycle(res)
    PROVE  RootsExact'
  <1>1. /\ ResultGood(res) /\ mem' = Commit(res)
        /\ last' = [present |-> AliveKeys, owned |-> DOMAIN res.own]
    BY DEF Cycle
  <1>2. last'.present = AliveKeys /\ last'.owned = DOMAIN res.own
    BY <1>1
  <1>3. \A k \in DOMAIN res.own : mem'.own[k] = res.own[k]
    BY <1>1, CommitFacts
  <1>4. /\ DOMAIN mem'.state = DOMAIN res.sess \cup res.gone \cup DOMAIN mem.state
        /\ \A s \in res.gone : s \notin DOMAIN res.sess => mem'.state[s] = "completed"
        /\ \A s \in DOMAIN mem.state : s \notin DOMAIN res.sess \cup res.gone => mem'.state[s] = mem.state[s]
    BY <1>1, CommitFacts
  <1>5. /\ \A s \in DOMAIN res.sess : mem'.root[s] = res.sess[s].root
        /\ \A s \in DOMAIN mem.root : s \notin DOMAIN res.sess => mem'.root[s] = mem.root[s]
    BY <1>1, CommitFacts
  <1>6. res.gone = EndDepartedSessions(res.sess) /\ \A s \in DOMAIN res.sess : res.sess[s].root \in AliveKeys
    BY <1>1 DEF ResultGood, SessGood
  <1>7. ASSUME NEW s \in DOMAIN mem'.state, Live(mem'.state[s]) PROVE mem'.root[s] \in AliveKeys
    <2>1. CASE s \in DOMAIN res.sess
      BY <1>5, <1>6, <2>1
    <2>2. CASE s \notin DOMAIN res.sess
      <3>1. s \notin res.gone
        BY <1>4, <1>7, <2>2 DEF Live
      <3>2. s \in DOMAIN mem.state /\ mem'.state[s] = mem.state[s]
        BY <1>4, <2>2, <3>1
      <3>3. s \in DOMAIN mem.root /\ MemState(s) = mem.state[s] /\ mem.root[s] \in Keys
        BY <3>2 DEF MemOK, MemState
      <3>4. Alive(mem.root[s])
        BY <1>6, <1>7, <2>2, <3>1, <3>2, <3>3 DEF EndDepartedSessions
      <3>5. mem.root[s] \in AliveKeys
        BY <3>3, <3>4, AliveIsListed
      <3>. QED
        BY <1>5, <2>2, <3>3, <3>5
    <2>. QED
      BY <2>1, <2>2
  <1>8. ASSUME NEW k \in DOMAIN res.own, NEW m \in DOMAIN res.own, mem'.own[k].rel = "root", mem'.own[m].rel = "root",
               mem'.own[k].session = mem'.own[m].session
        PROVE  k = m
    <2>1. mem'.own[k] = res.own[k] /\ mem'.own[m] = res.own[m]
      BY <1>3
    <2>2. res.own[k].rel = "root" /\ res.own[m].rel = "root" /\ res.own[k].session = res.own[m].session
      BY <1>8, <2>1
    <2>. QED
      BY <1>1, <2>2 DEF ResultGood
  <1>9. \A k, m \in {x \in last'.owned : mem'.own[x].rel = "root"} :
           mem'.own[k].session = mem'.own[m].session => k = m
    BY <1>2, <1>8
  <1>10. \A s \in DOMAIN mem'.state : Live(mem'.state[s]) => mem'.root[s] \in last'.present
    BY <1>2, <1>7, Zenon
  <1>. QED
    BY <1>9, <1>10, Zenon DEF RootsExact, Live

\* Ownership outlives parents and daemons.
LEMMA CycleOwn ==
    ASSUME MachineOK, MemOK, DbOK, OwnInv, NEW res, Cycle(res)
    PROVE  OwnInv'
  <1>1. ResultGood(res) /\ mem' = Commit(res) /\ db' = Persist(res) /\ os' = os
    BY DEF Cycle
  <1>2. /\ DOMAIN mem'.own = DOMAIN res.own \cup DOMAIN mem.own
        /\ \A k \in DOMAIN res.own : mem'.own[k] = res.own[k]
        /\ \A k \in DOMAIN mem.own : k \notin DOMAIN res.own => mem'.own[k] = mem.own[k]
    BY <1>1, CommitFacts
  <1>3. \A k : Alive(k)' <=> Alive(k)
    BY CycleMachine
  <1>4. \A k \in DOMAIN res.own : res.own[k].observed => res.own[k].parent = os[k[1]].creator
    BY <1>1 DEF ResultGood, OwnGood
  <1>5. ASSUME NEW k \in DOMAIN mem'.own, Alive(k)', mem'.own[k].observed PROVE mem'.own[k].parent = os'[k[1]].creator
    <2>1. CASE k \in DOMAIN res.own
      BY <1>1, <1>2, <1>4, <1>5, <2>1
    <2>2. CASE k \notin DOMAIN res.own
      <3>1. k \in DOMAIN mem.own /\ mem'.own[k] = mem.own[k] /\ Alive(k)
        BY <1>2, <1>3, <1>5, <2>2
      <3>. QED
        BY <1>1, <1>5, <3>1 DEF OwnInv
    <2>. QED
      BY <2>1, <2>2
  <1>6. ASSUME NEW l \in DOMAIN db'.own, Alive(l[2])'
        PROVE  /\ Row(db'.procs, l[2]) = None =>
                     l[2] \in DOMAIN mem'.own /\ <<mem'.own[l[2]].session, l[2]>> \in DOMAIN db'.own
               /\ db'.own[l].observed => db'.own[l].parent = os'[l[2][1]].creator
    <2>1. PICK k : k = l[2] /\ Alive(k)
      BY <1>3, <1>6
    <2>2. /\ k \in DOMAIN res.own \cup DOMAIN db.procs
          /\ \/ /\ k \in DOMAIN res.own
                /\ db'.own[l].parent = res.own[k].parent /\ db'.own[l].observed = res.own[k].observed
             \/ /\ l \in DOMAIN db.own
                /\ db'.own[l].parent = db.own[l].parent /\ db'.own[l].observed = db.own[l].observed
      BY <2>1, LinkFacts
    <2>3. db'.own[l].observed => db'.own[l].parent = os'[k[1]].creator
      <3>1. CASE /\ k \in DOMAIN res.own
                 /\ db'.own[l].parent = res.own[k].parent /\ db'.own[l].observed = res.own[k].observed
        BY <1>1, <1>4, <3>1
      <3>2. CASE /\ l \in DOMAIN db.own
                 /\ db'.own[l].parent = db.own[l].parent /\ db'.own[l].observed = db.own[l].observed
        BY <1>1, <2>1, <3>2 DEF OwnInv, OwnershipSurvives
      <3>. QED
        BY <2>2, <3>1, <3>2
    <2>4. CASE k \in DOMAIN res.own
      <3>1. <<res.own[k].session, k>> \in Linked(res)
        BY <2>4 DEF Linked
      <3>2. DOMAIN db'.own = Linked(res) \cup DOMAIN db.own
        BY <1>1, PersistFacts, Zenon DEF OwnWritten
      <3>3. k \in DOMAIN mem'.own /\ mem'.own[k] = res.own[k]
        BY <1>2, <2>4
      <3>4. <<mem'.own[k].session, k>> \in DOMAIN db'.own
        BY <3>1, <3>2, <3>3
      <3>. QED
        BY <2>1, <2>3, <3>3, <3>4
    <2>5. CASE k \notin DOMAIN res.own
      <3>1. k \in DOMAIN db.procs
        BY <2>2, <2>5
      <3>2. ProcsWritten(res)
        BY <1>1, PersistFacts, Zenon
      <3>3. k \in DOMAIN db'.procs /\ db'.procs[k] = IF db.procs[k] = None THEN now ELSE db.procs[k]
        BY <2>5, <3>1, <3>2 DEF ProcsWritten
      <3>4. now # None
        BY SessionsAssumption DEF MachineOK
      <3>5. Row(db'.procs, k) # None
        BY <3>3, <3>4 DEF Row
      <3>. QED
        BY <2>1, <2>3, <3>5
    <2>. QED
      BY <2>4, <2>5
  <1>7. OwnershipSurvives'
    BY <1>6, Zenon DEF OwnershipSurvives, Row
  <1>. QED
    BY <1>5, <1>7 DEF OwnInv

\* Certainty stays with lineage that a scan has seen.
LEMMA CycleLineage ==
    ASSUME MachineOK, MemOK, DbOK, LineageInv, NEW res, Cycle(res)
    PROVE  LineageInv'
  <1>1. /\ ResultGood(res) /\ mem' = Commit(res) /\ db' = Persist(res)
        /\ truth'.lineage = (truth.lineage \cup res.lineage) \cap AliveKeys
    BY DEF Cycle
  <1>2. /\ DOMAIN mem'.own = DOMAIN res.own \cup DOMAIN mem.own
        /\ \A k \in DOMAIN res.own : mem'.own[k] = res.own[k]
        /\ \A k \in DOMAIN mem.own : k \notin DOMAIN res.own => mem'.own[k] = mem.own[k]
    BY <1>1, CommitFacts
  <1>3. \A k : Alive(k)' <=> Alive(k)
    BY CycleMachine
  <1>4. \A k \in DOMAIN res.own : /\ k \in AliveKeys
                                  /\ res.own[k].conf >= ConfidencePolicyEligible => k \in truth.lineage \cup res.lineage
    BY <1>1 DEF ResultGood, OwnGood
  <1>5. \A k \in Keys : Alive(k) => k \in AliveKeys
    BY AliveIsListed
  <1>6. ASSUME NEW k \in DOMAIN mem'.own, Alive(k)', mem'.own[k].conf >= ConfidencePolicyEligible
        PROVE  k \in truth'.lineage
    <2>1. CASE k \in DOMAIN res.own
      BY <1>1, <1>2, <1>4, <1>6, <2>1
    <2>2. CASE k \notin DOMAIN res.own
      <3>1. k \in DOMAIN mem.own /\ mem'.own[k] = mem.own[k] /\ Alive(k)
        BY <1>2, <1>3, <1>6, <2>2
      <3>2. k \in Keys /\ k \in truth.lineage
        BY <1>6, <3>1 DEF LineageInv, InheritedNotEligible, MemOK
      <3>. QED
        BY <1>1, <1>5, <3>1, <3>2
    <2>. QED
      BY <2>1, <2>2
  <1>7. ASSUME NEW l \in DOMAIN db'.own, Alive(l[2])', db'.own[l].conf >= ConfidencePolicyEligible
        PROVE  l[2] \in truth'.lineage
    <2>1. PICK k : k = l[2] /\ Alive(k)
      BY <1>3, <1>7
    <2>2. /\ l \in Sids \X Keys
          /\ \/ k \in DOMAIN res.own /\ db'.own[l].conf = res.own[k].conf
             \/ l \in DOMAIN db.own /\ db'.own[l].conf = db.own[l].conf
      BY <2>1, LinkFacts
    <2>3. CASE k \in DOMAIN res.own /\ db'.own[l].conf = res.own[k].conf
      BY <1>1, <1>4, <1>7, <2>1, <2>3
    <2>4. CASE l \in DOMAIN db.own /\ db'.own[l].conf = db.own[l].conf
      <3>1. k \in Keys /\ k \in truth.lineage
        BY <1>7, <2>1, <2>2, <2>4 DEF LineageInv
      <3>. QED
        BY <1>1, <1>5, <2>1, <3>1
    <2>. QED
      BY <2>2, <2>3, <2>4
  <1>. QED
    BY <1>6, <1>7 DEF LineageInv, InheritedNotEligible, ConfidencePolicyEligible

\* A scan, whole or partial, keeps the invariant.
LEMMA ObserveKeeps ==
    ASSUME SessInv, NEW hidden, Observe(hidden)
    PROVE  SessInv'
  <1>1. PICK res : res = Reconcile(DOMAIN os \ hidden) /\ Cycle(res) /\ TruthOK'
    <2>1. PICK res : /\ res = Reconcile(DOMAIN os \ hidden)
                     /\ mem' = Commit(res) /\ db' = Persist(res) /\ told' = Audited(res)
                     /\ last' = [present |-> AliveKeys, owned |-> DOMAIN res.own]
                     /\ truth' = [root |-> Over([s \in DOMAIN res.sess |-> res.sess[s].root], truth.root),
                                  lineage |-> (truth.lineage \cup res.lineage) \cap AliveKeys]
                     /\ UNCHANGED <<os, rollout, now, spawns>>
      BY Zenon DEF Observe
    <2>2. truth'.lineage = (truth.lineage \cup res.lineage) \cap AliveKeys /\ os' = os /\ rollout' = rollout /\ now' = now
      BY <2>1
    <2>3. ResultGood(res)
      <3>1. DOMAIN os \ hidden \in SUBSET DOMAIN os
        OBVIOUS
      <3>. QED
        BY <2>1, <3>1, ReconcileGood, Zenon DEF SessInv
    <2>4. TruthOK'
      BY <2>1 DEF TruthOK
    <2>. QED
      BY <2>1, <2>2, <2>3, <2>4, Zenon DEF Cycle
  <1>2. MachineOK /\ MemOK /\ DbOK /\ KeysOK /\ StoreInv /\ OwnInv /\ LineageInv
    BY DEF SessInv
  <1>3. MachineOK' /\ MemOK' /\ DbOK' /\ KeysOK'
    BY <1>1, <1>2, CycleMachine, CycleMem, CycleDb, CycleKeys, Zenon
  <1>4. StoreInv' /\ RootsExact' /\ OwnInv' /\ LineageInv'
    BY <1>1, <1>2, CycleStore, CycleRoots, CycleOwn, CycleLineage, Zenon
  <1>. QED
    BY <1>1, <1>3, <1>4, Zenon DEF SessInv

(***************************************************************************)
(* The machine moves between scans.                                        *)
(***************************************************************************)

\* Whatever happens to the machine, it is enough that no key the daemon knows
\* comes to life and that a process that lives on stays what it was.
LEMMA MachineMoves ==
    ASSUME SessInv, MachineOK', TruthOK', mem' = mem, db' = db, last' = last, told' = told,
           \A k \in Keys : Taken(k) => Taken(k)',
           \A k \in Keys : Taken(k) /\ Alive(k)' => Alive(k) /\ os'[k[1]].creator = os[k[1]].creator,
           \A k \in truth.lineage : Alive(k)' => k \in truth'.lineage
    PROVE  SessInv'
  <1>1. MemOK' /\ DbOK' /\ StoreInv' /\ RootsExact'
    BY DEF SessInv, MemOK, DbOK, StoreInv, StoreAgrees, RootsExact, Live
  <1>2. /\ \A k \in DOMAIN mem.own : k \in Keys /\ Taken(k)
        /\ \A k \in DOMAIN db.procs : k \in Keys /\ Taken(k)
        /\ \A l \in DOMAIN db.own : l[2] \in DOMAIN db.procs
    BY DEF SessInv, MemOK, DbOK, KeysOK
  <1>3. KeysOK'
    BY <1>2 DEF KeysOK
  <1>4. OwnInv'
    <2>1. ASSUME NEW k \in DOMAIN mem.own, Alive(k)', mem.own[k].observed PROVE mem.own[k].parent = os'[k[1]].creator
      BY <1>2, <2>1 DEF SessInv, OwnInv
    <2>2. ASSUME NEW l \in DOMAIN db.own, Alive(l[2])'
          PROVE  /\ Row(db.procs, l[2]) = None => l[2] \in DOMAIN mem.own /\ <<mem.own[l[2]].session, l[2]>> \in DOMAIN db.own
                 /\ db.own[l].observed => db.own[l].parent = os'[l[2][1]].creator
      <3>1. Alive(l[2]) /\ os'[l[2][1]].creator = os[l[2][1]].creator
        BY <1>2, <2>2
      <3>. QED
        BY <3>1 DEF SessInv, OwnInv, OwnershipSurvives
    <2>3. OwnershipSurvives'
      BY <2>2, Zenon DEF OwnershipSurvives, Row
    <2>. QED
      BY <2>1, <2>3, Zenon DEF OwnInv
  <1>5. LineageInv'
    <2>1. ASSUME NEW k \in DOMAIN mem.own, Alive(k)', mem.own[k].conf >= ConfidencePolicyEligible PROVE k \in truth'.lineage
      BY <1>2, <2>1 DEF SessInv, LineageInv, InheritedNotEligible
    <2>2. ASSUME NEW l \in DOMAIN db.own, Alive(l[2])', db.own[l].conf >= ConfidencePolicyEligible PROVE l[2] \in truth'.lineage
      BY <1>2, <2>2 DEF SessInv, LineageInv
    <2>. QED
      BY <2>1, <2>2 DEF LineageInv, InheritedNotEligible, ConfidencePolicyEligible
  <1>. QED
    BY <1>1, <1>3, <1>4, <1>5, Zenon DEF SessInv

\* Time passes.
LEMMA TickKeeps ==
    ASSUME SessInv, Tick
    PROVE  SessInv'
  <1>1. now' = now + 1 /\ now \in Nat
    BY DEF Tick, SessInv, MachineOK
  <1>2. os' = os /\ rollout' = rollout /\ mem' = mem /\ db' = db /\ told' = told /\ last' = last /\ truth' = truth
    BY DEF Tick
  <1>3. MachineOK'
    <2>1. \A p \in DOMAIN os : os[p].start \in Nat /\ os[p].start <= now /\ os[p].ppid \in {os[p].creator, InitPid}
      BY DEF SessInv, MachineOK, ProcType
    <2>2. \A p \in DOMAIN os : os[p].start <= now'
      BY <1>1, <2>1
    <2>. QED
      BY <1>1, <1>2, <2>1, <2>2 DEF SessInv, MachineOK
  <1>4. \A k : Alive(k)' <=> Alive(k)
    BY <1>2 DEF Alive
  <1>5. \A k \in Keys : Taken(k) => Taken(k)'
    <2>1. \A k \in Keys : k[2] \in Nat
      BY DEF Keys
    <2>. QED
      BY <1>1, <2>1 DEF Taken
  <1>6. \A k \in Keys : Taken(k) /\ Alive(k)' => Alive(k) /\ os'[k[1]].creator = os[k[1]].creator
    BY <1>2, <1>4
  <1>7. TruthOK' /\ \A k \in truth.lineage : Alive(k)' => k \in truth'.lineage
    BY <1>2 DEF SessInv, TruthOK
  <1>. QED
    BY <1>2, <1>3, <1>5, <1>6, <1>7, MachineMoves

\* A process is born, perhaps with a pid that was used before.
LEMMA SpawnKeeps ==
    ASSUME SessInv, Spawn
    PROVE  SessInv'
  <1>1. PICK p \in Pids \ DOMAIN os, q \in {InitPid} \cup DOMAIN os, codex \in BOOLEAN, n \in Natives \cup {NoNative} :
          /\ <<p, now>> \notin DOMAIN db.procs
          /\ os' = Over([x \in {p} |-> [start |-> now, ppid |-> q, creator |-> q, codex |-> codex, native |-> n]], os)
    BY Zenon DEF Spawn
  <1>2. /\ rollout' = rollout /\ mem' = mem /\ db' = db /\ told' = told /\ last' = last /\ truth' = truth /\ now' = now /\ now \in Nat
    BY DEF Spawn, SessInv, MachineOK
  <1>3. PICK f, r : r = [start |-> now, ppid |-> q, creator |-> q, codex |-> codex, native |-> n] /\ f = [x \in {p} |-> r]
    OBVIOUS
  <1>4. /\ DOMAIN os' = DOMAIN os \cup {p} /\ os' = [x \in DOMAIN os' |-> os'[x]]
        /\ os'[p] = r /\ \A x \in DOMAIN os : os'[x] = os[x]
    <2>1. IsOver(os', f, os)
      BY <1>1, <1>3, OverFacts, Zenon
    <2>2. DOMAIN f = {p} /\ f[p] = r
      BY <1>3
    <2>. QED
      BY <1>1, <2>1, <2>2 DEF IsOver
  <1>5. DOMAIN os \subseteq Pids /\ \A x \in DOMAIN os : os[x] \in ProcType
    BY DEF SessInv, MachineOK
  <1>6. r \in ProcType /\ r.start = now /\ r.ppid = q /\ r.creator = q
    BY <1>2, <1>3, <1>5 DEF ProcType, PidSet
  <1>7. MachineOK'
    <2>1. DOMAIN os' \subseteq Pids /\ \A x \in DOMAIN os' : os'[x] \in ProcType
      BY <1>4, <1>5, <1>6
    <2>2. os' \in [DOMAIN os' -> ProcType]
      <3>1. PICK o : o = os'
        OBVIOUS
      <3>2. o = [x \in DOMAIN o |-> o[x]] /\ \A x \in DOMAIN o : o[x] \in ProcType
        BY <1>4, <2>1, <3>1
      <3>. QED
        BY <3>1, <3>2
    <2>3. ASSUME NEW x \in DOMAIN os' PROVE os'[x].start <= now' /\ os'[x].ppid \in {os'[x].creator, InitPid}
      <3>1. CASE x = p
        BY <1>2, <1>4, <1>6, <3>1
      <3>2. CASE x # p
        BY <1>2, <1>4, <3>2 DEF SessInv, MachineOK
      <3>. QED
        BY <3>1, <3>2
    <2>. QED
      BY <1>2, <2>1, <2>2, <2>3 DEF SessInv, MachineOK
  <1>8. \A k : Alive(k) => Alive(k)'
    BY <1>4 DEF Alive
  <1>9. \A k \in Keys : Taken(k) => Taken(k)'
    BY <1>2, <1>8 DEF Taken
  <1>10. ASSUME NEW k \in Keys, Taken(k), Alive(k)' PROVE Alive(k) /\ os'[k[1]].creator = os[k[1]].creator
    <2>1. CASE k[1] = p
      <3>1. k[2] = now
        BY <1>4, <1>6, <1>10, <2>1 DEF Alive
      <3>. QED
        BY <1>1, <1>10, <2>1, <3>1 DEF Taken, Alive
    <2>2. CASE k[1] # p
      BY <1>4, <1>10, <2>2 DEF Alive
    <2>. QED
      BY <2>1, <2>2
  <1>11. TruthOK' /\ \A k \in truth.lineage : Alive(k)' => k \in truth'.lineage
    BY <1>2 DEF SessInv, TruthOK
  <1>. QED
    BY <1>2, <1>7, <1>9, <1>10, <1>11, MachineMoves

\* A process exits and its children become init's.
LEMMA ExitKeeps ==
    ASSUME SessInv, Exit
    PROVE  SessInv'
  <1>1. PICK p \in DOMAIN os :
          /\ os[p].start < now
          /\ os' = [q \in DOMAIN os \ {p} |-> IF os[q].ppid = p THEN [os[q] EXCEPT !.ppid = InitPid] ELSE os[q]]
          /\ truth' = [truth EXCEPT !.lineage = @ \ {KeyOf(os, p)}]
    BY DEF Exit
  <1>2. rollout' = rollout /\ mem' = mem /\ db' = db /\ told' = told /\ last' = last /\ now' = now /\ now \in Nat
    BY DEF Exit, SessInv, MachineOK
  <1>3. /\ DOMAIN os \subseteq Pids
        /\ \A x \in DOMAIN os : os[x] \in ProcType /\ os[x].start <= now /\ os[x].ppid \in {os[x].creator, InitPid}
    BY DEF SessInv, MachineOK
  <1>4. ASSUME NEW x \in DOMAIN os \ {p}
        PROVE  /\ os'[x] \in ProcType /\ os'[x].start = os[x].start /\ os'[x].creator = os[x].creator
               /\ os'[x].ppid \in {os[x].creator, InitPid}
    <2>1. CASE os[x].ppid = p
      <3>1. PICK r : r = os[x]
        OBVIOUS
      <3>2. os'[x] = [r EXCEPT !.ppid = InitPid]
        BY <1>1, <2>1, <3>1
      <3>3. r = [start |-> r.start, ppid |-> r.ppid, creator |-> r.creator, codex |-> r.codex, native |-> r.native]
            /\ r \in ProcType
        BY <1>3, <3>1 DEF ProcType
      <3>4. os'[x] = [start |-> r.start, ppid |-> InitPid, creator |-> r.creator, codex |-> r.codex, native |-> r.native]
        BY <3>2, <3>3
      <3>. QED
        BY <3>1, <3>3, <3>4 DEF ProcType, PidSet
    <2>2. CASE os[x].ppid # p
      BY <1>1, <1>3, <2>2
    <2>. QED
      BY <2>1, <2>2
  <1>5. DOMAIN os' = DOMAIN os \ {p}
    BY <1>1
  <1>6. MachineOK'
    <2>1. os' \in [DOMAIN os' -> ProcType]
      <3>1. PICK o : o = os'
        OBVIOUS
      <3>2. o = [x \in DOMAIN o |-> o[x]]
        BY <1>1, <3>1
      <3>3. \A x \in DOMAIN o : o[x] \in ProcType
        BY <1>4, <1>5, <3>1
      <3>. QED
        BY <3>1, <3>2, <3>3
    <2>2. \A x \in DOMAIN os' : os'[x].start <= now' /\ os'[x].ppid \in {os'[x].creator, InitPid}
      BY <1>2, <1>3, <1>4, <1>5
    <2>. QED
      BY <1>2, <1>3, <1>5, <2>1, <2>2 DEF SessInv, MachineOK
  <1>7. \A k : Alive(k)' <=> Alive(k) /\ k[1] # p
    BY <1>4, <1>5 DEF Alive
  <1>8. \A k \in Keys : Taken(k) => Taken(k)'
    <2>. SUFFICES ASSUME NEW k \in Keys, Taken(k) PROVE Taken(k)'
      OBVIOUS
    <2>1. k[2] = now => k[1] # p
      <3>1. os[p].start \in Nat
        BY <1>3 DEF ProcType
      <3>. QED
        BY <1>1, <1>2, <3>1 DEF Taken, Alive
    <2>. QED
      BY <1>2, <1>7, <2>1 DEF Taken
  <1>9. \A k \in Keys : Taken(k) /\ Alive(k)' => Alive(k) /\ os'[k[1]].creator = os[k[1]].creator
    <2>1. \A k : Alive(k)' => k[1] \in DOMAIN os \ {p}
      BY <1>5 DEF Alive
    <2>. QED
      BY <1>4, <1>7, <2>1
  <1>10. TruthOK' /\ truth'.lineage = truth.lineage \ {KeyOf(os, p)}
    <2>1. truth = [root |-> truth.root, lineage |-> truth.lineage]
      BY DEF SessInv, TruthOK
    <2>2. truth' = [root |-> truth.root, lineage |-> truth.lineage \ {KeyOf(os, p)}]
      BY <1>1, <2>1
    <2>. QED
      BY <2>2 DEF TruthOK
  <1>11. ASSUME NEW k \in truth.lineage, Alive(k)' PROVE k \in truth'.lineage
    <2>1. k # KeyOf(os, p)
      BY <1>7, <1>11 DEF KeyOf
    <2>. QED
      BY <1>10, <2>1
  <1>. QED
    BY <1>2, <1>6, <1>8, <1>9, <1>10, <1>11, MachineMoves

\* A process replaces its image.
LEMMA ExecKeeps ==
    ASSUME SessInv, Exec
    PROVE  SessInv'
  <1>1. PICK p \in DOMAIN os : os' = [os EXCEPT ![p].codex = ~@]
    BY DEF Exec
  <1>2. rollout' = rollout /\ mem' = mem /\ db' = db /\ told' = told /\ last' = last /\ truth' = truth /\ now' = now
    BY DEF Exec
  <1>3. \A x \in DOMAIN os : os[x] \in ProcType /\ os[x].start <= now /\ os[x].ppid \in {os[x].creator, InitPid}
    BY DEF SessInv, MachineOK
  <1>4. PICK r : r = os[p]
    OBVIOUS
  <1>5. PICK c \in BOOLEAN : c = ~r.codex
    OBVIOUS
  <1>6. /\ r = [start |-> r.start, ppid |-> r.ppid, creator |-> r.creator, codex |-> r.codex, native |-> r.native]
        /\ r \in ProcType
    BY <1>3, <1>4 DEF ProcType
  <1>7. DOMAIN os' = DOMAIN os /\ \A x \in DOMAIN os \ {p} : os'[x] = os[x]
    BY <1>1
  <1>8. os'[p] = [start |-> r.start, ppid |-> r.ppid, creator |-> r.creator, codex |-> c, native |-> r.native]
    <2>1. os'[p] = [r EXCEPT !.codex = c]
      BY <1>1, <1>4, <1>5, Zenon
    <2>. QED
      BY <1>6, <2>1
  <1>9. /\ os'[p] \in ProcType /\ os'[p].start = r.start /\ os'[p].creator = r.creator /\ os'[p].ppid = r.ppid
    BY <1>6, <1>8 DEF ProcType
  <1>10. \A x \in DOMAIN os : /\ os'[x] \in ProcType /\ os'[x].start = os[x].start
                              /\ os'[x].creator = os[x].creator /\ os'[x].ppid = os[x].ppid
    BY <1>3, <1>4, <1>7, <1>9
  <1>11. MachineOK'
    <2>1. os' \in [DOMAIN os' -> ProcType]
      <3>1. PICK o : o = os'
        OBVIOUS
      <3>2. o = [x \in DOMAIN o |-> o[x]]
        BY <1>1, <3>1
      <3>3. \A x \in DOMAIN o : o[x] \in ProcType
        BY <1>7, <1>10, <3>1
      <3>. QED
        BY <3>1, <3>2, <3>3
    <2>2. \A x \in DOMAIN os' : os'[x].start <= now' /\ os'[x].ppid \in {os'[x].creator, InitPid}
      BY <1>2, <1>3, <1>7, <1>10
    <2>. QED
      BY <1>2, <1>7, <2>1, <2>2 DEF SessInv, MachineOK
  <1>12. \A k : Alive(k)' <=> Alive(k)
    BY <1>7, <1>10 DEF Alive
  <1>13. \A k \in Keys : Taken(k) => Taken(k)'
    BY <1>2, <1>12 DEF Taken
  <1>14. \A k \in Keys : Taken(k) /\ Alive(k)' => Alive(k) /\ os'[k[1]].creator = os[k[1]].creator
    <2>1. \A k : Alive(k) => k[1] \in DOMAIN os
      BY DEF Alive
    <2>. QED
      BY <1>10, <1>12, <2>1
  <1>15. TruthOK' /\ \A k \in truth.lineage : Alive(k)' => k \in truth'.lineage
    BY <1>2 DEF SessInv, TruthOK
  <1>. QED
    BY <1>2, <1>11, <1>13, <1>14, <1>15, MachineMoves

\* The agent records a task.
LEMMA TaskKeeps ==
    ASSUME SessInv, Task
    PROVE  SessInv'
  <1>1. PICK n \in Natives, st \in {"active", "completed"} : rollout' = [rollout EXCEPT ![n] = [state |-> st, at |-> now]]
    BY DEF Task
  <1>2. os' = os /\ mem' = mem /\ db' = db /\ told' = told /\ last' = last /\ truth' = truth /\ now' = now
    BY DEF Task
  <1>3. rollout' \in [Natives -> [state : {None, "active", "completed"}, at : Nat]]
    BY <1>1 DEF SessInv, MachineOK
  <1>4. MachineOK'
    BY <1>2, <1>3 DEF SessInv, MachineOK
  <1>5. \A k : Alive(k)' <=> Alive(k)
    BY <1>2 DEF Alive
  <1>6. \A k \in Keys : Taken(k) => Taken(k)'
    BY <1>2, <1>5 DEF Taken
  <1>7. \A k \in Keys : Taken(k) /\ Alive(k)' => Alive(k) /\ os'[k[1]].creator = os[k[1]].creator
    BY <1>2, <1>5
  <1>8. TruthOK' /\ \A k \in truth.lineage : Alive(k)' => k \in truth'.lineage
    BY <1>2 DEF SessInv, TruthOK
  <1>. QED
    BY <1>2, <1>4, <1>6, <1>7, <1>8, MachineMoves

(***************************************************************************)
(* Retention and restarts.                                                 *)
(***************************************************************************)

\* What retention keeps is as it was: a session it deletes has ended, and with
\* a process go all its ownership rows.
LEMMA CompactFacts ==
    ASSUME SessInv, Compact
    PROVE  \E dead \in SUBSET DOMAIN db.procs, kept \in SUBSET DOMAIN db.sess :
             /\ db' = [sess |-> db'.sess, own |-> db'.own, procs |-> db'.procs]
             /\ db'.own = [l \in {m \in DOMAIN db.own : m[2] \notin dead} |-> db.own[l]]
             /\ db'.procs = [k \in DOMAIN db.procs \ dead |-> db.procs[k]]
             /\ db'.sess = [s \in kept |-> db.sess[s]]
             /\ \A s \in DOMAIN db.sess \ kept : db.sess[s].ended # None
             /\ UNCHANGED <<os, rollout, mem, last, truth, told, now>>
  <1>. DEFINE old(t, w, pass) == t # None /\ now - t > w \div pass
              D(pass) == {k \in DOMAIN db.procs : old(db.procs[k], RetainProcesses, pass)}
              K(pass) == {s \in DOMAIN db.sess : ~old(db.sess[s].ended, RetainSessions, pass)}
  <1>1. PICK w : /\ db' = [db EXCEPT !.own = [l \in {m \in DOMAIN db.own : m[2] \notin D(w)} |-> db.own[l]],
                                     !.procs = [k \in DOMAIN db.procs \ D(w) |-> db.procs[k]],
                                     !.sess = [s \in K(w) |-> db.sess[s]]]
                 /\ UNCHANGED <<os, rollout, mem, last, truth, told, now, spawns, moves>>
    BY DEF Compact
  <1>2. PICK dead, kept : dead = D(w) /\ kept = K(w)
    OBVIOUS
  <1>3. /\ dead \in SUBSET DOMAIN db.procs /\ kept \in SUBSET DOMAIN db.sess
        /\ \A s \in DOMAIN db.sess \ kept : db.sess[s].ended # None
    BY <1>2
  <1>4. PICK o, c, t : /\ o = [l \in {m \in DOMAIN db.own : m[2] \notin dead} |-> db.own[l]]
                       /\ c = [k \in DOMAIN db.procs \ dead |-> db.procs[k]]
                       /\ t = [s \in kept |-> db.sess[s]]
    BY Zenon
  <1>5. db' = [db EXCEPT !.own = o, !.procs = c, !.sess = t]
    <2>. HIDE DEF D, K
    <2>. QED
      BY <1>1, <1>2, <1>4, Zenon
  <1>6. db = [sess |-> db.sess, own |-> db.own, procs |-> db.procs]
    BY DEF SessInv, DbOK
  <1>7. db' = [sess |-> t, own |-> o, procs |-> c]
    BY <1>5, <1>6
  <1>8. db'.sess = t /\ db'.own = o /\ db'.procs = c
    BY <1>7
  <1>9. db' = [sess |-> db'.sess, own |-> db'.own, procs |-> db'.procs]
    BY <1>7
  <1>10. UNCHANGED <<os, rollout, mem, last, truth, told, now>>
    BY <1>1
  <1>. QED
    BY <1>3, <1>4, <1>8, <1>9, <1>10, Zenon

\* Retention.
LEMMA CompactKeeps ==
    ASSUME SessInv, Compact
    PROVE  SessInv'
  <1>1. PICK dead \in SUBSET DOMAIN db.procs, kept \in SUBSET DOMAIN db.sess :
             /\ db' = [sess |-> db'.sess, own |-> db'.own, procs |-> db'.procs]
             /\ db'.own = [l \in {m \in DOMAIN db.own : m[2] \notin dead} |-> db.own[l]]
             /\ db'.procs = [k \in DOMAIN db.procs \ dead |-> db.procs[k]]
             /\ db'.sess = [s \in kept |-> db.sess[s]]
             /\ \A s \in DOMAIN db.sess \ kept : db.sess[s].ended # None
             /\ UNCHANGED <<os, rollout, mem, last, truth, told, now>>
    BY CompactFacts
  <1>2. os' = os /\ rollout' = rollout /\ mem' = mem /\ last' = last /\ truth' = truth /\ told' = told /\ now' = now
    BY <1>1
  <1>3. MachineOK' /\ MemOK' /\ RootsExact' /\ TruthOK'
    BY <1>2 DEF SessInv, MachineOK, MemOK, RootsExact, TruthOK, Live
  <1>4. \A k : (Alive(k)' <=> Alive(k)) /\ (Taken(k) => Taken(k)')
    BY <1>2 DEF Alive, Taken
  <1>5. /\ DOMAIN db'.own = {m \in DOMAIN db.own : m[2] \notin dead} /\ \A l \in DOMAIN db'.own : db'.own[l] = db.own[l]
    BY <1>1
  <1>6. /\ DOMAIN db'.procs = DOMAIN db.procs \ dead /\ \A k \in DOMAIN db'.procs : db'.procs[k] = db.procs[k]
    BY <1>1
  <1>7. /\ DOMAIN db'.sess = kept /\ \A s \in kept : db'.sess[s] = db.sess[s]
    BY <1>1
  <1>8. DbOK'
    <2>1. /\ \A s \in DOMAIN db.sess : db.sess[s] \in SessType
          /\ \A l \in DOMAIN db.own : db.own[l] \in RowType /\ l \in Sids \X Keys /\ l[2] \in DOMAIN db.procs
          /\ DOMAIN db.procs \subseteq Keys
      BY DEF SessInv, DbOK
    <2>2. db'.sess \in [DOMAIN db'.sess -> SessType]
      BY <1>1, <1>7, <2>1
    <2>3. db'.own \in [DOMAIN db'.own -> RowType]
      BY <1>1, <1>5, <2>1
    <2>4. /\ DOMAIN db'.own \subseteq Sids \X Keys /\ DOMAIN db'.procs \subseteq Keys
          /\ \A l \in DOMAIN db'.own : l[2] \in DOMAIN db'.procs
      BY <1>5, <1>6, <2>1
    <2>5. db' = [sess |-> db'.sess, own |-> db'.own, procs |-> db'.procs]
      BY <1>1
    <2>. QED
      BY <2>2, <2>3, <2>4, <2>5 DEF DbOK
  <1>9. KeysOK'
    BY <1>2, <1>4, <1>6 DEF SessInv, KeysOK
  <1>10. StoreInv'
    <2>1. ASSUME NEW s \in DOMAIN mem.state, s \notin kept PROVE ~Live(mem.state[s])
      <3>1. CASE s \in DOMAIN db.sess
        <4>1. db.sess[s].ended # None
          BY <1>1, <2>1, <3>1
        <4>. QED
          BY <3>1, <4>1 DEF SessInv, StoreInv, StoreAgrees
      <3>2. CASE s \notin DOMAIN db.sess
        BY <3>2 DEF SessInv, StoreInv, StoreAgrees
      <3>. QED
        BY <3>1, <3>2
    <2>2. ASSUME NEW s \in kept
          PROVE  /\ s \in DOMAIN mem.state => db'.sess[s].state = mem.state[s]
                 /\ s \in DOMAIN told /\ told[s] = db'.sess[s].state
                 /\ (db'.sess[s].ended = None) <=> Live(db'.sess[s].state)
      <3>1. s \in DOMAIN db.sess /\ db'.sess[s] = db.sess[s]
        BY <1>7
      <3>. QED
        BY <3>1 DEF SessInv, StoreInv, StoreAgrees
    <2>3. \A s \in DOMAIN mem.state : s \in DOMAIN told /\ told[s] = mem.state[s]
      BY DEF SessInv, StoreInv
    <2>4. mem' = mem /\ told' = told
      BY <1>1, <1>2
    <2>5. StoreAgrees'
      BY <1>7, <2>1, <2>2, <2>4 DEF StoreAgrees, Live
    <2>. QED
      BY <1>7, <2>2, <2>3, <2>4, <2>5 DEF StoreInv
  <1>11. OwnInv'
    <2>1. ASSUME NEW l \in DOMAIN db'.own, Alive(l[2])'
          PROVE  /\ Row(db'.procs, l[2]) = None =>
                       l[2] \in DOMAIN mem'.own /\ <<mem'.own[l[2]].session, l[2]>> \in DOMAIN db'.own
                 /\ db'.own[l].observed => db'.own[l].parent = os'[l[2][1]].creator
      <3>1. l \in DOMAIN db.own /\ l[2] \notin dead /\ l[2] \in DOMAIN db.procs /\ Alive(l[2]) /\ db'.own[l] = db.own[l]
        BY <1>4, <1>5, <2>1 DEF SessInv, DbOK
      <3>2. Row(db'.procs, l[2]) = Row(db.procs, l[2])
        BY <1>6, <3>1 DEF Row
      <3>3. db'.own[l].observed => db'.own[l].parent = os'[l[2][1]].creator
        BY <1>2, <3>1 DEF SessInv, OwnInv, OwnershipSurvives
      <3>4. Row(db.procs, l[2]) = None => l[2] \in DOMAIN mem.own /\ <<mem.own[l[2]].session, l[2]>> \in DOMAIN db.own
        BY <3>1 DEF SessInv, OwnInv, OwnershipSurvives
      <3>5. <<mem.own[l[2]].session, l[2]>>[2] = l[2]
        OBVIOUS
      <3>. QED
        BY <1>2, <1>5, <3>1, <3>2, <3>3, <3>4, <3>5
    <2>2. OwnershipSurvives'
      BY <2>1, Zenon DEF OwnershipSurvives, Row
    <2>3. \A k \in DOMAIN mem'.own : Alive(k)' /\ mem'.own[k].observed => mem'.own[k].parent = os'[k[1]].creator
      BY <1>2, <1>4 DEF SessInv, OwnInv
    <2>. QED
      BY <2>2, <2>3, Zenon DEF OwnInv
  <1>12. LineageInv'
    BY <1>2, <1>4, <1>5 DEF SessInv, LineageInv, InheritedNotEligible, ConfidencePolicyEligible
  <1>. QED
    BY <1>3, <1>8, <1>9, <1>10, <1>11, <1>12, Zenon DEF SessInv

\* A process that can be restored has a row of the highest confidence.
LEMMA BestRowExists ==
    ASSUME DbOK, NEW k \in Restorable
    PROVE  BestRows(k) # {} /\ \A l \in BestRows(k) : l \in DOMAIN db.own /\ l[2] = k
  <1>. DEFINE rows == {l \in DOMAIN db.own : l[2] = k}
              at(c) == {l \in rows : db.own[l].conf = c}
  <1>1. rows # {}
    BY DEF Restorable
  <1>2. \A l \in rows : db.own[l] \in RowType
    BY DEF DbOK
  <1>3. \A l \in rows : db.own[l].conf \in {55, 90, 95}
    BY <1>2 DEF RowType, Confs, ConfIdentity, ConfidenceEnvironmentMembership, ConfNamed
  <1>4. BestRows(k) = {l \in rows : \A m \in rows : db.own[l].conf >= db.own[m].conf}
    BY DEF BestRows
  <1>. HIDE DEF rows
  <1>5. \E l \in rows : \A m \in rows : db.own[l].conf >= db.own[m].conf
    <2>1. CASE at(95) # {}
      <3>1. PICK l \in rows : db.own[l].conf = 95
        BY <2>1
      <3>2. \A m \in rows : db.own[l].conf >= db.own[m].conf
        BY <1>3, <3>1
      <3>. QED
        BY <3>2
    <2>2. CASE at(95) = {} /\ at(90) # {}
      <3>1. PICK l \in rows : db.own[l].conf = 90
        BY <2>2
      <3>2. \A m \in rows : db.own[m].conf \in {55, 90}
        BY <1>3, <2>2
      <3>3. \A m \in rows : db.own[l].conf >= db.own[m].conf
        BY <3>1, <3>2
      <3>. QED
        BY <3>3
    <2>3. CASE at(95) = {} /\ at(90) = {}
      <3>1. \A m \in rows : db.own[m].conf = 55
        BY <1>3, <2>3
      <3>2. PICK l \in rows : TRUE
        BY <1>1
      <3>3. \A m \in rows : db.own[l].conf >= db.own[m].conf
        BY <3>1
      <3>. QED
        BY <3>3
    <2>. QED
      BY <2>1, <2>2, <2>3
  <1>. QED
    BY <1>4, <1>5 DEF rows

\* The memory that a restart reads back: of every restorable process the
\* contents of one of its rows, and of every session its row.
LEMMA SeedFacts ==
    ASSUME DbOK, Restart
    PROVE  /\ DOMAIN mem'.own = Restorable /\ mem'.own = [k \in DOMAIN mem'.own |-> mem'.own[k]]
           /\ \A k \in Restorable : \E l \in DOMAIN db.own : l[2] = k /\ mem'.own[k] = Restored(l)
           /\ mem'.state = [s \in DOMAIN db.sess |-> db.sess[s].state]
           /\ mem'.root = [s \in DOMAIN db.sess |-> db.sess[s].root]
           /\ mem'.native = DOMAIN db.sess \cap Natives
  <1>1. PICK choice \in [Tied -> UNION {BestRows(k) : k \in Tied}] :
          (\A k \in Tied : choice[k] \in BestRows(k)) /\ mem' = Seed(choice)
    BY DEF Restart
  <1>2. PICK o : o = [k \in Restorable |-> Restored(IF k \in Tied THEN choice[k] ELSE CHOOSE l \in BestRows(k) : TRUE)]
    BY Zenon
  <1>3. mem' = [own |-> o, state |-> [s \in DOMAIN db.sess |-> db.sess[s].state],
                root |-> [s \in DOMAIN db.sess |-> db.sess[s].root], native |-> DOMAIN db.sess \cap Natives]
    BY <1>1, <1>2, Zenon DEF Seed
  <1>4. /\ mem'.own = o /\ mem'.state = [s \in DOMAIN db.sess |-> db.sess[s].state]
        /\ mem'.root = [s \in DOMAIN db.sess |-> db.sess[s].root] /\ mem'.native = DOMAIN db.sess \cap Natives
    BY <1>3
  <1>5. DOMAIN o = Restorable /\ o = [k \in DOMAIN o |-> o[k]]
    BY <1>2
  <1>6. ASSUME NEW k \in Restorable PROVE \E l \in DOMAIN db.own : l[2] = k /\ o[k] = Restored(l)
    <2>1. PICK l : l = IF k \in Tied THEN choice[k] ELSE CHOOSE m \in BestRows(k) : TRUE
      OBVIOUS
    <2>2. l \in BestRows(k)
      BY <1>1, <2>1, BestRowExists
    <2>3. l \in DOMAIN db.own /\ l[2] = k
      BY <2>2, BestRowExists
    <2>4. o[k] = Restored(l)
      BY <1>2, <2>1
    <2>. QED
      BY <2>3, <2>4
  <1>. QED
    BY <1>4, <1>5, <1>6

\* A restart.
LEMMA RestartKeeps ==
    ASSUME SessInv, Restart
    PROVE  SessInv'
  <1>1. os' = os /\ rollout' = rollout /\ db' = db /\ truth' = truth /\ told' = told /\ now' = now /\ last' = None
    BY DEF Restart
  <1>2. MachineOK /\ MemOK /\ DbOK /\ KeysOK /\ StoreInv /\ OwnInv /\ LineageInv /\ TruthOK
    BY DEF SessInv
  <1>3. MachineOK' /\ DbOK' /\ TruthOK' /\ RootsExact'
    BY <1>1, <1>2 DEF MachineOK, DbOK, TruthOK, RootsExact
  <1>4. \A k : (Alive(k)' <=> Alive(k)) /\ (Taken(k) => Taken(k)')
    BY <1>1 DEF Alive, Taken
  <1>5. /\ DOMAIN mem'.own = Restorable /\ mem'.own = [k \in DOMAIN mem'.own |-> mem'.own[k]]
        /\ \A k \in Restorable : \E l \in DOMAIN db.own : l[2] = k /\ mem'.own[k] = Restored(l)
    BY <1>2, SeedFacts
  <1>6. /\ mem'.state = [s \in DOMAIN db.sess |-> db.sess[s].state]
        /\ mem'.root = [s \in DOMAIN db.sess |-> db.sess[s].root]
        /\ mem'.native = DOMAIN db.sess \cap Natives
    BY <1>2, SeedFacts
  <1>7. /\ \A l \in DOMAIN db.own : l \in Sids \X Keys /\ l[2] \in DOMAIN db.procs /\ db.own[l] \in RowType
        /\ \A k \in DOMAIN db.procs : k \in Keys /\ Taken(k)
        /\ \A s \in DOMAIN db.sess : db.sess[s].state \in States /\ db.sess[s].root \in Keys
    BY <1>2 DEF DbOK, KeysOK, SessType
  <1>8. ASSUME NEW l \in DOMAIN db.own
        PROVE  /\ Restored(l) \in OwnType /\ l = <<l[1], l[2]>>
               /\ Restored(l).session = l[1] /\ Restored(l).conf = db.own[l].conf
               /\ Restored(l).parent = db.own[l].parent /\ Restored(l).observed = db.own[l].observed
    <2>1. l = <<l[1], l[2]>> /\ l[1] \in Sids
      BY <1>7
    <2>2. /\ db.own[l].rel \in Rels /\ db.own[l].conf \in Confs
          /\ db.own[l].parent \in PidSet /\ db.own[l].observed \in BOOLEAN
      BY <1>7 DEF RowType
    <2>. QED
      BY <2>1, <2>2 DEF Restored, OwnType
  <1>9. \A k \in Restorable : k \in DOMAIN db.procs
    BY <1>7 DEF Restorable
  <1>10. MemOK'
    <2>1. \A k \in DOMAIN mem'.own : k \in Keys /\ mem'.own[k] \in OwnType
      BY <1>5, <1>7, <1>8, <1>9
    <2>2. mem'.own \in [DOMAIN mem'.own -> OwnType]
      <3>1. PICK o : o = mem'.own
        OBVIOUS
      <3>2. o = [k \in DOMAIN o |-> o[k]]
        BY <1>5, <3>1
      <3>. QED
        BY <2>1, <3>1, <3>2
    <2>3. /\ mem'.state \in [DOMAIN mem'.state -> States] /\ mem'.root \in [DOMAIN mem'.root -> Keys]
          /\ DOMAIN mem'.state \subseteq DOMAIN mem'.root /\ mem'.native \subseteq Natives
      BY <1>6, <1>7
    <2>. QED
      BY <2>1, <2>2, <2>3 DEF MemOK
  <1>11. KeysOK'
    BY <1>1, <1>4, <1>5, <1>7, <1>9 DEF KeysOK
  <1>12. StoreInv'
    <2>1. DOMAIN mem'.state = DOMAIN db.sess /\ \A s \in DOMAIN db.sess : mem'.state[s] = db.sess[s].state
      BY <1>6
    <2>2. StoreAgrees'
      BY <1>1, <1>2, <2>1 DEF StoreInv, StoreAgrees, Live
    <2>. QED
      BY <1>1, <1>2, <2>1, <2>2 DEF StoreInv, StoreAgrees
  <1>13. OwnInv'
    <2>1. ASSUME NEW k \in DOMAIN mem'.own, Alive(k)', mem'.own[k].observed PROVE mem'.own[k].parent = os'[k[1]].creator
      <3>1. PICK l \in DOMAIN db.own : l[2] = k /\ mem'.own[k] = Restored(l)
        BY <1>5
      <3>2. db.own[l].observed /\ mem'.own[k].parent = db.own[l].parent
        BY <1>8, <2>1, <3>1
      <3>3. Alive(l[2])
        BY <1>4, <2>1, <3>1
      <3>4. db.own[l].parent = os[l[2][1]].creator
        BY <1>2, <3>2, <3>3 DEF OwnInv, OwnershipSurvives
      <3>. QED
        BY <1>1, <3>1, <3>2, <3>4
    <2>2. ASSUME NEW l \in DOMAIN db.own, Row(db.procs, l[2]) = None
          PROVE  l[2] \in DOMAIN mem'.own /\ <<mem'.own[l[2]].session, l[2]>> \in DOMAIN db.own
      <3>1. l[2] \in Restorable
        BY <2>2 DEF Restorable
      <3>2. PICK m \in DOMAIN db.own : m[2] = l[2] /\ mem'.own[l[2]] = Restored(m)
        BY <1>5, <3>1
      <3>3. <<mem'.own[l[2]].session, l[2]>> = m
        BY <1>8, <3>2
      <3>. QED
        BY <1>5, <3>1, <3>2, <3>3
    <2>3. \A l \in DOMAIN db.own : Alive(l[2]) /\ db.own[l].observed => db.own[l].parent = os[l[2][1]].creator
      BY <1>2 DEF OwnInv, OwnershipSurvives
    <2>4. OwnershipSurvives'
      <3>1. \A l \in DOMAIN db'.own : /\ Row(db'.procs, l[2]) = None =>
                                            l[2] \in DOMAIN mem'.own /\ <<mem'.own[l[2]].session, l[2]>> \in DOMAIN db'.own
                                      /\ Alive(l[2])' /\ db'.own[l].observed => db'.own[l].parent = os'[l[2][1]].creator
        BY <1>1, <1>4, <2>2, <2>3
      <3>. QED
        BY <3>1, Zenon DEF OwnershipSurvives, Row
    <2>. QED
      BY <2>1, <2>4, Zenon DEF OwnInv
  <1>14. LineageInv'
    <2>1. ASSUME NEW k \in DOMAIN mem'.own, Alive(k)', mem'.own[k].conf >= ConfidencePolicyEligible PROVE k \in truth'.lineage
      <3>1. PICK l \in DOMAIN db.own : l[2] = k /\ mem'.own[k] = Restored(l)
        BY <1>5
      <3>2. db.own[l].conf >= ConfidencePolicyEligible /\ Alive(l[2])
        BY <1>4, <1>8, <2>1, <3>1
      <3>. QED
        BY <1>1, <1>2, <3>1, <3>2 DEF LineageInv
    <2>2. \A l \in DOMAIN db'.own : Alive(l[2])' /\ db'.own[l].conf >= ConfidencePolicyEligible => l[2] \in truth'.lineage
      BY <1>1, <1>2, <1>4 DEF LineageInv
    <2>. QED
      BY <2>1, <2>2 DEF LineageInv, InheritedNotEligible, ConfidencePolicyEligible
  <1>. QED
    BY <1>3, <1>10, <1>11, <1>12, <1>13, <1>14, Zenon DEF SessInv

(***************************************************************************)
(* The theorems.                                                           *)
(***************************************************************************)

\* The daemon starts with empty tables and an empty memory.
LEMMA SessInvInit ==
    ASSUME Init
    PROVE  SessInv
  <1>1. /\ os = Empty /\ now = 0 /\ last = None /\ rollout = [n \in Natives |-> [state |-> None, at |-> 0]]
        /\ mem = [own |-> Empty, state |-> Empty, root |-> Empty, native |-> {}]
        /\ db = [sess |-> Empty, own |-> Empty, procs |-> Empty]
        /\ truth = [root |-> Empty, lineage |-> {}] /\ told = Empty
    BY DEF Init
  <1>2. PICK e : e = Empty /\ DOMAIN e = {} /\ \A T : e \in [DOMAIN e -> T]
    <2>1. PICK e : e = Empty
      OBVIOUS
    <2>2. DOMAIN e = {} /\ e = [x \in {} |-> None]
      BY <2>1 DEF Empty
    <2>3. ASSUME NEW T PROVE e \in [DOMAIN e -> T]
      <3>1. e \in [{} -> T]
        BY <2>2
      <3>. QED
        BY <2>2, <3>1
    <2>. QED
      BY <2>1, <2>2, <2>3, Zenon
  <1>3. /\ mem.own = e /\ mem.state = e /\ mem.root = e /\ mem.native = {}
        /\ db.sess = e /\ db.own = e /\ db.procs = e /\ told = e
        /\ db = [sess |-> db.sess, own |-> db.own, procs |-> db.procs]
        /\ TruthOK
    BY <1>1, <1>2 DEF TruthOK
  <1>4. MachineOK
    <2>1. os = e /\ now \in Nat
      BY <1>1, <1>2
    <2>2. rollout \in [Natives -> [state : {None, "active", "completed"}, at : Nat]]
      BY <1>1
    <2>. QED
      BY <1>2, <2>1, <2>2 DEF MachineOK
  <1>5. MemOK /\ DbOK
    BY <1>2, <1>3 DEF MemOK, DbOK
  <1>6. KeysOK /\ StoreInv /\ OwnInv /\ LineageInv
    BY <1>2, <1>3, Zenon DEF KeysOK, StoreInv, StoreAgrees, OwnInv, OwnershipSurvives, LineageInv, InheritedNotEligible
  <1>7. RootsExact
    BY <1>1 DEF RootsExact
  <1>. QED
    BY <1>3, <1>4, <1>5, <1>6, <1>7, Zenon DEF SessInv

\* Nothing changes.
LEMMA StutterKeeps ==
    ASSUME SessInv, UNCHANGED <<os, rollout, mem, db, last, truth, told, now>>
    PROVE  SessInv'
  <1>1. os' = os /\ rollout' = rollout /\ mem' = mem /\ db' = db /\ told' = told /\ last' = last /\ truth' = truth /\ now' = now
    OBVIOUS
  <1>2. MachineOK' /\ TruthOK'
    BY <1>1 DEF SessInv, MachineOK, TruthOK
  <1>3. \A k : (Alive(k)' <=> Alive(k)) /\ (Taken(k) => Taken(k)')
    BY <1>1 DEF Alive, Taken
  <1>. QED
    BY <1>1, <1>2, <1>3, MachineMoves

\* Every step keeps the invariant.
LEMMA SessInvStep ==
    ASSUME SessInv, [Next]_vars
    PROVE  SessInv'
  <1>1. CASE Scan
    BY <1>1, ObserveKeeps DEF Scan
  <1>2. CASE ScanPartly
    <2>1. PICK p \in DOMAIN os : Observe({p})
      BY <1>2 DEF ScanPartly
    <2>. QED
      BY <2>1, ObserveKeeps
  <1>3. CASE ScanFail
    BY <1>3, StutterKeeps DEF ScanFail
  <1>4. CASE UNCHANGED vars
    BY <1>4, StutterKeeps DEF vars
  <1>5. CASE Compact \/ Restart
    BY <1>5, CompactKeeps, RestartKeeps
  <1>6. CASE Tick \/ Spawn \/ Exit \/ Exec \/ Task
    BY <1>6, TickKeeps, SpawnKeeps, ExitKeeps, ExecKeeps, TaskKeeps
  <1>. QED
    BY <1>1, <1>2, <1>3, <1>4, <1>5, <1>6 DEF Next

\* Every reachable state of the daemon, its store and the machine satisfies
\* the inductive invariant.
THEOREM SessInvCorrect == Spec => []SessInv
  <1>1. Init => SessInv
    BY SessInvInit
  <1>2. SessInv /\ [Next]_vars => SessInv'
    BY SessInvStep
  <1>. QED
    BY <1>1, <1>2, PTL DEF Spec

\* Reconciler memory and session rows agree and every transition was audited, in
\* the order of the transactions, whatever transactions failed, processes moved or
\* rows retention removed.
THEOREM StoreCorrect == Spec => []StoreAgrees
  <1>1. SessInv => StoreAgrees
    BY DEF SessInv, StoreInv
  <1>. QED
    BY <1>1, SessInvCorrect, PTL

\* The root of a live session is an exact process of the newest snapshot, and a
\* session has at most one root among the processes that scan attributed.
THEOREM RootsCorrect == Spec => []RootsExact
  <1>1. SessInv => RootsExact
    BY DEF SessInv
  <1>. QED
    BY <1>1, SessInvCorrect, PTL

\* A living process with ownership rows stays owned across the loss of its
\* parents and across restarts, and an observed parent is its creator.
THEOREM OwnershipCorrect == Spec => []OwnershipSurvives
  <1>1. SessInv => OwnershipSurvives
    BY DEF SessInv, OwnInv
  <1>. QED
    BY <1>1, SessInvCorrect, PTL

\* Policy-eligible confidence is recorded only for processes that some scan saw
\* as a root or below one, never for an inherited environment alone.
THEOREM EligibleCorrect == Spec => []InheritedNotEligible
  <1>1. SessInv => InheritedNotEligible
    BY DEF SessInv, LineageInv
  <1>. QED
    BY <1>1, SessInvCorrect, PTL

\* What EndsWithKnownRoot says of one step.
EndKnown ==
    \A s \in DOMAIN db.sess \cap DOMAIN db'.sess :
        (Live(db.sess[s].state) /\ ~Live(db'.sess[s].state) /\ mem.root[s] = truth.root[s]) =>
            \/ ~Alive(truth.root[s])
            \/ s \in Natives /\ rollout[s].state = "completed"

\* A cycle ends a session because its task completed or its root is gone.
LEMMA ObserveEnds ==
    ASSUME SessInv, NEW hidden, Observe(hidden)
    PROVE  EndKnown
  <1>1. PICK res : res = Reconcile(DOMAIN os \ hidden) /\ db' = Persist(res)
    BY Zenon DEF Observe
  <1>2. ResultGood(res)
    <2>1. DOMAIN os \ hidden \in SUBSET DOMAIN os
      OBVIOUS
    <2>. QED
      BY <1>1, <2>1, ReconcileGood, Zenon DEF SessInv
  <1>3. SessWritten(res)
    BY <1>1, <1>2, PersistFacts, Zenon
  <1>4. SUFFICES ASSUME NEW s \in DOMAIN db.sess, Live(db.sess[s].state), ~Live(db'.sess[s].state),
                        mem.root[s] = truth.root[s], Alive(truth.root[s])
                 PROVE  s \in Natives /\ rollout[s].state = "completed"
    BY DEF EndKnown
  <1>5. CASE s \in DOMAIN res.sess
    <2>1. res.sess[s] \in SessType /\ SessGood(s, res.sess[s])
      BY <1>2, <1>5 DEF ResultGood, SessGood
    <2>2. now \in Nat /\ db.sess[s] \in SessType
      BY DEF SessInv, MachineOK, DbOK
    <2>3. db'.sess[s].state = res.sess[s].state
      BY <1>3, <1>5, <2>1, <2>2, RowShapes DEF SessWritten
    <2>. QED
      BY <1>4, <2>1, <2>3 DEF SessGood
  <1>6. CASE s \notin DOMAIN res.sess
    <2>1. s \in res.gone
      BY <1>3, <1>4, <1>6 DEF SessWritten
    <2>2. ~Alive(mem.root[s])
      BY <1>2, <2>1 DEF ResultGood, EndDepartedSessions
    <2>. QED
      BY <1>4, <2>2
  <1>. QED
    BY <1>5, <1>6

\* Every step ends sessions only so.
LEMMA StepEnds ==
    ASSUME SessInv, [Next]_vars
    PROVE  EndKnown
  <1>1. CASE Scan
    BY <1>1, ObserveEnds DEF Scan
  <1>2. CASE ScanPartly
    <2>1. PICK p \in DOMAIN os : Observe({p})
      BY <1>2 DEF ScanPartly
    <2>. QED
      BY <2>1, ObserveEnds
  <1>3. CASE Compact
    <2>1. PICK kept \in SUBSET DOMAIN db.sess : db'.sess = [s \in kept |-> db.sess[s]]
      BY <1>3, CompactFacts
    <2>. QED
      BY <2>1 DEF EndKnown
  <1>4. CASE db' = db
    BY <1>4 DEF EndKnown
  <1>5. ScanFail \/ Restart \/ Tick \/ Spawn \/ Exit \/ Exec \/ Task \/ UNCHANGED vars => db' = db
    BY DEF ScanFail, Restart, Tick, Spawn, Exit, Exec, Task, vars
  <1>. QED
    BY <1>1, <1>2, <1>3, <1>4, <1>5 DEF Next

\* No step ends a session while the root that the newest scan of it saw lives,
\* unless the task record says that it completed.
THEOREM EndsCorrect == Spec => EndsWithKnownRoot
  <1>1. SessInv /\ [Next]_vars => EndKnown
    BY StepEnds
  <1>2. SessInv /\ [Next]_vars => [EndKnown]_vars
    BY <1>1
  <1>3. Spec => [][EndKnown]_vars
    BY <1>2, SessInvCorrect, PTL DEF Spec
  <1>. QED
    BY <1>3 DEF EndsWithKnownRoot, EndKnown
=============================================================================
