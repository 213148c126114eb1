---------------------------- MODULE ProcessTree ----------------------------
(***************************************************************************)
(* The parent/child view of one process snapshot (internal/process/tree.go)*)
(* as pure operators.  A snapshot is a function from the pids it holds to  *)
(* records with at least the fields ppid and start.  A parent link is      *)
(* believed only when the claimed parent is in the snapshot and started no *)
(* later than the child, so that a recycled pid never becomes a parent.    *)
(***************************************************************************)
EXTENDS Integers, Sequences, SequencesExt, FiniteSets

CONSTANTS InitPid,      \* the pid of launchd or init (InitPID = 1)
          NoPid,        \* the ppid 0 of a process with no parent at all
          MaxTreeDepth  \* the bound of every walk (maxTreeDepth = 128)

ASSUME TreeDepthAssumption == MaxTreeDepth \in Nat

\* A process's identity: the pid alone never names a process.
KeyOf(snap, p) == <<p, snap[p].start>>

\* Faulty variant: start times are not compared.
ClassifyLinkUndated(snap, p) ==
    IF snap[p].ppid \in DOMAIN snap \ {p, InitPid} THEN "intact" ELSE "missing"

ClassifyLink(snap, p) ==
    LET parent == snap[p].ppid IN
    CASE p = InitPid -> "root"
      [] p # InitPid /\ parent = NoPid -> "missing"
      [] p # InitPid /\ parent = p -> "impossible"
      [] p # InitPid /\ parent \notin {NoPid, p} /\ parent \notin DOMAIN snap ->
            IF parent = InitPid THEN "reparented" ELSE "missing"
      [] OTHER -> IF snap[parent].start > snap[p].start THEN "impossible"
                  ELSE IF parent = InitPid THEN "reparented" ELSE "intact"

Link(snap, p) == IF p \in DOMAIN snap THEN ClassifyLink(snap, p) ELSE "missing"

Children(snap, p) == {c \in DOMAIN snap : Link(snap, c) = "intact" /\ snap[c].ppid = p}

\* The pids above p, nearest first: the walk ends at the first link that is
\* not intact, at a pid already visited, and after MaxTreeDepth steps.
Ancestors(snap, p) ==
    LET walk[d \in 0..MaxTreeDepth] ==
          IF d = 0 THEN <<>>
          ELSE LET above == walk[d - 1]
                   cur == IF above = <<>> THEN p ELSE Last(above)
               IN  IF /\ Link(snap, cur) = "intact"
                      /\ snap[cur].ppid \notin {p} \cup Range(above)
                   THEN Append(above, snap[cur].ppid) ELSE above
    IN  walk[MaxTreeDepth]

\* Every pid below p, level by level, each one once.
Descendants(snap, p) ==
    LET walk[d \in 0..MaxTreeDepth] ==
          IF d = 0 THEN [seen |-> {p}, frontier |-> {p}]
          ELSE LET w == walk[d - 1]
                   next == (UNION {Children(snap, c) : c \in w.frontier}) \ w.seen
               IN  [seen |-> w.seen \cup next, frontier |-> next]
    IN  walk[MaxTreeDepth].seen \ {p}

IsDescendantOf(snap, p, ancestor) == ancestor \in Range(Ancestors(snap, p))

\* The pids with no believable parent in the snapshot.
TreeRoots(snap) == {p \in DOMAIN snap : Link(snap, p) # "intact"}
=============================================================================
