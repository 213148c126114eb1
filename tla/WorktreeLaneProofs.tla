------------------------- MODULE WorktreeLaneProofs -------------------------
(***************************************************************************)
(* Machine-checked facts about WorktreeLane, for every configuration that  *)
(* satisfies the module's assumptions: types, the write-ahead ledger of    *)
(* moves and removals, and where the checkout is meanwhile.                *)
(***************************************************************************)
EXTENDS WorktreeLane, TLAPS

Moving == pc \in {"git", "verify", "error"}

\* What the holder of scanMu has in hand.
LaneOK == /\ pc = "scan" => job \in ScanJob
          /\ Moving => job \in MoveJob

\* The row of a move in progress and of an executor at work exists.
HeldOK == /\ Moving => act[job.action] # None
          /\ \A a \in ActIds : exec[a] # None => act[a] # None

TypeInv == TypeOK /\ LaneOK

\* The configured durations and the bounds are numbers.
LEMMA Numbers ==
    /\ MaxPath \in Nat /\ StaleAfter \in Nat /\ ScanInterval \in Nat /\ RetireGrace \in Nat
    /\ ApprovalLifetime \in Nat /\ PlanLifetime \in Nat /\ MaxLag \in Nat
    /\ None \notin Nat /\ PlanLifetime <= StaleAfter
  <1>1. MaxPath \in Nat /\ StaleAfter \in Nat /\ ScanInterval \in Nat /\ RetireGrace \in Nat
    BY WorktreeAssumption
  <1>2. ApprovalLifetime \in Nat /\ PlanLifetime \in Nat /\ MaxLag \in Nat
    BY WorktreeAssumption
  <1>. QED
    BY <1>1, <1>2, WorktreeAssumption

----------------------------------------------------------------------------
(* The invariants the proofs rest on. *)

\* Who may still mutate, and what the action table says of it: the row of a
\* move in progress is attempting, that of an executor purging, and neither has
\* moved or removed anything before its Git command.
LedgerInv ==
    /\ WorktreeLedger
    /\ Moving => /\ act[job.action] # None /\ act[job.action].result = "attempting"
                 /\ act[job.action].kind = job.kind
                 /\ \A k \in 1..Len(muts) : muts[k].action = job.action => muts[k].from = job.row.path
    /\ pc = "git" => ~Mutated(job.action)
    /\ pc = "verify" => Mutated(job.action)
    /\ \A a \in ActIds : exec[a] # None =>
         /\ act[a] # None /\ act[a].result = "purging" /\ act[a].kind = "purge"
         /\ exec[a].stage # "report" => ~Mutated(a)

\* Where the checkout is while it is moved: scanMu keeps the row, only deletion
\* can interfere, and after an error the destination tells.  What was removed
\* stays removed.
PlaceInv ==
    /\ Moving => /\ job.row = row /\ row # None /\ row.path # None
                 /\ job.to # row.path /\ job.to # None
                 /\ row.state = IF job.kind = "retire" THEN "stale" ELSE "retired"
    /\ pc = "git" => tree = None \/ (tree = row.path /\ reg = row.path)
    /\ pc = "error" => \/ tree = None \/ tree = job.to \/ job.to \in other
                       \/ tree = row.path /\ reg = row.path /\ ~Mutated(job.action)
    /\ \A a \in ActIds : exec[a] # None => exec[a].plan.row.path # None
    /\ (\E k \in 1..Len(muts) : muts[k].op = "purge") => tree = None

----------------------------------------------------------------------------
(* The records of a scan. *)

\* The window a classification yields (worktree.Classify): a window in progress
\* is new, or continues an older one of this daemon with the same HEAD.
LEMMA ClassifyWindow ==
    ASSUME NEW prev, NEW at, NEW active, NEW complete, NEW c,
           c = Classify(prev, at, active, complete)
    PROVE  /\ c.state \in {"missing", "unknown", "active", "protected", "stale", "observing"}
           /\ c.state \in {"stale", "observing"} =>
                /\ complete /\ ~active /\ ~dirty /\ tree = reg
                /\ \/ c.since = at
                   \/ Continuous(prev, at) /\ prev.since # 0 /\ c.since = prev.since
           /\ c.state \notin {"stale", "observing"} => c.since = 0
  <1>. DEFINE since == IF Continuous(prev, at) /\ prev.since # 0 /\ at >= prev.since
                       THEN prev.since ELSE at
  <1>1. CASE tree # reg /\ reg \notin other
    <2>1. c = [state |-> "missing", since |-> 0]
      BY <1>1 DEF Classify
    <2>. QED
      BY <2>1
  <1>2. CASE ~(tree # reg /\ reg \notin other) /\ (~complete \/ tree # reg)
    <2>1. c = [state |-> "unknown", since |-> 0]
      BY <1>2 DEF Classify
    <2>. QED
      BY <2>1
  <1>3. CASE complete /\ tree = reg /\ active
    <2>1. c = [state |-> "active", since |-> 0]
      BY <1>3 DEF Classify
    <2>. QED
      BY <2>1
  <1>4. CASE complete /\ tree = reg /\ ~active /\ dirty
    <2>1. c = [state |-> "protected", since |-> 0]
      BY <1>4 DEF Classify
    <2>. QED
      BY <2>1
  <1>5. CASE complete /\ tree = reg /\ ~active /\ ~dirty
    <2>1. c = [state |-> IF Continuous(prev, at) /\ at - since >= StaleAfter THEN "stale"
                         ELSE "observing", since |-> since]
      BY <1>5 DEF Classify
    <2>2. c.since = since /\ c.state \in {"stale", "observing"}
      BY <2>1
    <2>. QED
      BY <1>5, <2>2
  <1>. QED
    BY <1>1, <1>2, <1>3, <1>4, <1>5

\* A row that says nothing is unknown, and is one of the rows.
LEMMA UnknownRecordType ==
    ASSUME TypeOK, NEW r \in OrNone(WtRow), NEW at
    PROVE  UnknownRecord(r, at) \in OrNone(WtRow)
  BY DEF UnknownRecord, OrNone, WtRow, States, TypeOK

\* So is the row of a checkout that was not observed.
LEMMA MissingRecordType ==
    ASSUME TypeOK, NEW r \in OrNone(WtRow), NEW at \in Nat
    PROVE  MissingRecord(r, at) \in OrNone(WtRow)
  BY DEF MissingRecord, OrNone, WtRow, States, TypeOK

\* And the row of one that was.
LEMMA WorktreeRecordType ==
    ASSUME TypeOK, NEW prev \in OrNone(WtRow), NEW at \in Nat, NEW active \in BOOLEAN,
           NEW complete \in BOOLEAN
    PROVE  WorktreeRecord(prev, at, active, complete) \in WtRow
  <1>1. CASE prev # None /\ prev.state = "retired"
    <2>1. prev \in WtRow /\ (complete /\ FreshOK(prev)) \in BOOLEAN
      BY <1>1 DEF OrNone, FreshOK
    <2>2. [prev EXCEPT !.seen = at, !.registered = TRUE, !.complete = complete /\ FreshOK(prev)]
             \in WtRow
      BY <2>1 DEF WtRow
    <2>. QED
      BY <1>1, <2>2 DEF WorktreeRecord
  <1>2. CASE ~(prev # None /\ prev.state = "retired")
    <2>. DEFINE c == Classify(prev, at, active, complete)
    <2>1. c.state \in States /\ c.since \in Nat
      <3>1. Continuous(prev, at) => prev.since \in Nat
        BY DEF Continuous, OrNone, WtRow
      <3>. QED
        BY <3>1, ClassifyWindow DEF States
    <2>2. SourcesNow \in SUBSET Sources /\ (complete /\ tree = reg) \in BOOLEAN
      BY DEF SourcesNow
    <2>3. None \in Where
      BY DEF Where
    <2>. HIDE DEF c
    <2>4. [path |-> reg, state |-> c.state, head |-> head, seen |-> at, since |-> c.since,
           boot |-> boot, complete |-> complete /\ tree = reg, registered |-> TRUE,
           orig |-> None, grace |-> 0, links |-> links, sources |-> SourcesNow] \in WtRow
      BY <2>1, <2>2, <2>3 DEF WtRow, TypeOK
    <2>. QED
      BY <1>2, <2>4 DEF WorktreeRecord, c
  <1>. QED
    BY <1>1, <1>2

\* Whatever a scan collects is a row or none.
LEMMA CollectType ==
    ASSUME TypeOK, NEW at \in Nat, NEW active \in BOOLEAN, NEW complete \in BOOLEAN, NEW inventory
    PROVE  CollectWorktrees(at, active, complete, inventory) \in OrNone(WtRow)
  <1>1. row \in OrNone(WtRow) /\ CurrentRow \in OrNone(WtRow)
    BY DEF TypeOK, CurrentRow, OrNone
  <1>2. WorktreeRecord(CurrentRow, at, active, complete) \in WtRow
    BY <1>1, WorktreeRecordType
  <1>3. UnknownRecord(row, at) \in OrNone(WtRow) /\ MissingRecord(row, at) \in OrNone(WtRow)
    BY <1>1, UnknownRecordType, MissingRecordType
  <1>. QED
    BY <1>1, <1>2, <1>3 DEF CollectWorktrees, OrNone

----------------------------------------------------------------------------
(* Types: one lemma per group of actions, then the theorem. *)

\* The lane begins with nothing in hand.
LEMMA InitType == Init => TypeInv
  <1>. SUFFICES ASSUME Init PROVE TypeInv
    OBVIOUS
  <1>1. muts \in Seq(MutType)
    BY DEF Init
  <1>2. tree \in Where /\ reg \in Where /\ ses \in Where
    BY WorktreeAssumption DEF Init, Where, Nested
  <1>3. TypeOK
    BY <1>1, <1>2 DEF Init, TypeOK, OrNone
  <1>. QED
    BY <1>3 DEF TypeInv, LaneOK, Moving, Init

\* A fault or a disturbance is counted, every other step is free.
LEMMA MovesCount ==
    ASSUME TypeOK, Next
    PROVE  moves' \in Nat
  <1>1. \/ moves' = moves
        \/ moves' = moves + 1
    BY DEF Next, Lucky, Disturb, Commit, DirtyFlip, Delete, Touch, TripElsewhere, Use, Occupy, Restart
  <1>. QED
    BY <1>1 DEF TypeOK

Machine == \/ Commit \/ DirtyFlip \/ Delete \/ Touch \/ Tick
           \/ \E u \in {"none", "process", "session"} : Use(u)
           \/ \E p \in Paths : Occupy(p)

\* Nothing outside the daemon and its executors touches its state.
LEMMA MachineFrame ==
    ASSUME Machine
    PROVE  /\ UNCHANGED <<row, act, ses, boot, lastWt, fsHealthy, approvals, waiting, plans,
                          pc, job, exec, retFrom, muts>>
           /\ now' = now \/ now' = now + 1
  BY DEF Machine, Commit, DirtyFlip, Delete, Touch, Tick, Use, Occupy, Elsewhere, store, memory,
         lane, place, content

\* Types over the steps of the machine.
LEMMA MachineType ==
    ASSUME TypeInv, moves' \in Nat, Machine
    PROVE  TypeInv'
  <1>0. TypeOK /\ None \in Where
    BY DEF TypeInv, Where
  <1>1. /\ now' \in Nat /\ tree' \in Where /\ reg' \in Where /\ other' \subseteq Paths
        /\ head' \in Nat /\ dirty' \in BOOLEAN /\ use' \in {"none", "process", "session"}
        /\ links' \in BOOLEAN /\ dirv' \in Nat /\ resetAt' \in Nat
    <2>1. CASE Commit \/ Delete \/ Touch \/ Tick
      BY <1>0, <2>1 DEF Commit, Delete, Touch, Tick, Elsewhere, place, content, TypeOK
    <2>2. CASE DirtyFlip
      <3>1. dirty' \in BOOLEAN
        BY <2>2 DEF DirtyFlip
      <3>. QED
        BY <1>0, <2>2, <3>1 DEF DirtyFlip, place, TypeOK
    <2>3. ASSUME NEW u \in {"none", "process", "session"}, Use(u) PROVE <1>1!:
      BY <1>0, <2>3 DEF Use, place, TypeOK
    <2>4. ASSUME NEW p \in Paths, Occupy(p) PROVE <1>1!:
      BY <1>0, <2>4 DEF Occupy, content, TypeOK
    <2>. QED
      BY <2>1, <2>2, <2>3, <2>4 DEF Machine
  <1>. QED
    BY <1>0, <1>1, MachineFrame DEF TypeInv, TypeOK, LaneOK, Moving, ScanJob, MoveJob

\* Types over a scan.
LEMMA ScanType ==
    ASSUME TypeInv, moves' \in Nat,
           \/ ScanStart
           \/ \E c \in BOOLEAN : \E i \in Inventories : ScanCommit(c, i)
           \/ \E ok \in BOOLEAN : \E i \in Inventories : ScanFail(i, ok)
    PROVE  TypeInv'
  <1>0. TypeOK /\ None \in Where
    BY DEF TypeInv, Where
  <1>1. CASE ScanStart
    <2>1. job' \in ScanJob
      BY <1>0, <1>1 DEF ScanStart, ScanJob, TypeOK
    <2>. QED
      BY <1>0, <1>1, <2>1 DEF ScanStart, machine, store, memory, place, content, TypeInv, TypeOK,
                              LaneOK, Moving, OrNone
  <1>2. ASSUME NEW c \in BOOLEAN, NEW i \in Inventories, ScanCommit(c, i) PROVE TypeInv'
    <2>1. job \in ScanJob
      BY <1>2 DEF ScanCommit, TypeInv, LaneOK
    <2>2. job.at \in Nat /\ job.active \in BOOLEAN /\ job.ses \in Where
      BY <2>1 DEF ScanJob
    <2>3. row' \in OrNone(WtRow)
      BY <1>0, <1>2, <2>2, CollectType DEF ScanCommit, TypeOK
    <2>4. lastWt' \in Nat /\ resetAt' \in Nat /\ ses' \in Where
      BY <1>0, <1>2, <2>2 DEF ScanCommit, TypeOK
    <2>. QED
      BY <1>0, <1>2, <2>3, <2>4 DEF ScanCommit, Release, place, content, TypeInv, TypeOK, LaneOK,
                                    Moving, OrNone
  <1>3. ASSUME NEW ok \in BOOLEAN, NEW i \in Inventories, ScanFail(i, ok) PROVE TypeInv'
    <2>1. job \in ScanJob
      BY <1>3 DEF ScanFail, TypeInv, LaneOK
    <2>2. job.at \in Nat /\ row \in OrNone(WtRow)
      BY <1>0, <2>1 DEF ScanJob, TypeOK
    <2>3. UnknownRecord(CollectWorktrees(job.at, FALSE, TRUE, i), job.at) \in OrNone(WtRow)
      BY <1>0, <2>2, CollectType, UnknownRecordType
    <2>4. UnknownRecord(row, job.at) \in OrNone(WtRow)
      BY <1>0, <2>2, UnknownRecordType
    <2>5. row' \in OrNone(WtRow)
      BY <1>3, <2>2, <2>3, <2>4 DEF ScanFail
    <2>6. lastWt' \in Nat /\ resetAt' \in Nat
      BY <1>0, <1>3, <2>2 DEF ScanFail, TypeOK
    <2>. QED
      BY <1>0, <1>3, <2>5, <2>6 DEF ScanFail, Release, place, content, TypeInv, TypeOK, LaneOK,
                                    Moving, OrNone
  <1>. QED
    BY <1>1, <1>2, <1>3

\* Writing an action row, refusing one and finishing one keep the table typed.
LEMMA BeginType ==
    ASSUME TypeOK, NEW a \in ActIds, NEW k \in WtKinds, NEW t \in Tokens, NEW r \in WtResults,
           Begin(a, Row(k, t, r))
    PROVE  act' \in [ActIds -> OrNone(ActType)]
  <1>1. Row(k, t, r) \in OrNone(ActType)
    BY DEF Row, ActType, OrNone
  <1>. QED
    BY <1>1 DEF Begin, TypeOK

\* A refusal is a row of the table.
LEMMA RejectType ==
    ASSUME TypeOK, NEW k \in WtKinds, NEW t \in Tokens, NEW ok, Reject(k, t, ok)
    PROVE  act' \in [ActIds -> OrNone(ActType)]
  BY BeginType DEF Reject, WtResults, TypeOK

\* So is an outcome.
LEMMA FinishType ==
    ASSUME TypeOK, NEW a \in ActIds, act[a] \in ActType, NEW r \in WtResults, NEW ok,
           FinishIf(ok, a, r)
    PROVE  act' \in [ActIds -> OrNone(ActType)]
  <1>1. [act[a] EXCEPT !.result = r] \in ActType
    BY DEF ActType
  <1>. QED
    BY <1>1 DEF FinishIf, Finish, TypeOK, OrNone

\* The rows of an approval, a plan and an executor that passed validation are
\* at a path Git knows.
LEMMA AuthorisedRow ==
    ASSUME TypeOK, waiting # None, Authorised(waiting)
    PROVE  /\ waiting \in WaitType /\ waiting.appr \in WtApproval /\ row \in WtRow
           /\ row.path \in 0..Nested /\ row.path = tree /\ row.path = reg /\ reg # None
           /\ row.head = head
           /\ waiting.appr.kind = "retire" =>
                /\ row.path < MaxPath /\ row.state = "stale" /\ row.boot = boot
                /\ row.since # 0 /\ now - row.since >= StaleAfter
           /\ waiting.appr.kind # "retire" =>
                /\ row.state = "retired" /\ row.orig # None /\ row.orig # row.path
           /\ waiting.appr.kind = "purge" => now >= row.grace
  <1>1. waiting \in WaitType
    BY DEF TypeOK, OrNone
  <1>2. Valid(waiting.appr.kind, row)
    BY DEF Authorised
  <1>3. row # None /\ FreshOK(row)
    BY <1>2 DEF Valid, ValidRemoval, ValidRetired
  <1>4. row \in WtRow /\ row.path = tree /\ row.path = reg /\ reg # None /\ row.head = head
    BY <1>3 DEF TypeOK, OrNone, FreshOK
  <1>5. row.path \in 0..Nested
    BY <1>4 DEF TypeOK, Where
  <1>6. waiting.appr \in WtApproval
    BY <1>1 DEF WaitType
  <1>7. waiting.appr.kind = "retire" =>
           /\ row.path < MaxPath /\ row.state = "stale" /\ row.boot = boot
           /\ row.since # 0 /\ now - row.since >= StaleAfter
    BY <1>2 DEF Authorised, Valid, ValidRemoval
  <1>8. waiting.appr.kind # "retire" =>
           row.state = "retired" /\ row.orig # None /\ row.orig # row.path
    BY <1>2, <1>4 DEF Valid, ValidRetired, Exists
  <1>9. waiting.appr.kind = "purge" => now >= row.grace
    BY <1>2 DEF Valid, ValidRetired
  <1>. QED
    BY <1>1, <1>4, <1>5, <1>6, <1>7, <1>8, <1>9

\* What MoveBegin puts into the lane's hand.
LEMMA MoveBeginJob ==
    ASSUME TypeOK, NEW a \in ActIds, NEW ok, MoveBegin(a, ok)
    PROVE  \/ UNCHANGED <<act, pc, job>>
           \/ /\ pc' = "git" /\ job' \in MoveJob /\ Begin(a, Row(job'.kind, waiting.token, "attempting"))
              /\ job'.action = a /\ job'.row = row /\ job'.kind = waiting.appr.kind
              /\ job'.to # row.path /\ job'.to # None
              /\ job'.quiet = now - resetAt
  <1>. DEFINE kind == waiting.appr.kind
              to == IF kind = "retire" THEN row.path + 1 ELSE row.orig
  <1>1. /\ row \in WtRow /\ row.path \in 0..Nested /\ waiting.appr \in WtApproval
        /\ kind = "retire" => row.path < MaxPath
        /\ kind # "retire" => row.orig # None /\ row.orig # row.path
    BY AuthorisedRow DEF MoveBegin
  <1>2. kind \in {"retire", "restore"}
    BY <1>1 DEF MoveBegin, WtApproval, WtKinds
  <1>3. to \in Where /\ to # row.path /\ to # None
    <2>1. CASE kind = "retire"
      BY <1>1, <2>1, WorktreeAssumption DEF Where, Nested
    <2>2. CASE kind # "retire"
      BY <1>1, <2>2 DEF WtRow
    <2>. QED
      BY <2>1, <2>2
  <1>4. now - resetAt \in Int
    BY DEF TypeOK
  <1>. HIDE DEF to
  <1>5. [kind |-> kind, action |-> a, row |-> row, to |-> to, quiet |-> now - resetAt] \in MoveJob
    BY <1>1, <1>2, <1>3, <1>4 DEF MoveJob
  <1>6. CASE ok
    <2>1. /\ job' = [kind |-> kind, action |-> a, row |-> row, to |-> to, quiet |-> now - resetAt]
          /\ pc' = "git" /\ Begin(a, Row(kind, waiting.token, "attempting"))
      BY <1>6 DEF MoveBegin, to
    <2>. QED
      BY <1>3, <1>5, <2>1
  <1>7. CASE ~ok
    BY <1>7 DEF MoveBegin, lane
  <1>. QED
    BY <1>6, <1>7

\* Types over previews, applies and refusals.
LEMMA ApplyType ==
    ASSUME TypeInv, moves' \in Nat,
           \/ TripElsewhere
           \/ \E t \in Tokens : \E k \in Kinds : \E ok \in BOOLEAN : Preview(t, k, ok)
           \/ \E t \in Tokens : \E m, ok \in BOOLEAN : Apply(t, m, ok)
           \/ \E i, ok \in BOOLEAN : ApplyRefused(i, ok)
    PROVE  TypeInv'
  <1>0. TypeOK
    BY DEF TypeInv
  <1>1. CASE TripElsewhere
    BY <1>0, <1>1 DEF TripElsewhere, machine, store, lane, place, content, TypeInv, TypeOK, LaneOK, Moving
  <1>2. ASSUME NEW t \in Tokens, NEW k \in Kinds, NEW ok \in BOOLEAN, Preview(t, k, ok) PROVE TypeInv'
    <2>. DEFINE new == [kind |-> k, row |-> row, val |-> Validation,
                        expires |-> now + ApprovalLifetime, used |-> FALSE]
    <2>1. row \in WtRow /\ k \in WtKinds
      BY <1>0, <1>2, WorktreeAssumption DEF Preview, Valid, ValidRemoval, ValidRetired, TypeOK,
                                            OrNone, WtKinds
    <2>2. Validation \in ValType /\ now + ApprovalLifetime \in Nat
      BY <1>0, WorktreeAssumption DEF Validation, ValType, TypeOK
    <2>3. new \in WtApproval
      BY <2>1, <2>2 DEF WtApproval
    <2>. HIDE DEF new
    <2>4. approvals' = [[u \in Tokens |-> IF approvals[u] = None \/ Kept(u) THEN approvals[u] ELSE Lost]
                          EXCEPT ![t] = IF ok THEN new ELSE Lost]
      BY <1>2 DEF Preview, new
    <2>5. approvals' \in [Tokens -> WtApproval \cup {None, Lost}]
      BY <1>0, <2>3, <2>4 DEF TypeOK
    <2>. QED
      BY <1>0, <1>2, <2>5 DEF Preview, machine, store, lane, place, content, TypeInv, TypeOK,
                              LaneOK, Moving
  <1>3. ASSUME NEW t \in Tokens, NEW m \in BOOLEAN, NEW ok \in BOOLEAN, Apply(t, m, ok) PROVE TypeInv'
    <2>1. approvals[t] \in WtApproval /\ approvals[t].kind \in WtKinds
      BY <1>0, <1>3 DEF Apply, TypeOK, WtApproval
    <2>2. [approvals[t] EXCEPT !.used = TRUE] \in WtApproval
      BY <2>1 DEF WtApproval
    <2>3. approvals' \in [Tokens -> WtApproval \cup {None, Lost}]
      BY <1>0, <1>3, <2>2 DEF Apply, TypeOK
    <2>4. waiting' \in OrNone(WaitType)
      BY <1>0, <1>3, <2>1 DEF Apply, TypeOK, OrNone, WaitType
    <2>5. act' = act \/ Reject(approvals[t].kind, t, ok)
      BY <1>3 DEF Apply
    <2>6. act' \in [ActIds -> OrNone(ActType)]
      BY <1>0, <2>1, <2>5, RejectType DEF TypeOK
    <2>. QED
      BY <1>0, <1>3, <2>3, <2>4, <2>6 DEF Apply, machine, lane, place, content, TypeInv, TypeOK,
                                          LaneOK, Moving
  <1>4. ASSUME NEW i \in BOOLEAN, NEW ok \in BOOLEAN, ApplyRefused(i, ok) PROVE TypeInv'
    <2>1. waiting.token \in Tokens /\ waiting.appr.kind \in WtKinds
      BY <1>0, <1>4 DEF ApplyRefused, TypeOK, OrNone, WaitType, WtApproval
    <2>2. act' \in [ActIds -> OrNone(ActType)]
      BY <1>0, <1>4, <2>1, RejectType DEF ApplyRefused
    <2>. QED
      BY <1>0, <1>4, <2>2 DEF ApplyRefused, machine, lane, place, content, TypeInv, TypeOK,
                              LaneOK, Moving, OrNone
  <1>. QED
    BY <1>1, <1>2, <1>3, <1>4

\* Types over a move.
LEMMA MoveType ==
    ASSUME TypeInv, HeldOK, moves' \in Nat,
           \/ \E a \in ActIds : \E ok \in BOOLEAN : MoveBegin(a, ok)
           \/ \E how \in GitOutcomes : GitMove(how)
           \/ \E ok \in BOOLEAN : MoveError(ok)
           \/ \E r, ok \in BOOLEAN : MoveRecord(r, ok)
    PROVE  TypeInv'
  <1>0. TypeOK
    BY DEF TypeInv
  <1>1. ASSUME NEW a \in ActIds, NEW ok \in BOOLEAN, MoveBegin(a, ok) PROVE TypeInv'
    <2>1. waiting.token \in Tokens
      BY <1>0, <1>1 DEF MoveBegin, TypeOK, OrNone, WaitType
    <2>2. /\ act' \in [ActIds -> OrNone(ActType)]
          /\ job' \in OrNone(ScanJob \cup MoveJob)
          /\ pc' \in {"idle", "scan", "git", "verify", "error"}
          /\ pc' \in {"idle", "git"} /\ (pc' = "git" => job' \in MoveJob)
      <3>1. CASE UNCHANGED <<act, pc, job>>
        BY <1>0, <1>1, <3>1 DEF MoveBegin, Idle, TypeOK
      <3>2. CASE /\ pc' = "git" /\ job' \in MoveJob
                 /\ Begin(a, Row(job'.kind, waiting.token, "attempting"))
        <4>1. job'.kind \in WtKinds /\ "attempting" \in WtResults
          BY <3>2 DEF MoveJob, WtKinds, WtResults
        <4>. QED
          BY <1>0, <2>1, <3>2, <4>1, BeginType DEF OrNone
      <3>. QED
        BY <1>0, <1>1, <3>1, <3>2, MoveBeginJob
    <2>. QED
      BY <1>0, <1>1, <2>2 DEF MoveBegin, machine, place, content, TypeInv, TypeOK, LaneOK, Moving, OrNone
  <1>2. ASSUME NEW how \in GitOutcomes, GitMove(how) PROVE TypeInv'
    <2>0. job \in MoveJob /\ job.row \in WtRow
      BY <1>2 DEF GitMove, TypeInv, LaneOK, Moving, MoveJob
    <2>1. Nested \in Where /\ job.to \in Where /\ job.row.path \in Where
      BY <2>0, WorktreeAssumption DEF Nested, Where, MoveJob, WtRow
    <2>2. tree' \in Where /\ reg' \in Where /\ retFrom' \in Nat /\ resetAt' \in Nat
      BY <1>0, <1>2, <2>1 DEF GitMove, TypeOK
    <2>3. Mutation(job.kind, job.action, job.row.path, job.quiet, 0) \in MutType
      BY <2>0, <2>1 DEF Mutation, MutType, MoveJob, WtKinds
    <2>4. muts' \in Seq(MutType)
      <3>1. \/ muts' = muts
            \/ muts' = Append(muts, Mutation(job.kind, job.action, job.row.path, job.quiet, 0))
        BY <1>2 DEF GitMove
      <3>. QED
        BY <1>0, <2>3, <3>1 DEF TypeOK
    <2>5. pc' \in {"verify", "error"} /\ job' = job
      BY <1>2 DEF GitMove
    <2>. QED
      BY <1>0, <1>2, <2>0, <2>2, <2>4, <2>5 DEF GitMove, content, store, memory, TypeInv, TypeOK,
                                                LaneOK, Moving, OrNone
  <1>3. ASSUME NEW ok \in BOOLEAN, MoveError(ok) PROVE TypeInv'
    <2>1. job.action \in ActIds /\ act[job.action] \in ActType
      BY <1>0, <1>3 DEF MoveError, TypeInv, LaneOK, HeldOK, Moving, MoveJob, TypeOK, OrNone
    <2>2. act' \in [ActIds -> OrNone(ActType)]
      BY <1>0, <1>3, <2>1, FinishType DEF MoveError, WtResults
    <2>3. fsHealthy' \in BOOLEAN
      BY <1>3 DEF MoveError
    <2>. QED
      BY <1>0, <1>3, <2>2, <2>3 DEF MoveError, Release, machine, place, content, TypeInv, TypeOK,
                                    LaneOK, Moving, OrNone
  <1>4. ASSUME NEW r \in BOOLEAN, NEW ok \in BOOLEAN, MoveRecord(r, ok) PROVE TypeInv'
    <2>0. job \in MoveJob /\ job.row \in WtRow /\ job.to \in Where
      BY <1>4 DEF MoveRecord, TypeInv, LaneOK, Moving, MoveJob
    <2>1. job.action \in ActIds /\ act[job.action] \in ActType
      BY <1>0, <1>4, <2>0 DEF MoveRecord, TypeInv, LaneOK, HeldOK, Moving, MoveJob, TypeOK, OrNone
    <2>2. act' \in [ActIds -> OrNone(ActType)]
      BY <1>0, <1>4, <2>1, FinishType DEF MoveRecord, WtResults
    <2>3. fsHealthy' \in BOOLEAN
      BY <1>4 DEF MoveRecord
    <2>4. RetiredRow \in WtRow
      <3>1. now + RetireGrace \in Nat /\ now \in Nat /\ job.row.path \in Where
        <4>1. now \in Nat
          BY <1>0 DEF TypeOK
        <4>2. job.row.path \in Where
          BY <2>0 DEF WtRow
        <4>. QED
          BY <4>1, <4>2, Numbers
      <3>2. PICK g \in Nat, n \in Nat, f \in Where : g = now + RetireGrace /\ n = now /\ f = job.row.path
        BY <3>1
      <3>3. RetiredRow = [job.row EXCEPT !.orig = f, !.path = job.to, !.state = "retired", !.seen = n,
                                         !.complete = TRUE, !.registered = TRUE, !.grace = g]
        BY <3>2 DEF RetiredRow
      <3>. QED
        BY <2>0, <3>3 DEF WtRow, States
    <2>5. RestoredRow \in WtRow
      BY <1>0, <2>0, Numbers DEF RestoredRow, WtRow, TypeOK, States, Where
    <2>6. row' \in OrNone(WtRow)
      BY <1>0, <1>4, <2>4, <2>5 DEF MoveRecord, TypeOK, OrNone
    <2>. QED
      BY <1>0, <1>4, <2>2, <2>3, <2>6 DEF MoveRecord, Release, machine, place, content, TypeInv,
                                          TypeOK, LaneOK, Moving, OrNone
  <1>. QED
    BY <1>1, <1>2, <1>3, <1>4

\* Types over a purge.
LEMMA PurgeType ==
    ASSUME TypeInv, HeldOK, moves' \in Nat,
           \/ \E a \in ActIds : \E ok \in BOOLEAN : PurgePrepare(a, ok)
           \/ \E a \in ActIds : ExecOpen(a) \/ ExecDie(a)
           \/ \E a \in ActIds : \E how \in GitOutcomes : ExecRemove(a, how)
           \/ \E a \in ActIds : \E r, ok \in BOOLEAN : PurgeComplete(a, r, ok)
    PROVE  TypeInv'
  <1>0. TypeOK
    BY DEF TypeInv
  <1>1. ASSUME NEW a \in ActIds, NEW ok \in BOOLEAN, PurgePrepare(a, ok) PROVE TypeInv'
    <2>1. waiting.token \in Tokens /\ waiting.appr.val \in ValType /\ waiting.at \in Nat /\ row \in WtRow
      BY <1>0, <1>1, AuthorisedRow DEF PurgePrepare, WaitType, WtApproval
    <2>2. Plan(waiting, a) \in PlanType
      BY <2>1, WorktreeAssumption DEF Plan, PlanType
    <2>3. [plan |-> Plan(waiting, a), stage |-> "ready", sat |-> 0, failed |-> FALSE] \in ExecType
      BY <2>2 DEF ExecType
    <2>4. plans' \subseteq PlanType /\ exec' \in [ActIds -> OrNone(ExecType)]
      BY <1>0, <1>1, <2>2, <2>3 DEF PurgePrepare, TypeOK, OrNone
    <2>5. act' = act \/ \E r \in {"failed", "purging"} : Begin(a, Row("purge", waiting.token, r))
      BY <1>1 DEF PurgePrepare
    <2>6. act' \in [ActIds -> OrNone(ActType)]
      BY <1>0, <2>1, <2>5, BeginType DEF WtKinds, WtResults, TypeOK
    <2>. QED
      BY <1>0, <1>1, <2>4, <2>6 DEF PurgePrepare, machine, lane, place, content, TypeInv, TypeOK,
                                    LaneOK, Moving, OrNone
  <1>2. ASSUME NEW a \in ActIds, ExecOpen(a) PROVE TypeInv'
    <2>1. exec[a] \in ExecType
      BY <1>0, <1>2 DEF ExecOpen, Stage, TypeOK, OrNone
    <2>2. now - retFrom \in Int
      BY <1>0 DEF TypeOK
    <2>3. PICK b \in BOOLEAN :
            /\ exec' = [exec EXCEPT ![a].stage = IF b THEN "remove" ELSE "report",
                                    ![a].sat = now - retFrom, ![a].failed = ~b]
            /\ links' = (links /\ ~b) /\ dirv' = IF b /\ links THEN dirv + 1 ELSE dirv
      BY <1>2, Zenon DEF ExecOpen
    <2>4. [exec[a] EXCEPT !.stage = IF b THEN "remove" ELSE "report",
                          !.sat = now - retFrom, !.failed = ~b] \in ExecType
      BY <2>1, <2>2 DEF ExecType
    <2>5. exec' \in [ActIds -> OrNone(ExecType)]
      BY <1>0, <2>3, <2>4 DEF TypeOK, OrNone
    <2>6. links' \in BOOLEAN /\ dirv' \in Nat
      BY <1>0, <2>3 DEF TypeOK
    <2>. QED
      BY <1>0, <1>2, <2>5, <2>6 DEF ExecOpen, Foreground, store, memory, lane, place, TypeInv,
                                    TypeOK, LaneOK, Moving
  <1>3. ASSUME NEW a \in ActIds, NEW how \in GitOutcomes, ExecRemove(a, how) PROVE TypeInv'
    <2>1. exec[a] \in ExecType /\ None \in Where
      BY <1>0, <1>3 DEF ExecRemove, Stage, TypeOK, OrNone, Where
    <2>2. exec[a].plan.row.path \in Where /\ exec[a].sat \in Int
      BY <2>1 DEF ExecType, PlanType, WtRow
    <2>3. \A b \in BOOLEAN : [exec[a] EXCEPT !.stage = "report", !.failed = b] \in ExecType
      BY <2>1 DEF ExecType
    <2>4. \E b \in BOOLEAN : exec' = [exec EXCEPT ![a].stage = "report", ![a].failed = b]
      BY <1>3 DEF ExecRemove
    <2>5. exec' \in [ActIds -> OrNone(ExecType)]
      BY <1>0, <2>3, <2>4 DEF TypeOK, OrNone
    <2>6. Mutation("purge", a, exec[a].plan.row.path, 0, exec[a].sat) \in MutType
      BY <2>2 DEF Mutation, MutType, WtKinds
    <2>7. muts' \in Seq(MutType) /\ tree' \in Where /\ reg' \in Where
      <3>1. /\ \/ muts' = muts
               \/ muts' = Append(muts, Mutation("purge", a, exec[a].plan.row.path, 0, exec[a].sat))
            /\ tree' \in {tree, None} /\ reg' \in {reg, None}
        BY <1>3 DEF ExecRemove
      <3>2. muts \in Seq(MutType) /\ tree \in Where /\ reg \in Where
        BY <1>0 DEF TypeOK
      <3>. QED
        BY <2>1, <2>6, <3>1, <3>2
    <2>8. links' \in BOOLEAN /\ dirv' \in Nat
      <3>1. links' = links \/ links' = (links \/ (tree # None /\ exec[a].plan.val.links))
        BY <1>3 DEF ExecRemove
      <3>2. dirv' = dirv \/ dirv' = dirv + 1
        BY <1>3 DEF ExecRemove
      <3>3. links \in BOOLEAN /\ dirv \in Nat
        BY <1>0 DEF TypeOK
      <3>4. (links \/ (tree # None /\ exec[a].plan.val.links)) \in BOOLEAN
        OBVIOUS
      <3>5. links' \in BOOLEAN
        BY <3>1, <3>3, <3>4
      <3>. QED
        BY <3>2, <3>3, <3>5
    <2>. QED
      BY <1>0, <1>3, <2>5, <2>7, <2>8 DEF ExecRemove, Foreground, store, memory, lane, TypeInv,
                                          TypeOK, LaneOK, Moving
  <1>4. ASSUME NEW a \in ActIds, ExecDie(a) PROVE TypeInv'
    BY <1>0, <1>4 DEF ExecDie, machine, Foreground, store, memory, lane, place, content, TypeInv,
                      TypeOK, LaneOK, Moving, OrNone
  <1>5. ASSUME NEW a \in ActIds, NEW r \in BOOLEAN, NEW ok \in BOOLEAN, PurgeComplete(a, r, ok)
        PROVE  TypeInv'
    <2>1. exec[a] \in ExecType /\ act[a] \in ActType
      BY <1>0, <1>5 DEF PurgeComplete, Stage, TypeOK, OrNone, HeldOK
    <2>2. exec[a].plan.row \in WtRow
      BY <2>1 DEF ExecType, PlanType
    <2>3. RemovedRow(exec[a].plan) \in WtRow
      BY <1>0, <2>2 DEF RemovedRow, WtRow, States, TypeOK
    <2>4. act' = act \/ \E o \in WtResults : FinishIf(ok, a, o)
      BY <1>5 DEF PurgeComplete, WtResults
    <2>5. act' \in [ActIds -> OrNone(ActType)]
      BY <1>0, <2>1, <2>4, FinishType DEF TypeOK
    <2>6. row' \in OrNone(WtRow) /\ fsHealthy' \in BOOLEAN /\ plans' \subseteq PlanType
      BY <1>0, <1>5, <2>3 DEF PurgeComplete, TypeOK, OrNone
    <2>7. exec' \in [ActIds -> OrNone(ExecType)]
      BY <1>0, <1>5 DEF PurgeComplete, TypeOK, OrNone
    <2>. QED
      BY <1>0, <1>5, <2>5, <2>6, <2>7 DEF PurgeComplete, machine, lane, place, content, TypeInv,
                                          TypeOK, LaneOK, Moving
  <1>. QED
    BY <1>1, <1>2, <1>3, <1>4, <1>5
\* The steps of Next without the bookkeeping of faults.
Step == \/ Machine \/ TripElsewhere \/ ScanStart \/ Restart
        \/ \E c \in BOOLEAN : \E i \in Inventories : ScanCommit(c, i)
        \/ \E ok \in BOOLEAN : \E i \in Inventories : ScanFail(i, ok)
        \/ \E t \in Tokens : \E k \in Kinds : \E ok \in BOOLEAN : Preview(t, k, ok)
        \/ \E t \in Tokens : \E m, ok \in BOOLEAN : Apply(t, m, ok)
        \/ \E i, ok \in BOOLEAN : ApplyRefused(i, ok)
        \/ \E a \in ActIds : \E ok \in BOOLEAN : MoveBegin(a, ok)
        \/ \E how \in GitOutcomes : GitMove(how)
        \/ \E ok \in BOOLEAN : MoveError(ok)
        \/ \E r, ok \in BOOLEAN : MoveRecord(r, ok)
        \/ \E a \in ActIds : \E ok \in BOOLEAN : PurgePrepare(a, ok)
        \/ \E a \in ActIds : ExecOpen(a) \/ ExecDie(a)
        \/ \E a \in ActIds : \E how \in GitOutcomes : ExecRemove(a, how)
        \/ \E a \in ActIds : \E r, ok \in BOOLEAN : PurgeComplete(a, r, ok)

\* Every step of Next is one of them.
LEMMA NextStep == Next => Step
  BY DEF Next, Step, Machine

\* A restart empties the daemon's memory and keeps the types.
LEMMA RestartType ==
    ASSUME TypeInv, moves' \in Nat, Restart
    PROVE  TypeInv'
  BY DEF Restart, Release, place, content, store, TypeInv, TypeOK, LaneOK, Moving, OrNone

\* Every step keeps the types, given the rows that are held.
LEMMA StepType == TypeInv /\ HeldOK /\ [Next]_vars => TypeInv'
  <1>. SUFFICES ASSUME TypeInv, HeldOK, [Next]_vars PROVE TypeInv'
    OBVIOUS
  <1>1. CASE Next
    <2>1. moves' \in Nat /\ Step
      BY <1>1, MovesCount, NextStep DEF TypeInv
    <2>. QED
      BY <2>1, MachineType, ScanType, ApplyType, MoveType, PurgeType, RestartType DEF Step
  <1>2. CASE UNCHANGED vars
    BY <1>2 DEF vars, machine, store, memory, lane, place, content, TypeInv, TypeOK, LaneOK, Moving
  <1>. QED
    BY <1>1, <1>2

----------------------------------------------------------------------------
(* The write-ahead ledger. *)

\* A new row in a free slot, or none.
Inserted(results) ==
    \/ UNCHANGED act
    \/ \E i \in ActIds : \E r \in ActType :
         act[i] = None /\ r.result \in results /\ act' = [act EXCEPT ![i] = r]

\* Rows that exist are left alone by an insertion.
LEMMA InsertedFrame ==
    ASSUME TypeOK, NEW R, Inserted(R)
    PROVE  \A a \in ActIds : /\ act[a] # None => act'[a] = act[a]
                             /\ act'[a] # None /\ act[a] = None => act'[a].result \in R
  BY DEF Inserted, TypeOK

\* Refusals and new attempts are insertions.
LEMMA BeginInserts ==
    ASSUME NEW a \in ActIds, NEW k \in WtKinds, NEW t \in Tokens, NEW r \in WtResults,
           Begin(a, Row(k, t, r))
    PROVE  Inserted({r})
  <1>1. Row(k, t, r) \in ActType /\ Row(k, t, r).result = r
    BY DEF Row, ActType
  <1>. QED
    BY <1>1 DEF Begin, Inserted

\* So is a refusal of an approval.
LEMMA RejectInserts ==
    ASSUME NEW k \in WtKinds, NEW t \in Tokens, NEW ok, Reject(k, t, ok)
    PROVE  Inserted({"rejected"})
  <1>1. "rejected" \in WtResults
    BY DEF WtResults
  <1>2. act' = act \/ \E a \in ActIds : Begin(a, Row(k, t, "rejected"))
    BY DEF Reject
  <1>. QED
    BY <1>1, <1>2, BeginInserts DEF Inserted

\* The entries of the history are typed.
LEMMA HistoryType ==
    ASSUME TypeOK
    PROVE  Len(muts) \in Nat /\ \A k \in 1..Len(muts) : muts[k] \in MutType
  <1>1. muts \in Seq(MutType)
    BY DEF TypeOK
  <1>. QED
    BY <1>1

\* What was not begun has not moved or removed anything.
LEMMA NotBegun ==
    ASSUME TypeOK, WorktreeLedger, NEW a, act[a] = None
    PROVE  ~Mutated(a)
  BY DEF WorktreeLedger, Mutated

\* Insertions of rows that claim no outcome keep the ledger.
LEMMA LedgerInsert ==
    ASSUME TypeOK, WorktreeLedger, UNCHANGED muts, other \subseteq other',
           Inserted({"rejected", "failed", "purging", "attempting"})
    PROVE  WorktreeLedger'
  <1>1. \A a \in ActIds : act[a] # None => act'[a] = act[a]
    BY InsertedFrame
  <1>2. \A a \in ActIds : act'[a] # None /\ act[a] = None =>
           act'[a].result \in {"rejected", "failed", "purging", "attempting"} /\ ~Mutated(a)
    BY InsertedFrame, NotBegun
  <1>3. \A k \in 1..Len(muts) : muts[k].action \in ActIds
    BY HistoryType DEF MutType
  <1>4. \A a : Mutated(a)' <=> Mutated(a)
    BY DEF Mutated
  <1>5. ASSUME NEW a \in ActIds, act'[a] # None
        PROVE  /\ act'[a].result = "rejected" => ~Mutated(a)
               /\ act'[a].result = "failed" =>
                    \A k \in 1..Len(muts) : muts[k].action = a =>
                       muts[k].op # "purge" /\ muts[k].from \in other'
               /\ act'[a].result \in {"retired", "restored"} => Mutated(a)
    <2>1. CASE act[a] # None
      BY <1>1, <1>5, <2>1 DEF WorktreeLedger
    <2>2. CASE act[a] = None
      BY <1>2, <1>5, <2>2 DEF Mutated
    <2>. QED
      BY <2>1, <2>2
  <1>. QED
    BY <1>1, <1>3, <1>4, <1>5 DEF WorktreeLedger

\* Steps that mutate nothing, decide no outcome and hand over no work.
LEMMA LedgerFrame ==
    ASSUME TypeInv, LedgerInv, UNCHANGED muts, other \subseteq other',
           Inserted({"rejected", "failed", "purging"}),
           pc' \in {"idle", "scan"} \/ UNCHANGED <<pc, job>>,
           \A a \in ActIds : exec'[a] # None =>
              \/ exec[a] # None /\ (exec[a].stage = "report" => exec'[a].stage = "report")
              \/ act[a] = None /\ act'[a] # None /\ act'[a].result = "purging" /\ act'[a].kind = "purge"
    PROVE  LedgerInv'
  <1>0. TypeOK /\ WorktreeLedger
    BY DEF TypeInv, LedgerInv
  <1>1. \A a \in ActIds : act[a] # None => act'[a] = act[a]
    BY <1>0, InsertedFrame
  <1>2. \A a : Mutated(a)' <=> Mutated(a)
    BY DEF Mutated
  <1>3. WorktreeLedger'
    <2>1. Inserted({"rejected", "failed", "purging", "attempting"})
      BY DEF Inserted
    <2>. QED
      BY <1>0, <2>1, LedgerInsert
  <1>4. Moving' => Moving /\ UNCHANGED <<pc, job>> /\ job.action \in ActIds
    BY DEF Moving, TypeInv, LaneOK, MoveJob
  <1>5. Moving' =>
          /\ act'[job'.action] # None /\ act'[job'.action].result = "attempting"
          /\ act'[job'.action].kind = job'.kind
          /\ \A k \in 1..Len(muts') : muts'[k].action = job'.action => muts'[k].from = job'.row.path
    BY <1>1, <1>4 DEF LedgerInv
  <1>6. (pc' = "git" => ~Mutated(job'.action)) /\ (pc' = "verify" => Mutated(job'.action))
    BY <1>4 DEF LedgerInv, Moving
  <1>7. ASSUME NEW a \in ActIds, exec'[a] # None
        PROVE  /\ act'[a] # None /\ act'[a].result = "purging" /\ act'[a].kind = "purge"
               /\ exec'[a].stage # "report" => ~Mutated(a)
    BY <1>0, <1>1, <1>7, NotBegun DEF LedgerInv
  <1>. QED
    BY <1>2, <1>3, <1>5, <1>6, <1>7 DEF LedgerInv

\* The history grows by one entry.
LEMMA HistoryGrows ==
    ASSUME TypeOK, NEW m \in MutType, muts' = Append(muts, m)
    PROVE  /\ Len(muts) \in Nat /\ Len(muts') = Len(muts) + 1 /\ muts'[Len(muts) + 1] = m
           /\ \A k \in 1..Len(muts) : muts'[k] = muts[k]
           /\ \A k \in 1..Len(muts') : k \in 1..Len(muts) \/ k = Len(muts) + 1
           /\ \A a : Mutated(a)' <=> Mutated(a) \/ a = m.action
  <1>1. /\ Len(muts) \in Nat /\ Len(muts') = Len(muts) + 1 /\ muts'[Len(muts) + 1] = m
        /\ \A k \in 1..Len(muts) : muts'[k] = muts[k]
    BY DEF TypeOK
  <1>2. \A k \in 1..Len(muts') : k \in 1..Len(muts) \/ k = Len(muts) + 1
    BY <1>1
  <1>3. Len(muts) + 1 \in 1..Len(muts') /\ \A k \in 1..Len(muts) : k \in 1..Len(muts')
    BY <1>1
  <1>. QED
    BY <1>1, <1>2, <1>3 DEF Mutated

\* The one move or removal of an open action keeps the ledger.
LEMMA LedgerMutation ==
    ASSUME TypeOK, WorktreeLedger, NEW m \in MutType, muts' = Append(muts, m), UNCHANGED <<act, other>>,
           ~Mutated(m.action), act[m.action] # None, act[m.action].kind = m.op,
           act[m.action].result \in {"attempting", "purging"}
    PROVE  WorktreeLedger'
  <1>1. /\ Len(muts) \in Nat /\ Len(muts') = Len(muts) + 1 /\ muts'[Len(muts) + 1] = m
        /\ \A k \in 1..Len(muts) : muts'[k] = muts[k]
        /\ \A k \in 1..Len(muts') : k \in 1..Len(muts) \/ k = Len(muts) + 1
        /\ \A a : Mutated(a)' <=> Mutated(a) \/ a = m.action
    BY HistoryGrows
  <1>2. \A k \in 1..Len(muts') : act[muts'[k].action] # None /\ act[muts'[k].action].kind = muts'[k].op
    BY <1>1 DEF WorktreeLedger
  <1>3. \A k \in 1..Len(muts) : muts[k].action # m.action
    BY DEF Mutated
  <1>4. ASSUME NEW j \in 1..Len(muts'), NEW k \in 1..Len(muts'), muts'[j].action = muts'[k].action
        PROVE  j = k
    <2>1. CASE j \in 1..Len(muts) /\ k \in 1..Len(muts)
      BY <1>1, <1>4, <2>1 DEF WorktreeLedger
    <2>2. CASE j = Len(muts) + 1 \/ k = Len(muts) + 1
      BY <1>1, <1>3, <1>4, <2>2
    <2>. QED
      BY <1>1, <2>1, <2>2
  <1>5. ASSUME NEW a \in ActIds, act[a] # None
        PROVE  /\ act[a].result = "rejected" => ~Mutated(a)'
               /\ act[a].result = "failed" =>
                    \A k \in 1..Len(muts') : muts'[k].action = a =>
                       muts'[k].op # "purge" /\ muts'[k].from \in other
               /\ act[a].result \in {"retired", "restored"} => Mutated(a)'
    <2>1. CASE a = m.action
      BY <2>1
    <2>2. CASE a # m.action
      BY <1>1, <1>5, <2>2 DEF WorktreeLedger
    <2>. QED
      BY <2>1, <2>2
  <1>. QED
    BY <1>2, <1>4, <1>5 DEF WorktreeLedger

\* So does an outcome that tells the truth.
LEMMA LedgerOutcome ==
    ASSUME TypeOK, WorktreeLedger, NEW a \in ActIds, act[a] \in ActType, NEW r \in WtResults,
           act' = [act EXCEPT ![a].result = r], UNCHANGED <<muts, other>>, r # "rejected",
           r \in {"retired", "restored"} => Mutated(a),
           r = "failed" => \A k \in 1..Len(muts) : muts[k].action = a =>
                             muts[k].op # "purge" /\ muts[k].from \in other
    PROVE  /\ WorktreeLedger'
           /\ act'[a] \in ActType /\ act'[a].kind = act[a].kind /\ act'[a].token = act[a].token
           /\ act'[a].result = r
           /\ \A b \in ActIds : b # a => act'[b] = act[b]
  <1>1. /\ act'[a].kind = act[a].kind /\ act'[a].token = act[a].token /\ act'[a].result = r
        /\ act'[a] \in ActType /\ act[a] # None /\ act'[a] # None
        /\ \A b \in ActIds : b # a => act'[b] = act[b]
    BY NoRecordAssumption DEF TypeOK, ActType
  <1>2. \A k \in 1..Len(muts) : muts[k].action \in ActIds
    BY HistoryType DEF MutType
  <1>3. \A b : Mutated(b)' <=> Mutated(b)
    BY DEF Mutated
  <1>4. \A k \in 1..Len(muts) : act'[muts[k].action] # None /\ act'[muts[k].action].kind = muts[k].op
    BY <1>1, <1>2 DEF WorktreeLedger
  <1>5. ASSUME NEW b \in ActIds, act'[b] # None
        PROVE  /\ act'[b].result = "rejected" => ~Mutated(b)
               /\ act'[b].result = "failed" =>
                    \A k \in 1..Len(muts) : muts[k].action = b =>
                       muts[k].op # "purge" /\ muts[k].from \in other
               /\ act'[b].result \in {"retired", "restored"} => Mutated(b)
    BY <1>1, <1>5 DEF WorktreeLedger
  <1>. QED
    BY <1>1, <1>3, <1>4, <1>5 DEF WorktreeLedger

\* Steps of the machine, of scans and of the daemon that touch no action row.
LEMMA LedgerQuiet ==
    ASSUME TypeInv, LedgerInv,
           \/ Machine \/ TripElsewhere \/ ScanStart \/ Restart
           \/ \E c \in BOOLEAN : \E i \in Inventories : ScanCommit(c, i)
           \/ \E ok \in BOOLEAN : \E i \in Inventories : ScanFail(i, ok)
           \/ \E t \in Tokens : \E k \in Kinds : \E ok \in BOOLEAN : Preview(t, k, ok)
    PROVE  LedgerInv'
  <1>1. /\ UNCHANGED <<act, muts, exec>> /\ other \subseteq other'
        /\ pc' \in {"idle", "scan"} \/ UNCHANGED <<pc, job>>
    <2>1. CASE Machine
      <3>1. other \subseteq other'
        BY <2>1 DEF Machine, Commit, DirtyFlip, Delete, Touch, Tick, Use, Occupy, place
      <3>. QED
        BY <2>1, <3>1, MachineFrame
    <2>2. CASE ~Machine
      BY <2>2 DEF TripElsewhere, ScanStart, Restart, ScanCommit, ScanFail, Preview, Release, machine,
                  store, lane, place
    <2>. QED
      BY <2>1, <2>2
  <1>2. Inserted({"rejected", "failed", "purging"})
    BY <1>1 DEF Inserted
  <1>. QED
    BY <1>1, <1>2, LedgerFrame

\* Refusing an approval, before or after the wait for scanMu.
LEMMA LedgerReject ==
    ASSUME TypeInv, LedgerInv,
           \/ \E t \in Tokens : \E m, ok \in BOOLEAN : Apply(t, m, ok)
           \/ \E i, ok \in BOOLEAN : ApplyRefused(i, ok)
    PROVE  Inserted({"rejected"}) /\ LedgerInv'
  <1>0. TypeOK
    BY DEF TypeInv
  <1>1. UNCHANGED <<muts, exec, pc, job, other>>
    BY DEF Apply, ApplyRefused, machine, lane, place
  <1>2. Inserted({"rejected"})
    <2>1. ASSUME NEW t \in Tokens, NEW m \in BOOLEAN, NEW ok \in BOOLEAN, Apply(t, m, ok)
          PROVE  Inserted({"rejected"})
      <3>1. approvals[t].kind \in WtKinds
        BY <1>0, <2>1 DEF Apply, TypeOK, WtApproval
      <3>2. act' = act \/ Reject(approvals[t].kind, t, ok)
        BY <2>1 DEF Apply
      <3>. QED
        BY <3>1, <3>2, RejectInserts DEF Inserted
    <2>2. ASSUME NEW i \in BOOLEAN, NEW ok \in BOOLEAN, ApplyRefused(i, ok)
          PROVE  Inserted({"rejected"})
      <3>1. waiting.appr.kind \in WtKinds /\ waiting.token \in Tokens
        BY <1>0, <2>2 DEF ApplyRefused, TypeOK, OrNone, WaitType, WtApproval
      <3>. QED
        BY <2>2, <3>1, RejectInserts DEF ApplyRefused
    <2>. QED
      BY <2>1, <2>2
  <1>3. Inserted({"rejected", "failed", "purging"})
    BY <1>2 DEF Inserted
  <1>. QED
    BY <1>1, <1>2, <1>3, LedgerFrame

\* The attempting row comes before the lane may move anything.
LEMMA LedgerMoveBegin ==
    ASSUME TypeInv, LedgerInv, NEW a \in ActIds, NEW ok \in BOOLEAN, MoveBegin(a, ok)
    PROVE  LedgerInv'
  <1>0. TypeOK /\ WorktreeLedger /\ UNCHANGED <<muts, exec, other>>
    BY DEF TypeInv, LedgerInv, MoveBegin, machine, place
  <1>1. CASE UNCHANGED <<act, pc, job>>
    BY <1>0, <1>1, LedgerFrame DEF Inserted
  <1>2. CASE /\ pc' = "git" /\ job' \in MoveJob /\ job'.action = a
             /\ Begin(a, Row(job'.kind, waiting.token, "attempting"))
    <2>1. job'.kind \in WtKinds /\ waiting.token \in Tokens /\ "attempting" \in WtResults
      BY <1>0, <1>2 DEF MoveJob, MoveBegin, TypeOK, OrNone, WaitType, WtKinds, WtResults
    <2>2. Inserted({"attempting"})
      BY <1>2, <2>1, BeginInserts
    <2>3. \A b \in ActIds : act[b] # None => act'[b] = act[b]
      BY <1>0, <2>2, InsertedFrame
    <2>4. act[a] = None /\ act'[a] = Row(job'.kind, waiting.token, "attempting")
      BY <1>0, <1>2 DEF Begin, TypeOK
    <2>5. act'[a] # None /\ act'[a].result = "attempting" /\ act'[a].kind = job'.kind
      <3>1. Row(job'.kind, waiting.token, "attempting") \in ActType
        BY <2>1 DEF Row, ActType
      <3>. QED
        BY <2>4, <3>1, NoRecordAssumption DEF Row
    <2>6. ~Mutated(a) /\ \A b : Mutated(b)' <=> Mutated(b)
      BY <1>0, <2>4, NotBegun DEF Mutated
    <2>7. Inserted({"rejected", "failed", "purging", "attempting"})
      BY <2>2 DEF Inserted
    <2>8. WorktreeLedger'
      BY <1>0, <2>7, LedgerInsert
    <2>9. \A k \in 1..Len(muts') : muts'[k].action # job'.action
      BY <1>0, <1>2, <2>6 DEF Mutated
    <2>10. \A b \in ActIds : exec'[b] # None =>
             /\ act'[b] # None /\ act'[b].result = "purging" /\ act'[b].kind = "purge"
             /\ exec'[b].stage # "report" => ~Mutated(b)'
      BY <1>0, <2>3, <2>6 DEF LedgerInv
    <2>. QED
      BY <1>2, <2>5, <2>6, <2>8, <2>9, <2>10 DEF LedgerInv, Moving
  <1>. QED
    BY <1>0, <1>1, <1>2, MoveBeginJob

\* Git moves what the attempting row announced, once.
LEMMA LedgerGitMove ==
    ASSUME TypeInv, LedgerInv, NEW how, GitMove(how)
    PROVE  LedgerInv'
  <1>. DEFINE m == Mutation(job.kind, job.action, job.row.path, job.quiet, 0)
  <1>0. /\ TypeOK /\ WorktreeLedger /\ UNCHANGED <<act, exec, job, other>> /\ Moving /\ pc = "git"
        /\ job \in MoveJob /\ job.action \in ActIds /\ pc' \in {"verify", "error"}
        /\ act[job.action] # None /\ act[job.action].result = "attempting"
        /\ act[job.action].kind = job.kind /\ ~Mutated(job.action)
    BY DEF TypeInv, LedgerInv, GitMove, store, Moving, LaneOK, MoveJob
  <1>1. CASE UNCHANGED muts /\ pc' = "error"
    <2>1. \A b : Mutated(b)' <=> Mutated(b)
      BY <1>1 DEF Mutated
    <2>2. WorktreeLedger'
      BY <1>0, <1>1, LedgerInsert DEF Inserted
    <2>. QED
      BY <1>0, <1>1, <2>1, <2>2 DEF LedgerInv, Moving
  <1>2. CASE muts' = Append(muts, m)
    <2>1. m \in MutType /\ m.action = job.action /\ m.op = job.kind /\ m.from = job.row.path
      BY <1>0 DEF Mutation, MutType, MoveJob, WtKinds, WtRow
    <2>. HIDE DEF m
    <2>2. WorktreeLedger'
      BY <1>0, <1>2, <2>1, LedgerMutation
    <2>3. /\ Len(muts) \in Nat /\ Len(muts') = Len(muts) + 1 /\ muts'[Len(muts) + 1] = m
          /\ \A k \in 1..Len(muts) : muts'[k] = muts[k]
          /\ \A k \in 1..Len(muts') : k \in 1..Len(muts) \/ k = Len(muts) + 1
          /\ \A b : Mutated(b)' <=> Mutated(b) \/ b = m.action
      BY <1>0, <1>2, <2>1, HistoryGrows
    <2>4. \A k \in 1..Len(muts') : muts'[k].action = job.action => muts'[k].from = job.row.path
      BY <1>0, <2>1, <2>3 DEF Mutated
    <2>5. \A b \in ActIds : exec[b] # None => b # job.action
      BY <1>0 DEF LedgerInv
    <2>6. \A b \in ActIds : exec'[b] # None =>
             /\ act'[b] # None /\ act'[b].result = "purging" /\ act'[b].kind = "purge"
             /\ exec'[b].stage # "report" => ~Mutated(b)'
      BY <1>0, <2>1, <2>3, <2>5 DEF LedgerInv
    <2>. QED
      BY <1>0, <2>1, <2>2, <2>3, <2>4, <2>6 DEF LedgerInv, Moving
  <1>. QED
    BY <1>1, <1>2 DEF GitMove

\* An outcome written at the end of a move, or none when its transaction fails.
LEMMA LedgerMoveEnd ==
    ASSUME TypeInv, LedgerInv, Moving, NEW r \in WtResults, NEW ok, FinishIf(ok, job.action, r),
           UNCHANGED <<muts, exec, other>>, pc' = "idle",
           r # "rejected", r \in {"retired", "restored"} => Mutated(job.action),
           r = "failed" => \A k \in 1..Len(muts) : muts[k].action = job.action =>
                             muts[k].op # "purge" /\ muts[k].from \in other
    PROVE  LedgerInv'
  <1>0. /\ TypeOK /\ WorktreeLedger /\ job.action \in ActIds /\ act[job.action] \in ActType
        /\ act[job.action].result = "attempting"
    BY DEF TypeInv, LedgerInv, LaneOK, MoveJob, TypeOK, OrNone
  <1>1. CASE UNCHANGED act
    BY <1>1, LedgerFrame DEF Inserted
  <1>2. CASE act' = [act EXCEPT ![job.action].result = r]
    <2>0. PICK a \in ActIds : a = job.action
      BY <1>0
    <2>1. WorktreeLedger' /\ \A b \in ActIds : b # a => act'[b] = act[b]
      BY <1>0, <1>2, <2>0, LedgerOutcome
    <2>2. \A b : Mutated(b)' <=> Mutated(b)
      BY DEF Mutated
    <2>3. \A b \in ActIds : exec[b] # None => b # a
      BY <1>0, <2>0 DEF LedgerInv
    <2>4. \A b \in ActIds : exec'[b] # None =>
             /\ act'[b] # None /\ act'[b].result = "purging" /\ act'[b].kind = "purge"
             /\ exec'[b].stage # "report" => ~Mutated(b)'
      BY <2>1, <2>2, <2>3 DEF LedgerInv
    <2>. QED
      BY <2>1, <2>4 DEF LedgerInv, Moving
  <1>. QED
    BY <1>1, <1>2 DEF FinishIf, Finish

\* After an error of Git: failed only where the paths say that nothing moved.
LEMMA LedgerMoveError ==
    ASSUME TypeInv, LedgerInv, PlaceInv, NEW ok, MoveError(ok)
    PROVE  LedgerInv'
  <1>. DEFINE ambiguous == ~Exists(job.row.path) \/ Exists(job.to)
              r == IF ambiguous THEN "partial" ELSE "failed"
  <1>1. /\ Moving /\ FinishIf(ok, job.action, r) /\ UNCHANGED <<muts, exec, other>> /\ pc' = "idle"
    BY DEF MoveError, Moving, Release, machine, place
  <1>2. r \in WtResults /\ r \in {"partial", "failed"}
    BY DEF WtResults
  <1>3. ASSUME r = "failed", NEW k \in 1..Len(muts), muts[k].action = job.action
        PROVE  muts[k].op # "purge" /\ muts[k].from \in other
    <2>1. Exists(job.row.path) /\ ~Exists(job.to)
      BY <1>3
    <2>2. Mutated(job.action)
      BY <1>3 DEF Mutated
    <2>3. tree = None /\ job.row = row /\ row.path # None
      BY <1>1, <2>1, <2>2 DEF PlaceInv, Exists, MoveError, Moving
    <2>4. job.row.path \in other
      BY <2>1, <2>3 DEF Exists
    <2>5. muts[k].from = job.row.path
      BY <1>1, <1>3 DEF LedgerInv
    <2>6. job.kind \in {"retire", "restore"} /\ act[job.action].kind = job.kind
      BY <1>1 DEF LedgerInv, TypeInv, LaneOK, MoveJob
    <2>7. muts[k].op = job.kind
      BY <1>3, <2>6 DEF LedgerInv, WorktreeLedger
    <2>. QED
      BY <2>4, <2>5, <2>6, <2>7
  <1>. HIDE DEF r
  <1>. QED
    BY <1>1, <1>2, <1>3, LedgerMoveEnd

\* After Git's success: retired and restored of a move that happened.
LEMMA LedgerMoveRecord ==
    ASSUME TypeInv, LedgerInv, NEW r, NEW ok, MoveRecord(r, ok)
    PROVE  LedgerInv'
  <1>1. /\ Moving /\ Mutated(job.action) /\ UNCHANGED <<muts, exec, other>> /\ pc' = "idle"
    BY DEF MoveRecord, Moving, Release, machine, place, LedgerInv
  <1>2. \E o \in {"retired", "restored", "partial"} : FinishIf(ok, job.action, o)
    BY DEF MoveRecord
  <1>. QED
    BY <1>1, <1>2, LedgerMoveEnd DEF WtResults

\* The purging row comes before the plan and its executor; executors that open
\* the checkout or die touch no row.
LEMMA LedgerPrepare ==
    ASSUME TypeInv, LedgerInv,
           \/ \E a \in ActIds : \E ok \in BOOLEAN : PurgePrepare(a, ok)
           \/ \E a \in ActIds : ExecOpen(a) \/ ExecDie(a)
    PROVE  LedgerInv'
  <1>0. TypeOK
    BY DEF TypeInv
  <1>1. ASSUME NEW a \in ActIds, NEW ok \in BOOLEAN, PurgePrepare(a, ok) PROVE LedgerInv'
    <2>1. /\ waiting.token \in Tokens /\ "purge" \in WtKinds /\ "failed" \in WtResults
          /\ "purging" \in WtResults /\ UNCHANGED <<muts, other, pc, job>>
      BY <1>0, <1>1 DEF PurgePrepare, TypeOK, OrNone, WaitType, WtKinds, WtResults, machine, place, lane
    <2>2. \/ UNCHANGED <<act, exec>>
          \/ /\ UNCHANGED exec
             /\ \E o \in {"failed", "purging"} : Begin(a, Row("purge", waiting.token, o))
          \/ /\ Begin(a, Row("purge", waiting.token, "purging"))
             /\ \A b \in ActIds : b # a => exec'[b] = exec[b]
      BY <1>0, <1>1 DEF PurgePrepare, TypeOK
    <2>3. Inserted({"rejected", "failed", "purging"})
      <3>1. UNCHANGED act \/ Inserted({"failed"}) \/ Inserted({"purging"})
        BY <2>1, <2>2, BeginInserts
      <3>. QED
        BY <3>1 DEF Inserted
    <2>4. CASE UNCHANGED exec
      BY <2>1, <2>3, <2>4, LedgerFrame
    <2>5. CASE /\ Begin(a, Row("purge", waiting.token, "purging"))
               /\ \A b \in ActIds : b # a => exec'[b] = exec[b]
      <3>1. act[a] = None /\ act'[a] = Row("purge", waiting.token, "purging")
        BY <1>0, <2>5 DEF Begin, TypeOK
      <3>2. Row("purge", waiting.token, "purging") \in ActType
        BY <2>1 DEF Row, ActType
      <3>3. act'[a] # None /\ act'[a].result = "purging" /\ act'[a].kind = "purge"
        BY <3>1, <3>2, NoRecordAssumption DEF Row
      <3>. QED
        BY <2>1, <2>3, <2>5, <3>1, <3>3, LedgerFrame
    <2>. QED
      BY <2>2, <2>4, <2>5
  <1>2. ASSUME NEW a \in ActIds, ExecOpen(a) \/ ExecDie(a) PROVE LedgerInv'
    <2>1. UNCHANGED <<muts, act, pc, job, other>>
      BY <1>2 DEF ExecOpen, ExecDie, Foreground, store, lane, machine, place
    <2>2. \A b \in ActIds : exec'[b] # None =>
             exec[b] # None /\ (exec[b].stage = "report" => exec'[b].stage = "report")
      <3>1. \A b \in ActIds : b # a => exec'[b] = exec[b]
        BY <1>0, <1>2 DEF ExecOpen, ExecDie, TypeOK
      <3>2. exec[a] # None /\ (exec'[a] = None \/ exec[a].stage # "report")
        BY <1>0, <1>2 DEF ExecOpen, ExecDie, Stage, TypeOK
      <3>. QED
        BY <3>1, <3>2
    <2>. QED
      BY <2>1, <2>2, LedgerFrame DEF Inserted
  <1>. QED
    BY <1>1, <1>2

\* The executor removes what the purging row announced, once.
LEMMA LedgerExecRemove ==
    ASSUME TypeInv, LedgerInv, NEW a \in ActIds, NEW how, ExecRemove(a, how)
    PROVE  LedgerInv'
  <1>. DEFINE m == Mutation("purge", a, exec[a].plan.row.path, 0, exec[a].sat)
  <1>0. /\ TypeOK /\ WorktreeLedger /\ UNCHANGED <<act, job, pc, other>> /\ exec[a] \in ExecType
        /\ exec[a] # None /\ exec[a].stage = "remove" /\ act[a] # None /\ act[a].result = "purging"
        /\ act[a].kind = "purge" /\ ~Mutated(a)
    BY DEF TypeInv, LedgerInv, ExecRemove, Foreground, Stage, store, lane, TypeOK, OrNone
  <1>1. /\ \A b \in ActIds : b # a => exec'[b] = exec[b]
        /\ exec'[a].stage = "report"
    <2>1. \E b \in BOOLEAN : exec' = [exec EXCEPT ![a].stage = "report", ![a].failed = b]
      BY DEF ExecRemove
    <2>2. exec \in [ActIds -> OrNone(ExecType)]
      BY <1>0 DEF TypeOK
    <2>3. \A b : [exec[a] EXCEPT !.stage = "report", !.failed = b].stage = "report"
      BY <1>0 DEF ExecType
    <2>. QED
      BY <2>1, <2>2, <2>3
  <1>2. CASE UNCHANGED muts
    BY <1>0, <1>1, <1>2, LedgerFrame DEF Inserted
  <1>3. CASE muts' = Append(muts, m)
    <2>1. m \in MutType /\ m.action = a /\ m.op = "purge"
      BY <1>0 DEF Mutation, MutType, ExecType, PlanType, WtKinds, WtRow
    <2>. HIDE DEF m
    <2>2. WorktreeLedger'
      BY <1>0, <1>3, <2>1, LedgerMutation
    <2>3. /\ Len(muts) \in Nat /\ Len(muts') = Len(muts) + 1 /\ muts'[Len(muts) + 1] = m
          /\ \A k \in 1..Len(muts) : muts'[k] = muts[k]
          /\ \A k \in 1..Len(muts') : k \in 1..Len(muts) \/ k = Len(muts) + 1
          /\ \A b : Mutated(b)' <=> Mutated(b) \/ b = m.action
      BY <1>0, <1>3, <2>1, HistoryGrows
    <2>4. Moving => job.action # a
      BY <1>0 DEF LedgerInv
    <2>5. Moving => \A k \in 1..Len(muts') : muts'[k].action = job.action => muts'[k].from = job.row.path
      BY <2>1, <2>3, <2>4 DEF LedgerInv
    <2>6. \A b \in ActIds : exec'[b] # None =>
             /\ act'[b] # None /\ act'[b].result = "purging" /\ act'[b].kind = "purge"
             /\ exec'[b].stage # "report" => ~Mutated(b)'
      BY <1>0, <1>1, <2>1, <2>3 DEF LedgerInv
    <2>. QED
      BY <1>0, <2>1, <2>2, <2>3, <2>4, <2>5, <2>6 DEF LedgerInv, Moving
  <1>. QED
    BY <1>2, <1>3 DEF ExecRemove

\* The completion of a purge: failed only of a checkout that is untouched.
LEMMA LedgerPurgeComplete ==
    ASSUME TypeInv, LedgerInv, PlaceInv, NEW a \in ActIds, NEW r, NEW ok, PurgeComplete(a, r, ok)
    PROVE  LedgerInv'
  <1>0. /\ TypeOK /\ WorktreeLedger /\ UNCHANGED <<muts, job, pc, other>> /\ pc = "idle"
        /\ act[a] # None /\ act[a] \in ActType
        /\ exec' = [exec EXCEPT ![a] = None] /\ exec \in [ActIds -> OrNone(ExecType)]
    BY DEF TypeInv, LedgerInv, PurgeComplete, Idle, Stage, lane, machine, place, TypeOK, OrNone
  <1>1. CASE UNCHANGED act
    BY <1>0, <1>1, LedgerFrame DEF Inserted
  <1>2. ASSUME NEW o \in {"failed", "partial", "removed"}, act' = [act EXCEPT ![a].result = o],
               o = "failed" => tree # None
        PROVE  LedgerInv'
    <2>1. o = "failed" => \A k \in 1..Len(muts) : muts[k].action = a =>
                             muts[k].op # "purge" /\ muts[k].from \in other
      <3>1. act[a].kind = "purge"
        BY <1>0 DEF LedgerInv, PurgeComplete, Stage
      <3>2. \A k \in 1..Len(muts) : muts[k].action = a => muts[k].op = "purge"
        BY <3>1 DEF LedgerInv, WorktreeLedger
      <3>. QED
        BY <1>2, <3>2 DEF PlaceInv
    <2>2. o \in WtResults /\ o # "rejected" /\ o \notin {"retired", "restored"}
      BY DEF WtResults
    <2>3. WorktreeLedger' /\ \A b \in ActIds : b # a => act'[b] = act[b]
      BY <1>0, <1>2, <2>1, <2>2, LedgerOutcome
    <2>4. \A b : Mutated(b)' <=> Mutated(b)
      BY <1>0 DEF Mutated
    <2>5. \A b \in ActIds : exec'[b] # None => b # a /\ exec'[b] = exec[b]
      BY <1>0
    <2>6. \A b \in ActIds : exec'[b] # None =>
             /\ act'[b] # None /\ act'[b].result = "purging" /\ act'[b].kind = "purge"
             /\ exec'[b].stage # "report" => ~Mutated(b)'
      BY <2>3, <2>4, <2>5 DEF LedgerInv
    <2>. QED
      BY <1>0, <2>3, <2>6 DEF LedgerInv, Moving
  <1>3. \/ UNCHANGED act
        \/ \E o \in {"failed", "partial", "removed"} :
              act' = [act EXCEPT ![a].result = o] /\ (o = "failed" => tree # None)
    BY DEF PurgeComplete, FinishIf, Finish, ValidRetired, FreshOK
  <1>. QED
    BY <1>1, <1>2, <1>3

\* Every step keeps the ledger.
LEMMA StepLedger == TypeInv /\ LedgerInv /\ PlaceInv /\ [Next]_vars => LedgerInv'
  <1>. SUFFICES ASSUME TypeInv, LedgerInv, PlaceInv, [Next]_vars PROVE LedgerInv'
    OBVIOUS
  <1>1. CASE Next
    BY <1>1, NextStep, LedgerQuiet, LedgerReject, LedgerMoveBegin, LedgerGitMove, LedgerMoveError,
       LedgerMoveRecord, LedgerPrepare, LedgerExecRemove, LedgerPurgeComplete DEF Step
  <1>2. CASE UNCHANGED vars
    <2>1. UNCHANGED <<muts, act, exec, pc, job, other>>
      BY <1>2 DEF vars, machine, store, lane, place
    <2>. QED
      BY <2>1, LedgerFrame DEF Inserted
  <1>. QED
    BY <1>1, <1>2

----------------------------------------------------------------------------
(* Where the checkout is. *)

\* Steps that move nothing: the checkout stays or is gone for good.
LEMMA PlaceFrame ==
    ASSUME PlaceInv, UNCHANGED muts, other \subseteq other', tree' = None \/ UNCHANGED <<tree, reg>>,
           pc' \in {"idle", "scan"} \/ UNCHANGED <<pc, job, row>>,
           \A a \in ActIds : exec'[a] # None =>
              \/ exec[a] # None /\ exec'[a].plan = exec[a].plan
              \/ exec'[a].plan.row.path # None
    PROVE  PlaceInv'
  <1>1. \A a : Mutated(a)' <=> Mutated(a)
    BY DEF Mutated
  <1>2. Moving' => Moving /\ UNCHANGED <<pc, job, row>>
    BY DEF Moving
  <1>. QED
    BY <1>1, <1>2 DEF PlaceInv, Moving

\* What the executor may do to the plan it carries: nothing.
LEMMA ExecKeepsPlan ==
    ASSUME TypeOK, NEW a \in ActIds,
           \/ ExecOpen(a) \/ ExecDie(a) \/ \E how : ExecRemove(a, how)
           \/ \E r, ok : PurgeComplete(a, r, ok)
    PROVE  \A b \in ActIds : exec'[b] # None => exec[b] # None /\ exec'[b].plan = exec[b].plan
  <1>1. exec \in [ActIds -> OrNone(ExecType)]
    BY DEF TypeOK
  <1>2. \A b \in ActIds : b # a => exec'[b] = exec[b]
    BY <1>1 DEF ExecOpen, ExecDie, ExecRemove, PurgeComplete
  <1>3. exec[a] # None /\ exec[a] \in ExecType
    BY <1>1 DEF ExecOpen, ExecDie, ExecRemove, PurgeComplete, Stage, OrNone
  <1>4. exec'[a] # None => exec'[a].plan = exec[a].plan
    <2>1. CASE ExecOpen(a)
      BY <1>1, <1>3, <2>1 DEF ExecOpen
    <2>2. CASE ExecDie(a) \/ \E r, ok : PurgeComplete(a, r, ok)
      BY <1>1, <2>2 DEF ExecDie, PurgeComplete
    <2>3. CASE \E how : ExecRemove(a, how)
      <3>1. \E b \in BOOLEAN : exec' = [exec EXCEPT ![a].stage = "report", ![a].failed = b]
        BY <2>3 DEF ExecRemove
      <3>2. \A b : [exec[a] EXCEPT !.stage = "report", !.failed = b].plan = exec[a].plan
        BY <1>3 DEF ExecType
      <3>. QED
        BY <1>1, <3>1, <3>2
    <2>. QED
      BY <2>1, <2>2, <2>3
  <1>. QED
    BY <1>2, <1>3, <1>4

\* The steps that neither move nor remove the checkout.
Unmoved == \/ Machine \/ TripElsewhere \/ ScanStart \/ Restart
           \/ \E c \in BOOLEAN : \E i \in Inventories : ScanCommit(c, i)
           \/ \E ok \in BOOLEAN : \E i \in Inventories : ScanFail(i, ok)
           \/ \E t \in Tokens : \E k \in Kinds : \E ok \in BOOLEAN : Preview(t, k, ok)
           \/ \E t \in Tokens : \E m, ok \in BOOLEAN : Apply(t, m, ok)
           \/ \E i, ok \in BOOLEAN : ApplyRefused(i, ok)
           \/ \E ok \in BOOLEAN : MoveError(ok)
           \/ \E r, ok \in BOOLEAN : MoveRecord(r, ok)
           \/ \E a \in ActIds : \E ok \in BOOLEAN : PurgePrepare(a, ok)
           \/ \E a \in ActIds : ExecOpen(a) \/ ExecDie(a)
           \/ \E a \in ActIds : \E r, ok \in BOOLEAN : PurgeComplete(a, r, ok)

\* They leave the lane's hand alone or empty it.
LEMMA UnmovedFrame ==
    ASSUME Unmoved
    PROVE  /\ UNCHANGED <<muts, retFrom>> /\ other \subseteq other'
           /\ tree' = None \/ UNCHANGED <<tree, reg>>
           /\ pc' \in {"idle", "scan"} \/ UNCHANGED <<pc, job, row>>
  <1>1. CASE Machine
    <2>1. other \subseteq other' /\ (tree' = None \/ UNCHANGED <<tree, reg>>)
      BY <1>1 DEF Machine, Commit, DirtyFlip, Delete, Touch, Tick, Use, Occupy, place
    <2>. QED
      BY <1>1, <2>1, MachineFrame
  <1>2. CASE ~Machine
    <2>1. UNCHANGED <<muts, retFrom, other, tree, reg>>
      BY <1>2 DEF Unmoved, TripElsewhere, ScanStart, Restart, ScanCommit, ScanFail, Preview, Apply,
                  ApplyRefused, MoveError, MoveRecord, PurgePrepare, ExecOpen, ExecDie,
                  PurgeComplete, machine, place
    <2>2. pc' \in {"idle", "scan"} \/ UNCHANGED <<pc, job, row>>
      BY <1>2 DEF Unmoved, TripElsewhere, ScanStart, Restart, ScanCommit, ScanFail, Preview, Apply,
                  ApplyRefused, MoveError, MoveRecord, PurgePrepare, ExecOpen, ExecDie,
                  PurgeComplete, store, lane, Release, Idle, Foreground
    <2>. QED
      BY <2>1, <2>2
  <1>. QED
    BY <1>1, <1>2

\* They keep the place.
LEMMA PlaceUnmoved ==
    ASSUME TypeInv, PlaceInv, Unmoved
    PROVE  PlaceInv'
  <1>0. TypeOK
    BY DEF TypeInv
  <1>1. \A a \in ActIds : exec'[a] # None =>
           \/ exec[a] # None /\ exec'[a].plan = exec[a].plan
           \/ exec'[a].plan.row.path # None
    <2>1. CASE UNCHANGED exec
      BY <2>1
    <2>2. ASSUME NEW a \in ActIds, NEW ok \in BOOLEAN, PurgePrepare(a, ok)
          PROVE  \A b \in ActIds : exec'[b] # None =>
                    \/ exec[b] # None /\ exec'[b].plan = exec[b].plan
                    \/ exec'[b].plan.row.path # None
      <3>1. row.path # None
        BY <1>0, <2>2, AuthorisedRow DEF PurgePrepare
      <3>2. Plan(waiting, a).row = row
        BY DEF Plan
      <3>3. \A b \in ActIds : \/ exec'[b] = exec[b]
                              \/ exec'[b] = [plan |-> Plan(waiting, a), stage |-> "ready",
                                             sat |-> 0, failed |-> FALSE]
        BY <1>0, <2>2 DEF PurgePrepare, TypeOK
      <3>. QED
        BY <3>1, <3>2, <3>3
    <2>3. \/ UNCHANGED exec
          \/ \E a \in ActIds : \E ok \in BOOLEAN : PurgePrepare(a, ok)
          \/ \E a \in ActIds : ExecOpen(a) \/ ExecDie(a)
          \/ \E a \in ActIds : \E r, ok \in BOOLEAN : PurgeComplete(a, r, ok)
      BY MachineFrame DEF Unmoved, TripElsewhere, ScanStart, Restart, ScanCommit, ScanFail, Preview,
                          Apply, ApplyRefused, MoveError, MoveRecord
    <2>. QED
      BY <1>0, <2>1, <2>2, <2>3, ExecKeepsPlan
  <1>. QED
    BY <1>1, UnmovedFrame, PlaceFrame

\* An authorised move starts from where the row says.
LEMMA PlaceMoveBegin ==
    ASSUME TypeInv, PlaceInv, NEW a \in ActIds, NEW ok \in BOOLEAN, MoveBegin(a, ok)
    PROVE  PlaceInv'
  <1>0. /\ TypeOK /\ UNCHANGED <<muts, exec, other, tree, reg, row>> /\ waiting # None
        /\ Authorised(waiting) /\ pc = "idle"
    BY DEF TypeInv, MoveBegin, Idle, machine, place
  <1>1. CASE UNCHANGED <<act, pc, job>>
    BY <1>0, <1>1, PlaceFrame
  <1>2. CASE /\ pc' = "git" /\ job' \in MoveJob /\ job'.action = a /\ job'.row = row
             /\ job'.kind = waiting.appr.kind /\ job'.to # row.path /\ job'.to # None
    <2>1. /\ row # None /\ row.path # None /\ tree = row.path /\ reg = row.path
          /\ row.state = IF job'.kind = "retire" THEN "stale" ELSE "retired"
      BY <1>0, <1>2, AuthorisedRow, NoRecordAssumption
    <2>. QED
      BY <1>0, <1>2, <2>1 DEF PlaceInv, Moving
  <1>. QED
    BY <1>0, <1>1, <1>2, MoveBeginJob

\* Git leaves the checkout where it was, or where the lane will look.
LEMMA PlaceGitMove ==
    ASSUME TypeInv, LedgerInv, PlaceInv, NEW how, GitMove(how)
    PROVE  PlaceInv'
  <1>. DEFINE m == Mutation(job.kind, job.action, job.row.path, job.quiet, 0)
  <1>0. /\ TypeOK /\ UNCHANGED <<exec, job, other, row>> /\ Moving /\ pc = "git"
        /\ job \in MoveJob /\ pc' \in {"verify", "error"} /\ ~Mutated(job.action)
        /\ job.row = row /\ row.path # None
        /\ tree = None \/ (tree = row.path /\ reg = row.path)
    BY DEF TypeInv, LedgerInv, PlaceInv, GitMove, store, Moving, LaneOK
  <1>1. CASE UNCHANGED <<tree, reg, muts>> /\ pc' = "error"
    <2>1. ~Mutated(job.action)'
      BY <1>0, <1>1 DEF Mutated
    <2>. QED
      BY <1>0, <1>1, <2>1 DEF PlaceInv, Moving
  <1>2. CASE /\ muts' = Append(muts, m) /\ tree = job.row.path
             /\ tree' = IF job.to \in other THEN Nested ELSE job.to
    <2>1. m \in MutType /\ m.op \in {"retire", "restore"}
      BY <1>0 DEF Mutation, MutType, MoveJob, WtKinds, WtRow
    <2>. HIDE DEF m
    <2>2. /\ Len(muts) \in Nat /\ Len(muts') = Len(muts) + 1 /\ muts'[Len(muts) + 1] = m
          /\ \A k \in 1..Len(muts) : muts'[k] = muts[k]
          /\ \A k \in 1..Len(muts') : k \in 1..Len(muts) \/ k = Len(muts) + 1
      BY <1>0, <1>2, <2>1, HistoryGrows
    <2>3. ~\E k \in 1..Len(muts') : muts'[k].op = "purge"
      BY <1>0, <1>2, <2>1, <2>2 DEF PlaceInv
    <2>. QED
      BY <1>0, <1>2, <2>3 DEF PlaceInv, Moving
  <1>. QED
    BY <1>1, <1>2 DEF GitMove

\* What an executor removes is gone.
LEMMA PlaceExecRemove ==
    ASSUME TypeInv, PlaceInv, NEW a \in ActIds, NEW how, ExecRemove(a, how)
    PROVE  PlaceInv'
  <1>0. /\ TypeOK /\ UNCHANGED <<job, pc, other, row>>
    BY DEF TypeInv, ExecRemove, Foreground, store, lane
  <1>1. \A b \in ActIds : exec'[b] # None => exec[b] # None /\ exec'[b].plan = exec[b].plan
    BY <1>0, ExecKeepsPlan
  <1>2. CASE UNCHANGED <<tree, reg, muts>>
    BY <1>0, <1>1, <1>2, PlaceFrame
  <1>3. CASE tree' = None
    BY <1>0, <1>1, <1>3 DEF PlaceInv, Moving
  <1>. QED
    BY <1>2, <1>3 DEF ExecRemove

\* Every step keeps the place.
LEMMA StepPlace == TypeInv /\ LedgerInv /\ PlaceInv /\ [Next]_vars => PlaceInv'
  <1>. SUFFICES ASSUME TypeInv, LedgerInv, PlaceInv, [Next]_vars PROVE PlaceInv'
    OBVIOUS
  <1>1. CASE Next
    <2>1. \/ Unmoved
          \/ \E a \in ActIds : \E ok \in BOOLEAN : MoveBegin(a, ok)
          \/ \E how \in GitOutcomes : GitMove(how)
          \/ \E a \in ActIds : \E how \in GitOutcomes : ExecRemove(a, how)
      BY <1>1, NextStep DEF Step, Unmoved
    <2>. QED
      BY <2>1, PlaceUnmoved, PlaceMoveBegin, PlaceGitMove, PlaceExecRemove
  <1>2. CASE UNCHANGED vars
    <2>1. UNCHANGED <<muts, exec, pc, job, other, tree, reg, row>>
      BY <1>2 DEF vars, machine, store, lane, place
    <2>. QED
      BY <2>1, PlaceFrame
  <1>. QED
    BY <1>1, <1>2

LaneInv == TypeInv /\ LedgerInv /\ PlaceInv

\* The three invariants hold together in every reachable state.
THEOREM LaneInvCorrect == Spec => []LaneInv
  <1>1. Init => LaneInv
    <2>. SUFFICES ASSUME Init PROVE LaneInv
      OBVIOUS
    <2>1. /\ Len(muts) = 0 /\ pc = "idle" /\ \A a \in ActIds : act[a] = None /\ exec[a] = None
      BY DEF Init
    <2>. QED
      BY <2>1, InitType DEF LaneInv, LedgerInv, PlaceInv, WorktreeLedger, Mutated, Moving
  <1>2. LaneInv /\ [Next]_vars => LaneInv'
    <2>1. LedgerInv => HeldOK
      BY DEF LedgerInv, HeldOK
    <2>. QED
      BY <2>1, StepType, StepLedger, StepPlace DEF LaneInv
  <1>. QED
    BY <1>1, <1>2, PTL DEF Spec

\* Every reachable state of the worktree lane is well typed.
THEOREM TypeCorrect == Spec => []TypeOK
  <1>1. LaneInv => TypeOK
    BY DEF LaneInv, TypeInv
  <1>. QED
    BY <1>1, LaneInvCorrect, PTL

\* The write-ahead ledger of moves and removals holds in every reachable state
\* (executeWorktreeRemoval, executeWorktreeRestore, prepareWorktreePurge,
\* WorktreePurgeComplete).
THEOREM LedgerCorrect == Spec => []WorktreeLedger
  <1>1. LaneInv => WorktreeLedger
    BY DEF LaneInv, LedgerInv
  <1>. QED
    BY <1>1, LaneInvCorrect, PTL

=============================================================================
