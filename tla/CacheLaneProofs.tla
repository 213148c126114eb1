--------------------------- MODULE CacheLaneProofs ---------------------------
(***************************************************************************)
(* Machine-checked facts about CacheLane, for every configuration that     *)
(* satisfies the module's assumptions: types, the write-ahead ledger of    *)
(* renames and unlinks, what is in a quarantine slot meanwhile, and what   *)
(* an open circuit stops.                                                  *)
(***************************************************************************)
EXTENDS CacheLane, TLAPS

Moving == pc \in {"check", "rename", "record", "fail"}

\* What the holder of cacheMu has in hand.
LaneOK == /\ pc = "scan" => job \in ScanJob
          /\ Moving => job \in MoveJob

TypeInv == TypeOK /\ LaneOK

\* A row of an artifact names its inode, and so do a quarantine row, a move and
\* a plan; what a move or a plan is about has its rows.  A move in progress
\* means the circuit is closed: scanMu keeps everybody from tripping it.
HeldOK ==
    /\ \A i \in Inodes : /\ art[i] # None => art[i].ident.ino = i
                         /\ qrow[i] # None => qrow[i].ident.ino = i /\ art[i] # None
    /\ Moving => /\ fsHealthy /\ job.ident.ino = job.id /\ art[job.id] # None
                 /\ job.kind = "restore" => qrow[job.id] # None
    /\ \A a \in ActIds : exec[a] # None =>
         LET p == exec[a].plan IN p.action = a /\ p.ident.ino = p.id /\ qrow[p.id] # None

\* Who may still mutate, and what the action table says of it: the row of a
\* move in progress is attempting, that of an executor purging, and neither has
\* mutated anything before its rename or unlink.
LedgerInv ==
    /\ CacheLedger
    /\ Moving => /\ act[job.action] # None /\ act[job.action].result = "attempting"
                 /\ act[job.action].kind = job.kind /\ act[job.action].art = job.id
    /\ pc \in {"check", "rename"} => ~Mutated(job.action)
    /\ pc = "record" => Mutated(job.action)
    /\ \A a \in ActIds : exec[a] # None =>
         /\ act[a] # None /\ act[a].result = "purging" /\ act[a].kind = "purge"
         /\ act[a].art = exec[a].plan.id
         /\ exec[a].stage # "report" => ~Mutated(a)

\* The file left its slot through a rename or an unlink of the daemon.
Left(i) == \E k \in 1..Len(muts) : muts[k].ino = i /\ muts[k].op # "cleanup"

\* A slot is filled only while it is empty, so a file that was once recorded in
\* it is still there or has left it.
SlotInv ==
    /\ pc = "rename" /\ job.kind = "cleanup" => quar[job.id] = None
    /\ \A i \in Inodes : qrow[i] # None \/ (pc = "record" /\ job.id = i) => quar[i] = i \/ Left(i)

LaneInv == TypeInv /\ HeldOK /\ LedgerInv /\ SlotInv

----------------------------------------------------------------------------
(* The steps, and the facts the proofs keep needing. *)

\* The configured durations are numbers, and no value is none of the values.
LEMMA Numbers ==
    /\ MinStable \in Nat /\ Grace \in Nat /\ ApprovalLifetime \in Nat
    /\ PlanLifetime \in Nat /\ MaxLag \in Nat
    /\ None \notin Inodes /\ None # Lost
  BY CacheAssumption

Machine == \/ Tick \/ Write \/ Remove \/ SessionFlip
           \/ \E i \in Inodes : Create(i) \/ Tamper(i)

Preview(t, i, ok) ==
    CacheCleanupPreview(t, i, ok) \/ CacheRestorePreview(t, i, ok) \/ CachePurgePreview(t, i, ok)

\* The steps of Next without the bookkeeping of faults.
Step == \/ Machine \/ ProcessScan \/ TripElsewhere \/ Restart
        \/ \E lag \in 0..MaxLag : CacheScanStart(lag)
        \/ \E c \in BOOLEAN : CacheScanCommit(c) \/ CacheScanFail(c)
        \/ \E t \in Tokens : \E i \in Inodes : \E ok \in BOOLEAN : Preview(t, i, ok)
        \/ \E t \in Tokens : \E b, ok \in BOOLEAN : CacheApply(t, b, ok) \/ ApplyRefused(t, b, ok)
        \/ \E t \in Tokens : \E a \in ActIds : \E ok \in BOOLEAN : MoveBegin(t, a, ok)
        \/ \E t \in Tokens : \E a \in ActIds : \E ok \in BOOLEAN : PurgePrepare(t, a, ok)
        \/ \E ok \in BOOLEAN : MoveCheck(ok) \/ MoveFail(ok)
        \/ \E ok \in BOOLEAN : MoveRecord(ok)
        \/ MoveRename
        \/ \E a \in ActIds : ExecCheck(a) \/ ExecDie(a)
        \/ \E a \in ActIds : ExecUnlink(a)
        \/ \E a \in ActIds : \E b, ok \in BOOLEAN : CachePurgeComplete(a, b, ok)

\* Every step of Next is one of them.
LEMMA NextStep == Next => Step
  <1>1. Outcomes \subseteq BOOLEAN
    BY DEF Outcomes
  <1>. QED
    BY <1>1 DEF Next, Step, Machine, Preview

\* Nothing outside the daemon and its executors touches its state.
LEMMA MachineFrame ==
    ASSUME Machine
    PROVE  UNCHANGED <<quar, quarFrom, muts, sesEnded, eval, lastScan, art, qrow, act, cacheHealthy,
                       fsHealthy, approvals, pending, plans, pc, job, exec, resets>>
  <1>1. Elsewhere /\ UNCHANGED <<quar, quarFrom, muts>>
    BY DEF Machine, Tick, Write, Remove, SessionFlip, Create, Tamper
  <1>. QED
    BY <1>1 DEF Elsewhere, store, health, lane

\* The identity of an inode is typed.
LEMMA IdentIsTyped ==
    ASSUME TypeOK, NEW i \in Inodes
    PROVE  Ident(i) \in IdentType /\ Ident(i).ino = i
  BY DEF Ident, IdentType, TypeOK

\* Using an approval up keeps what it is about.
LEMMA UsedApproval ==
    ASSUME NEW p \in ApprovalType
    PROVE  /\ [p EXCEPT !.used = TRUE] \in ApprovalType
           /\ [p EXCEPT !.used = TRUE].used
  <1>1. CASE p \in [kind : {"cleanup"}, id : Inodes, art : ArtType, qrow : {None}, expires : Nat,
                    used : BOOLEAN]
    BY <1>1 DEF ApprovalType
  <1>2. CASE p \in [kind : {"restore", "purge"}, id : Inodes, art : ArtType, qrow : QuarType,
                    expires : Nat, used : BOOLEAN]
    BY <1>2 DEF ApprovalType
  <1>. QED
    BY <1>1, <1>2 DEF ApprovalType

\* The parts of an approval.
LEMMA ApprovalParts ==
    ASSUME NEW p \in ApprovalType
    PROVE  /\ p.kind \in CacheKinds /\ p.id \in Inodes /\ p.art \in ArtType
           /\ p.kind # "cleanup" => p.qrow \in QuarType
           /\ p.kind = "cleanup" => p.qrow = None
  BY DEF ApprovalType, CacheKinds

\* What an apply that passes validation is about: rows that are in the database
\* as they were approved, under a closed circuit.
LEMMA AuthorisedFacts ==
    ASSUME TypeInv, HeldOK, NEW t \in Tokens, pending[t] # None, NEW c, Authorised(pending[t], c)
    PROVE  LET p == pending[t] IN
           /\ p \in WaitType /\ p.appr \in ApprovalType /\ fsHealthy
           /\ art[p.appr.id] = p.appr.art /\ art[p.appr.id] # None
           /\ p.appr.art.ident.ino = p.appr.id
           /\ p.appr.kind = "cleanup" =>
                /\ orig = p.appr.id
                /\ Evaluate(Ident(p.appr.id), now, ObserveProtects(c, sesEnded),
                            Current(p.appr.id), eval).life = "recommended"
                /\ Current(p.appr.id) = p.appr.art /\ Ident(orig) = p.appr.art.ident
           /\ p.appr.kind # "cleanup" =>
                /\ Quarantined(p.appr.id) /\ qrow[p.appr.id] = p.appr.qrow
                /\ qrow[p.appr.id] # None /\ p.appr.qrow.ident.ino = p.appr.id
           /\ p.appr.kind = "purge" => p.at >= p.appr.qrow.grace
  <1>. DEFINE p == pending[t]
  <1>1. p \in WaitType /\ p.appr \in ApprovalType
    BY DEF TypeInv, TypeOK, OrNone, WaitType
  <1>2. p.appr.id \in Inodes /\ p.appr.art \in ArtType
    BY <1>1, ApprovalParts
  <1>3. CASE p.appr.kind = "cleanup"
    <2>. DEFINE f == Evaluate(Ident(p.appr.id), now, ObserveProtects(c, sesEnded),
                              Current(p.appr.id), eval)
    <2>1. FreshCleanup(p.appr, c)
      BY <1>3 DEF Authorised
    <2>2. fsHealthy /\ orig = p.appr.id /\ Current(p.appr.id) # None /\ Current(p.appr.id) = p.appr.art
          /\ f.life = "recommended" /\ f.ident = Current(p.appr.id).ident
      BY <2>1 DEF FreshCleanup, CachePolicyEnabled
    <2>3. art[p.appr.id] = p.appr.art /\ art[p.appr.id] # None
      BY <2>2 DEF Current
    <2>4. f.ident = Ident(p.appr.id)
      BY DEF Evaluate
    <2>. HIDE DEF f
    <2>5. p.appr.art.ident.ino = p.appr.id
      BY <1>2, <2>3 DEF HeldOK
    <2>. QED
      BY <1>1, <1>3, <2>2, <2>3, <2>4, <2>5 DEF f
  <1>4. CASE p.appr.kind # "cleanup"
    <2>1. CurrentQuarantine(p.appr) /\ (p.appr.kind = "purge" => GraceElapsed(p.at, p.appr.qrow))
      BY <1>4 DEF Authorised
    <2>2. fsHealthy /\ Quarantined(p.appr.id) /\ art[p.appr.id] = p.appr.art
          /\ qrow[p.appr.id] = p.appr.qrow
      BY <2>1 DEF CurrentQuarantine, CachePolicyEnabled
    <2>3. art[p.appr.id] # None /\ qrow[p.appr.id] # None
      BY <2>2 DEF Quarantined
    <2>4. p.appr.art.ident.ino = p.appr.id /\ p.appr.qrow.ident.ino = p.appr.id
      BY <1>2, <2>2, <2>3 DEF HeldOK
    <2>. QED
      BY <1>1, <1>4, <2>1, <2>2, <2>3, <2>4 DEF GraceElapsed
  <1>. QED
    BY <1>3, <1>4

----------------------------------------------------------------------------
(* Types: one lemma per group of actions, then the theorem. *)

\* The lane begins with nothing in hand.
LEMMA InitType == Init => TypeInv
  <1>. SUFFICES ASSUME Init PROVE TypeInv
    OBVIOUS
  <1>1. muts \in Seq(MutType)
    BY DEF Init
  <1>2. orig \in Inodes
    BY CacheAssumption DEF Init
  <1>3. TypeOK
    BY <1>1, <1>2 DEF Init, TypeOK, OrNone
  <1>. QED
    BY <1>3 DEF TypeInv, LaneOK, Moving, Init

\* Types over the steps of the machine.
LEMMA MachineType ==
    ASSUME TypeInv, Machine
    PROVE  TypeInv'
  <1>0. TypeOK
    BY DEF TypeInv
  <1>1. ASSUME NEW i \in Inodes, Touch(i)
        PROVE  file' \in [Inodes -> [body : Nat, ctime : Nat]] /\ quietFrom' \in [Inodes -> Nat]
    <2>1. /\ file' = [file EXCEPT ![i] = [body |-> file[i].body + 1, ctime |-> file[i].ctime + 1]]
          /\ quietFrom' = [quietFrom EXCEPT ![i] = now]
      BY <1>1 DEF Touch
    <2>2. [body |-> file[i].body + 1, ctime |-> file[i].ctime + 1] \in [body : Nat, ctime : Nat]
      BY <1>0 DEF TypeOK
    <2>. QED
      BY <1>0, <2>1, <2>2 DEF TypeOK
  <1>2. /\ now' \in Nat /\ orig' \in OrNone(Inodes) /\ sesLive' \in BOOLEAN /\ moves' \in Nat
        /\ file' \in [Inodes -> [body : Nat, ctime : Nat]] /\ quietFrom' \in [Inodes -> Nat]
    <2>1. CASE Tick \/ Remove
      BY <1>0, <2>1 DEF Tick, Remove, Disturb, TypeOK, OrNone
    <2>2. CASE SessionFlip
      <3>1. sesLive' \in BOOLEAN
        BY <2>2 DEF SessionFlip
      <3>. QED
        BY <1>0, <2>2, <3>1 DEF SessionFlip, Disturb, TypeOK
    <2>3. CASE Write
      <3>1. PICK i \in Inodes : i = orig /\ Touch(i)
        BY <1>0, <2>3 DEF Write, TypeOK, OrNone
      <3>. QED
        BY <1>0, <1>1, <2>3, <3>1 DEF Write, Disturb, TypeOK
    <2>4. ASSUME NEW i \in Inodes, Create(i) PROVE <1>2!:
      BY <1>0, <1>1, <2>4 DEF Create, Disturb, TypeOK, OrNone
    <2>5. ASSUME NEW s \in Inodes, Tamper(s) PROVE <1>2!:
      <3>1. PICK i \in Inodes : i = quar[s] /\ Touch(i)
        BY <1>0, <2>5 DEF Tamper, TypeOK, OrNone
      <3>2. UNCHANGED <<now, orig, sesLive>> /\ moves' = moves + 1
        BY <2>5 DEF Tamper, Disturb
      <3>3. file' \in [Inodes -> [body : Nat, ctime : Nat]] /\ quietFrom' \in [Inodes -> Nat]
        BY <1>1, <3>1
      <3>4. now' \in Nat /\ orig' \in OrNone(Inodes) /\ sesLive' \in BOOLEAN /\ moves' \in Nat
        BY <1>0, <3>2 DEF TypeOK
      <3>. QED
        BY <3>3, <3>4
    <2>. QED
      BY <2>1, <2>2, <2>3, <2>4, <2>5 DEF Machine
  <1>. QED
    BY <1>0, <1>2, MachineFrame DEF TypeInv, TypeOK, LaneOK, Moving

\* What a scan concludes about an entry is a row.
LEMMA EvaluateType ==
    ASSUME NEW id \in IdentType, NEW at \in Nat, NEW prot \in BOOLEAN, NEW prev \in OrNone(ArtType),
           NEW e \in Nat
    PROVE  LET r == Evaluate(id, at, prot, prev, e) IN
           /\ r \in ArtType /\ r.ident = id /\ r.path = "orig" /\ r.eval = e
           /\ r.since = StableSince(id, at, prev) /\ r.since \in Nat
           /\ r.life = "recommended" => ~prot /\ prev # None /\ at - r.since >= MinStable
           /\ r.life \in {"protected", "settling", "stale_candidate", "recommended"}
  <1>. DEFINE since == StableSince(id, at, prev)
              settled == prev # None /\ at - since >= MinStable
              life == IF prot THEN "protected"
                      ELSE IF ~settled THEN "settling"
                      ELSE IF Authority = "recommend" THEN "recommended" ELSE "stale_candidate"
  <1>1. since \in Nat
    BY DEF StableSince, OrNone, ArtType
  <1>2. (~prot /\ settled) \in BOOLEAN
    OBVIOUS
  <1>3. /\ life \in Lives /\ (life = "recommended" => ~prot /\ settled)
        /\ life \in {"protected", "settling", "stale_candidate", "recommended"}
    BY DEF Lives
  <1>4. Evaluate(id, at, prot, prev, e) =
          [life |-> life, ident |-> id, path |-> "orig", since |-> since, eval |-> e,
           policy |-> ~prot /\ settled]
    BY DEF Evaluate
  <1>. HIDE DEF life, since
  <1>5. [life |-> life, ident |-> id, path |-> "orig", since |-> since, eval |-> e,
         policy |-> ~prot /\ settled] \in ArtType
    BY <1>1, <1>2, <1>3 DEF ArtType
  <1>. QED
    BY <1>1, <1>3, <1>4, <1>5 DEF since

\* The row a scan commits for the entry it found.
LEMMA ScanCommitRow ==
    ASSUME TypeInv, NEW c \in BOOLEAN, CacheScanCommit(c)
    PROVE  /\ job \in ScanJob /\ pc' = "idle"
           /\ \A i \in Inodes : i # orig => art'[i] = art[i]
           /\ orig # None =>
                /\ orig \in Inodes
                /\ art'[orig] = Evaluate(Ident(orig), job.at, ObserveProtects(c, job.ended),
                                         Current(orig), eval + 1)
                /\ art'[orig] \in ArtType
                /\ art'[orig].ident = Ident(orig) /\ art'[orig].ident.ino = orig
                /\ art'[orig].path = "orig"
                /\ art'[orig].since = StableSince(Ident(orig), job.at, Current(orig))
           /\ art' \in [Inodes -> OrNone(ArtType)]
  <1>0. TypeOK /\ job \in ScanJob
    BY DEF TypeInv, LaneOK, CacheScanCommit
  <1>1. CASE orig = None
    BY <1>0, <1>1, Numbers DEF CacheScanCommit, Release, TypeOK
  <1>2. CASE orig # None
    <2>. DEFINE r == Evaluate(Ident(orig), job.at, ObserveProtects(c, job.ended), Current(orig),
                              eval + 1)
    <2>1. /\ orig \in Inodes /\ job.at \in Nat /\ eval + 1 \in Nat
          /\ Current(orig) \in OrNone(ArtType)
      BY <1>0, <1>2 DEF TypeOK, OrNone, ScanJob, Current
    <2>2. ObserveProtects(c, job.ended) \in BOOLEAN
      BY DEF ObserveProtects
    <2>3. Ident(orig) \in IdentType /\ Ident(orig).ino = orig
      BY <1>0, <2>1, IdentIsTyped
    <2>4. /\ r \in ArtType /\ r.ident = Ident(orig) /\ r.path = "orig"
          /\ r.since = StableSince(Ident(orig), job.at, Current(orig))
      BY <2>1, <2>2, <2>3, EvaluateType
    <2>5. art' = [art EXCEPT ![orig] = r] /\ pc' = "idle"
      BY <1>2 DEF CacheScanCommit, Release
    <2>. HIDE DEF r
    <2>6. /\ art'[orig] = r /\ \A i \in Inodes : i # orig => art'[i] = art[i]
          /\ art' \in [Inodes -> OrNone(ArtType)]
      BY <1>0, <2>1, <2>4, <2>5 DEF TypeOK, OrNone
    <2>. QED
      BY <1>0, <2>1, <2>3, <2>4, <2>5, <2>6 DEF r
  <1>. QED
    BY <1>1, <1>2

\* Types over the scans.
LEMMA ScanType ==
    ASSUME TypeInv,
           \/ ProcessScan \/ TripElsewhere
           \/ \E lag \in 0..MaxLag : CacheScanStart(lag)
           \/ \E c \in BOOLEAN : CacheScanCommit(c) \/ CacheScanFail(c)
    PROVE  TypeInv'
  <1>0. TypeOK
    BY DEF TypeInv
  <1>1. CASE ProcessScan
    <2>1. sesEnded' \in BOOLEAN
      BY <1>1 DEF ProcessScan
    <2>. QED
      BY <1>0, <1>1, <2>1 DEF ProcessScan, machine, health, lane, TypeInv, TypeOK, LaneOK, Moving
  <1>2. CASE TripElsewhere
    BY <1>0, <1>2 DEF TripElsewhere, machine, store, lane, TypeInv, TypeOK, LaneOK, Moving
  <1>3. ASSUME NEW lag \in 0..MaxLag, CacheScanStart(lag) PROVE TypeInv'
    <2>1. lag \in Nat /\ now - lag \in Nat
      BY <1>0, <1>3, Numbers DEF CacheScanStart, TypeOK
    <2>2. job' \in ScanJob
      BY <1>0, <1>3, <2>1 DEF CacheScanStart, ScanJob, TypeOK
    <2>. QED
      BY <1>0, <1>3, <2>2 DEF CacheScanStart, machine, store, health, TypeInv, TypeOK, LaneOK,
                              Moving, OrNone
  <1>4. ASSUME NEW c \in BOOLEAN, CacheScanCommit(c) PROVE TypeInv'
    <2>1. art' \in [Inodes -> OrNone(ArtType)] /\ job \in ScanJob
      BY <1>4, ScanCommitRow
    <2>2. eval' \in Nat /\ lastScan' \in Nat /\ cacheHealthy' \in BOOLEAN
      BY <1>0, <1>4, <2>1 DEF CacheScanCommit, TypeOK, ScanJob
    <2>. QED
      BY <1>0, <1>4, <2>1, <2>2 DEF CacheScanCommit, Release, machine, TypeInv, TypeOK, LaneOK,
                                    Moving, OrNone
  <1>5. ASSUME NEW c \in BOOLEAN, CacheScanFail(c) PROVE TypeInv'
    <2>1. job \in ScanJob
      BY <1>5 DEF CacheScanFail, TypeInv, LaneOK
    <2>2. /\ eval' \in {eval, eval + 1} /\ lastScan' \in {lastScan, job.at} /\ cacheHealthy' = FALSE
          /\ job.at \in Nat
      BY <1>5, <2>1 DEF CacheScanFail, ScanJob
    <2>3. eval' \in Nat /\ lastScan' \in Nat
      BY <1>0, <2>2 DEF TypeOK
    <2>4. cacheHealthy' \in BOOLEAN
      BY <2>2
    <2>. QED
      BY <1>0, <1>5, <2>3, <2>4 DEF CacheScanFail, Release, machine, TypeInv, TypeOK, LaneOK, Moving, OrNone
  <1>. QED
    BY <1>1, <1>2, <1>3, <1>4, <1>5

\* Writing an action row, refusing one and finishing one keep the table typed.
LEMMA BeginType ==
    ASSUME TypeOK, NEW a \in ActIds, NEW p \in ApprovalType, NEW t \in Tokens, NEW r \in Results,
           Begin(a, Row(t, p, r))
    PROVE  act' \in [ActIds -> OrNone(RowType)]
  <1>1. Row(t, p, r) \in OrNone(RowType)
    BY ApprovalParts DEF Row, RowType, OrNone
  <1>. QED
    BY <1>1 DEF Begin, TypeOK

\* A refusal is a row of the table.
LEMMA RejectType ==
    ASSUME TypeOK, NEW p \in ApprovalType, NEW t \in Tokens, NEW ok, Reject(t, p, ok)
    PROVE  act' \in [ActIds -> OrNone(RowType)]
  BY BeginType DEF Reject, Results, TypeOK

\* So is an outcome.
LEMMA FinishType ==
    ASSUME TypeOK, NEW a \in ActIds, act[a] \in RowType, NEW r \in Results, Finish(a, r)
    PROVE  act' \in [ActIds -> OrNone(RowType)]
  <1>1. [act[a] EXCEPT !.result = r] \in RowType
    BY DEF RowType
  <1>. QED
    BY <1>1 DEF Finish, TypeOK, OrNone

\* A preview binds the rows as they are.
LEMMA PreviewApproval ==
    ASSUME TypeOK, NEW t \in Tokens, NEW i \in Inodes, NEW ok \in BOOLEAN, Preview(t, i, ok)
    PROVE  /\ UNCHANGED <<machine, store, health, pending, plans, lane, exec, resets>>
           /\ approvals' \in [Tokens -> ApprovalType \cup {None, Lost}]
           /\ approvals[t] = None
           /\ \A u \in Tokens : u # t => approvals'[u] = approvals[u]
                                         \/ (approvals'[u] = Lost /\ approvals[u] # None)
  <1>1. PICK kind \in CacheKinds : /\ IssueCacheApproval(t, kind, i, ok) /\ art[i] # None
                                   /\ kind # "cleanup" => qrow[i] # None
    BY Numbers DEF Preview, CacheCleanupPreview, CacheRestorePreview, CachePurgePreview, CacheKinds, Current
  <1>. DEFINE q == IF kind = "cleanup" THEN None ELSE qrow[i]
              x == now + ApprovalLifetime
              new == [kind |-> kind, id |-> i, art |-> art[i], qrow |-> q, expires |-> x, used |-> FALSE]
              pruned == [u \in Tokens |-> IF approvals[u] = None \/ Kept(u) THEN approvals[u] ELSE Lost]
  <1>2. art[i] \in ArtType /\ x \in Nat /\ (kind # "cleanup" => q \in QuarType)
        /\ (kind = "cleanup" => q = None)
    BY <1>1, Numbers DEF TypeOK, OrNone
  <1>3. /\ approvals' = [pruned EXCEPT ![t] = IF ok THEN new ELSE Lost] /\ approvals[t] = None
        /\ UNCHANGED <<machine, store, health, pending, plans, lane, exec, resets>>
    BY <1>1 DEF IssueCacheApproval
  <1>. HIDE DEF q, x
  <1>4. new \in ApprovalType
    <2>1. CASE kind = "cleanup"
      BY <1>2, <2>1 DEF ApprovalType
    <2>2. CASE kind # "cleanup"
      BY <1>2, <2>2 DEF ApprovalType, CacheKinds
    <2>. QED
      BY <2>1, <2>2
  <1>. HIDE DEF new
  <1>5. \A u \in Tokens : pruned[u] \in ApprovalType \cup {None, Lost}
    BY DEF TypeOK
  <1>6. approvals' \in [Tokens -> ApprovalType \cup {None, Lost}]
    BY <1>3, <1>4, <1>5
  <1>. QED
    BY <1>3, <1>6

\* Types over previews, applies and refusals.
LEMMA ApplyType ==
    ASSUME TypeInv,
           \/ \E t \in Tokens : \E i \in Inodes : \E ok \in BOOLEAN : Preview(t, i, ok)
           \/ \E t \in Tokens : \E b, ok \in BOOLEAN : CacheApply(t, b, ok) \/ ApplyRefused(t, b, ok)
    PROVE  TypeInv'
  <1>0. TypeOK
    BY DEF TypeInv
  <1>1. ASSUME NEW t \in Tokens, NEW i \in Inodes, NEW ok \in BOOLEAN, Preview(t, i, ok) PROVE TypeInv'
    <2>1. /\ UNCHANGED <<machine, store, health, pending, plans, lane, exec, resets>>
          /\ approvals' \in [Tokens -> ApprovalType \cup {None, Lost}]
      BY <1>0, <1>1, PreviewApproval
    <2>. QED
      BY <1>0, <2>1 DEF machine, store, health, lane, TypeInv, TypeOK, LaneOK, Moving
  <1>2. ASSUME NEW t \in Tokens, NEW b \in BOOLEAN, NEW ok \in BOOLEAN, CacheApply(t, b, ok)
        PROVE  TypeInv'
    <2>1. approvals[t] \in ApprovalType
      BY <1>0, <1>2 DEF CacheApply, TypeOK
    <2>2. [approvals[t] EXCEPT !.used = TRUE] \in ApprovalType
      BY <2>1, UsedApproval
    <2>3. approvals' = [approvals EXCEPT ![t] = [approvals[t] EXCEPT !.used = TRUE]]
      BY <1>2 DEF CacheApply
    <2>4. approvals' \in [Tokens -> ApprovalType \cup {None, Lost}]
      BY <1>0, <2>2, <2>3 DEF TypeOK
    <2>5. [appr |-> approvals[t], at |-> now] \in WaitType
      BY <1>0, <2>1 DEF WaitType, TypeOK
    <2>6. pending' = pending \/ pending' = [pending EXCEPT ![t] = [appr |-> approvals[t], at |-> now]]
      BY <1>2 DEF CacheApply
    <2>7. pending' \in [Tokens -> OrNone(WaitType)]
      BY <1>0, <2>5, <2>6 DEF TypeOK, OrNone
    <2>8. act' = act \/ Reject(t, approvals[t], ok)
      BY <1>2 DEF CacheApply
    <2>9. act' \in [ActIds -> OrNone(RowType)]
      BY <1>0, <2>1, <2>8, RejectType DEF TypeOK
    <2>. QED
      BY <1>0, <1>2, <2>4, <2>7, <2>9 DEF CacheApply, machine, health, lane, TypeInv, TypeOK, LaneOK,
                                          Moving
  <1>3. ASSUME NEW t \in Tokens, NEW b \in BOOLEAN, NEW ok \in BOOLEAN, ApplyRefused(t, b, ok)
        PROVE  TypeInv'
    <2>1. pending[t].appr \in ApprovalType
      BY <1>0, <1>3 DEF ApplyRefused, TypeOK, OrNone, WaitType
    <2>2. act' \in [ActIds -> OrNone(RowType)]
      BY <1>0, <1>3, <2>1, RejectType DEF ApplyRefused
    <2>3. pending' \in [Tokens -> OrNone(WaitType)]
      BY <1>0, <1>3 DEF ApplyRefused, TypeOK, OrNone
    <2>. QED
      BY <1>0, <1>3, <2>2, <2>3 DEF ApplyRefused, machine, health, lane, TypeInv, TypeOK, LaneOK, Moving
  <1>. QED
    BY <1>1, <1>2, <1>3

\* What MoveBegin puts into the lane's hand.
LEMMA MoveBeginJob ==
    ASSUME TypeInv, HeldOK, NEW t \in Tokens, NEW a \in ActIds, NEW ok, MoveBegin(t, a, ok)
    PROVE  \/ UNCHANGED <<act, pc, job>>
           \/ /\ pc' = "check" /\ job' \in MoveJob /\ Begin(a, Row(t, pending[t].appr, "attempting"))
              /\ job' = [kind |-> pending[t].appr.kind, id |-> pending[t].appr.id, action |-> a,
                         ident |-> pending[t].appr.art.ident]
              /\ job'.kind = pending[t].appr.kind /\ job'.id = pending[t].appr.id
              /\ job'.action = a /\ job'.ident = pending[t].appr.art.ident
  <1>. DEFINE appr == pending[t].appr
  <1>1. appr \in ApprovalType /\ appr.kind # "purge"
    BY AuthorisedFacts DEF MoveBegin
  <1>2. appr.kind \in {"cleanup", "restore"} /\ appr.id \in Inodes /\ appr.art.ident \in IdentType
    BY <1>1, ApprovalParts DEF CacheKinds, ArtType
  <1>3. [kind |-> appr.kind, id |-> appr.id, action |-> a, ident |-> appr.art.ident] \in MoveJob
    BY <1>2 DEF MoveJob
  <1>. QED
    BY <1>3 DEF MoveBegin, lane

\* What a rename leaves in it.
LEMMA MoveRenameJob ==
    ASSUME TypeInv, HeldOK, MoveRename
    PROVE  LET src == IF job.kind = "cleanup" THEN orig ELSE quar[job.id] IN
           /\ job \in MoveJob /\ src \in Inodes
           /\ file' = [file EXCEPT ![src].ctime = @ + 1] /\ file'[src].ctime = file[src].ctime + 1
           /\ file'[src].body = file[src].body /\ file' \in [Inodes -> [body : Nat, ctime : Nat]]
           /\ job' \in MoveJob /\ job'.kind = job.kind /\ job'.id = job.id /\ job'.action = job.action
           /\ pc' \in {"record", "fail"}
           /\ pc' = "record" => /\ src = job.id /\ job'.ident.ino = src
                                /\ job'.ident.ctime = file'[src].ctime
                                /\ job'.ident.body = file'[src].body
                                /\ job.ident.body = file[src].body
           /\ pc' = "fail" => job' = job
           /\ Mutation(job.kind, job.action, src, None) \in MutType
           /\ muts' = Append(muts, Mutation(job.kind, job.action, src, None))
  <1>. DEFINE src == IF job.kind = "cleanup" THEN orig ELSE quar[job.id]
              moved == [Ident(src) EXCEPT !.ctime = @ + 1]
  <1>0. TypeOK /\ job \in MoveJob /\ job.id \in Inodes /\ job.ident.ino = job.id
    BY DEF TypeInv, LaneOK, Moving, MoveRename, MoveJob, HeldOK
  <1>1. src \in Inodes
    BY <1>0 DEF MoveRename, TypeOK, OrNone
  <1>2. file[src] \in [body : Nat, ctime : Nat] /\ quietFrom[src] \in Nat /\ now \in Nat
    BY <1>0, <1>1 DEF TypeOK
  <1>3. /\ Ident(src) = [ino |-> src, body |-> file[src].body, ctime |-> file[src].ctime]
        /\ Ident(src) \in IdentType
    BY <1>0, <1>1, IdentIsTyped DEF Ident
  <1>4. /\ file' = [file EXCEPT ![src].ctime = @ + 1]
        /\ muts' = Append(muts, Mutation(job.kind, job.action, src, None))
        /\ \/ SameAcrossRename(moved, job.ident) /\ pc' = "record" /\ job' = [job EXCEPT !.ident = moved]
           \/ pc' = "fail" /\ job' = job
    BY DEF MoveRename
  <1>5. /\ moved \in IdentType /\ moved.ino = src /\ moved.body = file[src].body
        /\ moved.ctime = file[src].ctime + 1
    BY <1>2, <1>3 DEF IdentType
  <1>6. Mutation(job.kind, job.action, src, None) \in MutType
    BY <1>0, <1>1, <1>2 DEF Mutation, MutType, MoveJob, CacheKinds, OrNone
  <1>. HIDE DEF src, moved
  <1>7. /\ file'[src].ctime = file[src].ctime + 1 /\ file'[src].body = file[src].body
        /\ file' \in [Inodes -> [body : Nat, ctime : Nat]]
    <2>1. /\ [file[src] EXCEPT !.ctime = @ + 1] \in [body : Nat, ctime : Nat]
          /\ [file[src] EXCEPT !.ctime = @ + 1].ctime = file[src].ctime + 1
          /\ [file[src] EXCEPT !.ctime = @ + 1].body = file[src].body
      BY <1>2
    <2>2. file' = [file EXCEPT ![src] = [file[src] EXCEPT !.ctime = @ + 1]]
      BY <1>4
    <2>3. file \in [Inodes -> [body : Nat, ctime : Nat]]
      BY <1>0 DEF TypeOK
    <2>. QED
      BY <1>1, <2>1, <2>2, <2>3
  <1>8. CASE SameAcrossRename(moved, job.ident) /\ pc' = "record" /\ job' = [job EXCEPT !.ident = moved]
    <2>1. job' \in MoveJob /\ job'.kind = job.kind /\ job'.id = job.id /\ job'.action = job.action
          /\ job'.ident = moved
      BY <1>0, <1>5, <1>8 DEF MoveJob
    <2>2. src = job.id /\ job.ident.body = file[src].body
      BY <1>0, <1>5, <1>8 DEF SameAcrossRename
    <2>. QED
      BY <1>0, <1>1, <1>4, <1>5, <1>6, <1>7, <1>8, <2>1, <2>2 DEF src
  <1>9. CASE pc' = "fail" /\ job' = job
    BY <1>0, <1>1, <1>4, <1>6, <1>7, <1>9 DEF src
  <1>. QED
    BY <1>4, <1>8, <1>9

\* Types over a move.
LEMMA MoveType ==
    ASSUME TypeInv, HeldOK, LedgerInv,
           \/ \E t \in Tokens : \E a \in ActIds : \E ok \in BOOLEAN : MoveBegin(t, a, ok)
           \/ \E ok \in BOOLEAN : MoveCheck(ok) \/ MoveFail(ok)
           \/ \E ok \in BOOLEAN : MoveRecord(ok)
           \/ MoveRename
    PROVE  TypeInv'
  <1>0. TypeOK
    BY DEF TypeInv
  <1>1. ASSUME NEW t \in Tokens, NEW a \in ActIds, NEW ok \in BOOLEAN, MoveBegin(t, a, ok)
        PROVE  TypeInv'
    <2>1. pending[t].appr \in ApprovalType /\ "attempting" \in Results /\ pc = "idle"
      BY <1>1, AuthorisedFacts DEF MoveBegin, Idle, Results
    <2>2. /\ act' \in [ActIds -> OrNone(RowType)] /\ job' \in OrNone(ScanJob \cup MoveJob)
          /\ pc' \in {"idle", "check"} /\ (pc' = "check" => job' \in MoveJob)
      <3>1. CASE UNCHANGED <<act, pc, job>>
        BY <1>0, <2>1, <3>1 DEF TypeOK
      <3>2. CASE /\ pc' = "check" /\ job' \in MoveJob
                 /\ Begin(a, Row(t, pending[t].appr, "attempting"))
        BY <1>0, <2>1, <3>2, BeginType DEF OrNone
      <3>. QED
        BY <1>1, <3>1, <3>2, MoveBeginJob
    <2>3. pending' \in [Tokens -> OrNone(WaitType)]
      BY <1>0, <1>1 DEF MoveBegin, TypeOK, OrNone
    <2>. QED
      BY <1>0, <1>1, <2>2, <2>3 DEF MoveBegin, machine, health, TypeInv, TypeOK, LaneOK, Moving
  <1>2. CASE MoveRename
    <2>. DEFINE src == IF job.kind = "cleanup" THEN orig ELSE quar[job.id]
                m == Mutation(job.kind, job.action, src, None)
    <2>1. /\ job.id \in Inodes /\ src \in Inodes /\ file' \in [Inodes -> [body : Nat, ctime : Nat]]
          /\ job' \in MoveJob /\ pc' \in {"record", "fail"} /\ m \in MutType
          /\ muts' = Append(muts, m)
      BY <1>2, MoveRenameJob DEF MoveJob
    <2>2. /\ orig' = IF job.kind = "cleanup" THEN None ELSE src
          /\ quar' = [quar EXCEPT ![job.id] = IF job.kind = "cleanup" THEN src ELSE None]
          /\ quarFrom' = [quarFrom EXCEPT ![src] = IF job.kind = "cleanup" THEN now ELSE @]
          /\ UNCHANGED <<now, sesLive, moves, store, health, approvals, pending, plans, exec,
                         quietFrom, resets>>
      BY <1>2 DEF MoveRename
    <2>. HIDE DEF m, src
    <2>3. muts' \in Seq(MutType) /\ orig' \in OrNone(Inodes) /\ quar' \in [Inodes -> OrNone(Inodes)]
      BY <1>0, <2>1, <2>2 DEF TypeOK, OrNone
    <2>4. quarFrom' \in [Inodes -> Nat]
      BY <1>0, <2>1, <2>2 DEF TypeOK
    <2>. QED
      BY <1>0, <2>1, <2>2, <2>3, <2>4 DEF store, health, TypeInv, TypeOK, LaneOK, Moving, OrNone
  <1>3. ASSUME NEW ok \in BOOLEAN, MoveCheck(ok) \/ MoveFail(ok) PROVE TypeInv'
    <2>1. job \in MoveJob /\ job.action \in ActIds /\ act[job.action] \in RowType
      BY <1>0, <1>3 DEF MoveCheck, MoveFail, TypeInv, LaneOK, Moving, MoveJob, LedgerInv, TypeOK, OrNone
    <2>2. /\ act' = act \/ Finish(job.action, "failed")
          /\ pc' \in {"idle", "rename"} /\ job' \in {job, None} /\ (pc' = "rename" => job' = job)
          /\ UNCHANGED <<machine, sesEnded, eval, lastScan, art, qrow, health, approvals, pending,
                         plans, exec, resets>>
      BY <1>3 DEF MoveCheck, MoveFail, Fail, Release, store
    <2>3. act' \in [ActIds -> OrNone(RowType)]
      BY <1>0, <2>1, <2>2, FinishType DEF Results, TypeOK
    <2>. QED
      BY <1>0, <2>1, <2>2, <2>3 DEF machine, health, TypeInv, TypeOK, LaneOK, Moving, OrNone
  <1>4. ASSUME NEW ok \in BOOLEAN, MoveRecord(ok) PROVE TypeInv'
    <2>1. /\ job \in MoveJob /\ job.action \in ActIds /\ act[job.action] \in RowType
          /\ job.id \in Inodes /\ job.ident \in IdentType /\ art[job.id] \in ArtType
          /\ job.kind # "cleanup" => qrow[job.id] \in QuarType
      BY <1>0, <1>4 DEF MoveRecord, TypeInv, LaneOK, Moving, MoveJob, LedgerInv, HeldOK, TypeOK, OrNone
    <2>2. act' = act \/ Finish(job.action, "quarantined") \/ Finish(job.action, "restored")
      BY <1>4 DEF MoveRecord
    <2>3. act' \in [ActIds -> OrNone(RowType)]
      BY <1>0, <2>1, <2>2, FinishType DEF Results, TypeOK
    <2>4. now \in Nat /\ now + Grace \in Nat
      BY <1>0, Numbers DEF TypeOK
    <2>5. qrow' \in [Inodes -> OrNone(QuarType)]
      <3>1. [ident |-> job.ident, grace |-> now + Grace, status |-> "quarantined"] \in QuarType
        BY <2>1, <2>4 DEF QuarType
      <3>2. job.kind # "cleanup" => [qrow[job.id] EXCEPT !.status = "restored"] \in QuarType
        BY <2>1 DEF QuarType
      <3>3. \/ qrow' = qrow
            \/ qrow' = [qrow EXCEPT ![job.id] = [ident |-> job.ident, grace |-> now + Grace,
                                                 status |-> "quarantined"]]
            \/ job.kind # "cleanup" /\ qrow' = [qrow EXCEPT ![job.id].status = "restored"]
        BY <1>4 DEF MoveRecord
      <3>. QED
        BY <1>0, <2>1, <3>1, <3>2, <3>3 DEF TypeOK, OrNone
    <2>6. art' \in [Inodes -> OrNone(ArtType)]
      <3>. DEFINE q == [art[job.id] EXCEPT !.life = "quarantined", !.ident = job.ident, !.path = "quar"]
                  o == [art[job.id] EXCEPT !.life = "restored", !.ident = job.ident, !.path = "orig",
                                           !.since = now]
      <3>1. q \in ArtType /\ o \in ArtType
        BY <2>1, <2>4 DEF ArtType, Lives
      <3>2. art' = art \/ art' = [art EXCEPT ![job.id] = q] \/ art' = [art EXCEPT ![job.id] = o]
        BY <1>4 DEF MoveRecord
      <3>. HIDE DEF q, o
      <3>. QED
        BY <1>0, <2>1, <3>1, <3>2 DEF TypeOK, OrNone
    <2>. QED
      BY <1>0, <1>4, <2>3, <2>5, <2>6 DEF MoveRecord, Release, machine, health, TypeInv, TypeOK,
                                          LaneOK, Moving, OrNone
  <1>. QED
    BY <1>1, <1>2, <1>3, <1>4

\* The plan a purge is prepared with.
LEMMA PurgePlan ==
    ASSUME TypeInv, HeldOK, NEW t \in Tokens, NEW a \in ActIds, NEW ok, PurgePrepare(t, a, ok)
    PROVE  LET p == pending[t] IN
           /\ p.appr \in ApprovalType /\ p.appr.id \in Inodes /\ p.appr.kind = "purge"
           /\ p.at \in Nat /\ Plan(p, a) \in PlanType
           /\ Plan(p, a).action = a /\ Plan(p, a).id = p.appr.id
           /\ Plan(p, a).ident = p.appr.qrow.ident
           /\ Plan(p, a).ident.ino = p.appr.id /\ qrow[p.appr.id] # None
           /\ \/ UNCHANGED <<act, plans, exec>>
              \/ /\ Begin(a, Row(t, p.appr, "purging")) /\ plans' = {Plan(p, a)}
                 /\ exec' = [exec EXCEPT ![a] = [plan |-> Plan(p, a), stage |-> "ready", sat |-> None]]
              \/ /\ UNCHANGED exec /\ plans' \subseteq plans
                 /\ \E r \in {"failed", "purging"} : Begin(a, Row(t, p.appr, r))
  <1>. DEFINE p == pending[t]
  <1>1. /\ p \in WaitType /\ p.appr \in ApprovalType /\ p.appr.kind = "purge"
        /\ p.appr.qrow.ident.ino = p.appr.id /\ qrow[p.appr.id] # None
    BY AuthorisedFacts DEF PurgePrepare
  <1>2. p.appr.id \in Inodes /\ p.appr.qrow \in QuarType /\ p.at \in Nat
    BY <1>1, ApprovalParts DEF WaitType
  <1>3. p.at + PlanLifetime \in Nat /\ p.appr.qrow.ident \in IdentType
    BY <1>2, Numbers DEF QuarType
  <1>4. Plan(p, a) = [action |-> a, id |-> p.appr.id, ident |-> p.appr.qrow.ident,
                      expires |-> p.at + PlanLifetime]
    BY DEF Plan
  <1>5. Plan(p, a) \in PlanType
    BY <1>2, <1>3, <1>4 DEF PlanType
  <1>6. \/ UNCHANGED <<act, plans, exec>>
        \/ /\ Begin(a, Row(t, p.appr, "purging")) /\ plans' = {Plan(p, a)}
           /\ exec' = [exec EXCEPT ![a] = [plan |-> Plan(p, a), stage |-> "ready", sat |-> None]]
        \/ /\ UNCHANGED exec /\ plans' \subseteq plans
           /\ \E r \in {"failed", "purging"} : Begin(a, Row(t, p.appr, r))
    BY DEF PurgePrepare
  <1>. QED
    BY <1>1, <1>2, <1>4, <1>5, <1>6

\* What a completion writes.
LEMMA PurgeCompleteWrites ==
    ASSUME TypeInv, HeldOK, LedgerInv, NEW a \in ActIds, NEW s, NEW ok, CachePurgeComplete(a, s, ok)
    PROVE  LET i == exec[a].plan.id IN
           /\ i \in Inodes /\ act[a] \in RowType /\ act[a].result = "purging"
           /\ act[a].art = i /\ act[a].kind = "purge"
           /\ art[i] \in ArtType /\ qrow[i] \in QuarType
           /\ pc = "idle" /\ exec[a] # None /\ exec' = [exec EXCEPT ![a] = None]
           /\ plans' \subseteq plans
           /\ UNCHANGED <<machine, sesEnded, eval, lastScan, cacheHealthy, approvals, pending, lane,
                          resets>>
           /\ \/ UNCHANGED <<act, art, qrow>>
              \/ /\ Finish(a, "partial") /\ art' = [art EXCEPT ![i].life = "partial"]
                 /\ UNCHANGED qrow
              \/ Finish(a, "failed") /\ UNCHANGED <<art, qrow>> /\ quar[i] # None
              \/ /\ Finish(a, "purged") /\ quar[i] = None
                 /\ qrow' = [qrow EXCEPT ![i].status = "purged"]
                 /\ art' = [art EXCEPT ![i].life = "purged"]
           /\ fsHealthy' \in {fsHealthy, FALSE}
  <1>. DEFINE i == exec[a].plan.id
  <1>0. TypeOK /\ exec[a] # None /\ pc = "idle"
    BY DEF TypeInv, CachePurgeComplete, Stage, Idle
  <1>1. exec[a] \in ExecType
    BY <1>0 DEF TypeOK, OrNone
  <1>2. i \in Inodes
    BY <1>1 DEF ExecType, PlanType
  <1>3. /\ act[a] \in RowType /\ act[a].result = "purging" /\ act[a].art = i /\ act[a].kind = "purge"
    BY <1>0 DEF LedgerInv, TypeOK, OrNone
  <1>4. art[i] \in ArtType /\ qrow[i] \in QuarType
    <2>1. qrow[i] # None /\ art[i] # None
      BY <1>0, <1>2 DEF HeldOK
    <2>. QED
      BY <1>0, <1>2, <2>1 DEF TypeOK, OrNone
  <1>5. /\ exec' = [exec EXCEPT ![a] = None] /\ plans' \subseteq plans
        /\ UNCHANGED <<machine, sesEnded, eval, lastScan, cacheHealthy, approvals, pending, lane,
                       resets>>
    BY DEF CachePurgeComplete
  <1>6. /\ \/ UNCHANGED <<act, art, qrow>>
           \/ /\ Finish(a, "partial") /\ art' = [art EXCEPT ![i].life = "partial"]
              /\ UNCHANGED qrow
           \/ Finish(a, "failed") /\ UNCHANGED <<art, qrow>> /\ quar[i] # None
           \/ /\ Finish(a, "purged") /\ quar[i] = None
              /\ qrow' = [qrow EXCEPT ![i].status = "purged"]
              /\ art' = [art EXCEPT ![i].life = "purged"]
        /\ fsHealthy' \in {fsHealthy, FALSE}
    BY DEF CachePurgeComplete, Ambiguous
  <1>. QED
    BY <1>0, <1>2, <1>3, <1>4, <1>5, <1>6

\* Types over a purge.
LEMMA PurgeType ==
    ASSUME TypeInv, HeldOK, LedgerInv,
           \/ \E t \in Tokens : \E a \in ActIds : \E ok \in BOOLEAN : PurgePrepare(t, a, ok)
           \/ \E a \in ActIds : ExecCheck(a) \/ ExecDie(a)
           \/ \E a \in ActIds : ExecUnlink(a)
           \/ \E a \in ActIds : \E s, ok \in BOOLEAN : CachePurgeComplete(a, s, ok)
    PROVE  TypeInv'
  <1>0. TypeOK
    BY DEF TypeInv
  <1>1. ASSUME NEW t \in Tokens, NEW a \in ActIds, NEW ok \in BOOLEAN, PurgePrepare(t, a, ok)
        PROVE  TypeInv'
    <2>. DEFINE x == [plan |-> Plan(pending[t], a), stage |-> "ready", sat |-> None]
    <2>1. /\ pending[t].appr \in ApprovalType /\ Plan(pending[t], a) \in PlanType
          /\ act' = act \/ \E r \in Results : Begin(a, Row(t, pending[t].appr, r))
          /\ plans' \subseteq plans \/ plans' = {Plan(pending[t], a)}
          /\ exec' = exec \/ exec' = [exec EXCEPT ![a] = x]
      BY <1>1, PurgePlan DEF Results
    <2>2. x \in ExecType
      BY <2>1 DEF ExecType, OrNone
    <2>. HIDE DEF x
    <2>3. plans' \subseteq PlanType /\ exec' \in [ActIds -> OrNone(ExecType)]
      BY <1>0, <2>1, <2>2 DEF TypeOK, OrNone
    <2>4. act' \in [ActIds -> OrNone(RowType)]
      BY <1>0, <2>1, BeginType DEF TypeOK
    <2>5. pending' \in [Tokens -> OrNone(WaitType)]
      BY <1>0, <1>1 DEF PurgePrepare, TypeOK, OrNone
    <2>. QED
      BY <1>0, <1>1, <2>3, <2>4, <2>5 DEF PurgePrepare, machine, health, lane, TypeInv, TypeOK,
                                          LaneOK, Moving
  <1>2. ASSUME NEW a \in ActIds, ExecCheck(a) PROVE TypeInv'
    <2>. DEFINE p == exec[a].plan
                exact == now < p.expires /\ quar[p.id] # None /\ Ident(quar[p.id]) = p.ident
                sat == IF exact THEN now - quarFrom[quar[p.id]] ELSE None
                stage == IF exact THEN "unlink" ELSE "report"
    <2>1. exec[a] \in ExecType /\ p.id \in Inodes
      BY <1>0, <1>2 DEF ExecCheck, Stage, TypeOK, OrNone, ExecType, PlanType
    <2>2. sat \in OrNone(Int)
      <3>1. CASE exact
        <4>1. quar[p.id] \in Inodes
          BY <1>0, <2>1, <3>1 DEF TypeOK, OrNone
        <4>2. quarFrom[quar[p.id]] \in Nat /\ now \in Nat
          BY <1>0, <4>1 DEF TypeOK
        <4>3. now - quarFrom[quar[p.id]] \in Int
          BY <4>2
        <4>4. sat = now - quarFrom[quar[p.id]]
          BY <3>1
        <4>. QED
          BY <4>3, <4>4 DEF OrNone
      <3>2. CASE ~exact
        BY <3>2 DEF OrNone
      <3>. QED
        BY <3>1, <3>2
    <2>3. exec' = [exec EXCEPT ![a] = [exec[a] EXCEPT !.stage = stage, !.sat = sat]]
      BY <1>2 DEF ExecCheck
    <2>4. stage \in {"unlink", "report"}
      OBVIOUS
    <2>. HIDE DEF sat, stage
    <2>5. [exec[a] EXCEPT !.stage = stage, !.sat = sat] \in ExecType
      BY <2>1, <2>2, <2>4 DEF ExecType
    <2>6. exec' \in [ActIds -> OrNone(ExecType)]
      BY <1>0, <2>3, <2>5 DEF TypeOK, OrNone
    <2>. QED
      BY <1>0, <1>2, <2>6 DEF ExecCheck, Foreground, machine, store, health, lane, TypeInv, TypeOK,
                              LaneOK, Moving
  <1>3. ASSUME NEW a \in ActIds, ExecDie(a) PROVE TypeInv'
    <2>1. exec' \in [ActIds -> OrNone(ExecType)]
      BY <1>0, <1>3 DEF ExecDie, TypeOK, OrNone
    <2>. QED
      BY <1>0, <1>3, <2>1 DEF ExecDie, Foreground, machine, store, health, lane, TypeInv, TypeOK,
                              LaneOK, Moving
  <1>4. ASSUME NEW a \in ActIds, ExecUnlink(a) PROVE TypeInv'
    <2>. DEFINE s == exec[a].plan.id
                m == Mutation("purge", a, quar[s], exec[a].sat)
    <2>1. exec[a] \in ExecType /\ s \in Inodes /\ exec[a].sat \in OrNone(Int)
      BY <1>0, <1>4 DEF ExecUnlink, Stage, TypeOK, OrNone, ExecType, PlanType
    <2>2. [exec[a] EXCEPT !.stage = "report"] \in ExecType
      BY <2>1 DEF ExecType
    <2>3. exec' = [exec EXCEPT ![a] = [exec[a] EXCEPT !.stage = "report"]]
      BY <1>4 DEF ExecUnlink
    <2>4. exec' \in [ActIds -> OrNone(ExecType)]
      BY <1>0, <2>2, <2>3 DEF TypeOK, OrNone
    <2>5. quar[s] # None => m \in MutType
      <3>1. ASSUME quar[s] # None PROVE quar[s] \in Inodes /\ now - quietFrom[quar[s]] \in Int
        <4>1. quar[s] \in Inodes
          BY <1>0, <2>1, <3>1 DEF TypeOK, OrNone
        <4>2. now \in Nat /\ quietFrom[quar[s]] \in Nat
          BY <1>0, <4>1 DEF TypeOK
        <4>. QED
          BY <4>1, <4>2
      <3>. QED
        BY <2>1, <3>1 DEF Mutation, MutType, CacheKinds
    <2>6. \/ UNCHANGED <<quar, muts>>
          \/ quar[s] # None /\ quar' = [quar EXCEPT ![s] = None] /\ muts' = Append(muts, m)
      BY <1>4 DEF ExecUnlink
    <2>. HIDE DEF m
    <2>7. muts' \in Seq(MutType) /\ quar' \in [Inodes -> OrNone(Inodes)]
      <3>1. muts \in Seq(MutType) /\ quar \in [Inodes -> OrNone(Inodes)]
        BY <1>0 DEF TypeOK
      <3>2. muts' \in Seq(MutType)
        BY <2>5, <2>6, <3>1
      <3>. QED
        BY <2>6, <3>1, <3>2 DEF OrNone
    <2>. QED
      BY <1>0, <1>4, <2>4, <2>7 DEF ExecUnlink, Foreground, store, health, lane, TypeInv, TypeOK,
                                    LaneOK, Moving
  <1>5. ASSUME NEW a \in ActIds, NEW s \in BOOLEAN, NEW ok \in BOOLEAN, CachePurgeComplete(a, s, ok)
        PROVE  TypeInv'
    <2>. DEFINE i == exec[a].plan.id
    <2>1. /\ i \in Inodes /\ act[a] \in RowType /\ art[i] \in ArtType /\ qrow[i] \in QuarType
          /\ pc = "idle" /\ exec' = [exec EXCEPT ![a] = None] /\ plans' \subseteq plans
          /\ UNCHANGED <<machine, sesEnded, eval, lastScan, cacheHealthy, approvals, pending, lane,
                         resets>>
          /\ act' = act \/ \E r \in Results : Finish(a, r)
          /\ art' = art \/ \E l \in Lives : art' = [art EXCEPT ![i].life = l]
          /\ qrow' = qrow \/ qrow' = [qrow EXCEPT ![i].status = "purged"]
          /\ fsHealthy' \in {fsHealthy, FALSE}
      BY <1>5, PurgeCompleteWrites DEF Results, Lives
    <2>2. /\ [qrow[i] EXCEPT !.status = "purged"] \in QuarType
          /\ \A l \in Lives : [art[i] EXCEPT !.life = l] \in ArtType
      BY <2>1 DEF QuarType, ArtType
    <2>3. qrow' \in [Inodes -> OrNone(QuarType)]
      BY <1>0, <2>1, <2>2 DEF TypeOK, OrNone
    <2>4. art' \in [Inodes -> OrNone(ArtType)]
      <3>1. art \in [Inodes -> OrNone(ArtType)]
        BY <1>0 DEF TypeOK
      <3>2. ASSUME NEW l \in Lives, art' = [art EXCEPT ![i].life = l]
            PROVE  art' \in [Inodes -> OrNone(ArtType)]
        <4>1. art' = [art EXCEPT ![i] = [art[i] EXCEPT !.life = l]]
          BY <3>2
        <4>. QED
          BY <2>1, <2>2, <3>1, <4>1 DEF OrNone
      <3>. QED
        BY <2>1, <3>1, <3>2
    <2>5. act' \in [ActIds -> OrNone(RowType)]
      BY <1>0, <2>1, FinishType DEF TypeOK
    <2>6. exec' \in [ActIds -> OrNone(ExecType)] /\ plans' \subseteq PlanType
      BY <1>0, <2>1 DEF TypeOK, OrNone
    <2>7. fsHealthy' \in BOOLEAN
      <3>1. fsHealthy \in BOOLEAN
        BY <1>0 DEF TypeOK
      <3>. QED
        BY <2>1, <3>1
    <2>. QED
      BY <1>0, <2>1, <2>3, <2>4, <2>5, <2>6, <2>7 DEF machine, lane, TypeInv, TypeOK, LaneOK, Moving
  <1>. QED
    BY <1>1, <1>2, <1>3, <1>4, <1>5

\* A restart empties the daemon's memory and keeps the types.
LEMMA RestartType ==
    ASSUME TypeInv, Restart
    PROVE  TypeInv'
  <1>1. approvals' \in [Tokens -> ApprovalType \cup {None, Lost}]
    BY DEF Restart
  <1>2. pending' \in [Tokens -> OrNone(WaitType)]
    BY DEF Restart, OrNone
  <1>3. cacheHealthy' \in BOOLEAN /\ fsHealthy' \in BOOLEAN
    BY DEF Restart
  <1>. QED
    BY <1>1, <1>2, <1>3 DEF Restart, Release, machine, store, TypeInv, TypeOK, LaneOK, Moving, OrNone

\* Every step keeps the types, given the rows that are held.
LEMMA StepType == TypeInv /\ HeldOK /\ LedgerInv /\ [Next]_vars => TypeInv'
  <1>. SUFFICES ASSUME TypeInv, HeldOK, LedgerInv, [Next]_vars PROVE TypeInv'
    OBVIOUS
  <1>1. CASE Next
    BY <1>1, NextStep, MachineType, ScanType, ApplyType, MoveType, PurgeType, RestartType DEF Step
  <1>2. CASE UNCHANGED vars
    BY <1>2 DEF vars, machine, store, health, lane, TypeInv, TypeOK, LaneOK, Moving
  <1>. QED
    BY <1>1, <1>2

----------------------------------------------------------------------------
(* The rows that are held. *)

\* Steps that keep the rows' identities, and begin nothing.
LEMMA HeldFrame ==
    ASSUME HeldOK,
           \A i \in Inodes : /\ art'[i] # None => art'[i].ident.ino = i
                             /\ art[i] # None => art'[i] # None
                             /\ qrow'[i] # None => qrow[i] # None /\ qrow'[i].ident = qrow[i].ident
                             /\ qrow[i] # None => qrow'[i] # None,
           TypeOK, LaneOK,
           ~Moving' \/ (Moving /\ UNCHANGED <<fsHealthy, job>>),
           \A a \in ActIds : exec'[a] # None => exec[a] # None /\ exec'[a].plan = exec[a].plan
    PROVE  HeldOK'
  <1>1. Moving => job.id \in Inodes
    BY DEF LaneOK, MoveJob
  <1>2. \A a \in ActIds : exec[a] # None => exec[a].plan.id \in Inodes
    BY DEF TypeOK, OrNone, ExecType, PlanType
  <1>3. Moving' => /\ fsHealthy' /\ job'.ident.ino = job'.id /\ art'[job'.id] # None
                   /\ job'.kind = "restore" => qrow'[job'.id] # None
    BY <1>1 DEF HeldOK
  <1>4. \A a \in ActIds : exec'[a] # None =>
           LET p == exec'[a].plan IN p.action = a /\ p.ident.ino = p.id /\ qrow'[p.id] # None
    BY <1>2 DEF HeldOK
  <1>5. \A i \in Inodes : /\ art'[i] # None => art'[i].ident.ino = i
                          /\ qrow'[i] # None => qrow'[i].ident.ino = i /\ art'[i] # None
    BY DEF HeldOK
  <1>. QED
    BY <1>3, <1>4, <1>5 DEF HeldOK

\* What the executor may do to the plan it carries: nothing.
LEMMA ExecKeepsPlan ==
    ASSUME TypeOK, NEW a \in ActIds,
           \/ ExecCheck(a) \/ ExecDie(a) \/ ExecUnlink(a) \/ exec' = [exec EXCEPT ![a] = None]
    PROVE  /\ \A b \in ActIds : exec'[b] # None => exec[b] # None /\ exec'[b].plan = exec[b].plan
           /\ \A b \in ActIds : b # a => exec'[b] = exec[b]
  <1>1. exec \in [ActIds -> OrNone(ExecType)]
    BY DEF TypeOK
  <1>2. \A b \in ActIds : b # a => exec'[b] = exec[b]
    BY <1>1 DEF ExecCheck, ExecDie, ExecUnlink
  <1>3. exec'[a] # None => exec[a] # None /\ exec'[a].plan = exec[a].plan
    <2>1. CASE ExecCheck(a)
      <3>1. exec[a] # None /\ exec[a] \in ExecType
        BY <1>1, <2>1 DEF ExecCheck, Stage, OrNone
      <3>2. \E st, sat : exec' = [exec EXCEPT ![a] = [exec[a] EXCEPT !.stage = st, !.sat = sat]]
        BY <2>1 DEF ExecCheck
      <3>3. \A st, sat : [exec[a] EXCEPT !.stage = st, !.sat = sat].plan = exec[a].plan
        BY <3>1 DEF ExecType
      <3>. QED
        BY <1>1, <3>1, <3>2, <3>3
    <2>2. CASE ExecUnlink(a)
      <3>1. exec[a] # None /\ exec[a] \in ExecType
        BY <1>1, <2>2 DEF ExecUnlink, Stage, OrNone
      <3>2. exec' = [exec EXCEPT ![a] = [exec[a] EXCEPT !.stage = "report"]]
        BY <2>2 DEF ExecUnlink
      <3>3. [exec[a] EXCEPT !.stage = "report"].plan = exec[a].plan
        BY <3>1 DEF ExecType
      <3>. QED
        BY <1>1, <3>1, <3>2, <3>3
    <2>3. CASE ExecDie(a) \/ exec' = [exec EXCEPT ![a] = None]
      BY <1>1, <2>3 DEF ExecDie
    <2>. QED
      BY <2>1, <2>2, <2>3
  <1>. QED
    BY <1>2, <1>3

\* Every step keeps them.
LEMMA StepHeld == TypeInv /\ HeldOK /\ LedgerInv /\ [Next]_vars => HeldOK'
  <1>. SUFFICES ASSUME TypeInv, HeldOK, LedgerInv, [Next]_vars PROVE HeldOK'
    OBVIOUS
  <1>0. TypeOK /\ LaneOK
    BY DEF TypeInv
  <1>1. CASE /\ UNCHANGED <<art, qrow, exec>>
             /\ ~Moving' \/ (Moving /\ UNCHANGED <<fsHealthy, job>>)
    BY <1>0, <1>1, HeldFrame DEF HeldOK
  <1>2. CASE Machine \/ ProcessScan \/ Restart \/ UNCHANGED vars
    <2>1. UNCHANGED <<art, qrow, exec>>
      BY <1>2, MachineFrame DEF ProcessScan, Restart, store, vars
    <2>2. ~Moving' \/ (Moving /\ UNCHANGED <<fsHealthy, job>>)
      BY <1>2, MachineFrame DEF ProcessScan, Restart, Release, health, lane, vars, Moving
    <2>. QED
      BY <1>1, <2>1, <2>2
  <1>3. CASE TripElsewhere \/ \E lag \in 0..MaxLag : CacheScanStart(lag)
    BY <1>1, <1>3 DEF TripElsewhere, CacheScanStart, Moving, store, lane
  <1>4. CASE \E c \in BOOLEAN : CacheScanFail(c)
    BY <1>1, <1>4 DEF CacheScanFail, Release, Moving
  <1>5. ASSUME NEW c \in BOOLEAN, CacheScanCommit(c) PROVE HeldOK'
    <2>1. /\ pc' = "idle" /\ \A i \in Inodes : i # orig => art'[i] = art[i]
          /\ orig # None => art'[orig] \in ArtType /\ art'[orig].ident.ino = orig
          /\ UNCHANGED <<qrow, exec>>
      BY <1>0, <1>5, ScanCommitRow DEF CacheScanCommit
    <2>2. \A i \in Inodes : /\ art'[i] # None => art'[i].ident.ino = i
                            /\ art[i] # None => art'[i] # None
      BY <2>1, Numbers, NoRecordAssumption DEF HeldOK
    <2>. QED
      BY <1>0, <2>1, <2>2, HeldFrame DEF Moving
  <1>6. CASE \/ \E t \in Tokens : \E i \in Inodes : \E ok \in BOOLEAN : Preview(t, i, ok)
             \/ \E t \in Tokens : \E b, ok \in BOOLEAN : CacheApply(t, b, ok) \/ ApplyRefused(t, b, ok)
    <2>1. UNCHANGED <<art, qrow, exec, fsHealthy, pc, job>>
      BY <1>0, <1>6, PreviewApproval DEF CacheApply, ApplyRefused, store, health, lane
    <2>. QED
      BY <1>1, <2>1 DEF Moving
  <1>7. ASSUME NEW t \in Tokens, NEW a \in ActIds, NEW ok \in BOOLEAN, MoveBegin(t, a, ok)
        PROVE  HeldOK'
    <2>. DEFINE appr == pending[t].appr
    <2>1. UNCHANGED <<art, qrow, exec, fsHealthy>> /\ pc = "idle"
      BY <1>7 DEF MoveBegin, Idle, health
    <2>2. CASE pc' = "check" /\ job'.kind = appr.kind /\ job'.id = appr.id /\ job'.ident = appr.art.ident
      <3>1. /\ fsHealthy /\ art[appr.id] # None /\ appr.art.ident.ino = appr.id
            /\ appr.kind # "cleanup" => qrow[appr.id] # None
        BY <1>7, AuthorisedFacts DEF MoveBegin
      <3>. QED
        BY <2>1, <2>2, <3>1 DEF HeldOK, Moving
    <2>3. CASE UNCHANGED <<act, pc, job>>
      BY <1>1, <2>1, <2>3 DEF Moving
    <2>. QED
      BY <1>7, <2>2, <2>3, MoveBeginJob
  <1>8. ASSUME NEW t \in Tokens, NEW a \in ActIds, NEW ok \in BOOLEAN, PurgePrepare(t, a, ok)
        PROVE  HeldOK'
    <2>1. UNCHANGED <<art, qrow, fsHealthy, pc, job>> /\ ~Moving'
      BY <1>8 DEF PurgePrepare, Idle, health, lane, Moving
    <2>2. CASE exec' = [exec EXCEPT ![a] = [plan |-> Plan(pending[t], a), stage |-> "ready",
                                            sat |-> None]]
      <3>1. /\ exec'[a].plan = Plan(pending[t], a) /\ \A b \in ActIds : b # a => exec'[b] = exec[b]
        BY <1>0, <2>2 DEF TypeOK
      <3>2. LET p == Plan(pending[t], a) IN p.action = a /\ p.ident.ino = p.id /\ qrow[p.id] # None
        BY <1>8, PurgePlan
      <3>. QED
        BY <2>1, <3>1, <3>2 DEF HeldOK
    <2>3. CASE UNCHANGED exec
      BY <1>1, <2>1, <2>3
    <2>. QED
      BY <1>8, <2>2, <2>3, PurgePlan
  <1>9. ASSUME NEW ok \in BOOLEAN, MoveCheck(ok) \/ MoveFail(ok) PROVE HeldOK'
    <2>1. UNCHANGED <<art, qrow, exec, fsHealthy>> /\ (~Moving' \/ UNCHANGED job) /\ Moving
      BY <1>9 DEF MoveCheck, MoveFail, Fail, Release, Moving, store, health
    <2>. QED
      BY <1>1, <2>1
  <1>10. CASE MoveRename
    <2>1. /\ UNCHANGED <<art, qrow, exec, fsHealthy>> /\ Moving
          /\ job'.kind = job.kind /\ job'.id = job.id /\ job'.ident.ino = job.id
      BY <1>10, MoveRenameJob DEF MoveRename, store, health, Moving, HeldOK
    <2>. QED
      BY <2>1 DEF HeldOK
  <1>11. ASSUME NEW ok \in BOOLEAN, MoveRecord(ok) PROVE HeldOK'
    <2>1. /\ job \in MoveJob /\ job.id \in Inodes /\ job.ident.ino = job.id /\ art[job.id] \in ArtType
          /\ job.ident \in IdentType
          /\ job.kind # "cleanup" => qrow[job.id] \in QuarType
      BY <1>0, <1>11 DEF MoveRecord, LaneOK, Moving, MoveJob, HeldOK, TypeOK, OrNone
    <2>2. ~Moving' /\ UNCHANGED exec
      BY <1>11 DEF MoveRecord, Release, Moving
    <2>3. /\ \A i \in Inodes : i # job.id => art'[i] = art[i] /\ qrow'[i] = qrow[i]
          /\ art'[job.id] = art[job.id] \/ (art'[job.id] # None /\ art'[job.id].ident = job.ident)
          /\ \/ qrow'[job.id] = qrow[job.id]
             \/ qrow'[job.id] # None /\ qrow'[job.id].ident = job.ident
             \/ qrow[job.id] # None /\ qrow'[job.id] # None /\ qrow'[job.id].ident = qrow[job.id].ident
      <3>. DEFINE q == [art[job.id] EXCEPT !.life = "quarantined", !.ident = job.ident, !.path = "quar"]
                  o == [art[job.id] EXCEPT !.life = "restored", !.ident = job.ident, !.path = "orig",
                                           !.since = now]
                  r == [qrow[job.id] EXCEPT !.status = "restored"]
                  n == [ident |-> job.ident, grace |-> now + Grace, status |-> "quarantined"]
      <3>1. now \in Nat /\ now + Grace \in Nat
        BY <1>0, Numbers DEF TypeOK
      <3>2. q \in ArtType /\ o \in ArtType /\ q.ident = job.ident /\ o.ident = job.ident
        BY <2>1, <3>1 DEF ArtType, Lives
      <3>3. n \in QuarType /\ n.ident = job.ident
        BY <2>1, <3>1 DEF QuarType
      <3>4. job.kind # "cleanup" => r \in QuarType /\ r.ident = qrow[job.id].ident
        BY <2>1 DEF QuarType
      <3>5. \/ UNCHANGED <<art, qrow>>
            \/ art' = [art EXCEPT ![job.id] = q] /\ qrow' = [qrow EXCEPT ![job.id] = n]
            \/ /\ art' = [art EXCEPT ![job.id] = o] /\ qrow' = [qrow EXCEPT ![job.id] = r]
               /\ job.kind # "cleanup"
        BY <1>11 DEF MoveRecord
      <3>. HIDE DEF q, o, r, n
      <3>. QED
        BY <1>0, <2>1, <3>2, <3>3, <3>4, <3>5, NoRecordAssumption DEF TypeOK
    <2>4. \A i \in Inodes : /\ art'[i] # None => art'[i].ident.ino = i
                            /\ qrow'[i] # None => qrow'[i].ident.ino = i /\ art'[i] # None
      BY <2>1, <2>3, NoRecordAssumption DEF HeldOK
    <2>5. \A i \in Inodes : qrow[i] # None => qrow'[i] # None
      BY <2>3
    <2>6. \A a \in ActIds : exec[a] # None => exec[a].plan.id \in Inodes
      BY <1>0 DEF TypeOK, OrNone, ExecType, PlanType
    <2>7. \A a \in ActIds : exec'[a] # None =>
             LET p == exec'[a].plan IN p.action = a /\ p.ident.ino = p.id /\ qrow'[p.id] # None
      BY <2>2, <2>5, <2>6 DEF HeldOK
    <2>. QED
      BY <2>2, <2>4, <2>7 DEF HeldOK
  <1>12. ASSUME NEW a \in ActIds, ExecCheck(a) \/ ExecDie(a) \/ ExecUnlink(a) PROVE HeldOK'
    <2>1. UNCHANGED <<art, qrow, fsHealthy, pc, job>>
      BY <1>12 DEF ExecCheck, ExecDie, ExecUnlink, Foreground, store, health, lane
    <2>. QED
      BY <1>0, <1>12, <2>1, ExecKeepsPlan, HeldFrame DEF HeldOK, Moving
  <1>13. ASSUME NEW a \in ActIds, NEW s \in BOOLEAN, NEW ok \in BOOLEAN, CachePurgeComplete(a, s, ok)
         PROVE  HeldOK'
    <2>. DEFINE i == exec[a].plan.id
    <2>1. /\ i \in Inodes /\ art[i] \in ArtType /\ qrow[i] \in QuarType
          /\ pc = "idle" /\ UNCHANGED lane /\ exec' = [exec EXCEPT ![a] = None]
          /\ art' = art \/ \E l \in Lives : art' = [art EXCEPT ![i] = [art[i] EXCEPT !.life = l]]
          /\ qrow' = qrow \/ qrow' = [qrow EXCEPT ![i] = [qrow[i] EXCEPT !.status = "purged"]]
      BY <1>13, PurgeCompleteWrites DEF Lives
    <2>2. /\ [qrow[i] EXCEPT !.status = "purged"] \in QuarType
          /\ [qrow[i] EXCEPT !.status = "purged"].ident = qrow[i].ident
      BY <2>1 DEF QuarType
    <2>3. \A l \in Lives : /\ [art[i] EXCEPT !.life = l] \in ArtType
                           /\ [art[i] EXCEPT !.life = l].ident = art[i].ident
      BY <2>1 DEF ArtType
    <2>4. \A j \in Inodes : /\ qrow'[j] # None => qrow[j] # None /\ qrow'[j].ident = qrow[j].ident
                            /\ qrow[j] # None => qrow'[j] # None
      BY <1>0, <2>1, <2>2, NoRecordAssumption DEF TypeOK
    <2>5. \A j \in Inodes : /\ art'[j] # None => art'[j].ident.ino = j
                            /\ art[j] # None => art'[j] # None
      <3>1. \A j \in Inodes : art[j] # None => art[j].ident.ino = j
        BY DEF HeldOK
      <3>2. art[i].ident.ino = i
        BY <2>1, <3>1, NoRecordAssumption
      <3>3. ASSUME NEW l \in Lives, art' = [art EXCEPT ![i] = [art[i] EXCEPT !.life = l]]
            PROVE  \A j \in Inodes : /\ art'[j] # None => art'[j].ident.ino = j
                                     /\ art[j] # None => art'[j] # None
        <4>. DEFINE n == [art[i] EXCEPT !.life = l]
        <4>1. n.ident.ino = i /\ n # None
          BY <2>3, <3>2, NoRecordAssumption
        <4>2. art \in [Inodes -> OrNone(ArtType)] /\ art' = [art EXCEPT ![i] = n] /\ i \in Inodes
          BY <1>0, <2>1, <3>3 DEF TypeOK
        <4>. HIDE DEF n
        <4>3. art'[i] = n /\ \A j \in Inodes : j # i => art'[j] = art[j]
          BY <4>2
        <4>. QED
          BY <3>1, <4>1, <4>3
      <3>. QED
        BY <2>1, <3>1, <3>3
    <2>6. \A b \in ActIds : exec'[b] # None => exec[b] # None /\ exec'[b].plan = exec[b].plan
      BY <1>0, <2>1, ExecKeepsPlan
    <2>7. ~Moving'
      BY <2>1 DEF Moving, lane
    <2>. QED
      BY <1>0, <2>4, <2>5, <2>6, <2>7, HeldFrame
  <1>. QED
    BY <1>2, <1>3, <1>4, <1>5, <1>6, <1>7, <1>8, <1>9, <1>10, <1>11, <1>12, <1>13, NextStep DEF Step

----------------------------------------------------------------------------
(* The write-ahead ledger. *)

\* A new row in a free slot, or none.
Inserted(results) ==
    \/ UNCHANGED act
    \/ \E i \in ActIds : \E r \in RowType :
         act[i] = None /\ r.result \in results /\ act' = [act EXCEPT ![i] = r]

\* Rows that exist are left alone by an insertion.
LEMMA InsertedFrame ==
    ASSUME TypeOK, NEW R, Inserted(R)
    PROVE  \A a \in ActIds : /\ act[a] # None => act'[a] = act[a]
                             /\ act'[a] # None /\ act[a] = None => act'[a].result \in R
  BY DEF Inserted, TypeOK

\* New attempts are insertions.
LEMMA BeginInserts ==
    ASSUME TypeOK, NEW a \in ActIds, NEW p \in ApprovalType, NEW t \in Tokens, NEW r \in Results,
           Begin(a, Row(t, p, r))
    PROVE  /\ Inserted({r}) /\ act[a] = None /\ act'[a] # None /\ act'[a] \in RowType
           /\ act'[a].kind = p.kind /\ act'[a].art = p.id
           /\ act'[a].token = t /\ act'[a].result = r
           /\ \A b \in ActIds : b # a => act'[b] = act[b]
  <1>. DEFINE n == Row(t, p, r)
  <1>1. n \in RowType /\ n.result = r /\ n.kind = p.kind /\ n.art = p.id /\ n.token = t
    BY ApprovalParts DEF Row, RowType
  <1>2. act[a] = None /\ act' = [act EXCEPT ![a] = n]
    BY DEF Begin
  <1>. HIDE DEF n
  <1>3. act'[a] = n /\ \A b \in ActIds : b # a => act'[b] = act[b]
    BY <1>2 DEF TypeOK
  <1>. QED
    BY <1>1, <1>2, <1>3, NoRecordAssumption DEF Inserted

\* So is a refusal of an approval.
LEMMA RejectInserts ==
    ASSUME TypeOK, NEW p \in ApprovalType, NEW t \in Tokens, NEW ok, Reject(t, p, ok)
    PROVE  Inserted({"rejected"})
  <1>1. "rejected" \in Results
    BY DEF Results
  <1>2. act' = act \/ \E a \in ActIds : Begin(a, Row(t, p, "rejected"))
    BY DEF Reject
  <1>. QED
    BY <1>1, <1>2, BeginInserts DEF Inserted

\* An apply and a refusal under the locks write refusals only.
LEMMA ApplyInserts ==
    ASSUME TypeInv, NEW t \in Tokens, NEW b, NEW ok, CacheApply(t, b, ok) \/ ApplyRefused(t, b, ok)
    PROVE  Inserted({"rejected"})
  <1>1. CASE CacheApply(t, b, ok)
    <2>1. approvals[t] \in ApprovalType /\ (act' = act \/ Reject(t, approvals[t], ok))
      BY <1>1 DEF CacheApply, TypeInv, TypeOK
    <2>. QED
      BY <2>1, RejectInserts DEF TypeInv, Inserted
  <1>2. CASE ApplyRefused(t, b, ok)
    <2>1. pending[t].appr \in ApprovalType /\ Reject(t, pending[t].appr, ok)
      BY <1>2 DEF ApplyRefused, TypeInv, TypeOK, OrNone, WaitType
    <2>. QED
      BY <2>1, RejectInserts DEF TypeInv
  <1>. QED
    BY <1>1, <1>2

\* The entries of the history are typed.
LEMMA HistoryType ==
    ASSUME TypeOK
    PROVE  Len(muts) \in Nat /\ \A k \in 1..Len(muts) : muts[k] \in MutType
  <1>1. muts \in Seq(MutType)
    BY DEF TypeOK
  <1>. QED
    BY <1>1

\* The history grows by one entry.
LEMMA HistoryGrows ==
    ASSUME TypeOK, NEW m \in MutType, muts' = Append(muts, m)
    PROVE  /\ Len(muts) \in Nat /\ Len(muts') = Len(muts) + 1 /\ muts'[Len(muts) + 1] = m
           /\ \A k \in 1..Len(muts) : muts'[k] = muts[k]
           /\ \A k \in 1..Len(muts') : k \in 1..Len(muts) \/ k = Len(muts) + 1
           /\ \A a : Mutated(a)' <=> Mutated(a) \/ a = m.action
           /\ \A i : Left(i)' <=> Left(i) \/ (i = m.ino /\ m.op # "cleanup")
  <1>1. /\ Len(muts) \in Nat /\ Len(muts') = Len(muts) + 1 /\ muts'[Len(muts) + 1] = m
        /\ \A k \in 1..Len(muts) : muts'[k] = muts[k]
    BY DEF TypeOK
  <1>2. \A k \in 1..Len(muts') : k \in 1..Len(muts) \/ k = Len(muts) + 1
    BY <1>1
  <1>3. Len(muts) + 1 \in 1..Len(muts') /\ \A k \in 1..Len(muts) : k \in 1..Len(muts')
    BY <1>1
  <1>4. \A a : Mutated(a)' <=> Mutated(a) \/ a = m.action
    BY <1>1, <1>2, <1>3 DEF Mutated
  <1>5. \A i : Left(i)' <=> Left(i) \/ (i = m.ino /\ m.op # "cleanup")
    BY <1>1, <1>2, <1>3 DEF Left
  <1>. QED
    BY <1>1, <1>2, <1>4, <1>5

\* What was not begun has not moved or removed anything.
LEMMA NotBegun ==
    ASSUME TypeOK, CacheLedger, NEW a, act[a] = None
    PROVE  ~Mutated(a)
  BY DEF CacheLedger, Mutated

\* Insertions of rows that claim no success keep the ledger.
LEMMA LedgerInsert ==
    ASSUME TypeOK, CacheLedger, UNCHANGED muts,
           Inserted({"rejected", "failed", "purging", "attempting"})
    PROVE  CacheLedger'
  <1>1. \A a \in ActIds : act[a] # None => act'[a] = act[a]
    BY InsertedFrame
  <1>2. \A a \in ActIds : act'[a] # None /\ act[a] = None =>
           act'[a].result \in {"rejected", "failed", "purging", "attempting"}
    BY InsertedFrame
  <1>3. \A k \in 1..Len(muts) : muts[k].action \in ActIds
    BY HistoryType DEF MutType
  <1>4. \A a : (Mutated(a)' <=> Mutated(a)) /\ (Left(a)' <=> Left(a))
    BY DEF Mutated, Left
  <1>5. ASSUME NEW a \in ActIds, act'[a] # None
        PROVE  /\ act'[a].result \in {"quarantined", "restored"} => Mutated(a)
               /\ act'[a].result = "purged" => Left(act'[a].art)
    <2>1. CASE act[a] # None
      BY <1>1, <1>5, <2>1 DEF CacheLedger, Left
    <2>2. CASE act[a] = None
      BY <1>2, <1>5, <2>2
    <2>. QED
      BY <2>1, <2>2
  <1>6. \A k \in 1..Len(muts) : /\ act'[muts[k].action] # None
                                /\ act'[muts[k].action].kind = muts[k].op
                                /\ act'[muts[k].action].result # "rejected"
    BY <1>1, <1>3 DEF CacheLedger
  <1>7. \A a \in ActIds : act'[a] # None /\ act'[a].result = "purged" =>
          \E k \in 1..Len(muts) : muts[k].ino = act'[a].art /\ muts[k].op # "cleanup"
    BY <1>5 DEF Left
  <1>8. \A a \in ActIds : act'[a] # None /\ act'[a].result \in {"quarantined", "restored"} => Mutated(a)'
    BY <1>4, <1>5
  <1>9. \A j, k \in 1..Len(muts) : muts[j].action = muts[k].action => j = k
    BY DEF CacheLedger
  <1>. QED
    BY <1>6, <1>7, <1>8, <1>9 DEF CacheLedger

\* Steps that mutate nothing, decide no outcome and hand over no work but a
\* prepared purge.
LEMMA LedgerFrame ==
    ASSUME TypeInv, LedgerInv, UNCHANGED muts, Inserted({"rejected", "failed", "purging"}),
           ~Moving' \/ (/\ Moving /\ UNCHANGED job
                        /\ pc' = pc \/ (pc = "check" /\ pc' = "rename")),
           \A a \in ActIds : exec'[a] # None =>
              \/ /\ exec[a] # None /\ exec'[a].plan = exec[a].plan
                 /\ exec[a].stage = "report" => exec'[a].stage = "report"
              \/ /\ act[a] = None /\ act'[a] # None /\ act'[a].result = "purging"
                 /\ act'[a].kind = "purge" /\ act'[a].art = exec'[a].plan.id
    PROVE  LedgerInv'
  <1>0. TypeOK /\ CacheLedger
    BY DEF TypeInv, LedgerInv
  <1>1. \A a \in ActIds : act[a] # None => act'[a] = act[a]
    BY <1>0, InsertedFrame
  <1>2. \A a : Mutated(a)' <=> Mutated(a)
    BY DEF Mutated
  <1>3. CacheLedger'
    <2>1. Inserted({"rejected", "failed", "purging", "attempting"})
      BY DEF Inserted
    <2>. QED
      BY <1>0, <2>1, LedgerInsert
  <1>4. Moving' => /\ Moving /\ UNCHANGED job /\ job.action \in ActIds
                   /\ pc' = pc \/ (pc = "check" /\ pc' = "rename")
    BY DEF Moving, TypeInv, LaneOK, MoveJob
  <1>5. Moving' =>
          /\ act'[job'.action] # None /\ act'[job'.action].result = "attempting"
          /\ act'[job'.action].kind = job'.kind /\ act'[job'.action].art = job'.id
    BY <1>1, <1>4 DEF LedgerInv
  <1>6. (pc' \in {"check", "rename"} => ~Mutated(job'.action)) /\ (pc' = "record" => Mutated(job'.action))
    BY <1>4 DEF LedgerInv, Moving
  <1>7. ASSUME NEW a \in ActIds, exec'[a] # None
        PROVE  /\ act'[a] # None /\ act'[a].result = "purging" /\ act'[a].kind = "purge"
               /\ act'[a].art = exec'[a].plan.id
               /\ exec'[a].stage # "report" => ~Mutated(a)
    BY <1>0, <1>1, <1>7, NotBegun DEF LedgerInv
  <1>. QED
    BY <1>2, <1>3, <1>5, <1>6, <1>7 DEF LedgerInv

\* The one rename or unlink of an open action keeps the ledger.
LEMMA LedgerMutation ==
    ASSUME TypeOK, CacheLedger, NEW m \in MutType, muts' = Append(muts, m), UNCHANGED act,
           ~Mutated(m.action), act[m.action] # None, act[m.action].kind = m.op,
           act[m.action].result \in {"attempting", "purging"}
    PROVE  CacheLedger'
  <1>1. /\ Len(muts) \in Nat /\ Len(muts') = Len(muts) + 1 /\ muts'[Len(muts) + 1] = m
        /\ \A k \in 1..Len(muts) : muts'[k] = muts[k]
        /\ \A k \in 1..Len(muts') : k \in 1..Len(muts) \/ k = Len(muts) + 1
        /\ \A a : Mutated(a)' <=> Mutated(a) \/ a = m.action
        /\ \A i : Left(i)' <=> Left(i) \/ (i = m.ino /\ m.op # "cleanup")
    BY HistoryGrows
  <1>2. \A k \in 1..Len(muts') : /\ act[muts'[k].action] # None
                                 /\ act[muts'[k].action].kind = muts'[k].op
                                 /\ act[muts'[k].action].result # "rejected"
    BY <1>1 DEF CacheLedger
  <1>3. \A k \in 1..Len(muts) : muts[k].action # m.action
    BY DEF Mutated
  <1>4. ASSUME NEW j \in 1..Len(muts'), NEW k \in 1..Len(muts'), muts'[j].action = muts'[k].action
        PROVE  j = k
    <2>1. CASE j \in 1..Len(muts) /\ k \in 1..Len(muts)
      BY <1>1, <1>4, <2>1 DEF CacheLedger
    <2>2. CASE j = Len(muts) + 1 \/ k = Len(muts) + 1
      BY <1>1, <1>3, <1>4, <2>2
    <2>. QED
      BY <1>1, <2>1, <2>2
  <1>5. \A a \in ActIds : act[a] # None /\ act[a].result \in {"quarantined", "restored"} => Mutated(a)'
    BY <1>1 DEF CacheLedger
  <1>6. \A a \in ActIds : act[a] # None /\ act[a].result = "purged" => Left(act[a].art)'
    BY <1>1 DEF CacheLedger, Left
  <1>7. \A a \in ActIds : act'[a] # None /\ act'[a].result = "purged" =>
          \E k \in 1..Len(muts') : muts'[k].ino = act'[a].art /\ muts'[k].op # "cleanup"
    BY <1>6 DEF Left
  <1>. QED
    BY <1>2, <1>4, <1>5, <1>7 DEF CacheLedger

\* So does an outcome that tells the truth.
LEMMA LedgerOutcome ==
    ASSUME TypeOK, CacheLedger, NEW a \in ActIds, act[a] \in RowType, NEW r \in Results,
           act' = [act EXCEPT ![a].result = r], UNCHANGED muts, r # "rejected",
           r \in {"quarantined", "restored"} => Mutated(a), r = "purged" => Left(act[a].art)
    PROVE  /\ CacheLedger'
           /\ act'[a] \in RowType /\ act'[a].kind = act[a].kind /\ act'[a].token = act[a].token
           /\ act'[a].art = act[a].art /\ act'[a].result = r
           /\ \A b \in ActIds : b # a => act'[b] = act[b]
  <1>. DEFINE n == [act[a] EXCEPT !.result = r]
  <1>1. n \in RowType /\ n.kind = act[a].kind /\ n.token = act[a].token /\ n.art = act[a].art
        /\ n.result = r
    BY DEF RowType
  <1>2. act' = [act EXCEPT ![a] = n]
    OBVIOUS
  <1>. HIDE DEF n
  <1>3. act'[a] = n /\ \A b \in ActIds : b # a => act'[b] = act[b]
    BY <1>2 DEF TypeOK
  <1>4. \A k \in 1..Len(muts) : muts[k].action \in ActIds
    BY HistoryType DEF MutType
  <1>5. n # None /\ act[a] # None
    BY <1>1, NoRecordAssumption
  <1>6. \A k \in 1..Len(muts) : /\ act'[muts[k].action] # None
                                /\ act'[muts[k].action].kind = muts[k].op
                                /\ act'[muts[k].action].result # "rejected"
    BY <1>1, <1>3, <1>4, <1>5 DEF CacheLedger
  <1>7. \A b \in ActIds : act'[b] # None /\ act'[b].result \in {"quarantined", "restored"} => Mutated(b)
    BY <1>1, <1>3 DEF CacheLedger
  <1>8. \A b \in ActIds : act'[b] # None /\ act'[b].result = "purged" =>
          \E k \in 1..Len(muts) : muts[k].ino = act'[b].art /\ muts[k].op # "cleanup"
    BY <1>1, <1>3 DEF CacheLedger, Left
  <1>9. \A b : Mutated(b)' <=> Mutated(b)
    BY DEF Mutated
  <1>10. \A j, k \in 1..Len(muts) : muts[j].action = muts[k].action => j = k
    BY DEF CacheLedger
  <1>11. CacheLedger'
    BY <1>6, <1>7, <1>8, <1>9, <1>10 DEF CacheLedger
  <1>. QED
    BY <1>1, <1>3, <1>11

\* How a check, a failed rename and a record leave the action they are about.
LEMMA MoveOutcome ==
    ASSUME TypeInv, LedgerInv, NEW ok, MoveCheck(ok) \/ MoveFail(ok) \/ MoveRecord(ok)
    PROVE  /\ Moving /\ job \in MoveJob /\ job.action \in ActIds /\ act[job.action] \in RowType
           /\ act[job.action].result = "attempting"
           /\ UNCHANGED <<machine, sesEnded, eval, lastScan, health, approvals, pending, plans, exec,
                          resets>>
           /\ \/ pc = "check" /\ pc' = "rename" /\ UNCHANGED <<act, job>>
              \/ pc' = "idle" /\ UNCHANGED act
              \/ /\ pc' = "idle"
                 /\ \E r \in {"failed", "quarantined", "restored"} :
                      /\ act' = [act EXCEPT ![job.action].result = r]
                      /\ r # "failed" => pc = "record"
                      /\ r = "quarantined" => job.kind = "cleanup"
                      /\ r = "restored" => job.kind = "restore"
  <1>1. Moving /\ job \in MoveJob
    BY DEF MoveCheck, MoveFail, MoveRecord, Moving, TypeInv, LaneOK
  <1>2. job.action \in ActIds /\ job.kind \in {"cleanup", "restore"}
    BY <1>1 DEF MoveJob
  <1>3. act[job.action] \in RowType /\ act[job.action].result = "attempting"
    BY <1>1, <1>2 DEF LedgerInv, TypeInv, TypeOK, OrNone
  <1>4. UNCHANGED <<machine, sesEnded, eval, lastScan, health, approvals, pending, plans, exec, resets>>
    BY DEF MoveCheck, MoveFail, MoveRecord, Fail, store
  <1>5. CASE MoveCheck(ok) \/ MoveFail(ok)
    <2>1. \/ pc = "check" /\ pc' = "rename" /\ UNCHANGED <<act, job>>
          \/ pc' = "idle" /\ (UNCHANGED act \/ act' = [act EXCEPT ![job.action].result = "failed"])
      BY <1>5 DEF MoveCheck, MoveFail, Fail, Release, Finish, store
    <2>. QED
      BY <1>1, <1>2, <1>3, <1>4, <2>1
  <1>6. CASE MoveRecord(ok)
    <2>1. /\ pc' = "idle" /\ pc = "record"
          /\ \/ UNCHANGED act
             \/ act' = [act EXCEPT ![job.action].result = "quarantined"] /\ job.kind = "cleanup"
             \/ act' = [act EXCEPT ![job.action].result = "restored"] /\ job.kind # "cleanup"
      BY <1>6 DEF MoveRecord, Release, Finish
    <2>. QED
      BY <1>1, <1>2, <1>3, <1>4, <2>1
  <1>. QED
    BY <1>5, <1>6

\* Steps that touch neither the action table nor the history.
Silent == \/ Machine \/ ProcessScan \/ TripElsewhere \/ Restart
          \/ \E lag \in 0..MaxLag : CacheScanStart(lag)
          \/ \E c \in BOOLEAN : CacheScanCommit(c) \/ CacheScanFail(c)
          \/ \E t \in Tokens : \E i \in Inodes : \E ok \in BOOLEAN : Preview(t, i, ok)
          \/ \E a \in ActIds : ExecCheck(a) \/ ExecDie(a)

\* They leave the slots and the lane's hand alone, or empty the hand.
LEMMA SilentFrame ==
    ASSUME TypeOK, Silent
    PROVE  /\ UNCHANGED <<quar, muts, quarFrom, act, qrow>>
           /\ pc' \in {"idle", "scan"} \/ UNCHANGED <<pc, job>>
           /\ plans' \in {plans, {}}
  <1>1. CASE Machine
    BY <1>1, MachineFrame
  <1>2. CASE ProcessScan \/ TripElsewhere \/ Restart
    BY <1>2 DEF ProcessScan, TripElsewhere, Restart, Release, machine, store, lane
  <1>3. CASE \/ \E lag \in 0..MaxLag : CacheScanStart(lag)
             \/ \E c \in BOOLEAN : CacheScanCommit(c) \/ CacheScanFail(c)
    BY <1>3 DEF CacheScanStart, CacheScanCommit, CacheScanFail, Release, machine, store
  <1>4. CASE \E t \in Tokens : \E i \in Inodes : \E ok \in BOOLEAN : Preview(t, i, ok)
    <2>1. UNCHANGED <<machine, store, health, pending, plans, lane, exec, resets>>
      BY <1>4, PreviewApproval
    <2>. QED
      BY <2>1 DEF machine, store, lane
  <1>5. CASE \E a \in ActIds : ExecCheck(a) \/ ExecDie(a)
    BY <1>5 DEF ExecCheck, ExecDie, Foreground, machine, store, lane
  <1>. QED
    BY <1>1, <1>2, <1>3, <1>4, <1>5 DEF Silent

\* An executor that reported does nothing else.
LEMMA ExecStage ==
    ASSUME TypeOK, NEW a \in ActIds, ExecCheck(a) \/ ExecDie(a) \/ ExecUnlink(a)
    PROVE  \A b \in ActIds : exec'[b] # None /\ exec[b].stage = "report" => exec'[b].stage = "report"
  <1>1. CASE ExecCheck(a) \/ ExecUnlink(a)
    BY <1>1, ExecKeepsPlan DEF ExecCheck, ExecUnlink, Stage
  <1>2. CASE ExecDie(a)
    BY <1>2 DEF ExecDie, TypeOK
  <1>. QED
    BY <1>1, <1>2

\* The ledger over the steps that write no row and mutate nothing.
LEMMA LedgerSilent ==
    ASSUME TypeInv, LedgerInv, Silent
    PROVE  LedgerInv'
  <1>0. TypeOK
    BY DEF TypeInv
  <1>1. \A b \in ActIds : exec'[b] # None =>
           /\ exec[b] # None /\ exec'[b].plan = exec[b].plan
           /\ exec[b].stage = "report" => exec'[b].stage = "report"
    <2>1. CASE UNCHANGED exec
      BY <2>1
    <2>2. CASE \E a \in ActIds : ExecCheck(a) \/ ExecDie(a)
      BY <1>0, <2>2, ExecKeepsPlan, ExecStage
    <2>3. UNCHANGED exec \/ \E a \in ActIds : ExecCheck(a) \/ ExecDie(a)
      BY <1>0, MachineFrame, PreviewApproval DEF Silent, ProcessScan, TripElsewhere, Restart,
         CacheScanStart, CacheScanCommit, CacheScanFail
    <2>. QED
      BY <2>1, <2>2, <2>3
  <1>2. ~Moving' \/ (Moving /\ UNCHANGED <<pc, job>>)
    BY <1>0, SilentFrame DEF Moving
  <1>3. UNCHANGED <<act, muts>>
    BY <1>0, SilentFrame
  <1>. QED
    BY <1>1, <1>2, <1>3, LedgerFrame DEF Inserted

\* The ledger over refusals.
LEMMA LedgerApply ==
    ASSUME TypeInv, LedgerInv, NEW t \in Tokens, NEW b, NEW ok,
           CacheApply(t, b, ok) \/ ApplyRefused(t, b, ok)
    PROVE  LedgerInv'
  <1>1. Inserted({"rejected"})
    BY ApplyInserts
  <1>2. Inserted({"rejected", "failed", "purging"})
    BY <1>1 DEF Inserted
  <1>3. UNCHANGED <<muts, pc, job, exec>>
    BY DEF CacheApply, ApplyRefused, machine, lane
  <1>. QED
    BY <1>2, <1>3, LedgerFrame DEF Moving

\* The attempt is durable, and of a kind with the move, before the move starts.
LEMMA LedgerMoveBegin ==
    ASSUME TypeInv, HeldOK, LedgerInv, NEW t \in Tokens, NEW a \in ActIds, NEW ok, MoveBegin(t, a, ok)
    PROVE  LedgerInv'
  <1>. DEFINE appr == pending[t].appr
  <1>0. /\ TypeOK /\ CacheLedger /\ UNCHANGED <<muts, exec>> /\ pc = "idle"
        /\ appr \in ApprovalType /\ "attempting" \in Results
    BY AuthorisedFacts DEF TypeInv, LedgerInv, MoveBegin, Idle, machine, Results
  <1>1. CASE UNCHANGED <<act, pc, job>>
    BY <1>0, <1>1, LedgerFrame DEF Inserted, Moving
  <1>2. CASE /\ pc' = "check" /\ Begin(a, Row(t, appr, "attempting"))
             /\ job'.kind = appr.kind /\ job'.id = appr.id /\ job'.action = a
    <2>1. /\ Inserted({"attempting"}) /\ act[a] = None /\ act'[a] # None
          /\ act'[a].kind = appr.kind /\ act'[a].art = appr.id /\ act'[a].result = "attempting"
          /\ \A b \in ActIds : b # a => act'[b] = act[b]
      BY <1>0, <1>2, BeginInserts
    <2>2. CacheLedger'
      <3>1. Inserted({"rejected", "failed", "purging", "attempting"})
        BY <2>1 DEF Inserted
      <3>. QED
        BY <1>0, <3>1, LedgerInsert
    <2>3. \A b : Mutated(b)' <=> Mutated(b)
      BY <1>0 DEF Mutated
    <2>4. ~Mutated(a)
      BY <1>0, <2>1, NotBegun
    <2>5. \A b \in ActIds : exec[b] # None => b # a
      BY <2>1 DEF LedgerInv
    <2>6. \A b \in ActIds : exec'[b] # None =>
             /\ act'[b] # None /\ act'[b].result = "purging" /\ act'[b].kind = "purge"
             /\ act'[b].art = exec'[b].plan.id
             /\ exec'[b].stage # "report" => ~Mutated(b)'
      BY <1>0, <2>1, <2>3, <2>5 DEF LedgerInv
    <2>. QED
      BY <1>0, <1>2, <2>1, <2>2, <2>3, <2>4, <2>6 DEF LedgerInv, Moving
  <1>. QED
    BY <1>1, <1>2, MoveBeginJob

\* The rename is the one mutation of the attempt in hand.
LEMMA LedgerMoveRename ==
    ASSUME TypeInv, HeldOK, LedgerInv, MoveRename
    PROVE  LedgerInv'
  <1>. DEFINE src == IF job.kind = "cleanup" THEN orig ELSE quar[job.id]
              m == Mutation(job.kind, job.action, src, None)
  <1>0. /\ TypeOK /\ CacheLedger /\ UNCHANGED <<act, exec>> /\ Moving /\ pc = "rename"
        /\ job \in MoveJob
    BY DEF TypeInv, LedgerInv, LaneOK, MoveRename, Moving, store
  <1>1. /\ m \in MutType /\ muts' = Append(muts, m) /\ pc' \in {"record", "fail"}
        /\ job'.kind = job.kind /\ job'.id = job.id /\ job'.action = job.action
    BY MoveRenameJob
  <1>2. m.action = job.action /\ m.op = job.kind
    BY DEF Mutation
  <1>. HIDE DEF m
  <1>3. /\ act[job.action] # None /\ act[job.action].result = "attempting"
        /\ act[job.action].kind = job.kind /\ act[job.action].art = job.id /\ ~Mutated(job.action)
    BY <1>0 DEF LedgerInv
  <1>4. CacheLedger'
    BY <1>0, <1>1, <1>2, <1>3, LedgerMutation
  <1>5. \A b : Mutated(b)' <=> Mutated(b) \/ b = job.action
    BY <1>0, <1>1, <1>2, HistoryGrows
  <1>6. \A b \in ActIds : exec'[b] # None =>
           /\ act'[b] # None /\ act'[b].result = "purging" /\ act'[b].kind = "purge"
           /\ act'[b].art = exec'[b].plan.id
           /\ exec'[b].stage # "report" => ~Mutated(b)'
    BY <1>0, <1>3, <1>5 DEF LedgerInv
  <1>. QED
    BY <1>0, <1>1, <1>3, <1>4, <1>5, <1>6 DEF LedgerInv, Moving

\* A move ends with an outcome of its own action, success only after the rename.
LEMMA LedgerMoveEnd ==
    ASSUME TypeInv, LedgerInv, NEW ok, MoveCheck(ok) \/ MoveFail(ok) \/ MoveRecord(ok)
    PROVE  LedgerInv'
  <1>0. /\ TypeOK /\ CacheLedger /\ Moving /\ job.action \in ActIds /\ act[job.action] \in RowType
        /\ act[job.action].result = "attempting" /\ UNCHANGED <<muts, exec>>
    BY MoveOutcome DEF TypeInv, LedgerInv, machine
  <1>1. CASE \/ pc = "check" /\ pc' = "rename" /\ UNCHANGED <<act, job>>
             \/ pc' = "idle" /\ UNCHANGED act
    BY <1>0, <1>1, LedgerFrame DEF Inserted, Moving
  <1>2. ASSUME NEW r \in {"failed", "quarantined", "restored"}, pc' = "idle",
               act' = [act EXCEPT ![job.action].result = r], r # "failed" => pc = "record"
        PROVE  LedgerInv'
    <2>0. PICK a \in ActIds : a = job.action
      BY <1>0
    <2>1. r \in Results /\ r # "rejected" /\ r # "purged" /\ (r # "failed" => Mutated(a))
      BY <1>2, <2>0 DEF Results, LedgerInv
    <2>2. CacheLedger' /\ \A b \in ActIds : b # a => act'[b] = act[b]
      BY <1>0, <1>2, <2>0, <2>1, LedgerOutcome
    <2>3. \A b : Mutated(b)' <=> Mutated(b)
      BY <1>0 DEF Mutated
    <2>4. \A b \in ActIds : exec'[b] # None =>
             /\ act'[b] # None /\ act'[b].result = "purging" /\ act'[b].kind = "purge"
             /\ act'[b].art = exec'[b].plan.id
             /\ exec'[b].stage # "report" => ~Mutated(b)'
      BY <1>0, <2>0, <2>2, <2>3 DEF LedgerInv
    <2>. QED
      BY <1>2, <2>2, <2>4 DEF LedgerInv, Moving
  <1>. QED
    BY <1>1, <1>2, MoveOutcome

\* A purge is handed to an executor only with its row purging.
LEMMA LedgerPrepare ==
    ASSUME TypeInv, HeldOK, LedgerInv, NEW t \in Tokens, NEW a \in ActIds, NEW ok, PurgePrepare(t, a, ok)
    PROVE  LedgerInv'
  <1>. DEFINE p == pending[t]
              x == [plan |-> Plan(p, a), stage |-> "ready", sat |-> None]
  <1>0. /\ TypeOK /\ UNCHANGED <<muts, pc, job>> /\ pc = "idle" /\ p.appr \in ApprovalType
        /\ p.appr.kind = "purge" /\ Plan(p, a).id = p.appr.id
        /\ {"failed", "purging"} \subseteq Results
    BY PurgePlan DEF TypeInv, PurgePrepare, Idle, machine, lane, Results
  <1>1. CASE UNCHANGED <<act, plans, exec>>
    BY <1>0, <1>1, LedgerFrame DEF Inserted, Moving
  <1>2. ASSUME NEW r \in {"failed", "purging"}, Begin(a, Row(t, p.appr, r)), UNCHANGED exec
        PROVE  LedgerInv'
    <2>1. Inserted({"rejected", "failed", "purging"})
      BY <1>0, <1>2, BeginInserts DEF Inserted
    <2>. QED
      BY <1>0, <1>2, <2>1, LedgerFrame DEF Moving
  <1>3. CASE Begin(a, Row(t, p.appr, "purging")) /\ exec' = [exec EXCEPT ![a] = x]
    <2>1. /\ Inserted({"purging"}) /\ act[a] = None /\ act'[a] # None
          /\ act'[a].kind = "purge" /\ act'[a].art = p.appr.id /\ act'[a].result = "purging"
      <3>1. "purging" \in Results
        BY DEF Results
      <3>2. Begin(a, Row(t, p.appr, "purging"))
        BY <1>3
      <3>. QED
        BY <1>0, <3>1, <3>2, BeginInserts
    <2>2. Inserted({"rejected", "failed", "purging"})
      BY <2>1 DEF Inserted
    <2>3. x.plan.id = p.appr.id
      BY <1>0
    <2>. HIDE DEF x
    <2>4. exec'[a] = x /\ \A b \in ActIds : b # a => exec'[b] = exec[b]
      BY <1>0, <1>3 DEF TypeOK
    <2>. QED
      BY <1>0, <2>1, <2>2, <2>3, <2>4, LedgerFrame DEF Moving
  <1>. QED
    BY <1>1, <1>2, <1>3, PurgePlan

\* An executor unlinks once, under its own purging row.
LEMMA LedgerExecUnlink ==
    ASSUME TypeInv, LedgerInv, NEW a \in ActIds, ExecUnlink(a)
    PROVE  LedgerInv'
  <1>. DEFINE s == exec[a].plan.id
              m == Mutation("purge", a, quar[s], exec[a].sat)
  <1>0. /\ TypeOK /\ CacheLedger /\ UNCHANGED <<act, pc, job>> /\ exec[a] \in ExecType
        /\ act[a] # None /\ act[a].result = "purging" /\ act[a].kind = "purge" /\ ~Mutated(a)
    BY DEF TypeInv, LedgerInv, ExecUnlink, Stage, Foreground, store, lane, TypeOK, OrNone
  <1>1. /\ exec'[a].stage = "report"
        /\ \A b \in ActIds : exec'[b] # None =>
              /\ exec[b] # None /\ exec'[b].plan = exec[b].plan
              /\ exec[b].stage = "report" => exec'[b].stage = "report"
        /\ \A b \in ActIds : b # a => exec'[b] = exec[b]
    <2>1. exec'[a].stage = "report"
      BY <1>0 DEF ExecUnlink, TypeOK, ExecType
    <2>. QED
      BY <1>0, <2>1, ExecKeepsPlan, ExecStage
  <1>2. CASE UNCHANGED muts
    BY <1>0, <1>1, <1>2, LedgerFrame DEF Inserted, Moving
  <1>3. CASE muts' = Append(muts, m) /\ quar[s] # None
    <2>1. m \in MutType /\ m.action = a /\ m.op = "purge"
      <3>1. s \in Inodes /\ exec[a].sat \in OrNone(Int)
        BY <1>0 DEF ExecType, PlanType
      <3>2. quar[s] \in Inodes
        BY <1>0, <1>3, <3>1 DEF TypeOK, OrNone
      <3>3. now \in Nat /\ quietFrom[quar[s]] \in Nat
        BY <1>0, <3>2 DEF TypeOK
      <3>. QED
        BY <3>1, <3>2, <3>3 DEF Mutation, MutType, CacheKinds
    <2>. HIDE DEF m
    <2>2. CacheLedger'
      BY <1>0, <1>3, <2>1, LedgerMutation
    <2>3. \A b : Mutated(b)' <=> Mutated(b) \/ b = a
      BY <1>0, <1>3, <2>1, HistoryGrows
    <2>4. Moving => job.action # a
      BY <1>0 DEF LedgerInv
    <2>5. \A b \in ActIds : exec'[b] # None =>
             /\ act'[b] # None /\ act'[b].result = "purging" /\ act'[b].kind = "purge"
             /\ act'[b].art = exec'[b].plan.id
             /\ exec'[b].stage # "report" => ~Mutated(b)'
      BY <1>0, <1>1, <2>3 DEF LedgerInv
    <2>. QED
      BY <1>0, <2>2, <2>3, <2>4, <2>5 DEF LedgerInv, Moving
  <1>. QED
    BY <1>2, <1>3 DEF ExecUnlink

\* A completion is an outcome; purged only of a slot whose file has left it.
LEMMA LedgerPurgeComplete ==
    ASSUME TypeInv, HeldOK, LedgerInv, SlotInv, NEW a \in ActIds, NEW s, NEW ok,
           CachePurgeComplete(a, s, ok)
    PROVE  LedgerInv'
  <1>. DEFINE i == exec[a].plan.id
  <1>0. /\ TypeOK /\ CacheLedger /\ pc = "idle" /\ UNCHANGED <<muts, pc, job>>
        /\ i \in Inodes /\ act[a] \in RowType /\ act[a].art = i /\ qrow[i] \in QuarType
        /\ act[a].result = "purging"
        /\ exec' = [exec EXCEPT ![a] = None]
    BY PurgeCompleteWrites DEF TypeInv, LedgerInv, machine, lane
  <1>1. exec'[a] = None /\ \A b \in ActIds : b # a => exec'[b] = exec[b]
    BY <1>0 DEF TypeOK
  <1>2. CASE UNCHANGED act
    BY <1>0, <1>1, <1>2, LedgerFrame DEF Inserted, Moving
  <1>3. ASSUME NEW r \in {"failed", "partial", "purged"}, act' = [act EXCEPT ![a].result = r],
               r = "purged" => quar[i] = None
        PROVE  LedgerInv'
    <2>1. r = "purged" => Left(i)
      BY <1>0, <1>3, Numbers, NoRecordAssumption DEF SlotInv
    <2>2. r \in Results /\ r # "rejected" /\ r \notin {"quarantined", "restored"}
      BY DEF Results
    <2>3. CacheLedger' /\ \A b \in ActIds : b # a => act'[b] = act[b]
      BY <1>0, <1>3, <2>1, <2>2, LedgerOutcome
    <2>4. \A b : Mutated(b)' <=> Mutated(b)
      BY <1>0 DEF Mutated
    <2>5. \A b \in ActIds : exec'[b] # None =>
             /\ act'[b] # None /\ act'[b].result = "purging" /\ act'[b].kind = "purge"
             /\ act'[b].art = exec'[b].plan.id
             /\ exec'[b].stage # "report" => ~Mutated(b)'
      BY <1>1, <2>3, <2>4 DEF LedgerInv
    <2>. QED
      BY <1>0, <2>3, <2>5 DEF LedgerInv, Moving
  <1>4. \/ UNCHANGED act
        \/ \E r \in {"failed", "partial", "purged"} :
              act' = [act EXCEPT ![a].result = r] /\ (r = "purged" => quar[i] = None)
    BY PurgeCompleteWrites DEF Finish
  <1>. QED
    BY <1>2, <1>3, <1>4

\* Every step keeps the ledger.
LEMMA StepLedger == TypeInv /\ HeldOK /\ LedgerInv /\ SlotInv /\ [Next]_vars => LedgerInv'
  <1>. SUFFICES ASSUME TypeInv, HeldOK, LedgerInv, SlotInv, [Next]_vars PROVE LedgerInv'
    OBVIOUS
  <1>1. CASE Silent
    BY <1>1, LedgerSilent
  <1>2. CASE UNCHANGED vars
    <2>1. UNCHANGED <<muts, act, exec, pc, job>>
      BY <1>2 DEF vars, machine, store, lane
    <2>. QED
      BY <2>1, LedgerFrame DEF Inserted, Moving
  <1>. QED
    BY <1>1, <1>2, NextStep, LedgerApply, LedgerMoveBegin, LedgerMoveRename, LedgerMoveEnd,
       LedgerPrepare, LedgerExecUnlink, LedgerPurgeComplete DEF Step, Silent

----------------------------------------------------------------------------
(* The quarantine slots. *)

\* Steps that fill or empty no slot and record no file.
LEMMA SlotFrame ==
    ASSUME SlotInv, UNCHANGED <<quar, muts>>, \A i \in Inodes : qrow'[i] # None => qrow[i] # None,
           pc' \notin {"rename", "record"} \/ UNCHANGED <<pc, job>>
    PROVE  SlotInv'
  <1>1. \A i : Left(i)' <=> Left(i)
    BY DEF Left
  <1>. QED
    BY <1>1 DEF SlotInv

\* Every step keeps the slots.
LEMMA StepSlot == TypeInv /\ HeldOK /\ LedgerInv /\ SlotInv /\ [Next]_vars => SlotInv'
  <1>. SUFFICES ASSUME TypeInv, HeldOK, LedgerInv, SlotInv, [Next]_vars PROVE SlotInv'
    OBVIOUS
  <1>0. TypeOK
    BY DEF TypeInv
  <1>1. CASE Silent
    BY <1>0, <1>1, SilentFrame, SlotFrame
  <1>2. CASE UNCHANGED vars
    <2>1. UNCHANGED <<muts, quar, qrow, pc, job>>
      BY <1>2 DEF vars, machine, store, lane
    <2>. QED
      BY <2>1, SlotFrame
  <1>3. CASE \E t \in Tokens : \E b, ok \in BOOLEAN : CacheApply(t, b, ok) \/ ApplyRefused(t, b, ok)
    <2>1. UNCHANGED <<muts, quar, qrow, pc, job>>
      BY <1>3 DEF CacheApply, ApplyRefused, machine, lane
    <2>. QED
      BY <2>1, SlotFrame
  <1>4. ASSUME NEW t \in Tokens, NEW a \in ActIds, NEW ok \in BOOLEAN,
               MoveBegin(t, a, ok) \/ PurgePrepare(t, a, ok)
        PROVE  SlotInv'
    <2>1. pc' \in {"idle", "check"}
      BY <1>4 DEF MoveBegin, PurgePrepare, lane, Idle
    <2>2. UNCHANGED <<muts, quar, qrow>>
      BY <1>4 DEF MoveBegin, PurgePrepare, machine
    <2>. QED
      BY <2>1, <2>2, SlotFrame
  <1>5. ASSUME NEW ok \in BOOLEAN, MoveCheck(ok) PROVE SlotInv'
    <2>1. UNCHANGED <<muts, quar, qrow>> /\ pc' \in {"idle", "rename"}
          /\ (pc' = "rename" => job' = job /\ DestinationAbsent)
      BY <1>5 DEF MoveCheck, Fail, Release, machine, store
    <2>2. pc' = "rename" /\ job'.kind = "cleanup" => quar'[job'.id] = None
      BY <2>1 DEF DestinationAbsent
    <2>3. \A i : Left(i)' <=> Left(i)
      BY <2>1 DEF Left
    <2>. QED
      BY <2>1, <2>2, <2>3 DEF SlotInv
  <1>6. ASSUME NEW ok \in BOOLEAN, MoveFail(ok) PROVE SlotInv'
    <2>1. UNCHANGED <<muts, quar, qrow>> /\ pc' = "idle"
      BY <1>6 DEF MoveFail, Fail, Release, machine
    <2>. QED
      BY <2>1, SlotFrame
  <1>7. CASE MoveRename
    <2>. DEFINE src == IF job.kind = "cleanup" THEN orig ELSE quar[job.id]
                m == Mutation(job.kind, job.action, src, None)
    <2>1. /\ m \in MutType /\ muts' = Append(muts, m) /\ pc' \in {"record", "fail"}
          /\ job'.id = job.id /\ (pc' = "record" => src = job.id) /\ src \in Inodes
          /\ job.id \in Inodes /\ job \in MoveJob
      BY <1>7, MoveRenameJob DEF MoveJob
    <2>2. m.ino = src /\ m.op = job.kind
      BY DEF Mutation
    <2>3. \A i : Left(i)' <=> Left(i) \/ (i = src /\ job.kind # "cleanup")
      BY <1>0, <2>1, <2>2, HistoryGrows
    <2>4. /\ quar' = [quar EXCEPT ![job.id] = IF job.kind = "cleanup" THEN src ELSE None]
          /\ UNCHANGED qrow /\ pc = "rename"
      BY <1>7 DEF MoveRename, store
    <2>5. src = IF job.kind = "cleanup" THEN orig ELSE quar[job.id]
      OBVIOUS
    <2>. HIDE DEF m, src
    <2>6. /\ \A i \in Inodes : i # job.id => quar'[i] = quar[i]
          /\ quar'[job.id] = IF job.kind = "cleanup" THEN src ELSE None
      BY <1>0, <2>1, <2>4 DEF TypeOK
    <2>7. ASSUME NEW i \in Inodes, qrow'[i] # None \/ (pc' = "record" /\ job'.id = i)
          PROVE  quar'[i] = i \/ Left(i)'
      <3>1. CASE i # job.id
        BY <2>1, <2>3, <2>4, <2>6, <2>7, <3>1 DEF SlotInv
      <3>2. CASE i = job.id /\ job.kind = "cleanup"
        <4>1. quar[i] = None
          BY <2>4, <3>2 DEF SlotInv
        <4>2. qrow[i] # None => Left(i)
          BY <4>1, Numbers DEF SlotInv
        <4>. QED
          BY <2>1, <2>3, <2>4, <2>6, <2>7, <3>2, <4>2
      <3>3. CASE i = job.id /\ job.kind # "cleanup"
        <4>1. qrow[i] # None => quar[i] = i \/ Left(i)
          BY DEF SlotInv
        <4>. QED
          BY <2>1, <2>3, <2>4, <2>5, <2>7, <3>3, <4>1
      <3>. QED
        BY <3>1, <3>2, <3>3
    <2>. QED
      BY <2>1, <2>7 DEF SlotInv
  <1>8. ASSUME NEW ok \in BOOLEAN, MoveRecord(ok) PROVE SlotInv'
    <2>1. /\ UNCHANGED <<muts, quar>> /\ pc = "record" /\ pc' = "idle" /\ job.id \in Inodes
          /\ job.kind = "restore" => qrow[job.id] # None
      BY <1>8 DEF MoveRecord, Release, machine, TypeInv, LaneOK, Moving, MoveJob, HeldOK
    <2>2. \A i \in Inodes : i # job.id => qrow'[i] = qrow[i]
      BY <1>0, <1>8, <2>1 DEF MoveRecord, TypeOK
    <2>3. \A i : Left(i)' <=> Left(i)
      BY <2>1 DEF Left
    <2>. QED
      BY <2>1, <2>2, <2>3 DEF SlotInv
  <1>9. ASSUME NEW a \in ActIds, ExecUnlink(a) PROVE SlotInv'
    <2>. DEFINE s == exec[a].plan.id
                m == Mutation("purge", a, quar[s], exec[a].sat)
    <2>1. /\ UNCHANGED <<qrow, pc, job>> /\ s \in Inodes /\ exec[a].sat \in OrNone(Int)
      BY <1>0, <1>9 DEF ExecUnlink, Stage, Foreground, store, lane, TypeOK, OrNone, ExecType, PlanType
    <2>2. CASE UNCHANGED <<quar, muts>>
      BY <2>1, <2>2, SlotFrame
    <2>3. CASE quar[s] # None /\ quar' = [quar EXCEPT ![s] = None] /\ muts' = Append(muts, m)
      <3>1. quar[s] \in Inodes
        BY <1>0, <2>1, <2>3 DEF TypeOK, OrNone
      <3>2. now \in Nat /\ quietFrom[quar[s]] \in Nat
        BY <1>0, <3>1 DEF TypeOK
      <3>3. m \in MutType /\ m.ino = quar[s] /\ m.op = "purge"
        BY <2>1, <3>1, <3>2 DEF Mutation, MutType, CacheKinds
      <3>. HIDE DEF m
      <3>4. \A i : Left(i)' <=> Left(i) \/ i = quar[s]
        BY <1>0, <2>3, <3>3, HistoryGrows
      <3>5. quar'[s] = None /\ \A i \in Inodes : i # s => quar'[i] = quar[i]
        BY <1>0, <2>1, <2>3 DEF TypeOK
      <3>6. ~(pc = "rename" /\ job.kind = "cleanup" /\ job.id = s)
        BY <2>3 DEF SlotInv
      <3>7. pc = "rename" => job.id \in Inodes
        BY DEF TypeInv, LaneOK, Moving, MoveJob
      <3>8. pc' = "rename" /\ job'.kind = "cleanup" => quar'[job'.id] = None
        BY <2>1, <3>5, <3>6, <3>7 DEF SlotInv
      <3>9. \A i \in Inodes : qrow'[i] # None \/ (pc' = "record" /\ job'.id = i) => quar'[i] = i \/ Left(i)'
        BY <2>1, <3>4, <3>5 DEF SlotInv
      <3>. QED
        BY <3>8, <3>9 DEF SlotInv
    <2>. QED
      BY <1>9, <2>2, <2>3 DEF ExecUnlink
  <1>10. ASSUME NEW a \in ActIds, NEW s \in BOOLEAN, NEW ok \in BOOLEAN, CachePurgeComplete(a, s, ok)
         PROVE  SlotInv'
    <2>1. /\ UNCHANGED <<machine, lane>> /\ exec[a].plan.id \in Inodes
          /\ qrow[exec[a].plan.id] \in QuarType
          /\ qrow' = qrow \/ qrow' = [qrow EXCEPT ![exec[a].plan.id].status = "purged"]
      BY <1>10, PurgeCompleteWrites
    <2>2. \A i \in Inodes : qrow'[i] # None => qrow[i] # None
      BY <1>0, <2>1, NoRecordAssumption DEF TypeOK
    <2>. QED
      BY <2>1, <2>2, SlotFrame DEF machine, lane
  <1>. QED
    BY <1>1, <1>2, <1>3, <1>4, <1>5, <1>6, <1>7, <1>8, <1>9, <1>10, NextStep DEF Step, Silent

----------------------------------------------------------------------------
(* The theorems. *)

\* The four invariants hold together in every reachable state.
THEOREM LaneInvCorrect == Spec => []LaneInv
  <1>1. Init => LaneInv
    <2>. SUFFICES ASSUME Init PROVE LaneInv
      OBVIOUS
    <2>1. /\ Len(muts) = 0 /\ pc = "idle" /\ \A a \in ActIds : act[a] = None /\ exec[a] = None
          /\ \A i \in Inodes : art[i] = None /\ qrow[i] = None
      BY DEF Init
    <2>. QED
      BY <2>1, InitType DEF LaneInv, HeldOK, LedgerInv, SlotInv, CacheLedger, Mutated, Moving
  <1>2. LaneInv /\ [Next]_vars => LaneInv'
    BY StepType, StepHeld, StepLedger, StepSlot DEF LaneInv
  <1>. QED
    BY <1>1, <1>2, PTL DEF Spec

\* Every reachable state of the cache lane is well typed.
THEOREM TypeCorrect == Spec => []TypeOK
  <1>1. LaneInv => TypeOK
    BY DEF LaneInv, TypeInv
  <1>. QED
    BY <1>1, LaneInvCorrect, PTL

\* The write-ahead ledger of renames and unlinks holds in every reachable state
\* (executeCacheCleanup, executeCacheRestore, prepareCachePurgeLocked,
\* CachePurgeComplete).
THEOREM LedgerCorrect == Spec => []CacheLedger
  <1>1. LaneInv => CacheLedger
    BY DEF LaneInv, LedgerInv
  <1>. QED
    BY <1>1, LaneInvCorrect, PTL

\* What an open circuit stops, of one step.
CircuitHeld ==
    ~fsHealthy =>
      /\ \A a \in ActIds : act[a] = None /\ act'[a] # None
                             => act'[a].result \notin {"attempting", "purging"}
      /\ UNCHANGED orig \/ moves' # moves

\* Every step respects the circuit: who holds the lane has closed it, and
\* everybody else must find it closed to begin.
LEMMA StepCircuit == LaneInv /\ [Next]_vars => CircuitHeld
  <1>. SUFFICES ASSUME LaneInv, [Next]_vars, ~fsHealthy PROVE CircuitHeld
    BY DEF CircuitHeld
  <1>0. TypeInv /\ TypeOK /\ HeldOK /\ LedgerInv /\ ~Moving
    BY DEF LaneInv, TypeInv, HeldOK
  <1>1. ASSUME Inserted({"rejected"}), UNCHANGED orig \/ moves' # moves PROVE CircuitHeld
    <2>1. \A a \in ActIds : act'[a] # None /\ act[a] = None => act'[a].result = "rejected"
      BY <1>0, <1>1, InsertedFrame
    <2>. QED
      BY <1>1, <2>1 DEF CircuitHeld
  <1>2. CASE Silent
    <2>1. UNCHANGED act
      BY <1>0, <1>2, SilentFrame
    <2>2. UNCHANGED orig \/ moves' # moves
      <3>1. CASE Machine
        <4>1. moves \in Nat
          BY <1>0 DEF TypeOK
        <4>. QED
          BY <3>1, <4>1 DEF Machine, Tick, Write, Remove, SessionFlip, Create, Tamper, Disturb
      <3>2. CASE \E t \in Tokens : \E i \in Inodes : \E ok \in BOOLEAN : Preview(t, i, ok)
        BY <1>0, <3>2, PreviewApproval DEF machine
      <3>3. CASE ~Machine /\ ~(\E t \in Tokens : \E i \in Inodes : \E ok \in BOOLEAN : Preview(t, i, ok))
        BY <1>2, <3>3 DEF Silent, ProcessScan, TripElsewhere, Restart, CacheScanStart, CacheScanCommit,
           CacheScanFail, ExecCheck, ExecDie, machine
      <3>. QED
        BY <3>1, <3>2, <3>3
    <2>. QED
      BY <1>1, <2>1, <2>2 DEF Inserted
  <1>3. CASE UNCHANGED vars
    BY <1>1, <1>3 DEF vars, machine, store, Inserted
  <1>4. CASE \E t \in Tokens : \E b, ok \in BOOLEAN : CacheApply(t, b, ok) \/ ApplyRefused(t, b, ok)
    <2>1. UNCHANGED orig
      BY <1>4 DEF CacheApply, ApplyRefused, machine
    <2>. QED
      BY <1>0, <1>1, <1>4, <2>1, ApplyInserts
  <1>5. ASSUME NEW t \in Tokens, NEW a \in ActIds, NEW ok \in BOOLEAN,
               MoveBegin(t, a, ok) \/ PurgePrepare(t, a, ok)
        PROVE  FALSE
    <2>1. pending[t] # None /\ Authorised(pending[t], TRUE)
      BY <1>5 DEF MoveBegin, PurgePrepare
    <2>. QED
      BY <1>0, <2>1, AuthorisedFacts
  <1>6. ASSUME \/ \E ok \in BOOLEAN : MoveCheck(ok) \/ MoveFail(ok)
               \/ \E ok \in BOOLEAN : MoveRecord(ok)
               \/ MoveRename
        PROVE  FALSE
    BY <1>0, <1>6 DEF MoveCheck, MoveFail, MoveRecord, MoveRename, Moving
  <1>7. CASE \E a \in ActIds : ExecUnlink(a)
    BY <1>1, <1>7 DEF ExecUnlink, Foreground, store, Inserted
  <1>8. ASSUME NEW a \in ActIds, NEW s \in BOOLEAN, NEW ok \in BOOLEAN, CachePurgeComplete(a, s, ok)
        PROVE  CircuitHeld
    <2>1. /\ UNCHANGED machine /\ act[a] \in RowType
          /\ UNCHANGED act \/ \E r : act' = [act EXCEPT ![a].result = r]
      BY <1>0, <1>8, PurgeCompleteWrites DEF Finish
    <2>2. \A b \in ActIds : act[b] = None => act'[b] = act[b]
      BY <1>0, <2>1, NoRecordAssumption DEF TypeOK
    <2>. QED
      BY <2>1, <2>2 DEF CircuitHeld, machine
  <1>. QED
    BY <1>2, <1>3, <1>4, <1>5, <1>6, <1>7, <1>8, NextStep DEF Step, Silent

\* While the filesystem circuit is open no attempt begins, no purge is prepared
\* and nothing is renamed, whatever was waiting for the locks (CachePolicyEnabled
\* in freshCleanupArtifact and currentQuarantineApproval, tripFilesystemCircuit
\* under scanMu).
THEOREM CircuitCorrect == Spec => CircuitStopsMutations
  <1>1. LaneInv /\ [Next]_vars => [CircuitHeld]_vars
    BY StepCircuit
  <1>2. [][CircuitHeld]_vars <=> CircuitStopsMutations
    BY DEF CircuitHeld, CircuitStopsMutations
  <1>. QED
    BY <1>1, <1>2, LaneInvCorrect, PTL DEF Spec

=============================================================================
