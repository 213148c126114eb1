----------------------- MODULE ProcessAuthorityProofs -----------------------
(***************************************************************************)
(* What authorises a signal of the process lane, for every configuration:  *)
(* the lane implements ApprovalLedger, and the evidence behind an attempt  *)
(* is as old, as unbroken and as rate-limited as its policy demands.       *)
(***************************************************************************)
EXTENDS ProcessLaneProofs

LaneInv == TypeInv /\ LedgerInv /\ SingleUseInv

\* The lane's invariants hold together in every reachable state.
THEOREM LaneInvCorrect == Spec => []LaneInv
  <1>1. Init => LaneInv
    <2>1. Init => LedgerInv /\ SingleUseInv
      BY DEF Init, LedgerInv, SignalLedger, SingleUseInv, SingleUse, Attempts, InHand
    <2>. QED
      BY <2>1, InitType DEF LaneInv
  <1>2. LaneInv /\ [Next]_vars => LaneInv'
    BY StepType, StepLedger, StepSingle DEF LaneInv
  <1>. QED
    BY <1>1, <1>2, PTL DEF Spec

----------------------------------------------------------------------------
(* The lane implements ApprovalLedger. *)

Entries == [a \in ActIds |-> LedgerEntry(a)]
Signalled == {a \in ActIds : Sent(a)}

\* Steps that deliver nothing and leave every entry as it was are stutters.
LEMMA PromiseStutter ==
    ASSUME UNCHANGED kills, \A a \in ActIds : LedgerEntry(a)' = LedgerEntry(a)
    PROVE  [Promise!Next]_(Promise!vars)
  <1>1. Entries' = Entries
    BY DEF Entries
  <1>2. Signalled' = Signalled
    BY DEF Signalled, Sent
  <1>. QED
    BY <1>1, <1>2 DEF Promise!vars, Entries, Signalled

\* A rejected row is no entry: refusing and failing to record a refusal are
\* stutters of the ledger.
LEMMA PromiseRejected ==
    ASSUME TypeOK, UNCHANGED kills,
           \/ UNCHANGED act
           \/ \E i \in ActIds : \E row \in RowType :
                row.result = "rejected" /\ act[i] = None /\ act' = [act EXCEPT ![i] = row]
    PROVE  [Promise!Next]_(Promise!vars)
  <1>1. CASE UNCHANGED act
    BY <1>1, PromiseStutter DEF LedgerEntry
  <1>2. ASSUME NEW i \in ActIds, NEW row \in RowType, row.result = "rejected", act[i] = None,
               act' = [act EXCEPT ![i] = row]
        PROVE  \A a \in ActIds : LedgerEntry(a)' = LedgerEntry(a)
    <2>1. act'[i] = row /\ \A a \in ActIds : a # i => act'[a] = act[a]
      BY <1>2 DEF TypeOK
    <2>. QED
      BY <1>2, <2>1 DEF LedgerEntry
  <1>. QED
    BY <1>1, <1>2, PromiseStutter

\* An attempting row is an open entry that carries the row's token.
LEMMA EntryOf ==
    ASSUME TypeOK, NEW i \in ActIds, act[i] \in RowType, act[i].result = "attempting"
    PROVE  /\ LedgerEntry(i) = [grant |-> act[i].token, state |-> "open"]
           /\ LedgerEntry(i) # None /\ LedgerEntry(i).state = "open"
  <1>1. LedgerEntry(i) = [grant |-> act[i].token, state |-> "open"]
    BY NoRowAssumption DEF LedgerEntry
  <1>2. LedgerEntry(i) \in Promise!Entry
    BY <1>1 DEF Promise!Entry, Promise!States, RowType, OrNone
  <1>. QED
    BY <1>1, <1>2, NoEntryAssumption

\* The attempting row is an Intend: its token was not spent before.
LEMMA PromiseIntend ==
    ASSUME LaneInv, NEW i \in ActIds, act[i] = None, pc = "reval", job \in JobType,
           UNCHANGED kills,
           act' = [act EXCEPT ![i] =
                     Row(job.decision, job.image, job.authority, job.token, "attempting")]
    PROVE  [Promise!Next]_(Promise!vars)
  <1>. DEFINE e == [grant |-> job.token, state |-> "open"]
  <1>0. act \in [ActIds -> OrNone(RowType)] /\ job.token \in Tokens \cup {None}
    BY DEF LaneInv, TypeInv, TypeOK, JobType, OrNone
  <1>1. Signalled' = Signalled
    BY DEF Signalled, Sent
  <1>2. Entries \in [ActIds -> OrNone([grant : OrNone(Tokens), state : {"open", "done", "stopped"}])]
    BY <1>0 DEF Entries, LedgerEntry, OrNone, RowType
  <1>3. Row(job.decision, job.image, job.authority, job.token, "attempting") \in RowType
    BY RowOK DEF LaneInv, TypeInv, JobType, OrNone, Results
  <1>4. LedgerEntry(i)' = e /\ \A a \in ActIds : a # i => LedgerEntry(a)' = LedgerEntry(a)
    BY <1>0, <1>3, NoRowAssumption DEF LedgerEntry, Row
  <1>5. Entries' = [Entries EXCEPT ![i] = e]
    BY <1>4 DEF Entries
  <1>6. Entries[i] = None
    BY DEF Entries, LedgerEntry
  <1>7. job.token # None => ~\E a \in ActIds : Entries[a] # None /\ Entries[a].grant = job.token
    BY <1>0 DEF LaneInv, SingleUseInv, InHand, Attempts, Entries, LedgerEntry
  <1>8. Promise!Intend(i, job.token, "open")
    BY <1>1, <1>5, <1>6, <1>7 DEF Promise!Intend, Promise!Spent, Entries, Signalled
  <1>. QED
    BY <1>0, <1>1, <1>8 DEF Promise!Next, Promise!vars, Promise!States, Entries, Signalled

\* The signal is an Effect of an open attempt that had none.
LEMMA PromiseEffect ==
    ASSUME LaneInv, NEW b, SignalKill(b)
    PROVE  [Promise!Next]_(Promise!vars)
  <1>. DEFINE i == job.action
  <1>0. /\ TypeOK /\ i \in ActIds /\ act[i] \in RowType /\ act[i].result = "attempting" /\ ~Sent(i)
        /\ UNCHANGED act /\ kills \in Seq(KillType)
    BY DEF LaneInv, TypeInv, TypeOK, LaneOK, LedgerInv, SignalKill
  <1>1. Entries' = Entries
    BY <1>0 DEF Entries, LedgerEntry
  <1>2. CASE UNCHANGED kills
    BY <1>0, <1>2, PromiseRejected
  <1>3. CASE kills' = Append(kills, [action |-> i, pid |-> job.decision.pid])
    <2>1. /\ Len(kills') = Len(kills) + 1 /\ Len(kills) \in Nat
          /\ kills'[Len(kills) + 1].action = i
          /\ \A k \in 1..Len(kills) : kills'[k] = kills[k]
      BY <1>0, <1>3
    <2>2. ASSUME NEW a \in ActIds PROVE Sent(a)' <=> Sent(a) \/ a = i
      <3>1. 1..Len(kills') = 1..Len(kills) \cup {Len(kills) + 1}
        BY <2>1
      <3>2. Sent(a)' <=> \E k \in 1..Len(kills') : kills'[k].action = a
        BY Zenon DEF Sent
      <3>3. @ <=> (\E k \in 1..Len(kills) : kills'[k].action = a) \/ kills'[Len(kills) + 1].action = a
        BY <3>1, Zenon
      <3>4. (\E k \in 1..Len(kills) : kills'[k].action = a) <=> Sent(a)
        BY <2>1, Zenon DEF Sent
      <3>. QED
        BY <2>1, <3>2, <3>3, <3>4, Zenon
    <2>3. Signalled' = Signalled \cup {i} /\ i \notin Signalled
      BY <1>0, <2>2 DEF Signalled
    <2>4. Entries[i] # None /\ Entries[i].state = "open"
      BY <1>0, NoRowAssumption, EntryOf DEF Entries
    <2>5. Promise!Effect(i)
      BY <1>1, <2>3, <2>4 DEF Promise!Effect, Entries, Signalled
    <2>. QED
      BY <1>0, <2>5 DEF Promise!Next, Promise!vars
  <1>. QED
    BY <1>2, <1>3 DEF SignalKill

\* The completion is a Settle: done only of a signal that was delivered.
LEMMA PromiseSettle ==
    ASSUME LaneInv, NEW b, ActionFinish(b)
    PROVE  [Promise!Next]_(Promise!vars)
  <1>a. PICK i \in ActIds, s \in {"done", "stopped"} :
           i = job.action /\ s = IF job.outcome = "signalled" THEN "done" ELSE "stopped"
    BY DEF LaneInv, TypeInv, LaneOK, ActionFinish
  <1>0. /\ TypeOK /\ i \in ActIds /\ act[i] \in RowType /\ act[i].result = "attempting"
        /\ job.outcome \in {"signalled", "failed"} /\ UNCHANGED kills
        /\ job.outcome = "signalled" <=> Sent(i)
        /\ act \in [ActIds -> OrNone(RowType)]
    BY <1>a DEF LaneInv, TypeInv, TypeOK, LaneOK, LedgerInv, ActionFinish, history
  <1>1. Signalled' = Signalled
    BY <1>0 DEF Signalled, Sent
  <1>2. CASE UNCHANGED act
    BY <1>0, <1>2, PromiseRejected
  <1>3. CASE act' = [act EXCEPT ![i].result = job.outcome]
    <2>1. /\ \A a \in ActIds : a # i => act'[a] = act[a]
          /\ act'[i].result = job.outcome /\ act'[i].token = act[i].token /\ act'[i] \in RowType
      BY <1>0, <1>3 DEF RowType, Results
    <2>2. LedgerEntry(i) = [grant |-> act[i].token, state |-> "open"]
      BY <1>0, NoRowAssumption DEF LedgerEntry
    <2>3. LedgerEntry(i)' = [grant |-> act[i].token, state |-> s]
      BY <1>0, <1>a, <2>1, NoRowAssumption DEF LedgerEntry
    <2>4. \A a \in ActIds : a # i => LedgerEntry(a)' = LedgerEntry(a)
      BY <2>1 DEF LedgerEntry
    <2>5. Entries' = [Entries EXCEPT ![i].state = s]
      <3>1. [Entries[i] EXCEPT !.state = s] = [grant |-> act[i].token, state |-> s]
        BY <2>2 DEF Entries
      <3>. QED
        BY <2>3, <2>4, <3>1 DEF Entries
    <2>6. Entries[i] # None /\ Entries[i].state = "open"
      BY <1>0, NoRowAssumption, EntryOf DEF Entries
    <2>7. s = "done" => i \in Signalled
      BY <1>0, <1>a DEF Signalled
    <2>8. Promise!Settle(i, s)
      BY <1>1, <2>5, <2>6, <2>7 DEF Promise!Settle, Entries, Signalled
    <2>. QED
      BY <1>0, <2>8 DEF Promise!Next, Promise!vars, Promise!States
  <1>. QED
    BY <1>a, <1>2, <1>3 DEF ActionFinish

\* Every step of the lane is a step of the ledger or none.
LEMMA StepPromise == LaneInv /\ [Next]_vars => [Promise!Next]_(Promise!vars)
  <1>. SUFFICES ASSUME LaneInv, [Next]_vars PROVE [Promise!Next]_(Promise!vars)
    OBVIOUS
  <1>0. TypeInv /\ TypeOK
    BY DEF LaneInv, TypeInv
  <1>1. CASE UNCHANGED <<act, kills>>
    BY <1>0, <1>1, PromiseRejected
  <1>2. CASE Machine
    <2>1. OutsideDaemon
      BY <1>2 DEF Machine, Tick, SessionFlip, Work, HoldResource, Change, Reuse, Move
    <2>. QED
      BY <1>1, <2>1 DEF OutsideDaemon
  <1>3. CASE \/ ScanStart \/ AutoRevalidate \/ Restart \/ \E q \in [Pids -> Qualities] : ScanCommit(q)
             \/ \E t \in Tokens : ManualStart(t) \/ \E b \in BOOLEAN : \E r \in decisions : CleanupPreview(t, r, b)
             \/ \E b \in BOOLEAN : ScanFail(b) \/ SignalGate(b)
    BY <1>1, <1>3 DEF ScanStart, AutoRevalidate, Restart, ManualStart, ScanCommit, CleanupPreview,
                      ScanFail, SignalGate, history
  <1>4. ASSUME NEW t \in Tokens, NEW b, CleanupApply(t, b)
        PROVE  [Promise!Next]_(Promise!vars)
    <2>. DEFINE a == approvals[t]
                row == Row(a.decision, a.image, "manual", t, "rejected")
    <2>1. a \in ApprovalType /\ UNCHANGED kills
      BY <1>0, <1>4 DEF CleanupApply, TypeOK, history
    <2>2. row \in RowType /\ row.result = "rejected"
      BY <1>0, <2>1, RowOK DEF ApprovalType, OrNone, Results, Row
    <2>3. UNCHANGED act \/ InsertRow(row, b)
      BY <1>4 DEF CleanupApply
    <2>. HIDE DEF row
    <2>. QED
      BY <1>0, <2>1, <2>2, <2>3, PromiseRejected DEF InsertRow
  <1>5. ASSUME NEW q, NEW b, Revalidate(q, b)
        PROVE  [Promise!Next]_(Promise!vars)
    <2>. DEFINE row == Row(job.decision, job.image, job.authority, job.token, "rejected")
    <2>1. job \in JobType /\ pc = "reval" /\ UNCHANGED kills
      BY <1>0, <1>5, RevalidateCases
    <2>2. row \in RowType /\ row.result = "rejected"
      BY <1>0, <2>1, RowOK DEF JobType, OrNone, Results, Row
    <2>3. ASSUME NEW i \in ActIds, act[i] = None, act' = [act EXCEPT ![i] = row]
          PROVE  [Promise!Next]_(Promise!vars)
      <3>. HIDE DEF row
      <3>. QED
        BY <1>0, <2>1, <2>2, <2>3, PromiseRejected
    <2>4. ASSUME NEW i \in ActIds, act[i] = None,
                 act' = [act EXCEPT ![i] =
                           Row(job.decision, job.image, job.authority, job.token, "attempting")]
          PROVE  [Promise!Next]_(Promise!vars)
      BY <2>1, <2>4, PromiseIntend
    <2>. QED
      BY <1>0, <1>1, <1>5, <2>1, <2>3, <2>4, RevalidateCases
  <1>6. CASE UNCHANGED vars
    BY <1>1, <1>6 DEF vars, history
  <1>. QED
    BY <1>2, <1>3, <1>4, <1>5, <1>6, PromiseEffect, PromiseSettle DEF Next, Daemon

\* The process lane implements ApprovalLedger for every configuration: a token
\* is spent on one attempt, the row is durable before kill(2), the signal is
\* sent at most once and only while the row is attempting, and signalled is
\* recorded only of a delivered signal (executeCleanupLocked).
THEOREM ProcessImplementsLedger == Spec => ProcessKeepsPromise
  <1>1. Init => Promise!Init
    <2>. SUFFICES ASSUME Init PROVE Promise!Init
      OBVIOUS
    <2>1. \A a \in ActIds : LedgerEntry(a) = None /\ ~Sent(a)
      BY DEF Init, LedgerEntry, Sent
    <2>. QED
      BY <2>1 DEF Promise!Init
  <1>2. LaneInv /\ [Next]_vars => [Promise!Next]_(Promise!vars)
    BY StepPromise
  <1>. QED
    BY <1>1, <1>2, LaneInvCorrect, PTL DEF Spec, ProcessKeepsPromise, Promise!Spec

----------------------------------------------------------------------------
(* Evidence: what the tables of the classifier say about the past.          *)

\* Generations and work counters only grow, and a view, a baseline and a
\* conclusion are never ahead of the machine they were read from.
NotAhead ==
    /\ resetAt <= now /\ \A p \in Pids : quietFrom[p] <= now
    /\ \A p \in Pids : baseline[p] # None =>
         /\ baseline[p].gen <= proc[p].gen
         /\ baseline[p].gen = proc[p].gen => baseline[p].work <= ctr[p].work
    /\ \A p \in Pids : prev[p] # None => prev[p].gen <= proc[p].gen
    /\ pc \in {"scan", "reval"} =>
         /\ resetAt <= view.at /\ view.at <= now
         /\ \A p \in Pids : view.proc[p].gen <= proc[p].gen

\* The evidence of a quiet conclusion still stands: same occupant, same basis
\* and no work done since the baseline sample.
Standing(p) ==
    /\ prev[p] # None /\ prev[p].basis \in {"waiting", "idle"} /\ prev[p].gen = proc[p].gen
    /\ baseline[p] # None /\ baseline[p].gen = proc[p].gen /\ baseline[p].work = ctr[p].work

\* While it stands its occupant was quiet since the window opened, and no
\* window reaches back beyond a failed scan or a restart.
WindowSound ==
    /\ \A p \in Pids : Standing(p) => quietFrom[p] <= prev[p].since
    /\ \A p \in Pids : prev[p] # None => resetAt <= prev[p].since

\* Every attempt has its ground truth on record.
TruthKept == \A i \in Attempts : truth[i] \in TruthType

EvidenceInv == NotAhead /\ WindowSound /\ TruthKept
               /\ QuietBeforeSignal /\ FailureNeverBecomesAction

\* A policy id names the one policy that carries it.
LEMMA DefOK ==
    ASSUME NEW id \in PolicyIds
    PROVE  Def(id) \in Policies /\ Def(id).id = id /\ Def(id).minStable \in Nat
  <1>1. \E d \in Policies : d.id = id
    BY DEF PolicyIds
  <1>2. Def(id) \in Policies /\ Def(id).id = id
    BY <1>1, Zenon DEF Def
  <1>. QED
    BY <1>2, ConfigAssumption DEF PolicyType

\* Where a conclusion's window starts, and what a quiet one rests on: complete
\* evidence without progress and, for an older window, an equal conclusion
\* about the same process (classification.Classify, sameWindow).
LEMMA ClassifyWindow ==
    ASSUME NEW p, NEW gen, NEW status, NEW det, NEW ended, NEW at, NEW delta, NEW c,
           c = Classify(p, gen, status, det, ended, at, delta)
    PROVE  /\ c.since = at \/ (p # None /\ c.since = p.since)
           /\ c.basis \in {"waiting", "idle"} =>
                /\ delta.complete /\ ~delta.progress
                /\ c.since = at \/ (p # None /\ p.gen = gen /\ p.basis = c.basis /\ c.since = p.since)
           /\ c.state \in {"orphaned", "hung"} => c.basis \in {"waiting", "idle"}
  <1>1. /\ Basis(delta) \in {"active", "waiting", "idle"}
        /\ Basis(delta) # "active" => ~delta.progress
    BY DEF Basis
  <1>2. SameWindow(p, gen, status, det, ended, at, delta)
          => p # None /\ p.gen = gen /\ p.basis = Basis(delta)
    BY DEF SameWindow
  <1>3. CASE status = "zombie"
    <2>1. c = [state |-> "crashed", basis |-> "crashed", since |-> at]
      BY <1>3 DEF Classify
    <2>. QED
      BY <2>1
  <1>4. CASE status # "zombie" /\ ~delta.complete
    <2>1. c = [state |-> "unknown", basis |-> "unknown", since |-> at]
      BY <1>4 DEF Classify
    <2>. QED
      BY <2>1
  <1>5. CASE status # "zombie" /\ delta.complete
    <2>. DEFINE since == IF SameWindow(p, gen, status, det, ended, at, delta)
                         THEN p.since ELSE at
                strong == at - since >= StrongWindow
                state  == IF ended /\ det /\ Basis(delta) # "idle" THEN "suspicious"
                          ELSE IF ended /\ det /\ strong THEN "orphaned"
                          ELSE IF status = "stopped" /\ Basis(delta) # "active" /\ strong THEN "hung"
                          ELSE Basis(delta)
    <2>1. c = [state |-> state, basis |-> Basis(delta), since |-> since]
      BY <1>5 DEF Classify
    <2>2. c.state = state /\ c.basis = Basis(delta) /\ c.since = since
      BY <2>1
    <2>3. state \in {"orphaned", "hung"} => Basis(delta) \in {"waiting", "idle"}
      BY <1>1
    <2>4. since = at \/ (p # None /\ p.gen = gen /\ p.basis = Basis(delta) /\ since = p.since)
      BY <1>2
    <2>. HIDE DEF since, strong, state
    <2>. QED
      BY <1>1, <1>5, <2>2, <2>3, <2>4
  <1>. QED
    BY <1>3, <1>4, <1>5

\* Complete evidence without progress compares two samples of one process
\* whose work did not grow in between.
LEMMA NoProgress ==
    ASSUME NEW old \in OrNone(SampleType), NEW new \in OrNone(SampleType),
           DeriveActivity(old, new).complete, ~DeriveActivity(old, new).progress
    PROVE  old # None /\ new # None /\ old.gen = new.gen /\ new.work <= old.work
  BY DEF DeriveActivity, SampleType, OrNone

\* A quiet conclusion drawn now from the view's process is about the pid's
\* occupant, which did no work since the window opened; and no conclusion's
\* window starts before the last failure or restart.
LEMMA ConclusionSound ==
    ASSUME TypeOK, NotAhead, WindowSound, NEW v \in ViewType, resetAt <= v.at,
           NEW p \in Pids, NEW q, NEW s, NEW ended \in BOOLEAN, NEW c,
           s = Sample(p, v.proc[p].gen, q) \/ s = None,
           c = Conclusion(v, p, s, ended)
    PROVE  /\ resetAt <= c.since /\ c.since \in Nat
           /\ c.basis \in {"waiting", "idle"} => quietFrom[p] <= c.since
           /\ c.state \in {"orphaned", "hung"} => c.basis \in {"waiting", "idle"}
  <1>. DEFINE delta == DeriveActivity(baseline[p], s)
              at == IF s = None THEN v.at ELSE s.at
              gen == v.proc[p].gen
              status == v.proc[p].status
              det == Detached(v, p)
  <1>1. gen \in Nat /\ status \in Statuses /\ v.at \in Nat
    BY DEF ViewType, ProcType
  <1>2. s \in OrNone(SampleType)
    BY <1>1, SampleOK DEF OrNone
  <1>3. /\ delta \in DeltaType /\ prev[p] \in OrNone(PrevType) /\ baseline[p] \in OrNone(SampleType)
        /\ det \in BOOLEAN
    BY <1>2, DeriveActivityType DEF TypeOK, Detached, ViewType, ProcType
  <1>4. s # None => s.gen = gen /\ proc[p].gen = gen /\ s.work = ctr[p].work /\ s.at = now
    BY DEF Sample
  <1>5. /\ at \in Nat /\ now \in Nat /\ resetAt \in Nat /\ quietFrom[p] \in Nat /\ resetAt <= at
        /\ ctr[p].work \in Nat /\ resetAt <= now
    BY <1>1, <1>4 DEF TypeOK, NotAhead
  <1>6. c = Classify(prev[p], gen, status, det, ended, at, delta)
    BY DEF Conclusion
  <1>. HIDE DEF delta, at, gen, status, det
  <1>7. /\ c.since = at \/ (prev[p] # None /\ c.since = prev[p].since)
        /\ c.basis \in {"waiting", "idle"} =>
             /\ delta.complete /\ ~delta.progress
             /\ c.since = at \/ (/\ prev[p] # None /\ prev[p].gen = gen
                                 /\ prev[p].basis = c.basis /\ c.since = prev[p].since)
        /\ c.state \in {"orphaned", "hung"} => c.basis \in {"waiting", "idle"}
    BY <1>6, ClassifyWindow
  <1>8. prev[p] # None => resetAt <= prev[p].since /\ prev[p].since \in Nat
    BY <1>3 DEF WindowSound, OrNone, PrevType
  <1>9. ASSUME c.basis \in {"waiting", "idle"}
        PROVE  quietFrom[p] <= c.since
    <2>1. /\ baseline[p] # None /\ s # None /\ baseline[p].gen = s.gen
          /\ s.work <= baseline[p].work
      BY <1>2, <1>3, <1>7, <1>9, NoProgress DEF delta
    <2>2. baseline[p].work \in Nat /\ baseline[p].work <= ctr[p].work
      BY <1>3, <1>4, <2>1 DEF NotAhead, OrNone, SampleType
    <2>3. baseline[p].work = ctr[p].work
      BY <1>4, <1>5, <2>1, <2>2
    <2>4. CASE c.since = at
      BY <1>4, <2>1, <2>4 DEF NotAhead, at
    <2>5. CASE prev[p] # None /\ prev[p].gen = gen /\ prev[p].basis = c.basis /\ c.since = prev[p].since
      BY <1>4, <1>9, <2>1, <2>3, <2>5 DEF WindowSound, Standing
    <2>. QED
      BY <1>7, <1>9, <2>4, <2>5
  <1>. QED
    BY <1>5, <1>7, <1>8, <1>9

Recorded == TruthKept /\ QuietBeforeSignal /\ FailureNeverBecomesAction

\* What was recorded of an attempt stays while its row keeps what it names.
LEMMA RecordedFrame ==
    ASSUME Recorded, UNCHANGED truth,
           \A i \in ActIds : i \in Attempts' => /\ i \in Attempts /\ act'[i].state = act[i].state
                                                /\ act'[i].policy = act[i].policy
    PROVE  Recorded'
  <1>1. Attempts' \subseteq ActIds
    BY DEF Attempts
  <1>. QED
    BY <1>1 DEF Recorded, TruthKept, QuietBeforeSignal, FailureNeverBecomesAction, Windowed

\* Unchanged rows, a rejected row and a completed one name what they named.
LEMMA RowsFrame ==
    ASSUME TypeOK,
           \/ UNCHANGED act
           \/ \E i \in ActIds : \E row : row.result = "rejected" /\ act' = [act EXCEPT ![i] = row]
           \/ \E i \in Attempts : \E x : act' = [act EXCEPT ![i].result = x]
    PROVE  \A i \in ActIds : i \in Attempts' =>
             /\ i \in Attempts /\ act'[i].state = act[i].state /\ act'[i].policy = act[i].policy
             /\ act'[i].pid = act[i].pid /\ act'[i].gen = act[i].gen /\ act'[i].at = act[i].at
             /\ act'[i].authority = act[i].authority
  <1>0. act \in [ActIds -> OrNone(RowType)]
    BY DEF TypeOK
  <1>1. CASE UNCHANGED act
    BY <1>1 DEF Attempts
  <1>2. ASSUME NEW i \in ActIds, NEW row, row.result = "rejected", act' = [act EXCEPT ![i] = row]
        PROVE  \A j \in ActIds : j \in Attempts' => j # i /\ j \in Attempts /\ act'[j] = act[j]
    BY <1>0, <1>2 DEF Attempts
  <1>3. ASSUME NEW i \in Attempts, NEW x, act' = [act EXCEPT ![i].result = x]
        PROVE  \A j \in ActIds : j \in Attempts' =>
                 /\ j \in Attempts /\ act'[j].state = act[j].state /\ act'[j].policy = act[j].policy
                 /\ act'[j].pid = act[j].pid /\ act'[j].gen = act[j].gen /\ act'[j].at = act[j].at
                 /\ act'[j].authority = act[j].authority
    <2>1. i \in ActIds /\ act[i] \in RowType
      BY <1>0 DEF Attempts, OrNone
    <2>2. /\ act'[i] = [act[i] EXCEPT !.result = x]
          /\ \A j \in ActIds : j # i => act'[j] = act[j]
      BY <1>0, <1>3, <2>1
    <2>3. /\ act'[i].state = act[i].state /\ act'[i].policy = act[i].policy
          /\ act'[i].pid = act[i].pid /\ act'[i].gen = act[i].gen /\ act'[i].at = act[i].at
          /\ act'[i].authority = act[i].authority
      BY <2>1, <2>2 DEF RowType
    <2>. QED
      BY <2>2, <2>3 DEF Attempts
  <1>. QED
    BY <1>1, <1>2, <1>3

\* The evidence tables survive a step that touches neither them nor the machine
\* and takes no view, or takes a fresh one.
LEMMA TablesFrame ==
    ASSUME TypeOK, NotAhead, WindowSound,
           UNCHANGED <<now, proc, ctr, baseline, prev, resetAt, quietFrom>>,
           \/ UNCHANGED <<pc, view>>
           \/ pc' \notin {"scan", "reval"}
           \/ view' = [proc |-> proc, live |-> sesLive, at |-> now]
    PROVE  NotAhead' /\ WindowSound'
  <1>1. WindowSound'
    BY DEF WindowSound, Standing
  <1>2. \A p \in Pids : proc[p].gen \in Nat
    BY DEF TypeOK, ProcType
  <1>3. now \in Nat /\ resetAt \in Nat
    BY DEF TypeOK
  <1>4. (pc \in {"scan", "reval"} =>
           /\ resetAt <= view.at /\ view.at <= now
           /\ \A p \in Pids : view.proc[p].gen <= proc[p].gen)'
    BY <1>2, <1>3 DEF NotAhead
  <1>. QED
    BY <1>1, <1>4 DEF NotAhead

\* What one step of the machine does to a pid: nothing that counts, work by its
\* occupant, or a new occupant.
Moved(p) ==
    \/ /\ proc'[p].gen = proc[p].gen /\ ctr'[p].work = ctr[p].work /\ quietFrom'[p] = quietFrom[p]
    \/ proc'[p].gen = proc[p].gen /\ ctr'[p].work = ctr[p].work + 1 /\ quietFrom'[p] = now
    \/ proc'[p].gen = proc[p].gen + 1 /\ quietFrom'[p] = now

\* Every step outside the daemon is one of those for every pid.
LEMMA MachineStep ==
    ASSUME TypeOK, Machine, NEW p \in Pids
    PROVE  Moved(p)
  <1>. USE DEF Moved
  <1>a. \A o \in Pids : /\ proc[o] \in ProcType /\ proc[o].gen \in Nat
                        /\ ctr[o] \in [work : Nat, held : SUBSET Resources]
    BY DEF TypeOK, ProcType
  <1>b. /\ proc \in [Pids -> ProcType] /\ ctr \in [Pids -> [work : Nat, held : SUBSET Resources]]
        /\ quietFrom \in [Pids -> Nat]
    BY DEF TypeOK
  <1>1. CASE Tick \/ SessionFlip
    BY <1>1 DEF Tick, SessionFlip
  <1>2. ASSUME NEW o \in Pids, Work(o) PROVE Moved(p)
    BY <1>a, <1>b, <1>2 DEF Work
  <1>3. ASSUME NEW o \in Pids, HoldResource(o) PROVE Moved(p)
    <2>1. PICK h \in SUBSET Resources : ctr' = [ctr EXCEPT ![o].held = h]
      BY <1>3 DEF HoldResource
    <2>2. [ctr[o] EXCEPT !.held = h].work = ctr[o].work
      BY <1>a
    <2>. QED
      BY <1>a, <1>b, <1>3, <2>1, <2>2 DEF HoldResource
  <1>4. ASSUME NEW o \in Pids, Change(o) PROVE Moved(p)
    <2>1. ASSUME NEW x PROVE  /\ [proc[o] EXCEPT !.image = x].gen = proc[o].gen
                              /\ [proc[o] EXCEPT !.status = x].gen = proc[o].gen
                              /\ [proc[o] EXCEPT !.det = x].gen = proc[o].gen
                              /\ [proc[o] EXCEPT !.prot = x].gen = proc[o].gen
                              /\ [proc[o] EXCEPT !.alive = x].gen = proc[o].gen
      BY <1>a DEF ProcType
    <2>2. \E x : \/ proc'[o] = [proc[o] EXCEPT !.image = x] \/ proc'[o] = [proc[o] EXCEPT !.status = x]
                 \/ proc'[o] = [proc[o] EXCEPT !.det = x] \/ proc'[o] = [proc[o] EXCEPT !.prot = x]
                 \/ proc'[o] = [proc[o] EXCEPT !.alive = x]
      BY <1>b, <1>4 DEF Change
    <2>3. proc'[o].gen = proc[o].gen
      BY <2>1, <2>2
    <2>4. p # o => proc'[p] = proc[p]
      BY <1>b, <1>4 DEF Change
    <2>. QED
      BY <1>4, <2>3, <2>4 DEF Change
  <1>5. ASSUME NEW o \in Pids, Reuse(o) PROVE Moved(p)
    BY <1>a, <1>b, <1>5 DEF Reuse
  <1>. QED
    BY <1>1, <1>2, <1>3, <1>4, <1>5 DEF Machine

\* Generations only grow.
LEMMA GenerationsGrow ==
    ASSUME TypeOK, Machine
    PROVE  \A p \in Pids : proc[p].gen <= proc'[p].gen
  <1>1. \A p \in Pids : proc[p].gen \in Nat
    BY DEF TypeOK, ProcType
  <1>2. \A p \in Pids : proc'[p].gen = proc[p].gen \/ proc'[p].gen = proc[p].gen + 1
    BY MachineStep DEF Moved
  <1>. QED
    BY <1>1, <1>2

\* The machine moves on: the clock advances, an occupant works or is replaced.
LEMMA MachineEvidence ==
    ASSUME TypeOK, LaneOK, NotAhead, WindowSound, Machine
    PROVE  NotAhead' /\ WindowSound'
  <1>0. /\ UNCHANGED <<baseline, prev, pc, view, resetAt>> /\ now \in Nat /\ resetAt \in Nat
        /\ now' = now \/ now' = now + 1
    BY DEF Machine, Tick, SessionFlip, Work, HoldResource, Change, Reuse, Move, OutsideDaemon,
           memory, lane, TypeOK
  <1>1. \A p \in Pids : /\ proc[p] \in ProcType /\ proc[p].gen \in Nat /\ ctr[p].work \in Nat
                        /\ quietFrom[p] \in Nat /\ ctr[p] \in [work : Nat, held : SUBSET Resources]
                        /\ baseline[p] # None => baseline[p].gen \in Nat /\ baseline[p].work \in Nat
                        /\ prev[p] # None => prev[p].gen \in Nat /\ prev[p].since \in Nat
    BY DEF TypeOK, ProcType, OrNone, SampleType, PrevType
  <1>2. /\ proc \in [Pids -> ProcType] /\ ctr \in [Pids -> [work : Nat, held : SUBSET Resources]]
        /\ quietFrom \in [Pids -> Nat]
    BY DEF TypeOK
  <1>3. \A p \in Pids : \/ /\ proc'[p].gen = proc[p].gen /\ ctr'[p].work = ctr[p].work
                           /\ quietFrom'[p] = quietFrom[p]
                        \/ /\ proc'[p].gen = proc[p].gen /\ ctr'[p].work = ctr[p].work + 1
                           /\ quietFrom'[p] = now
                        \/ proc'[p].gen = proc[p].gen + 1 /\ quietFrom'[p] = now
    BY MachineStep DEF Moved
  <1>4. \A p \in Pids : quietFrom'[p] <= now'
    BY <1>0, <1>1, <1>3 DEF NotAhead
  <1>5. \A p \in Pids : baseline[p] # None =>
          /\ baseline[p].gen <= proc'[p].gen
          /\ baseline[p].gen = proc'[p].gen => baseline[p].work <= ctr'[p].work
    BY <1>1, <1>3 DEF NotAhead
  <1>6. \A p \in Pids : prev[p] # None => prev[p].gen <= proc'[p].gen
    BY <1>1, <1>3 DEF NotAhead
  <1>7. pc \in {"scan", "reval"} => /\ resetAt <= view.at /\ view.at <= now'
                                    /\ \A p \in Pids : view.proc[p].gen <= proc'[p].gen
    <2>1. pc \in {"scan", "reval"} => view.at \in Nat /\ \A p \in Pids : view.proc[p].gen \in Nat
      BY DEF LaneOK, ViewType, ProcType
    <2>. QED
      BY <1>0, <1>1, <1>3, <2>1 DEF NotAhead
  <1>8. NotAhead'
    BY <1>0, <1>4, <1>5, <1>6, <1>7 DEF NotAhead
  <1>9. ASSUME NEW p \in Pids, Standing(p)' PROVE quietFrom'[p] <= prev[p].since
    <2>1. /\ prev[p] # None /\ prev[p].basis \in {"waiting", "idle"} /\ prev[p].gen = proc'[p].gen
          /\ baseline[p] # None /\ baseline[p].gen = proc'[p].gen /\ baseline[p].work = ctr'[p].work
      BY <1>0, <1>9 DEF Standing
    <2>2. prev[p].gen <= proc[p].gen
      BY <2>1 DEF NotAhead
    <2>3. proc'[p].gen = proc[p].gen
      BY <1>1, <1>3, <2>1, <2>2
    <2>4. baseline[p].work <= ctr[p].work
      BY <2>1, <2>3 DEF NotAhead
    <2>5. ctr'[p].work = ctr[p].work /\ quietFrom'[p] = quietFrom[p]
      BY <1>1, <1>3, <2>1, <2>3, <2>4
    <2>. QED
      BY <2>1, <2>3, <2>5 DEF WindowSound, Standing
  <1>. QED
    BY <1>0, <1>8, <1>9 DEF WindowSound

\* A scan replaces baseline and conclusions together, each window opening no
\* earlier than its evidence allows.
LEMMA ScanCommitEvidence ==
    ASSUME TypeOK, LaneOK, NotAhead, WindowSound, NEW q, ScanCommit(q)
    PROVE  NotAhead' /\ WindowSound'
  <1>0. /\ pc = "scan" /\ view \in ViewType /\ resetAt <= view.at /\ view.at <= now
        /\ UNCHANGED <<now, proc, ctr, resetAt, quietFrom>> /\ pc' \in {"idle", "auto"}
        /\ \A p \in Pids : view.proc[p].gen <= proc[p].gen
    BY DEF ScanCommit, LaneOK, NotAhead, AutomaticStart, machine, history
  <1>1. CASE ~ActivityDue
    <2>1. UNCHANGED <<baseline, prev>>
      BY <1>1 DEF ScanCommit
    <2>. QED
      BY <1>0, <2>1, TablesFrame
  <1>2. CASE ActivityDue
    <2>. DEFINE s == [p \in Pids |-> IF Attributed(view, p)
                                     THEN Sample(p, view.proc[p].gen, q[p]) ELSE None]
    <2>1. baseline' = s /\ prev' = Previous(s)
      BY <1>2 DEF ScanCommit
    <2>2. \A p \in Pids : s[p] = Sample(p, view.proc[p].gen, q[p]) \/ s[p] = None
      OBVIOUS
    <2>. HIDE DEF s
    <2>3. ASSUME NEW p \in Pids, baseline'[p] # None
          PROVE  baseline'[p].gen = proc[p].gen /\ baseline'[p].work = ctr[p].work
      <3>1. baseline'[p] = Sample(p, view.proc[p].gen, q[p]) /\ baseline'[p] # None
        BY <2>1, <2>2, <2>3
      <3>2. ASSUME NEW gen, NEW y, Sample(p, gen, y) # None
            PROVE  Sample(p, gen, y).gen = proc[p].gen /\ Sample(p, gen, y).work = ctr[p].work
        BY <3>2 DEF Sample
      <3>. QED
        BY <3>1, <3>2
    <2>4. ASSUME NEW p \in Pids, prev'[p] # None
          PROVE  /\ prev'[p].gen = view.proc[p].gen /\ resetAt <= prev'[p].since
                 /\ prev'[p].basis \in {"waiting", "idle"} => quietFrom[p] <= prev'[p].since
      <3>. DEFINE c == Conclusion(view, p, s[p], ~view.live)
      <3>1. /\ prev'[p].gen = view.proc[p].gen /\ prev'[p].basis = c.basis
            /\ prev'[p].since = c.since
        BY <2>1, <2>4 DEF Previous
      <3>2. (~view.live) \in BOOLEAN
        OBVIOUS
      <3>3. resetAt <= c.since /\ (c.basis \in {"waiting", "idle"} => quietFrom[p] <= c.since)
        BY <1>0, <2>2, <3>2, ConclusionSound
      <3>. HIDE DEF c
      <3>. QED
        BY <3>1, <3>3
    <2>5. WindowSound'
      BY <1>0, <2>4 DEF WindowSound, Standing
    <2>6. \A p \in Pids : proc[p].gen \in Nat /\ ctr[p].work \in Nat
      BY DEF TypeOK, ProcType
    <2>7. NotAhead'
      BY <1>0, <2>3, <2>4, <2>6 DEF NotAhead
    <2>. QED
      BY <2>5, <2>7
  <1>. QED
    BY <1>1, <1>2

\* A failure or a restart voids every conclusion.
LEMMA ResetEvidence ==
    ASSUME TypeOK, NotAhead, WindowSound, \/ Restart \/ \E b \in BOOLEAN : ScanFail(b)
    PROVE  NotAhead' /\ WindowSound'
  <1>1. /\ UNCHANGED <<now, proc, ctr, quietFrom>> /\ pc' = "idle" /\ resetAt' = now
        /\ prev' = [p \in Pids |-> None]
        /\ \A p \in Pids : baseline'[p] = baseline[p] \/ baseline'[p] = None
    BY DEF Restart, ScanFail, machine
  <1>2. now \in Nat
    BY DEF TypeOK
  <1>. QED
    BY <1>1, <1>2 DEF NotAhead, WindowSound, Standing

\* What the daemon held when it made an attempt durable: a revalidation that
\* passed on a sample taken at that instant, and the ground truth recorded.
LEMMA RevalidateAttempt ==
    ASSUME TypeInv, NEW q, NEW b, Revalidate(q, b)
    PROVE  /\ pc = "reval" /\ job \in JobType /\ view \in ViewType /\ pc' \in {"idle", "gate"}
           /\ UNCHANGED <<machine, store, memory, approvals, pending, kills, quietFrom, resetAt, resets>>
           /\ \/ /\ pc' = "idle" /\ UNCHANGED truth
                 /\ \/ UNCHANGED act
                    \/ \E i \in ActIds : \E row : row.result = "rejected" /\ act' = [act EXCEPT ![i] = row]
              \/ /\ pc' = "gate" /\ Revalidated(Sample(job.decision.pid, job.decision.gen, q))
                 /\ \E i \in ActIds :
                      /\ act[i] = None
                      /\ act' = [act EXCEPT ![i] = Row(job.decision, job.image, job.authority,
                                                       job.token, "attempting")]
                      /\ truth' = [truth EXCEPT ![i] =
                           [quiet |-> now - quietFrom[job.decision.pid], sinceReset |-> now - resetAt,
                            sessionLive |-> view.live, prot |-> view.proc[job.decision.pid].prot,
                            expires |-> job.expires, eval |-> eval, until |-> job.decision.until]]
  <1>0. pc = "reval" /\ job \in JobType /\ view \in ViewType
    BY DEF TypeInv, LaneOK, Revalidate
  <1>1. CASE ~Revalidated(Sample(job.decision.pid, job.decision.gen, q))
    <2>1. Row(job.decision, job.image, job.authority, job.token, "rejected").result = "rejected"
      BY DEF Row
    <2>. QED
      BY <1>0, <1>1, <2>1 DEF Revalidate, InsertRow
  <1>2. CASE Revalidated(Sample(job.decision.pid, job.decision.gen, q))
    BY <1>0, <1>2 DEF Revalidate
  <1>. QED
    BY <1>1, <1>2

\* An attempt is recorded only of a process that was quiet, and of evidence
\* that stood unbroken, for as long as its policy demands.
LEMMA RevalidateRecorded ==
    ASSUME TypeInv, NotAhead, WindowSound, Recorded, NEW q, NEW b, Revalidate(q, b)
    PROVE  Recorded'
  <1>. DEFINE r == job.decision
  <1>0. TypeOK /\ LaneOK
    BY DEF TypeInv
  <1>1. CASE /\ UNCHANGED truth
             /\ \/ UNCHANGED act
                \/ \E i \in ActIds : \E row : row.result = "rejected" /\ act' = [act EXCEPT ![i] = row]
    BY <1>0, <1>1, RowsFrame, RecordedFrame
  <1>2. ASSUME Revalidated(Sample(r.pid, r.gen, q)), NEW i \in ActIds, act[i] = None,
               act' = [act EXCEPT ![i] = Row(r, job.image, job.authority, job.token, "attempting")],
               truth' = [truth EXCEPT ![i] =
                           [quiet |-> now - quietFrom[r.pid], sinceReset |-> now - resetAt,
                            sessionLive |-> view.live, prot |-> view.proc[r.pid].prot,
                            expires |-> job.expires, eval |-> eval, until |-> r.until]]
        PROVE  Recorded'
    <2>. DEFINE s == Sample(r.pid, r.gen, q)
                c == Conclusion(view, r.pid, s, SessionEnded(view))
                t == [quiet |-> now - quietFrom[r.pid], sinceReset |-> now - resetAt,
                      sessionLive |-> view.live, prot |-> view.proc[r.pid].prot,
                      expires |-> job.expires, eval |-> eval, until |-> r.until]
    <2>0. /\ pc = "reval" /\ job \in JobType /\ view \in ViewType /\ r \in DecisionType
          /\ r.pid \in Pids /\ r.policy \in PolicyIds /\ r.until \in Nat /\ job.expires \in OrNone(Nat)
      BY RevalidateAttempt DEF JobType, DecisionType, PolicyIds
    <2>1. /\ now \in Nat /\ quietFrom[r.pid] \in Nat /\ resetAt \in Nat /\ eval \in Nat
          /\ act \in [ActIds -> OrNone(RowType)] /\ truth \in [ActIds -> OrNone(TruthType)]
          /\ resetAt <= now /\ resetAt <= view.at
      BY <1>0, <2>0 DEF TypeOK, NotAhead
    <2>2. t \in TruthType /\ t.quiet = now - quietFrom[r.pid] /\ t.sinceReset = now - resetAt
      <3>1. view.live \in BOOLEAN /\ view.proc[r.pid].prot \in BOOLEAN
        BY <2>0 DEF ViewType, ProcType
      <3>. QED
        BY <2>0, <2>1, <3>1 DEF TruthType
    <2>3. /\ view.proc[r.pid].gen = r.gen /\ s # None /\ c.state = r.state
          /\ Evaluate(Def(r.policy), view.proc[r.pid].image, Detached(view, r.pid),
                      SessionEnded(view), FALSE, c, s.at, 0) = "candidate"
      BY <1>2 DEF Revalidated
    <2>4. s.at = now
      BY <2>3 DEF Sample
    <2>5. ~(s.at - c.since < Def(r.policy).minStable)
      BY <2>3, NoneAssumption DEF Evaluate
    <2>6. SessionEnded(view) \in BOOLEAN
      BY <1>0 DEF SessionEnded, TypeOK
    <2>7. /\ resetAt <= c.since /\ c.since \in Nat
          /\ c.state \in {"orphaned", "hung"} => quietFrom[r.pid] <= c.since
      BY <1>0, <2>0, <2>1, <2>3, <2>6, ConclusionSound
    <2>8. Def(r.policy).minStable \in Nat
      BY <2>0, DefOK
    <2>9. /\ t.sinceReset >= Def(r.policy).minStable
          /\ r.state \in {"orphaned", "hung"} => t.quiet >= Def(r.policy).minStable
      BY <2>1, <2>2, <2>3, <2>4, <2>5, <2>7, <2>8
    <2>10. act'[i].state = r.state /\ act'[i].policy = r.policy /\ truth'[i] = t
      BY <1>2, <2>1 DEF Row
    <2>11. \A j \in ActIds : j # i => act'[j] = act[j] /\ truth'[j] = truth[j]
      BY <1>2, <2>1
    <2>. HIDE DEF s, c, t, r
    <2>12. \A j \in Attempts' : j = i \/ (j \in Attempts /\ j # i /\ j \in ActIds)
      BY <2>11 DEF Attempts
    <2>13. TruthKept'
      BY <2>2, <2>10, <2>11, <2>12 DEF Recorded, TruthKept
    <2>14. QuietBeforeSignal'
      BY <2>9, <2>10, <2>11, <2>12 DEF Recorded, QuietBeforeSignal, Windowed
    <2>15. FailureNeverBecomesAction'
      BY <2>9, <2>10, <2>11, <2>12 DEF Recorded, FailureNeverBecomesAction, Windowed
    <2>. QED
      BY <2>13, <2>14, <2>15 DEF Recorded
  <1>. QED
    BY <1>1, <1>2, RevalidateAttempt

\* Every step keeps the evidence sound.
LEMMA StepEvidence == LaneInv /\ EvidenceInv /\ [Next]_vars => EvidenceInv'
  <1>. SUFFICES ASSUME LaneInv, EvidenceInv, [Next]_vars PROVE EvidenceInv'
    OBVIOUS
  <1>0. TypeInv /\ TypeOK /\ LaneOK /\ NotAhead /\ WindowSound /\ Recorded
    BY DEF LaneInv, TypeInv, EvidenceInv, Recorded
  <1>1. ASSUME NotAhead', WindowSound', Recorded' PROVE EvidenceInv'
    BY <1>1 DEF EvidenceInv, Recorded
  <1>2. ASSUME UNCHANGED <<act, truth>> PROVE Recorded'
    BY <1>0, <1>2, RowsFrame, RecordedFrame
  <1>3. CASE UNCHANGED vars
    BY <1>0, <1>1, <1>2, <1>3, TablesFrame DEF vars, machine, memory, lane, history
  <1>4. CASE Machine
    <2>1. OutsideDaemon
      BY <1>4 DEF Machine, Tick, SessionFlip, Work, HoldResource, Change, Reuse, Move
    <2>. QED
      BY <1>0, <1>1, <1>2, <1>4, <2>1, MachineEvidence DEF OutsideDaemon
  <1>5. CASE ScanStart \/ AutoRevalidate \/ \E t \in Tokens : ManualStart(t)
    BY <1>0, <1>1, <1>2, <1>5, TablesFrame
       DEF ScanStart, AutoRevalidate, ManualStart, TakeView, machine, memory, history
  <1>6. CASE \/ \E b \in BOOLEAN : SignalGate(b) \/ SignalKill(b)
             \/ \E t \in Tokens : \E b \in BOOLEAN : \E r \in decisions : CleanupPreview(t, r, b)
    BY <1>0, <1>1, <1>2, <1>6, TablesFrame
       DEF SignalGate, SignalKill, CleanupPreview, machine, memory, lane, history
  <1>7. ASSUME NEW q, ScanCommit(q) PROVE EvidenceInv'
    <2>1. UNCHANGED <<act, truth>>
      BY <1>7 DEF ScanCommit, history
    <2>. QED
      BY <1>0, <1>1, <1>2, <1>7, <2>1, ScanCommitEvidence
  <1>8. CASE Restart \/ \E b \in BOOLEAN : ScanFail(b)
    <2>1. UNCHANGED <<act, truth>>
      BY <1>8 DEF Restart, ScanFail
    <2>. QED
      BY <1>0, <1>1, <1>2, <1>8, <2>1, ResetEvidence
  <1>9. ASSUME NEW t \in Tokens, NEW b, CleanupApply(t, b) PROVE EvidenceInv'
    <2>1. UNCHANGED <<now, proc, ctr, baseline, prev, resetAt, quietFrom, pc, view, truth>>
      BY <1>9 DEF CleanupApply, machine, memory, lane, history
    <2>2. Row(approvals[t].decision, approvals[t].image, "manual", t, "rejected").result = "rejected"
      BY DEF Row
    <2>3. \/ UNCHANGED act
          \/ \E i \in ActIds : \E row : row.result = "rejected" /\ act' = [act EXCEPT ![i] = row]
      BY <1>9, <2>2 DEF CleanupApply, InsertRow
    <2>. QED
      BY <1>0, <1>1, <2>1, <2>3, TablesFrame, RowsFrame, RecordedFrame
  <1>10. ASSUME NEW b, ActionFinish(b) PROVE EvidenceInv'
    <2>1. UNCHANGED <<now, proc, ctr, baseline, prev, resetAt, quietFrom, truth>> /\ pc' = "idle"
      BY <1>10 DEF ActionFinish, machine, memory, history
    <2>2. job.action \in Attempts
      BY <1>0, <1>10, NoRowAssumption DEF ActionFinish, LaneOK, LaneInv, LedgerInv, Attempts
    <2>3. UNCHANGED act \/ act' = [act EXCEPT ![job.action].result = job.outcome]
      BY <1>10 DEF ActionFinish
    <2>. QED
      BY <1>0, <1>1, <2>1, <2>2, <2>3, TablesFrame, RowsFrame, RecordedFrame
  <1>11. ASSUME NEW q, NEW b, Revalidate(q, b) PROVE EvidenceInv'
    <2>1. UNCHANGED <<now, proc, ctr, baseline, prev, resetAt, quietFrom>> /\ pc' \in {"idle", "gate"}
      BY <1>0, <1>11, RevalidateAttempt DEF machine, memory
    <2>. QED
      BY <1>0, <1>1, <1>11, <2>1, TablesFrame, RevalidateRecorded
  <1>. QED
    BY <1>3, <1>4, <1>5, <1>6, <1>7, <1>8, <1>9, <1>10, <1>11 DEF Next, Daemon

\* The evidence invariant holds in every reachable state.
THEOREM EvidenceCorrect == Spec => []EvidenceInv
  <1>1. Init => EvidenceInv
    BY DEF Init, EvidenceInv, NotAhead, WindowSound, Standing, TruthKept, QuietBeforeSignal,
           FailureNeverBecomesAction, Attempts
  <1>2. LaneInv /\ EvidenceInv /\ [Next]_vars => EvidenceInv'
    BY StepEvidence
  <1>. QED
    BY <1>1, <1>2, LaneInvCorrect, PTL DEF Spec

\* A process concluded orphaned or hung did no CPU or disk work for the whole
\* of its policy's minStable before the attempt was committed, for every
\* cadence, number of pids and order of failed samples, pid reuse and missed
\* scans (activity.go, classification.go, action_revalidation.go).
THEOREM QuietCorrect == Spec => []QuietBeforeSignal
  <1>1. EvidenceInv => QuietBeforeSignal
    BY DEF EvidenceInv
  <1>. QED
    BY <1>1, EvidenceCorrect, PTL

\* No attempt rests on evidence from before the last failed scan or restart,
\* also when recording the failure failed (recordScanFailure).
THEOREM FailureCorrect == Spec => []FailureNeverBecomesAction
  <1>1. EvidenceInv => FailureNeverBecomesAction
    BY DEF EvidenceInv
  <1>. QED
    BY <1>1, EvidenceCorrect, PTL

----------------------------------------------------------------------------
(* The automatic cooldown. *)

AutoAttempts == {i \in Attempts : act[i].authority = "automatic"}

\* The durable cooldown covers every automatic attempt; the lane's own job was
\* evaluated after all of them had run out, and is covered already.
CooldownInv ==
    /\ AutomaticCooldown
    /\ \A i \in AutoAttempts :
         /\ Def(act[i].policy).enabled /\ Def(act[i].policy).mode = "enforce"
         /\ act[i].gen <= cool[act[i].policy][act[i].pid].gen
         /\ act[i].gen = cool[act[i].policy][act[i].pid].gen
              => truth[i].until <= cool[act[i].policy][act[i].pid].until
    /\ \A d \in PolicyIds, p \in Pids :
         /\ cool[d][p].gen <= proc[p].gen
         /\ pc = "scan" => cool[d][p].gen <= view.proc[p].gen
    /\ pc \in {"auto", "reval"} /\ job.authority = "automatic" =>
         /\ cool[job.decision.policy][job.decision.pid]
              = [gen |-> job.decision.gen, until |-> job.decision.until]
         /\ \A i \in AutoAttempts : act[i].pid = job.decision.pid /\ act[i].gen = job.decision.gen
                                     => truth[i].until <= now

\* A candidate is about the view's process, its cooldown had run out when it was
\* evaluated, and it grants one that lasts longer (policy.Evaluate).
LEMMA CandidateFacts ==
    ASSUME TypeOK, view \in ViewType, NEW s \in [Pids -> OrNone(SampleType)],
           NEW r \in PolicyBatch(s), r.result = "candidate"
    PROVE  LET at == IF s[r.pid] = None THEN view.at ELSE s[r.pid].at
           IN /\ r \in DecisionType /\ r.gen = view.proc[r.pid].gen /\ at \in Nat
              /\ cool[r.policy][r.pid].gen = r.gen => cool[r.policy][r.pid].until <= at
              /\ at <= r.until
  <1>. DEFINE At(p)     == IF s[p] = None THEN view.at ELSE s[p].at
              Class(p)  == Conclusion(view, p, s[p], ~view.live)
              Result(d, p) == Evaluate(d, view.proc[p].image, Detached(view, p), ~view.live,
                                       Protected(view, p, ~view.live), Class(p), At(p),
                                       CooldownOf(d, p, view.proc[p].gen))
              Decision(d, p) ==
                  [policy |-> d.id, pid |-> p, gen |-> view.proc[p].gen,
                   state |-> Class(p).state, result |-> Result(d, p),
                   until |-> IF Result(d, p) = "candidate" THEN At(p) + d.cooldown
                             ELSE IF Result(d, p) = "cooldown"
                             THEN CooldownOf(d, p, view.proc[p].gen) ELSE 0]
  <1>1. PICK d \in Policies, p \in Pids : Result(d, p) # None /\ r = Decision(d, p)
    BY DEF PolicyBatch, AttributedPids
  <1>2. /\ r.policy = d.id /\ r.pid = p /\ r.gen = view.proc[p].gen /\ Result(d, p) = "candidate"
        /\ r.until = At(p) + d.cooldown
    BY <1>1
  <1>3. ~(CooldownOf(d, p, view.proc[p].gen) > At(p))
    BY <1>2, NoneAssumption DEF Evaluate
  <1>4. r \in DecisionType
    BY PolicyBatchType
  <1>5. At(p) \in Nat /\ d.cooldown \in Nat
    BY ConfigAssumption DEF OrNone, SampleType, ViewType, PolicyType
  <1>6. cool[d.id][p].until \in Nat
    BY DEF TypeOK
  <1>7. cool[d.id][p].gen = r.gen => cool[d.id][p].until <= At(p)
    BY <1>2, <1>3, <1>5, <1>6 DEF CooldownOf
  <1>8. At(p) <= r.until
    BY <1>2, <1>5
  <1>9. At(p) = IF s[r.pid] = None THEN view.at ELSE s[r.pid].at
    BY <1>2
  <1>. HIDE DEF At, Result, Decision
  <1>. QED
    BY <1>2, <1>4, <1>5, <1>7, <1>8, <1>9

\* An evaluation decides at most once about a policy and a process.
LEMMA BatchUnique ==
    ASSUME NEW s, NEW r1 \in PolicyBatch(s), NEW r2 \in PolicyBatch(s),
           r1.policy = r2.policy, r1.pid = r2.pid
    PROVE  r1 = r2
  <1>. DEFINE At(p)     == IF s[p] = None THEN view.at ELSE s[p].at
              Class(p)  == Conclusion(view, p, s[p], ~view.live)
              Result(d, p) == Evaluate(d, view.proc[p].image, Detached(view, p), ~view.live,
                                       Protected(view, p, ~view.live), Class(p), At(p),
                                       CooldownOf(d, p, view.proc[p].gen))
              Decision(d, p) ==
                  [policy |-> d.id, pid |-> p, gen |-> view.proc[p].gen,
                   state |-> Class(p).state, result |-> Result(d, p),
                   until |-> IF Result(d, p) = "candidate" THEN At(p) + d.cooldown
                             ELSE IF Result(d, p) = "cooldown"
                             THEN CooldownOf(d, p, view.proc[p].gen) ELSE 0]
  <1>1. \A r \in PolicyBatch(s) : \E d \in Policies, p \in Pids : r = Decision(d, p)
    BY DEF PolicyBatch, AttributedPids
  <1>2. \A d, p : Decision(d, p).policy = d.id /\ Decision(d, p).pid = p
    OBVIOUS
  <1>3. \A d, e \in Policies : d.id = e.id => d = e
    BY ConfigAssumption
  <1>. HIDE DEF Decision
  <1>. QED
    BY <1>1, <1>2, <1>3

\* Where the durable cooldown of a policy and a pid comes from after a scan.
LEMMA CooldownStep ==
    ASSUME TypeInv, NotAhead, NEW q, ScanCommit(q), NEW i \in PolicyIds, NEW p \in Pids
    PROVE  /\ \/ cool'[i][p] = cool[i][p]
              \/ /\ cool'[i][p].gen = view.proc[p].gen
                 /\ cool[i][p].gen = view.proc[p].gen => cool[i][p].until <= cool'[i][p].until
           /\ pc' = "auto" /\ job'.decision.policy = i /\ job'.decision.pid = p =>
                /\ cool'[i][p] = [gen |-> job'.decision.gen, until |-> job'.decision.until]
                /\ IsEnforceable(job'.decision) /\ job'.decision.gen = view.proc[p].gen
                /\ cool[i][p].gen = view.proc[p].gen => cool[i][p].until <= now
  <1>. DEFINE s == [o \in Pids |-> IF Attributed(view, o)
                                   THEN Sample(o, view.proc[o].gen, q[o]) ELSE None]
              batch == PolicyBatch(s)
  <1>0. TypeOK /\ LaneOK /\ pc = "scan" /\ view \in ViewType
    BY DEF TypeInv, LaneOK, ScanCommit
  <1>1. s \in [Pids -> OrNone(SampleType)]
    <2>1. ASSUME NEW o \in Pids PROVE Sample(o, view.proc[o].gen, q[o]) \in OrNone(SampleType)
      BY <1>0, SampleOK DEF ViewType, ProcType
    <2>. QED
      BY <2>1 DEF OrNone
  <1>2. s[p] = None \/ s[p].at = now
    BY DEF Sample
  <1>3. (IF s[p] = None THEN view.at ELSE s[p].at) <= now
    BY <1>0, <1>2 DEF NotAhead, TypeOK
  <1>4. /\ PolicyDue => cool' = [j \in DOMAIN cool |-> [o \in Pids |->
                     IF \E r \in batch : r.policy = j /\ r.pid = o /\ r.result = "candidate"
                     THEN LET r == CHOOSE r \in batch : r.policy = j /\ r.pid = o
                          IN [gen |-> r.gen, until |-> r.until]
                     ELSE cool[j][o]]]
        /\ ~PolicyDue => UNCHANGED cool
    BY DEF ScanCommit
  <1>5. pc' = "auto" => /\ PolicyDue /\ job'.decision \in batch /\ IsEnforceable(job'.decision)
                        /\ job'.decision.result = "candidate"
    BY DEF ScanCommit, AutomaticStart, IsEnforceable
  <1>. HIDE DEF s
  <1>6. DOMAIN cool = PolicyIds /\ now \in Nat /\ cool[i][p].until \in Nat
    BY <1>0 DEF TypeOK, PolicyIds
  <1>7. ASSUME NEW r \in batch, r.policy = i, r.pid = p, r.result = "candidate"
        PROVE  /\ r.gen = view.proc[p].gen /\ r.until \in Nat
               /\ cool[i][p].gen = r.gen => cool[i][p].until <= now /\ cool[i][p].until <= r.until
               /\ PolicyDue => cool'[i][p] = [gen |-> r.gen, until |-> r.until]
    <2>. DEFINE at == IF s[p] = None THEN view.at ELSE s[p].at
    <2>1. /\ r \in DecisionType /\ r.gen = view.proc[p].gen /\ at \in Nat
          /\ cool[i][p].gen = r.gen => cool[i][p].until <= at
          /\ at <= r.until
      BY <1>0, <1>1, <1>7, CandidateFacts
    <2>2. (CHOOSE x \in batch : x.policy = i /\ x.pid = p) = r
      BY <1>7, BatchUnique
    <2>3. PolicyDue => cool'[i][p] = [gen |-> r.gen, until |-> r.until]
      BY <1>4, <1>6, <1>7, <2>2
    <2>4. at <= now /\ r.until \in Nat
      BY <1>3, <2>1 DEF DecisionType
    <2>. HIDE DEF at
    <2>. QED
      BY <1>6, <2>1, <2>3, <2>4
  <1>8. (\A r \in batch : ~(r.policy = i /\ r.pid = p /\ r.result = "candidate"))
          => cool'[i][p] = cool[i][p]
    BY <1>4, <1>6
  <1>9. ~PolicyDue => cool'[i][p] = cool[i][p]
    BY <1>4
  <1>. HIDE DEF batch
  <1>10. \/ cool'[i][p] = cool[i][p]
         \/ /\ cool'[i][p].gen = view.proc[p].gen
            /\ cool[i][p].gen = view.proc[p].gen => cool[i][p].until <= cool'[i][p].until
    <2>1. ASSUME PolicyDue, NEW r \in batch, r.policy = i, r.pid = p, r.result = "candidate"
          PROVE  /\ cool'[i][p].gen = view.proc[p].gen
                 /\ cool[i][p].gen = view.proc[p].gen => cool[i][p].until <= cool'[i][p].until
      <3>1. /\ r.gen = view.proc[p].gen /\ cool'[i][p] = [gen |-> r.gen, until |-> r.until]
            /\ cool[i][p].gen = r.gen => cool[i][p].until <= r.until
        BY <1>7, <2>1
      <3>. QED
        BY <3>1
    <2>. QED
      BY <1>8, <1>9, <2>1
  <1>11. pc' = "auto" /\ job'.decision.policy = i /\ job'.decision.pid = p =>
                /\ cool'[i][p] = [gen |-> job'.decision.gen, until |-> job'.decision.until]
                /\ IsEnforceable(job'.decision) /\ job'.decision.gen = view.proc[p].gen
                /\ cool[i][p].gen = view.proc[p].gen => cool[i][p].until <= now
    <2>. SUFFICES ASSUME pc' = "auto", job'.decision.policy = i, job'.decision.pid = p
                  PROVE  /\ cool'[i][p] = [gen |-> job'.decision.gen, until |-> job'.decision.until]
                         /\ IsEnforceable(job'.decision) /\ job'.decision.gen = view.proc[p].gen
                         /\ cool[i][p].gen = view.proc[p].gen => cool[i][p].until <= now
      OBVIOUS
    <2>1. PICK r \in batch : r = job'.decision
      BY <1>5
    <2>2. PolicyDue /\ IsEnforceable(r) /\ r.policy = i /\ r.pid = p /\ r.result = "candidate"
      BY <1>5, <2>1
    <2>3. /\ r.gen = view.proc[p].gen /\ cool'[i][p] = [gen |-> r.gen, until |-> r.until]
          /\ cool[i][p].gen = r.gen => cool[i][p].until <= now
      BY <1>7, <2>2
    <2>. QED
      BY <2>1, <2>2, <2>3
  <1>. QED
    BY <1>10, <1>11

\* The record of automatic attempts stays covered when no row becomes one, the
\* cooldowns are unchanged and the clock and the generations only advance.
LEMMA CooldownFrame ==
    ASSUME TypeOK, TypeOK', CooldownInv, UNCHANGED <<truth, cool>>, now <= now',
           \A i \in ActIds : i \in Attempts' =>
             /\ i \in Attempts /\ act'[i].policy = act[i].policy /\ act'[i].pid = act[i].pid
             /\ act'[i].gen = act[i].gen /\ act'[i].at = act[i].at
             /\ act'[i].authority = act[i].authority,
           TruthKept, \A p \in Pids : proc[p].gen <= proc'[p].gen,
           \/ pc' # "scan" \/ UNCHANGED <<pc, view>> \/ view' = [proc |-> proc, live |-> sesLive, at |-> now],
           \/ pc' \notin {"auto", "reval"}
           \/ UNCHANGED <<pc, job>>
           \/ pc = "auto" /\ UNCHANGED job
           \/ job'.authority = "manual"
    PROVE  CooldownInv'
  <1>1. /\ \A i \in AutoAttempts' : /\ i \in AutoAttempts /\ i \in ActIds /\ i \in Attempts
                                    /\ act'[i].policy = act[i].policy /\ act'[i].pid = act[i].pid
                                    /\ act'[i].gen = act[i].gen /\ act'[i].at = act[i].at
        /\ \A i \in Attempts' : i \in Attempts /\ i \in ActIds
    BY DEF AutoAttempts, Attempts
  <1>2. AutomaticCooldown'
    BY <1>1 DEF CooldownInv, AutomaticCooldown
  <1>3. \A i \in AutoAttempts' :
         /\ Def(act'[i].policy).enabled /\ Def(act'[i].policy).mode = "enforce"
         /\ act'[i].gen <= cool[act'[i].policy][act'[i].pid].gen
         /\ act'[i].gen = cool[act'[i].policy][act'[i].pid].gen
              => truth[i].until <= cool[act'[i].policy][act'[i].pid].until
    BY <1>1 DEF CooldownInv
  <1>4. \A p \in Pids : proc[p].gen \in Nat /\ proc'[p].gen \in Nat
    BY DEF TypeOK, ProcType
  <1>5. \A d \in PolicyIds, p \in Pids : cool[d][p].gen \in Nat
    BY DEF TypeOK, PolicyIds
  <1>6. \A d \in PolicyIds, p \in Pids : /\ cool[d][p].gen <= proc'[p].gen
                                         /\ pc' = "scan" => cool[d][p].gen <= view'.proc[p].gen
    BY <1>4, <1>5 DEF CooldownInv
  <1>7. \A i \in AutoAttempts : truth[i].until \in Nat
    BY DEF TruthKept, TruthType, AutoAttempts
  <1>8. now \in Nat /\ now' \in Nat
    BY DEF TypeOK
  <1>9. ASSUME pc' \in {"auto", "reval"}, job'.authority = "automatic"
        PROVE  /\ cool[job'.decision.policy][job'.decision.pid]
                    = [gen |-> job'.decision.gen, until |-> job'.decision.until]
               /\ \A i \in AutoAttempts' :
                    act'[i].pid = job'.decision.pid /\ act'[i].gen = job'.decision.gen
                      => truth[i].until <= now'
    <2>1. job' = job /\ pc \in {"auto", "reval"}
      BY <1>9
    <2>. QED
      BY <1>1, <1>7, <1>8, <1>9, <2>1 DEF CooldownInv
  <1>. QED
    BY <1>2, <1>3, <1>6, <1>9 DEF CooldownInv

\* Two policies that may act by themselves are one (validatePolicies).
LEMMA OneEnforcer ==
    ASSUME NEW x \in PolicyIds, NEW y \in PolicyIds, Def(x).enabled, Def(x).mode = "enforce",
           Def(y).enabled, Def(y).mode = "enforce"
    PROVE  x = y
  <1>1. Def(x) \in Policies /\ Def(y) \in Policies /\ Def(x).id = x /\ Def(y).id = y
    BY DefOK
  <1>. HIDE DEF Def
  <1>. QED
    BY <1>1, ConfigAssumption

\* An evaluation raises the cooldowns it renews, and its automatic job starts
\* after every earlier automatic attempt on the process has cooled down.
LEMMA ScanCommitCooldown ==
    ASSUME TypeInv, TypeInv', NotAhead, TruthKept, CooldownInv, NEW q, ScanCommit(q)
    PROVE  CooldownInv'
  <1>0. /\ TypeOK /\ pc = "scan" /\ view \in ViewType /\ UNCHANGED <<act, truth, now, proc>>
        /\ pc' \in {"idle", "auto"}
        /\ \A p \in Pids : view.proc[p].gen <= proc[p].gen
    BY DEF TypeInv, LaneOK, ScanCommit, AutomaticStart, NotAhead, machine, history
  <1>1. Attempts' = Attempts /\ AutoAttempts' = AutoAttempts
    BY <1>0 DEF Attempts, AutoAttempts
  <1>2. \A i \in AutoAttempts : /\ act[i].policy \in PolicyIds /\ act[i].pid \in Pids
                                /\ act[i].gen \in Nat /\ truth[i].until \in Nat /\ i \in ActIds
    BY <1>0 DEF AutoAttempts, Attempts, TypeOK, OrNone, RowType, TruthKept, TruthType, PolicyIds
  <1>3. \A d \in PolicyIds, p \in Pids :
           /\ cool[d][p].gen \in Nat /\ cool[d][p].until \in Nat /\ cool'[d][p].gen \in Nat
           /\ cool'[d][p].until \in Nat /\ proc[p].gen \in Nat /\ view.proc[p].gen \in Nat
           /\ cool[d][p].gen <= view.proc[p].gen /\ cool[d][p].gen <= proc[p].gen
    <2>1. /\ cool \in [PolicyIds -> [Pids -> [gen : Nat, until : Nat]]]
          /\ cool' \in [PolicyIds -> [Pids -> [gen : Nat, until : Nat]]]
      BY DEF TypeInv, TypeOK, PolicyIds
    <2>2. \A p \in Pids : proc[p].gen \in Nat /\ view.proc[p].gen \in Nat
      BY <1>0 DEF TypeOK, ViewType, ProcType
    <2>. QED
      BY <1>0, <2>1, <2>2 DEF CooldownInv
  <1>4. ASSUME NEW i \in AutoAttempts
        PROVE  LET d == act[i].policy
                   p == act[i].pid
               IN /\ act[i].gen <= cool'[d][p].gen
                  /\ act[i].gen = cool'[d][p].gen => truth[i].until <= cool'[d][p].until
    <2>. DEFINE d == act[i].policy
                p == act[i].pid
    <2>1. /\ act[i].gen <= cool[d][p].gen
          /\ act[i].gen = cool[d][p].gen => truth[i].until <= cool[d][p].until
      BY DEF CooldownInv
    <2>2. \/ cool'[d][p] = cool[d][p]
          \/ /\ cool'[d][p].gen = view.proc[p].gen
             /\ cool[d][p].gen = view.proc[p].gen => cool[d][p].until <= cool'[d][p].until
      BY <1>2, CooldownStep
    <2>3. /\ d \in PolicyIds /\ p \in Pids /\ act[i].gen \in Nat /\ truth[i].until \in Nat
      BY <1>2
    <2>. HIDE DEF d, p
    <2>4. act[i].gen <= cool'[d][p].gen /\ (act[i].gen = cool'[d][p].gen => truth[i].until <= cool'[d][p].until)
      BY <1>3, <2>1, <2>2, <2>3
    <2>. QED
      BY <2>4 DEF d, p
  <1>5. \A d \in PolicyIds, p \in Pids : cool'[d][p].gen <= proc[p].gen
    <2>1. \A d \in PolicyIds, p \in Pids :
            cool'[d][p] = cool[d][p] \/ cool'[d][p].gen = view.proc[p].gen
      BY CooldownStep
    <2>. QED
      BY <1>0, <1>3, <2>1
  <1>6. ASSUME pc' = "auto"
        PROVE  /\ cool'[job'.decision.policy][job'.decision.pid]
                    = [gen |-> job'.decision.gen, until |-> job'.decision.until]
               /\ \A i \in AutoAttempts :
                    act[i].pid = job'.decision.pid /\ act[i].gen = job'.decision.gen
                      => truth[i].until <= now
    <2>1. PICK d \in PolicyIds, p \in Pids : d = job'.decision.policy /\ p = job'.decision.pid
      BY <1>6 DEF TypeInv, LaneOK, JobType, DecisionType, PolicyIds
    <2>2. /\ cool'[d][p] = [gen |-> job'.decision.gen, until |-> job'.decision.until]
          /\ IsEnforceable(job'.decision) /\ job'.decision.gen = view.proc[p].gen
          /\ cool[d][p].gen = view.proc[p].gen => cool[d][p].until <= now
      BY <1>6, <2>1, CooldownStep
    <2>3. Def(d).enabled /\ Def(d).mode = "enforce"
      BY <2>1, <2>2 DEF IsEnforceable
    <2>4. ASSUME NEW i \in AutoAttempts, act[i].pid = p, act[i].gen = view.proc[p].gen
          PROVE  truth[i].until <= now
      <3>1. act[i].policy = d
        BY <1>2, <2>3, OneEnforcer DEF CooldownInv
      <3>2. /\ act[i].gen <= cool[d][p].gen
            /\ act[i].gen = cool[d][p].gen => truth[i].until <= cool[d][p].until
        BY <2>4, <3>1 DEF CooldownInv
      <3>3. cool[d][p].gen = view.proc[p].gen
        BY <1>3, <2>4, <3>2
      <3>4. now \in Nat
        BY <1>0 DEF TypeOK
      <3>. QED
        BY <1>2, <1>3, <2>2, <2>4, <3>2, <3>3, <3>4
    <2>. QED
      BY <2>1, <2>2, <2>4
  <1>7. AutomaticCooldown'
    BY <1>0, <1>1 DEF CooldownInv, AutomaticCooldown
  <1>8. \A i \in AutoAttempts : Def(act[i].policy).enabled /\ Def(act[i].policy).mode = "enforce"
    BY DEF CooldownInv
  <1>. QED
    BY <1>0, <1>1, <1>4, <1>5, <1>6, <1>7, <1>8 DEF CooldownInv

\* The one step that makes an automatic attempt.
LEMMA RevalidateCooldown ==
    ASSUME TypeInv, TypeInv', TruthKept, CooldownInv, NEW q, NEW b, Revalidate(q, b)
    PROVE  CooldownInv'
  <1>. DEFINE r == job.decision
  <1>0. /\ TypeOK /\ TypeOK' /\ job \in JobType /\ pc = "reval" /\ pc' \in {"idle", "gate"}
        /\ UNCHANGED <<now, proc, cool>> /\ now \in Nat
        /\ act \in [ActIds -> OrNone(RowType)] /\ truth \in [ActIds -> OrNone(TruthType)]
    BY RevalidateAttempt DEF TypeInv, TypeOK, machine, store
  <1>1. CASE /\ UNCHANGED truth
             /\ \/ UNCHANGED act
                \/ \E i \in ActIds : \E row : row.result = "rejected" /\ act' = [act EXCEPT ![i] = row]
    <2>1. now <= now' /\ \A p \in Pids : proc[p].gen <= proc'[p].gen
      BY <1>0 DEF TypeOK, ProcType
    <2>2. \A i \in ActIds : i \in Attempts' =>
             /\ i \in Attempts /\ act'[i].policy = act[i].policy /\ act'[i].pid = act[i].pid
             /\ act'[i].gen = act[i].gen /\ act'[i].at = act[i].at
             /\ act'[i].authority = act[i].authority
      BY <1>0, <1>1, RowsFrame
    <2>. QED
      BY <1>0, <1>1, <2>1, <2>2, CooldownFrame
  <1>2. ASSUME Revalidated(Sample(r.pid, r.gen, q)), NEW i \in ActIds, act[i] = None, pc' = "gate",
               act' = [act EXCEPT ![i] = Row(r, job.image, job.authority, job.token, "attempting")],
               truth' = [truth EXCEPT ![i] =
                           [quiet |-> now - quietFrom[r.pid], sinceReset |-> now - resetAt,
                            sessionLive |-> view.live, prot |-> view.proc[r.pid].prot,
                            expires |-> job.expires, eval |-> eval, until |-> r.until]]
        PROVE  CooldownInv'
    <2>1. /\ act'[i].policy = r.policy /\ act'[i].pid = r.pid /\ act'[i].gen = r.gen
          /\ act'[i].at = now /\ act'[i].authority = job.authority /\ truth'[i].until = r.until
      BY <1>0, <1>2 DEF Row
    <2>2. \A j \in ActIds : j # i => act'[j] = act[j] /\ truth'[j] = truth[j]
      BY <1>0, <1>2
    <2>3. r.policy \in PolicyIds /\ r.pid \in Pids /\ r.gen \in Nat /\ r.until \in Nat
      BY <1>0 DEF JobType, DecisionType, PolicyIds
    <2>4. job.authority = "automatic" => Def(r.policy).enabled /\ Def(r.policy).mode = "enforce"
      BY <1>2 DEF Revalidated, Authorized, IsEnforceable
    <2>5. job.authority = "automatic" =>
             /\ cool[r.policy][r.pid] = [gen |-> r.gen, until |-> r.until]
             /\ \A j \in AutoAttempts : act[j].pid = r.pid /\ act[j].gen = r.gen => truth[j].until <= now
      BY <1>0 DEF CooldownInv
    <2>. HIDE DEF r
    <2>6. /\ \A j \in Attempts' : j = i \/ (j \in Attempts /\ j # i /\ j \in ActIds)
          /\ \A j \in AutoAttempts' : \/ j = i /\ job.authority = "automatic"
                                      \/ j \in AutoAttempts /\ j # i /\ j \in ActIds
      <3>1. \A j \in Attempts' : j = i \/ (j \in Attempts /\ j # i /\ j \in ActIds /\ act'[j] = act[j])
        BY <2>2 DEF Attempts
      <3>2. \A j \in AutoAttempts' : j \in Attempts' /\ act'[j].authority = "automatic"
        BY DEF AutoAttempts
      <3>. QED
        BY <2>1, <3>1, <3>2 DEF AutoAttempts
    <2>7. AutomaticCooldown'
      <3>. SUFFICES ASSUME NEW j \in Attempts', NEW k \in Attempts',
                           act'[j].authority = "automatic", act'[k].authority = "automatic",
                           act'[j].pid = act'[k].pid, act'[j].gen = act'[k].gen, j # k
                    PROVE  act'[k].at >= truth'[j].until \/ act'[j].at >= truth'[k].until
        BY DEF AutomaticCooldown
      <3>1. ASSUME NEW x \in Attempts', x # i, act'[x].authority = "automatic",
                   act'[x].pid = r.pid, act'[x].gen = r.gen, job.authority = "automatic"
            PROVE  now >= truth'[x].until
        <4>1. x \in AutoAttempts /\ act[x].pid = r.pid /\ act[x].gen = r.gen
          BY <2>2, <2>6, <3>1 DEF AutoAttempts
        <4>2. truth'[x] = truth[x] /\ truth[x].until \in Nat
          BY <2>2, <2>6, <3>1, <4>1 DEF TruthKept, TruthType
        <4>. QED
          BY <1>0, <2>5, <3>1, <4>1, <4>2
      <3>2. CASE j = i
        BY <2>1, <3>1, <3>2
      <3>3. CASE k = i
        BY <2>1, <3>1, <3>3
      <3>4. CASE j # i /\ k # i
        <4>1. /\ j \in Attempts /\ k \in Attempts /\ act'[j] = act[j] /\ act'[k] = act[k]
              /\ truth'[j] = truth[j] /\ truth'[k] = truth[k]
          BY <2>2, <2>6, <3>4
        <4>. QED
          BY <4>1 DEF CooldownInv, AutomaticCooldown
      <3>. QED
        BY <3>2, <3>3, <3>4
    <2>8. ASSUME NEW j \in AutoAttempts'
          PROVE  /\ Def(act'[j].policy).enabled /\ Def(act'[j].policy).mode = "enforce"
                 /\ act'[j].gen <= cool[act'[j].policy][act'[j].pid].gen
                 /\ act'[j].gen = cool[act'[j].policy][act'[j].pid].gen
                      => truth'[j].until <= cool[act'[j].policy][act'[j].pid].until
      <3>1. CASE j = i
        BY <2>1, <2>3, <2>4, <2>5, <2>6, <3>1
      <3>2. CASE j # i
        <4>1. j \in AutoAttempts /\ act'[j] = act[j] /\ truth'[j] = truth[j]
          BY <2>2, <2>6, <3>2
        <4>. QED
          BY <4>1 DEF CooldownInv
      <3>. QED
        BY <3>1, <3>2
    <2>. QED
      BY <1>0, <1>2, <2>7, <2>8 DEF CooldownInv
  <1>. QED
    BY <1>1, <1>2, RevalidateAttempt

\* Every step keeps the cooldown's cover.
LEMMA StepCooldown == LaneInv /\ EvidenceInv /\ CooldownInv /\ [Next]_vars => CooldownInv'
  <1>. SUFFICES ASSUME LaneInv, EvidenceInv, CooldownInv, [Next]_vars PROVE CooldownInv'
    OBVIOUS
  <1>0. /\ TypeInv /\ TypeInv' /\ TypeOK /\ TypeOK' /\ LaneOK /\ NotAhead /\ TruthKept
        /\ now \in Nat /\ \A p \in Pids : proc[p].gen \in Nat
    BY StepType DEF LaneInv, TypeInv, EvidenceInv, TypeOK, ProcType
  <1>. DEFINE Same == \A i \in ActIds : i \in Attempts' =>
                        /\ i \in Attempts /\ act'[i].policy = act[i].policy
                        /\ act'[i].pid = act[i].pid /\ act'[i].gen = act[i].gen
                        /\ act'[i].at = act[i].at /\ act'[i].authority = act[i].authority
  <1>1. ASSUME UNCHANGED <<now, proc, truth, cool>>, Same,
               \/ pc' # "scan" \/ UNCHANGED <<pc, view>>
               \/ view' = [proc |-> proc, live |-> sesLive, at |-> now],
               \/ pc' \notin {"auto", "reval"} \/ UNCHANGED <<pc, job>>
               \/ (pc = "auto" /\ UNCHANGED job) \/ job'.authority = "manual"
        PROVE  CooldownInv'
    <2>1. now <= now' /\ \A p \in Pids : proc[p].gen <= proc'[p].gen
      BY <1>0, <1>1
    <2>. QED
      BY <1>0, <1>1, <2>1, CooldownFrame
  <1>2. UNCHANGED act => Same
    BY <1>0, RowsFrame
  <1>3. CASE UNCHANGED vars
    BY <1>1, <1>2, <1>3 DEF vars, machine, store, lane, history
  <1>4. CASE Machine
    <2>1. OutsideDaemon /\ (now' = now \/ now' = now + 1)
      BY <1>4 DEF Machine, Tick, SessionFlip, Work, HoldResource, Change, Reuse, Move
    <2>2. now <= now'
      BY <1>0, <2>1
    <2>3. \A p \in Pids : proc[p].gen <= proc'[p].gen
      BY <1>0, <1>4, GenerationsGrow
    <2>4. UNCHANGED <<act, truth, cool, pc, job, view>>
      BY <2>1 DEF OutsideDaemon, store, lane
    <2>. QED
      BY <1>0, <1>2, <2>2, <2>3, <2>4, CooldownFrame
  <1>5. CASE \/ ScanStart \/ AutoRevalidate \/ Restart \/ \E t \in Tokens : ManualStart(t)
             \/ \E b \in BOOLEAN : SignalGate(b) \/ SignalKill(b) \/ ScanFail(b)
             \/ \E t \in Tokens : \E b \in BOOLEAN : \E r \in decisions : CleanupPreview(t, r, b)
    <2>1. UNCHANGED <<now, proc, truth, cool, act>>
      BY <1>5 DEF ScanStart, AutoRevalidate, Restart, ManualStart, SignalGate, SignalKill, ScanFail,
                  CleanupPreview, machine, store, history
    <2>2. \/ pc' # "scan" \/ UNCHANGED <<pc, view>>
          \/ view' = [proc |-> proc, live |-> sesLive, at |-> now]
      BY <1>5 DEF ScanStart, AutoRevalidate, Restart, ManualStart, SignalGate, SignalKill, ScanFail,
                  CleanupPreview, TakeView, lane
    <2>3. \/ pc' \notin {"auto", "reval"} \/ UNCHANGED <<pc, job>>
          \/ (pc = "auto" /\ UNCHANGED job) \/ job'.authority = "manual"
      BY <1>5 DEF ScanStart, AutoRevalidate, Restart, ManualStart, SignalGate, SignalKill, ScanFail,
                  CleanupPreview, lane
    <2>. QED
      BY <1>1, <1>2, <2>1, <2>2, <2>3
  <1>6. ASSUME NEW t \in Tokens, NEW b, CleanupApply(t, b) PROVE CooldownInv'
    <2>1. UNCHANGED <<now, proc, truth, cool, pc, view, job>>
      BY <1>6 DEF CleanupApply, machine, store, lane, history
    <2>2. Row(approvals[t].decision, approvals[t].image, "manual", t, "rejected").result = "rejected"
      BY DEF Row
    <2>3. \/ UNCHANGED act
          \/ \E i \in ActIds : \E row : row.result = "rejected" /\ act' = [act EXCEPT ![i] = row]
      BY <1>6, <2>2 DEF CleanupApply, InsertRow
    <2>4. Same
      BY <1>0, <2>3, RowsFrame
    <2>. QED
      BY <1>1, <2>1, <2>4
  <1>7. ASSUME NEW b, ActionFinish(b) PROVE CooldownInv'
    <2>1. UNCHANGED <<now, proc, truth, cool>> /\ pc' = "idle"
      BY <1>7 DEF ActionFinish, machine, store, history
    <2>2. job.action \in Attempts
      BY <1>0, <1>7, NoRowAssumption DEF ActionFinish, LaneOK, LaneInv, LedgerInv, Attempts
    <2>3. UNCHANGED act \/ act' = [act EXCEPT ![job.action].result = job.outcome]
      BY <1>7 DEF ActionFinish
    <2>4. Same
      BY <1>0, <2>2, <2>3, RowsFrame
    <2>. QED
      BY <1>1, <2>1, <2>4
  <1>. QED
    BY <1>0, <1>3, <1>4, <1>5, <1>6, <1>7, ScanCommitCooldown, RevalidateCooldown DEF Next, Daemon

\* The automatic cooldown holds in every reachable state, over failures,
\* restarts and attempts whose outcome was never recorded: no policy attempts
\* the same exact process again before the cooldown granted with its candidate
\* row has run out (automatic.go, Store.LastCandidateCooldown).
THEOREM CooldownCorrect == Spec => []AutomaticCooldown
  <1>1. Init => CooldownInv
    BY DEF Init, CooldownInv, AutomaticCooldown, AutoAttempts, Attempts, PolicyIds
  <1>2. LaneInv /\ EvidenceInv /\ CooldownInv /\ [Next]_vars => CooldownInv'
    BY StepCooldown
  <1>3. CooldownInv => AutomaticCooldown
    BY DEF CooldownInv
  <1>. QED
    BY <1>1, <1>2, <1>3, LaneInvCorrect, EvidenceCorrect, PTL DEF Spec
=============================================================================
