-------------------------- MODULE ProcessLaneProofs --------------------------
(***************************************************************************)
(* Machine-checked facts about ProcessLane, for every configuration that   *)
(* satisfies the module's assumptions: types, and the write-ahead ledger.  *)
(***************************************************************************)
EXTENDS ProcessLane, TLAPS

DeltaType == [complete : BOOLEAN, progress : BOOLEAN, busy : BOOLEAN]
ClassType == [state : States, basis : States, since : Nat]
PolicyIds == {d.id : d \in Policies}
TypeInv   == TypeOK /\ LaneOK

----------------------------------------------------------------------------
(* The pure decisions. *)

\* DeriveActivity yields a delta whatever samples it is given.
LEMMA DeriveActivityType ==
    ASSUME NEW old \in OrNone(SampleType), NEW new \in OrNone(SampleType)
    PROVE  DeriveActivity(old, new) \in DeltaType
  BY DEF DeriveActivity, DeltaType, OrNone, SampleType

\* Classify yields one of the eight states and a stable-since instant.
LEMMA ClassifyType ==
    ASSUME NEW p \in OrNone(PrevType), NEW gen \in Nat, NEW status \in Statuses,
           NEW det \in BOOLEAN, NEW ended \in BOOLEAN, NEW at \in Nat,
           NEW delta \in DeltaType
    PROVE  Classify(p, gen, status, det, ended, at, delta) \in ClassType
  <1>1. Basis(delta) \in {"active", "waiting", "idle"}
    BY DEF Basis
  <1>2. SameWindow(p, gen, status, det, ended, at, delta) => p.since \in Nat
    BY DEF SameWindow, PrevType, OrNone
  <1>. QED
    BY <1>1, <1>2 DEF Classify, ClassType, States

\* Evaluate yields no decision or one of the three results.
LEMMA EvaluateType ==
    ASSUME NEW d, NEW image, NEW det, NEW ended, NEW prot, NEW c, NEW at, NEW until,
           Evaluate(d, image, det, ended, prot, c, at, until) # None
    PROVE  Evaluate(d, image, det, ended, prot, c, at, until)
             \in {"candidate", "cooldown", "refused"}
  BY DEF Evaluate

\* A sample, when there is one, is about the generation that was asked for.
LEMMA SampleOK ==
    ASSUME TypeOK, NEW p \in Pids, NEW gen \in Nat, NEW q
    PROVE  Sample(p, gen, q) \in OrNone(SampleType)
  BY DEF TypeOK, Sample, OrNone, SampleType

\* The conclusion about a process of a view is well typed.
LEMMA ConclusionType ==
    ASSUME TypeOK, NEW v \in ViewType, NEW p \in Pids, NEW s \in OrNone(SampleType),
           NEW ended \in BOOLEAN
    PROVE  Conclusion(v, p, s, ended) \in ClassType
  <1>1. DeriveActivity(baseline[p], s) \in DeltaType
    BY DeriveActivityType DEF TypeOK
  <1>2. /\ prev[p] \in OrNone(PrevType) /\ v.proc[p].gen \in Nat
        /\ v.proc[p].status \in Statuses /\ Detached(v, p) \in BOOLEAN
    BY DEF TypeOK, ViewType, ProcType, Detached
  <1>3. (IF s = None THEN v.at ELSE s.at) \in Nat
    BY DEF OrNone, SampleType, ViewType
  <1>. QED
    BY <1>1, <1>2, <1>3, ClassifyType DEF Conclusion

\* The samples of one scan, and what is carried from them to the next one.
LEMMA PreviousType ==
    ASSUME TypeOK, view \in ViewType, NEW s \in [Pids -> OrNone(SampleType)]
    PROVE  Previous(s) \in [Pids -> OrNone(PrevType)]
  <1>. SUFFICES ASSUME NEW p \in Pids, Attributed(view, p)
               PROVE  [gen |-> view.proc[p].gen,
                       basis |-> Conclusion(view, p, s[p], ~view.live).basis,
                       det |-> Detached(view, p), ended |-> ~view.live,
                       status |-> view.proc[p].status,
                       since |-> Conclusion(view, p, s[p], ~view.live).since,
                       at |-> IF s[p] = None THEN view.at ELSE s[p].at] \in PrevType
    BY DEF Previous, OrNone
  <1>1. Conclusion(view, p, s[p], ~view.live) \in ClassType
    BY ConclusionType DEF ViewType
  <1>2. (IF s[p] = None THEN view.at ELSE s[p].at) \in Nat
    BY DEF OrNone, SampleType, ViewType
  <1>. QED
    BY <1>1, <1>2 DEF ClassType, PrevType, ViewType, ProcType, Detached

\* Every decision of an evaluation is well typed.
LEMMA PolicyBatchType ==
    ASSUME TypeOK, view \in ViewType, NEW s \in [Pids -> OrNone(SampleType)]
    PROVE  PolicyBatch(s) \subseteq DecisionType
  <1>. DEFINE At(p)     == IF s[p] = None THEN view.at ELSE s[p].at
              Class(p)  == Conclusion(view, p, s[p], ~view.live)
              Result(d, p) == Evaluate(d, view.proc[p].image, Detached(view, p), ~view.live,
                                       Protected(view, p, ~view.live), Class(p), At(p),
                                       CooldownOf(d, p, view.proc[p].gen))
              Decision(d, p) ==
                  [policy |-> d.id, pid |-> p, gen |-> view.proc[p].gen,
                   state |-> Class(p).state, result |-> Result(d, p),
                   until |-> IF Result(d, p) = "candidate" THEN At(p) + d.cooldown
                             ELSE IF Result(d, p) = "cooldown"
                             THEN CooldownOf(d, p, view.proc[p].gen) ELSE 0]
  <1>1. ASSUME NEW d \in Policies, NEW p \in Pids, Result(d, p) # None
        PROVE  Decision(d, p) \in DecisionType
    <2>1. Class(p).state \in States
      BY ConclusionType DEF ViewType, ClassType
    <2>2. Result(d, p) \in {"candidate", "cooldown", "refused"}
      BY <1>1, EvaluateType
    <2>3. At(p) \in Nat /\ view.proc[p].gen \in Nat
      BY DEF OrNone, SampleType, ViewType, ProcType
    <2>4. d.cooldown \in Nat /\ d.id \in PolicyIds
      BY ConfigAssumption DEF PolicyType, PolicyIds
    <2>5. CooldownOf(d, p, view.proc[p].gen) \in Nat
      BY <2>4 DEF CooldownOf, TypeOK, PolicyIds
    <2>. HIDE DEF At, Class, Result
    <2>. QED
      BY <2>1, <2>2, <2>3, <2>4, <2>5 DEF DecisionType, PolicyIds
  <1>2. ASSUME NEW r \in PolicyBatch(s)
        PROVE  \E d \in Policies, p \in Pids : Result(d, p) # None /\ r = Decision(d, p)
    BY <1>2 DEF PolicyBatch, AttributedPids
  <1>. QED
    BY <1>1, <1>2

----------------------------------------------------------------------------
(* Types: one lemma per group of actions, then the theorem. *)

\* The lane begins with nothing in hand.
LEMMA InitType == Init => TypeInv
  <1>. SUFFICES ASSUME Init PROVE TypeInv
    OBVIOUS
  <1>1. proc \in [Pids -> ProcType] /\ ctr \in [Pids -> [work : Nat, held : SUBSET Resources]]
    BY StatusAssumption DEF Init, ProcType
  <1>2. cool \in [PolicyIds -> [Pids -> [gen : Nat, until : Nat]]]
    BY DEF Init, PolicyIds
  <1>3. kills \in Seq(KillType)
    BY DEF Init
  <1>4. /\ act \in [ActIds -> OrNone(RowType)] /\ truth \in [ActIds -> OrNone(TruthType)]
        /\ approvals \in [Tokens -> ApprovalType \cup {None, Lost}]
        /\ pending \in [Tokens -> OrNone(ApprovalType)]
        /\ baseline \in [Pids -> OrNone(SampleType)] /\ prev \in [Pids -> OrNone(PrevType)]
    BY DEF Init, OrNone
  <1>5. TypeOK
    BY <1>1, <1>2, <1>3, <1>4 DEF Init, TypeOK, OrNone, PCs, PolicyIds
  <1>. QED
    BY <1>5 DEF TypeInv, LaneOK, Init

\* What happens outside the daemon keeps the machine's types and the lane.
LEMMA MachineType == TypeInv /\ Machine => TypeInv'
  <1>. SUFFICES ASSUME TypeInv, Machine PROVE TypeInv'
    OBVIOUS
  <1>. DEFINE MachineTypes == /\ now \in Nat /\ sesLive \in BOOLEAN /\ moves \in Nat
                             /\ proc \in [Pids -> ProcType]
                             /\ ctr \in [Pids -> [work : Nat, held : SUBSET Resources]]
                             /\ quietFrom \in [Pids -> Nat]
  <1>0. MachineTypes
    BY DEF TypeInv, TypeOK
  <1>1. MachineTypes'
    <2>1. CASE Tick
      BY <1>0, <2>1 DEF Tick
    <2>2. CASE SessionFlip
      BY <1>0, <2>2 DEF SessionFlip, Move
    <2>3. ASSUME NEW p \in Pids, Work(p) PROVE MachineTypes'
      BY <1>0, <2>3 DEF Work, Move
    <2>4. ASSUME NEW p \in Pids, HoldResource(p) PROVE MachineTypes'
      <3>1. ctr' \in [Pids -> [work : Nat, held : SUBSET Resources]]
        <4>1. PICK h \in SUBSET Resources : ctr' = [ctr EXCEPT ![p].held = h]
          BY <2>4 DEF HoldResource
        <4>. QED
          BY <1>0, <4>1
      <3>. QED
        BY <1>0, <2>4, <3>1 DEF HoldResource, Move
    <2>5. ASSUME NEW p \in Pids, Change(p) PROVE MachineTypes'
      <3>1. proc' \in [Pids -> ProcType]
        <4>1. CASE \E x \in Images : proc' = [proc EXCEPT ![p].image = x]
          BY <1>0, <4>1 DEF ProcType
        <4>2. CASE \E x \in Statuses : proc' = [proc EXCEPT ![p].status = x]
          BY <1>0, <4>2 DEF ProcType
        <4>3. CASE proc' = [proc EXCEPT ![p].det = TRUE]
          BY <1>0, <4>3 DEF ProcType
        <4>4. CASE proc' = [proc EXCEPT ![p].prot = ~@]
          BY <1>0, <4>4 DEF ProcType
        <4>5. CASE proc' = [proc EXCEPT ![p].alive = FALSE]
          BY <1>0, <4>5 DEF ProcType
        <4>. QED
          BY <2>5, <4>1, <4>2, <4>3, <4>4, <4>5 DEF Change
      <3>. QED
        BY <1>0, <2>5, <3>1 DEF Change, Move
    <2>6. ASSUME NEW p \in Pids, Reuse(p) PROVE MachineTypes'
      <3>1. proc' \in [Pids -> ProcType]
        BY <1>0, <2>6, StatusAssumption DEF Reuse, ProcType
      <3>. QED
        BY <1>0, <2>6, <3>1 DEF Reuse, Move
    <2>. HIDE DEF MachineTypes
    <2>. QED
      BY <2>1, <2>2, <2>3, <2>4, <2>5, <2>6 DEF Machine
  <1>2. OutsideDaemon
    BY DEF Machine, Tick, SessionFlip, Work, HoldResource, Change, Reuse, Move
  <1>. QED
    BY <1>1, <1>2 DEF TypeInv, TypeOK, LaneOK, OutsideDaemon, store, memory, lane

\* A scan that commits writes well-typed evidence and decisions.
LEMMA ScanCommitType ==
    ASSUME TypeInv, NEW q, ScanCommit(q)
    PROVE  TypeInv'
  <1>. DEFINE s == [p \in Pids |-> IF Attributed(view, p)
                                   THEN Sample(p, view.proc[p].gen, q[p]) ELSE None]
              batch == PolicyBatch(s)
              keys  == {KeyIn(view, p) : p \in AttributedPids(view)}
  <1>0. TypeOK /\ LaneOK /\ pc = "scan" /\ view \in ViewType
    BY DEF TypeInv, LaneOK, ScanCommit
  <1>1. s \in [Pids -> OrNone(SampleType)]
    <2>1. ASSUME NEW p \in Pids PROVE Sample(p, view.proc[p].gen, q[p]) \in OrNone(SampleType)
      BY <1>0, SampleOK DEF ViewType, ProcType
    <2>. QED
      BY <2>1 DEF OrNone
  <1>2. batch \subseteq DecisionType
    BY <1>0, <1>1, PolicyBatchType
  <1>3. Previous(s) \in [Pids -> OrNone(PrevType)]
    BY <1>0, <1>1, PreviousType
  <1>4. keys \subseteq Pids \X Nat
    BY <1>0 DEF KeyIn, AttributedPids, ViewType, ProcType
  <1>. HIDE DEF s, batch, keys
  <1>5. /\ owned' = owned \cup keys /\ liveRows' = keys /\ sesEnded' = ~view.live
        /\ \/ eval' = eval + 1 /\ decisions' = batch /\ lastPolicy' = view.at
           \/ UNCHANGED <<eval, decisions, lastPolicy>>
        /\ \/ baseline' = s /\ prev' = Previous(s) /\ lastActivity' = view.at
           \/ UNCHANGED <<baseline, prev, lastActivity>>
        /\ snapshot' = view.proc /\ view' = None
        /\ UNCHANGED <<machine, act, approvals, pending, history>>
    BY DEF ScanCommit, s, batch, keys
  <1>6. cool' \in [PolicyIds -> [Pids -> [gen : Nat, until : Nat]]]
    <2>1. CASE UNCHANGED cool
      BY <1>0, <2>1 DEF TypeOK, PolicyIds
    <2>2. CASE cool' = [i \in DOMAIN cool |-> [p \in Pids |->
                     IF \E r \in batch : r.policy = i /\ r.pid = p /\ r.result = "candidate"
                     THEN LET r == CHOOSE r \in batch : r.policy = i /\ r.pid = p
                          IN [gen |-> r.gen, until |-> r.until]
                     ELSE cool[i][p]]]
      <3>1. ASSUME NEW i \in PolicyIds, NEW p \in Pids,
                   \E r \in batch : r.policy = i /\ r.pid = p /\ r.result = "candidate"
            PROVE  (CHOOSE r \in batch : r.policy = i /\ r.pid = p) \in DecisionType
        BY <1>2, <3>1
      <3>2. DOMAIN cool = PolicyIds
            /\ \A i \in PolicyIds, p \in Pids : cool[i][p] \in [gen : Nat, until : Nat]
        BY <1>0 DEF TypeOK, PolicyIds
      <3>. QED
        BY <2>2, <3>1, <3>2 DEF DecisionType
    <2>. QED
      BY <2>1, <2>2 DEF ScanCommit, s, batch
  <1>7. \/ pc' = "idle" /\ job' = None
        \/ pc' = "auto" /\ job' \in JobType
    <2>1. CASE pc' = "idle" /\ job' = None
      BY <2>1
    <2>2. CASE /\ PolicyDue /\ pc' = "auto"
               /\ \E r \in batch :
                    job' = [authority |-> "automatic", token |-> None, decision |-> r,
                            eval |-> eval', image |-> view.proc[r.pid].image,
                            expires |-> None, action |-> None, outcome |-> None]
      <3>1. eval' \in Nat
        BY <1>0, <1>5 DEF TypeOK
      <3>. QED
        BY <1>0, <1>2, <2>2, <3>1 DEF JobType, OrNone, DecisionType, ViewType, ProcType
    <2>. QED
      BY <2>1, <2>2 DEF ScanCommit, AutomaticStart, s, batch
  <1>8. TypeOK'
    <2>1. /\ owned' \subseteq Pids \X Nat /\ liveRows' \subseteq Pids \X Nat /\ sesEnded' \in BOOLEAN
          /\ eval' \in Nat /\ decisions' \subseteq DecisionType
          /\ snapshot' \in OrNone([Pids -> ProcType])
      BY <1>0, <1>2, <1>4, <1>5 DEF TypeOK, ViewType, OrNone
    <2>2. /\ baseline' \in [Pids -> OrNone(SampleType)] /\ prev' \in [Pids -> OrNone(PrevType)]
          /\ lastActivity' \in OrNone(Nat) /\ lastPolicy' \in OrNone(Nat)
      BY <1>0, <1>1, <1>3, <1>5 DEF TypeOK, ViewType, OrNone
    <2>3. pc' \in PCs /\ job' \in OrNone(JobType) /\ view' \in OrNone(ViewType)
      BY <1>5, <1>7 DEF PCs, OrNone
    <2>. QED
      BY <1>0, <1>5, <1>6, <2>1, <2>2, <2>3 DEF TypeOK, PolicyIds, machine, history
  <1>9. LaneOK'
    BY <1>5, <1>7 DEF LaneOK
  <1>. QED
    BY <1>8, <1>9 DEF TypeInv

\* A fresh snapshot is a view.
LEMMA TakeViewType ==
    ASSUME TypeOK, TakeView
    PROVE  view' \in ViewType
  BY DEF TypeOK, TakeView, ViewType

\* runScan takes the lane with a view in hand.
LEMMA ScanStartType == TypeInv /\ ScanStart => TypeInv'
  <1>. SUFFICES ASSUME TypeInv, ScanStart PROVE TypeInv'
    OBVIOUS
  <1>1. view' \in ViewType
    BY TakeViewType DEF ScanStart, TypeInv
  <1>. QED
    BY <1>1 DEF ScanStart, TypeInv, TypeOK, LaneOK, OrNone, PCs, machine, store, memory, history

\* recordScanFailure drops the view and supersedes or keeps the decisions.
LEMMA ScanFailType ==
    ASSUME TypeInv, NEW b, ScanFail(b)
    PROVE  TypeInv'
  <1>1. /\ prev' \in [Pids -> OrNone(PrevType)] /\ lastPolicy' \in OrNone(Nat)
        /\ eval' \in Nat /\ decisions' \subseteq DecisionType
        /\ resetAt' \in Nat /\ resets' \in Nat
    BY DEF ScanFail, TypeInv, TypeOK, OrNone
  <1>. QED
    BY <1>1 DEF ScanFail, TypeInv, TypeOK, LaneOK, OrNone, PCs, machine

\* A restart empties memory, whatever the lane was doing.
LEMMA RestartType == TypeInv /\ Restart => TypeInv'
  <1>. SUFFICES ASSUME TypeInv, Restart PROVE TypeInv'
    OBVIOUS
  <1>1. /\ prev' \in [Pids -> OrNone(PrevType)] /\ baseline' \in [Pids -> OrNone(SampleType)]
        /\ pending' \in [Tokens -> OrNone(ApprovalType)]
    BY DEF Restart, OrNone
  <1>2. approvals' \in [Tokens -> ApprovalType \cup {None, Lost}]
    BY DEF Restart
  <1>3. resetAt' \in Nat /\ resets' \in Nat
    BY DEF Restart, TypeInv, TypeOK
  <1>. QED
    BY <1>1, <1>2, <1>3 DEF Restart, TypeInv, TypeOK, LaneOK, OrNone, PCs, machine, store

\* CleanupPreview binds an approval to a typed decision and image.
LEMMA CleanupPreviewType ==
    ASSUME TypeInv, NEW t \in Tokens, NEW r \in decisions, NEW b, CleanupPreview(t, r, b)
    PROVE  TypeInv'
  <1>1. Kept \in [Tokens -> ApprovalType \cup {None, Lost}]
    BY DEF Kept, TypeInv, TypeOK
  <1>2. [decision |-> r, eval |-> eval, image |-> snapshot[r.pid].image,
         expires |-> now + ApprovalLifetime, used |-> FALSE] \in ApprovalType
    <2>1. r \in DecisionType /\ eval \in Nat /\ now \in Nat
      BY DEF TypeInv, TypeOK
    <2>2. snapshot \in [Pids -> ProcType]
      BY DEF CleanupPreview, TypeInv, TypeOK, OrNone
    <2>3. snapshot[r.pid].image \in Images
      BY <2>1, <2>2 DEF DecisionType, ProcType
    <2>. QED
      BY <2>1, <2>3, BoundsAssumption DEF ApprovalType
  <1>3. approvals' \in [Tokens -> ApprovalType \cup {None, Lost}]
    BY <1>1, <1>2 DEF CleanupPreview
  <1>. QED
    BY <1>3 DEF CleanupPreview, TypeInv, TypeOK, LaneOK, machine, store, memory, lane, history

\* A row built from a typed decision is typed.
LEMMA RowOK ==
    ASSUME TypeOK, NEW r \in DecisionType, NEW image \in Images,
           NEW authority \in {"manual", "automatic"}, NEW token \in OrNone(Tokens),
           NEW result \in Results
    PROVE  Row(r, image, authority, token, result) \in RowType
  BY DEF Row, RowType, DecisionType, TypeOK

\* Inserting a row fills one unused identifier or changes nothing.
LEMMA InsertRowOK ==
    ASSUME TypeOK, NEW row \in RowType, NEW b, InsertRow(row, b)
    PROVE  /\ act' \in [ActIds -> OrNone(RowType)]
           /\ \A i \in ActIds : act[i] \in RowType => act'[i] = act[i]
           /\ \A i \in ActIds : act'[i] = act[i] \/ (act[i] = None /\ act'[i] = row)
  <1>1. CASE UNCHANGED act
    BY <1>1 DEF TypeOK
  <1>2. ASSUME NEW i \in ActIds, act[i] = None, act' = [act EXCEPT ![i] = row]
        PROVE  /\ act' \in [ActIds -> OrNone(RowType)]
               /\ \A j \in ActIds : act[j] \in RowType => act'[j] = act[j]
               /\ \A j \in ActIds : act'[j] = act[j] \/ (act[j] = None /\ act'[j] = row)
    BY <1>2, NoRowAssumption DEF TypeOK, OrNone
  <1>. QED
    BY <1>1, <1>2 DEF InsertRow

\* CleanupApply parks the approval it consumed or inserts a rejected row.
LEMMA CleanupApplyType ==
    ASSUME TypeInv, NEW t \in Tokens, NEW b, CleanupApply(t, b)
    PROVE  TypeInv'
  <1>. DEFINE a == approvals[t]
  <1>0. TypeOK /\ LaneOK /\ a \in ApprovalType
    BY DEF CleanupApply, TypeInv, TypeOK
  <1>1. approvals' \in [Tokens -> ApprovalType \cup {None, Lost}]
    <2>1. [a EXCEPT !.used = TRUE] \in ApprovalType
      BY <1>0 DEF ApprovalType
    <2>2. approvals' = [approvals EXCEPT ![t] = [a EXCEPT !.used = TRUE]]
      BY DEF CleanupApply
    <2>. QED
      BY <1>0, <2>1, <2>2 DEF TypeOK
  <1>2. /\ pending' \in [Tokens -> OrNone(ApprovalType)]
        /\ act' \in [ActIds -> OrNone(RowType)]
        /\ \A i \in ActIds : act[i] \in RowType => act'[i] = act[i]
    <2>1. CASE a.used \/ now >= a.expires
      <3>1. Row(a.decision, a.image, "manual", t, "rejected") \in RowType
        BY <1>0, RowOK DEF ApprovalType, OrNone, Results
      <3>2. InsertRow(Row(a.decision, a.image, "manual", t, "rejected"), b) /\ UNCHANGED pending
        BY <2>1 DEF CleanupApply, Refused
      <3>. QED
        BY <1>0, <3>1, <3>2, InsertRowOK DEF TypeOK
    <2>2. CASE ~(a.used \/ now >= a.expires)
      BY <1>0, <2>2 DEF CleanupApply, Refused, TypeOK, OrNone
    <2>. QED
      BY <2>1, <2>2
  <1>3. UNCHANGED <<machine, store, memory, lane, history>>
    BY DEF CleanupApply
  <1>4. TypeOK'
    BY <1>0, <1>1, <1>2, <1>3 DEF TypeOK, machine, store, memory, lane, history
  <1>5. LaneOK'
    BY <1>0, <1>2, <1>3 DEF LaneOK, lane
  <1>. QED
    BY <1>4, <1>5 DEF TypeInv

\* A granted lane starts the job of the approval that waited for it.
LEMMA ManualStartType ==
    ASSUME TypeInv, NEW t \in Tokens, ManualStart(t)
    PROVE  TypeInv'
  <1>0. TypeOK /\ pending[t] \in ApprovalType /\ view' \in ViewType
    BY TakeViewType DEF ManualStart, TypeInv, TypeOK, OrNone
  <1>1. job' \in JobType
    BY <1>0 DEF ManualStart, JobType, ApprovalType, OrNone
  <1>2. pending' \in [Tokens -> OrNone(ApprovalType)]
    BY <1>0 DEF ManualStart, TypeOK, OrNone
  <1>. QED
    BY <1>0, <1>1, <1>2 DEF ManualStart, TypeInv, TypeOK, LaneOK, OrNone, PCs,
                            machine, store, memory, history

\* An automatic job keeps its decision and takes a fresh view.
LEMMA AutoRevalidateType == TypeInv /\ AutoRevalidate => TypeInv'
  <1>. SUFFICES ASSUME TypeInv, AutoRevalidate PROVE TypeInv'
    OBVIOUS
  <1>1. view' \in ViewType
    BY TakeViewType DEF AutoRevalidate, TypeInv
  <1>. QED
    BY <1>1 DEF AutoRevalidate, TypeInv, TypeOK, LaneOK, OrNone, PCs, machine, store,
                memory, history

\* Revalidation either ends the job, with or without a rejected row, or makes
\* an attempting row durable and remembers which one.
LEMMA RevalidateCases ==
    ASSUME TypeInv, NEW q, NEW b, Revalidate(q, b)
    PROVE  /\ pc = "reval" /\ job \in JobType /\ view' = None
           /\ \/ /\ pc' = "idle" /\ job' = None /\ UNCHANGED truth
                 /\ \/ UNCHANGED act
                    \/ \E i \in ActIds : act[i] = None /\ act' = [act EXCEPT ![i] =
                         Row(job.decision, job.image, job.authority, job.token, "rejected")]
              \/ /\ pc' = "gate"
                 /\ \E i \in ActIds :
                      /\ act[i] = None
                      /\ act' = [act EXCEPT ![i] = Row(job.decision, job.image, job.authority,
                                                       job.token, "attempting")]
                      /\ truth' \in [ActIds -> OrNone(TruthType)]
                      /\ job' = [job EXCEPT !.action = i]
           /\ UNCHANGED <<machine, store, memory, approvals, pending, kills, quietFrom,
                          resetAt, resets>>
  <1>0. TypeOK /\ pc = "reval" /\ job \in JobType /\ view \in ViewType
    BY DEF TypeInv, LaneOK, Revalidate
  <1>1. CASE ~Revalidated(Sample(job.decision.pid, job.decision.gen, q))
    BY <1>0, <1>1 DEF Revalidate, InsertRow
  <1>2. CASE Revalidated(Sample(job.decision.pid, job.decision.gen, q)) /\ ~b
    BY <1>0, <1>2 DEF Revalidate
  <1>3. CASE Revalidated(Sample(job.decision.pid, job.decision.gen, q)) /\ b
    <2>1. [quiet |-> now - quietFrom[job.decision.pid], sinceReset |-> now - resetAt,
           sessionLive |-> view.live, prot |-> view.proc[job.decision.pid].prot,
           expires |-> job.expires, eval |-> eval, until |-> job.decision.until] \in TruthType
      <3>1. job.decision \in DecisionType /\ job.expires \in OrNone(Nat)
        BY <1>0 DEF JobType
      <3>2. job.decision.pid \in Pids /\ job.decision.until \in Nat
        BY <3>1 DEF DecisionType
      <3>3. view.live \in BOOLEAN /\ view.proc[job.decision.pid].prot \in BOOLEAN
        BY <1>0, <3>2 DEF ViewType, ProcType
      <3>4. now \in Nat /\ eval \in Nat /\ resetAt \in Nat /\ quietFrom[job.decision.pid] \in Nat
        BY <1>0, <3>2 DEF TypeOK
      <3>. QED
        BY <3>1, <3>2, <3>3, <3>4 DEF TruthType
    <2>2. truth \in [ActIds -> OrNone(TruthType)]
      BY <1>0 DEF TypeOK
    <2>. QED
      BY <1>0, <1>3, <2>1, <2>2 DEF Revalidate, OrNone
  <1>. QED
    BY <1>1, <1>2, <1>3

\* Revalidation keeps types.
LEMMA RevalidateType ==
    ASSUME TypeInv, NEW q, NEW b, Revalidate(q, b)
    PROVE  TypeInv'
  <1>0. TypeOK /\ job \in JobType /\ view' = None
        /\ UNCHANGED <<machine, store, memory, approvals, pending, kills, quietFrom, resetAt, resets>>
    BY RevalidateCases DEF TypeInv
  <1>1. ASSUME NEW result \in Results
        PROVE  Row(job.decision, job.image, job.authority, job.token, result) \in RowType
    BY <1>0, RowOK DEF JobType
  <1>2. /\ act' \in [ActIds -> OrNone(RowType)] /\ truth' \in [ActIds -> OrNone(TruthType)]
        /\ pc' \in {"idle", "gate"} /\ job' \in OrNone(JobType)
        /\ pc' = "gate" => job' \in JobType /\ job'.action \in ActIds /\ act'[job'.action] \in RowType
    <2>1. CASE UNCHANGED <<act, truth>> /\ pc' = "idle" /\ job' = None
      BY <1>0, <2>1 DEF TypeOK, OrNone
    <2>2. ASSUME NEW i \in ActIds, UNCHANGED truth, pc' = "idle", job' = None,
                 act' = [act EXCEPT ![i] =
                           Row(job.decision, job.image, job.authority, job.token, "rejected")]
          PROVE  <1>2
      BY <1>0, <1>1, <2>2 DEF TypeOK, OrNone, Results
    <2>3. ASSUME NEW i \in ActIds, truth' \in [ActIds -> OrNone(TruthType)], pc' = "gate",
                 job' = [job EXCEPT !.action = i],
                 act' = [act EXCEPT ![i] =
                           Row(job.decision, job.image, job.authority, job.token, "attempting")]
          PROVE  <1>2
      <3>1. job' \in JobType /\ job'.action = i
        BY <1>0, <2>3 DEF JobType, OrNone
      <3>2. act' \in [ActIds -> OrNone(RowType)] /\ act'[i] \in RowType
        BY <1>0, <1>1, <2>3 DEF TypeOK, OrNone, Results
      <3>. QED
        BY <2>3, <3>1, <3>2 DEF OrNone
    <2>. QED
      BY <2>1, <2>2, <2>3, RevalidateCases
  <1>3. TypeOK'
    BY <1>0, <1>2 DEF TypeOK, OrNone, PCs, machine, store, memory
  <1>4. LaneOK'
    BY <1>2 DEF LaneOK
  <1>. QED
    BY <1>3, <1>4 DEF TypeInv

\* The gate and the kill settle the job's outcome.
LEMMA SignalGateType ==
    ASSUME TypeInv, NEW b, SignalGate(b)
    PROVE  TypeInv'
  <1>0. TypeOK /\ LaneOK /\ job \in JobType /\ job.action \in ActIds /\ act[job.action] \in RowType
    BY DEF TypeInv, LaneOK, SignalGate
  <1>1. /\ pc' \in {"kill", "finish"} /\ job' \in JobType /\ job'.action = job.action
        /\ pc' = "finish" => job'.outcome = "failed"
    BY <1>0 DEF SignalGate, JobType, OrNone
  <1>2. TypeOK'
    BY <1>0, <1>1 DEF SignalGate, TypeOK, OrNone, PCs, machine, store, memory, history
  <1>. QED
    BY <1>0, <1>1, <1>2 DEF TypeInv, LaneOK, SignalGate

\* kill(2) appends at most one delivered signal.
LEMMA SignalKillType ==
    ASSUME TypeInv, NEW b, SignalKill(b)
    PROVE  TypeInv'
  <1>0. TypeOK /\ LaneOK /\ job \in JobType /\ job.action \in ActIds /\ act[job.action] \in RowType
    BY DEF TypeInv, LaneOK, SignalKill
  <1>1. /\ job' \in JobType /\ job'.action = job.action /\ pc' = "finish"
        /\ job'.outcome \in {"signalled", "failed"}
    BY <1>0 DEF SignalKill, JobType, OrNone
  <1>2. kills' \in Seq(KillType)
    <2>1. job.decision.pid \in Pids
      BY <1>0 DEF JobType, DecisionType
    <2>2. [action |-> job.action, pid |-> job.decision.pid] \in KillType
      BY <1>0, <2>1 DEF KillType
    <2>. QED
      BY <1>0, <2>2 DEF SignalKill, TypeOK
  <1>3. TypeOK'
    BY <1>0, <1>1, <1>2 DEF SignalKill, TypeOK, OrNone, PCs, machine, store, memory
  <1>. QED
    BY <1>0, <1>1, <1>3 DEF TypeInv, LaneOK, SignalKill

\* UpdateAction changes one row's result and releases the lane.
LEMMA ActionFinishType ==
    ASSUME TypeInv, NEW b, ActionFinish(b)
    PROVE  TypeInv'
  <1>0. /\ TypeOK /\ LaneOK /\ job.action \in ActIds /\ act[job.action] \in RowType
        /\ job.outcome \in {"signalled", "failed"}
    BY DEF TypeInv, LaneOK, ActionFinish
  <1>1. act' \in [ActIds -> OrNone(RowType)]
    <2>1. [act[job.action] EXCEPT !.result = job.outcome] \in RowType
      BY <1>0 DEF RowType, Results
    <2>. QED
      BY <1>0, <2>1 DEF ActionFinish, TypeOK, OrNone
  <1>2. TypeOK'
    BY <1>0, <1>1 DEF ActionFinish, TypeOK, OrNone, PCs, machine, store, memory, history
  <1>. QED
    BY <1>2 DEF TypeInv, LaneOK, ActionFinish

\* Every step of the process lane keeps types and the lane's hands full.
LEMMA StepType == TypeInv /\ [Next]_vars => TypeInv'
  <1>. SUFFICES ASSUME TypeInv, [Next]_vars PROVE TypeInv'
    OBVIOUS
  <1>1. CASE UNCHANGED vars
    BY <1>1 DEF vars, machine, store, memory, lane, history, TypeInv, TypeOK, LaneOK
  <1>2. CASE Daemon
    BY <1>2, ScanStartType, ScanCommitType, ScanFailType, RestartType, CleanupPreviewType,
       CleanupApplyType, ManualStartType, AutoRevalidateType, RevalidateType,
       SignalGateType, SignalKillType, ActionFinishType DEF Daemon
  <1>. QED
    BY <1>1, <1>2, MachineType DEF Next

\* Types hold throughout, for every configuration: the lane never acts without
\* the view, the job and the durable row its stage needs (scan.go, action.go).
THEOREM TypeCorrect == Spec => []TypeInv
  <1>1. Init => TypeInv
    BY InitType
  <1>2. TypeInv /\ [Next]_vars => TypeInv'
    BY StepType
  <1>. QED
    BY <1>1, <1>2, PTL DEF Spec

\* The type invariant the runs check.
THEOREM TypeOKHolds == Spec => []TypeOK
  <1>1. TypeInv => TypeOK
    BY DEF TypeInv
  <1>. QED
    BY <1>1, TypeCorrect, PTL

----------------------------------------------------------------------------
(* The write-ahead ledger. *)

\* Every delivered signal belongs to some action.
LEMMA KillsType ==
    ASSUME TypeOK
    PROVE  \A k \in 1..Len(kills) : kills[k].action \in ActIds
  <1>1. kills \in Seq(KillType)
    BY DEF TypeOK
  <1>2. \A k \in 1..Len(kills) : kills[k] \in KillType
    BY <1>1
  <1>. QED
    BY <1>2 DEF KillType

\* The ledger survives a step that delivers no signal and only fills unused
\* rows, with results other than signalled.
LEMMA LedgerFrame ==
    ASSUME TypeOK, SignalLedger, UNCHANGED kills,
           \A i \in ActIds : \/ act'[i] = act[i]
                             \/ act[i] = None /\ act'[i] \in RowType /\ act'[i].result # "signalled"
    PROVE  SignalLedger'
  <1>1. \A k \in 1..Len(kills) : kills[k].action \in ActIds /\ act'[kills[k].action] = act[kills[k].action]
    BY KillsType, NoRowAssumption DEF SignalLedger
  <1>2. \A i \in ActIds : act'[i] # None /\ act'[i].result = "signalled"
                            => act[i] # None /\ act[i].result = "signalled"
    OBVIOUS
  <1>. QED
    BY <1>1, <1>2 DEF SignalLedger

\* A step that leaves rows, signals and the lane's job alone keeps LedgerInv.
LEMMA LedgerStutter ==
    ASSUME LedgerInv, UNCHANGED <<act, kills>>,
           \/ UNCHANGED <<pc, job>>
           \/ pc' \in {"idle", "scan", "auto", "reval"}
    PROVE  LedgerInv'
  BY DEF LedgerInv, SignalLedger, Sent

\* A revalidation writes its row before anything is sent for it.
LEMMA RevalidateLedger ==
    ASSUME TypeInv, LedgerInv, NEW q, NEW b, Revalidate(q, b)
    PROVE  LedgerInv'
  <1>0. TypeOK /\ SignalLedger /\ job \in JobType /\ UNCHANGED kills
    BY RevalidateCases DEF TypeInv, LedgerInv
  <1>1. ASSUME NEW result \in Results
        PROVE  Row(job.decision, job.image, job.authority, job.token, result) \in RowType
    BY <1>0, RowOK DEF JobType
  <1>2. CASE UNCHANGED act /\ pc' = "idle"
    BY <1>0, <1>2, LedgerStutter
  <1>3. ASSUME NEW i \in ActIds, act[i] = None, pc' = "idle",
               act' = [act EXCEPT ![i] =
                         Row(job.decision, job.image, job.authority, job.token, "rejected")]
        PROVE  LedgerInv'
    <2>1. Row(job.decision, job.image, job.authority, job.token, "rejected").result = "rejected"
      BY DEF Row
    <2>2. SignalLedger'
      BY <1>0, <1>1, <1>3, <2>1, LedgerFrame DEF TypeOK, Results
    <2>. QED
      BY <1>3, <2>2 DEF LedgerInv
  <1>4. ASSUME NEW i \in ActIds, act[i] = None, pc' = "gate", job' = [job EXCEPT !.action = i],
               act' = [act EXCEPT ![i] =
                         Row(job.decision, job.image, job.authority, job.token, "attempting")]
        PROVE  LedgerInv'
    <2>. DEFINE row == Row(job.decision, job.image, job.authority, job.token, "attempting")
    <2>1. row.result = "attempting" /\ row.pid = job.decision.pid
      BY DEF Row
    <2>2. SignalLedger'
      BY <1>0, <1>1, <1>4, <2>1, LedgerFrame DEF TypeOK, Results
    <2>3. job'.action = i /\ job'.decision = job.decision /\ act'[i] = row
      BY <1>0, <1>4 DEF JobType, TypeOK
    <2>4. ~Sent(i)
      BY <1>0, <1>4 DEF SignalLedger, Sent
    <2>. HIDE DEF row
    <2>. QED
      BY <1>0, <1>4, <2>1, <2>2, <2>3, <2>4 DEF LedgerInv, Sent
  <1>. QED
    BY <1>2, <1>3, <1>4, RevalidateCases

\* The one signal of an attempt goes to the pid its row names.
LEMMA SignalKillLedger ==
    ASSUME TypeInv, LedgerInv, NEW b, SignalKill(b)
    PROVE  LedgerInv'
  <1>. DEFINE k0 == [action |-> job.action, pid |-> job.decision.pid]
  <1>0. /\ TypeOK /\ SignalLedger /\ job \in JobType /\ job.action \in ActIds /\ pc = "kill"
        /\ act[job.action] \in RowType /\ act[job.action].result = "attempting"
        /\ act[job.action].pid = job.decision.pid /\ ~Sent(job.action)
        /\ kills \in Seq(KillType) /\ UNCHANGED act /\ pc' = "finish"
    BY DEF TypeInv, TypeOK, LaneOK, LedgerInv, SignalKill
  <1>1. job'.action = job.action /\ job'.decision = job.decision
    BY <1>0 DEF SignalKill, JobType
  <1>2. CASE b /\ proc[job.decision.pid].alive
    <2>1. kills' = Append(kills, k0) /\ job'.outcome = "signalled"
      BY <1>0, <1>2 DEF SignalKill, JobType
    <2>2. /\ Len(kills') = Len(kills) + 1 /\ Len(kills) \in Nat
          /\ kills'[Len(kills) + 1] = k0
          /\ \A k \in 1..Len(kills) : kills'[k] = kills[k]
      BY <1>0, <2>1
    <2>3. \A k \in 1..Len(kills') : k \in 1..Len(kills) \/ k = Len(kills) + 1
      BY <2>2
    <2>4. k0.action = job.action /\ k0.pid = job.decision.pid
      OBVIOUS
    <2>. HIDE DEF k0
    <2>5. \A k \in 1..Len(kills') : /\ act'[kills'[k].action] # None
                                    /\ act'[kills'[k].action].result \in {"attempting", "signalled"}
                                    /\ act'[kills'[k].action].pid = kills'[k].pid
      BY <1>0, <2>2, <2>3, <2>4, NoRowAssumption DEF SignalLedger
    <2>6. \A j, k \in 1..Len(kills') : kills'[j].action = kills'[k].action => j = k
      BY <1>0, <2>2, <2>3, <2>4 DEF SignalLedger, Sent
    <2>7. \A i \in ActIds : act'[i] # None /\ act'[i].result = "signalled"
                              => \E k \in 1..Len(kills') : kills'[k].action = i
      BY <1>0, <2>2 DEF SignalLedger
    <2>8. \E k \in 1..Len(kills') : kills'[k].action = job'.action
      BY <1>1, <2>2, <2>4
    <2>. QED
      BY <1>0, <1>1, <2>1, <2>5, <2>6, <2>7, <2>8 DEF LedgerInv, SignalLedger, Sent
  <1>3. CASE ~(b /\ proc[job.decision.pid].alive)
    <2>1. UNCHANGED kills /\ job'.outcome = "failed"
      BY <1>0, <1>3 DEF SignalKill, JobType
    <2>. QED
      BY <1>0, <1>1, <2>1 DEF LedgerInv, SignalLedger, Sent
  <1>. QED
    BY <1>2, <1>3

\* The completion writes signalled exactly when the signal was delivered.
LEMMA ActionFinishLedger ==
    ASSUME TypeInv, LedgerInv, NEW b, ActionFinish(b)
    PROVE  LedgerInv'
  <1>0. /\ TypeOK /\ SignalLedger /\ job.action \in ActIds /\ act[job.action] \in RowType
        /\ job.outcome \in {"signalled", "failed"}
        /\ job.outcome = "signalled" <=> Sent(job.action)
        /\ act \in [ActIds -> OrNone(RowType)] /\ kills \in Seq(KillType)
        /\ UNCHANGED kills /\ pc' = "idle"
    BY DEF TypeInv, TypeOK, LaneOK, LedgerInv, ActionFinish, history
  <1>1. CASE UNCHANGED act
    BY <1>0, <1>1, LedgerStutter
  <1>2. CASE act' = [act EXCEPT ![job.action].result = job.outcome]
    <2>1. /\ \A i \in ActIds : i # job.action => act'[i] = act[i]
          /\ act'[job.action] = [act[job.action] EXCEPT !.result = job.outcome]
      BY <1>0, <1>2
    <2>2. /\ act'[job.action].result = job.outcome /\ act'[job.action].pid = act[job.action].pid
          /\ act'[job.action] \in RowType
      BY <1>0, <2>1 DEF RowType, Results
    <2>3. \A k \in 1..Len(kills) : kills[k].action \in ActIds
      BY <1>0, KillsType
    <2>4. ASSUME NEW k \in 1..Len(kills)
          PROVE  /\ act'[kills[k].action] # None
                 /\ act'[kills[k].action].result \in {"attempting", "signalled"}
                 /\ act'[kills[k].action].pid = kills[k].pid
      <3>1. CASE kills[k].action = job.action
        <4>1. job.outcome = "signalled"
          BY <1>0, <3>1 DEF Sent
        <4>2. act[job.action].pid = kills[k].pid
          BY <1>0, <3>1 DEF SignalLedger
        <4>. QED
          BY <2>2, <3>1, <4>1, <4>2, NoRowAssumption
      <3>2. CASE kills[k].action # job.action
        <4>1. act'[kills[k].action] = act[kills[k].action]
          BY <2>1, <2>3, <3>2
        <4>. QED
          BY <1>0, <4>1 DEF SignalLedger
      <3>. QED
        BY <3>1, <3>2
    <2>5. \A i \in ActIds : act'[i] # None /\ act'[i].result = "signalled"
                              => \E k \in 1..Len(kills) : kills[k].action = i
      BY <1>0, <2>1, <2>2 DEF SignalLedger, Sent
    <2>. QED
      BY <1>0, <2>4, <2>5 DEF LedgerInv, SignalLedger
  <1>. QED
    BY <1>1, <1>2 DEF ActionFinish

\* Every other step keeps the ledger.
LEMMA StepLedger == TypeInv /\ LedgerInv /\ [Next]_vars => LedgerInv'
  <1>. SUFFICES ASSUME TypeInv, LedgerInv, [Next]_vars PROVE LedgerInv'
    OBVIOUS
  <1>1. CASE UNCHANGED vars
    BY <1>1, LedgerStutter DEF vars, lane, history
  <1>2. CASE Machine
    <2>1. OutsideDaemon
      BY <1>2 DEF Machine, Tick, SessionFlip, Work, HoldResource, Change, Reuse, Move
    <2>. QED
      BY <2>1, LedgerStutter DEF OutsideDaemon, lane
  <1>3. CASE ScanStart \/ AutoRevalidate \/ Restart
             \/ \E t \in Tokens : ManualStart(t)
    BY <1>3, LedgerStutter DEF ScanStart, AutoRevalidate, Restart, ManualStart, history
  <1>4. ASSUME NEW q, ScanCommit(q) PROVE LedgerInv'
    BY <1>4, LedgerStutter DEF ScanCommit, AutomaticStart, history
  <1>5. ASSUME NEW b, ScanFail(b) PROVE LedgerInv'
    BY <1>5, LedgerStutter DEF ScanFail
  <1>6. ASSUME NEW t \in Tokens, NEW b, NEW r, CleanupPreview(t, r, b) PROVE LedgerInv'
    BY <1>6, LedgerStutter DEF CleanupPreview, lane, history
  <1>7. ASSUME NEW t \in Tokens, NEW b, CleanupApply(t, b) PROVE LedgerInv'
    <2>1. CASE UNCHANGED act
      BY <1>7, <2>1, LedgerStutter DEF CleanupApply, lane, history
    <2>2. CASE ~UNCHANGED act
      <3>. DEFINE a == approvals[t]
                  row == Row(a.decision, a.image, "manual", t, "rejected")
      <3>1. a \in ApprovalType /\ TypeOK /\ SignalLedger /\ UNCHANGED <<kills, pc, job>>
        BY <1>7 DEF CleanupApply, TypeInv, TypeOK, LedgerInv, lane, history
      <3>2. row \in RowType /\ row.result = "rejected"
        BY <3>1, RowOK DEF ApprovalType, OrNone, Results, Row
      <3>3. InsertRow(row, b)
        BY <1>7, <2>2 DEF CleanupApply
      <3>4. /\ \A i \in ActIds : act[i] \in RowType => act'[i] = act[i]
            /\ \A i \in ActIds : act'[i] = act[i] \/ (act[i] = None /\ act'[i] = row)
        BY <3>1, <3>2, <3>3, InsertRowOK
      <3>. HIDE DEF row
      <3>5. SignalLedger'
        BY <3>1, <3>2, <3>4, LedgerFrame
      <3>6. pc \in {"gate", "kill", "finish"} => act'[job.action] = act[job.action]
        BY <3>4 DEF TypeInv, LaneOK
      <3>. QED
        BY <3>1, <3>5, <3>6 DEF LedgerInv, Sent
    <2>. QED
      BY <2>1, <2>2
  <1>8. ASSUME NEW b, SignalGate(b) PROVE LedgerInv'
    <2>1. job \in JobType /\ pc = "gate" /\ UNCHANGED <<act, kills>>
      BY <1>8 DEF SignalGate, TypeInv, LaneOK, history
    <2>2. /\ job'.action = job.action /\ job'.decision = job.decision
          /\ \/ pc' = "kill"
             \/ pc' = "finish" /\ job'.outcome = "failed"
      BY <1>8, <2>1 DEF SignalGate, JobType
    <2>. QED
      BY <2>1, <2>2 DEF LedgerInv, SignalLedger, Sent
  <1>. QED
    BY <1>1, <1>2, <1>3, <1>4, <1>5, <1>6, <1>7, <1>8, RevalidateLedger, SignalKillLedger,
       ActionFinishLedger DEF Next, Daemon

\* The ledger is write-ahead and exact in every reachable state: through any
\* interleaving of scans, applies, failed transactions and restarts, a
\* delivered SIGTERM has one durable row that never says rejected or failed,
\* and a row says signalled only if its signal was delivered.
THEOREM LedgerCorrect == Spec => []SignalLedger
  <1>1. Init => LedgerInv
    BY DEF Init, LedgerInv, SignalLedger
  <1>2. TypeInv /\ LedgerInv /\ [Next]_vars => LedgerInv'
    BY StepLedger
  <1>3. LedgerInv => SignalLedger
    BY DEF LedgerInv
  <1>. QED
    BY <1>1, <1>2, <1>3, TypeCorrect, PTL DEF Spec

----------------------------------------------------------------------------
(* One approval, one attempt. *)

\* The chain survives a step that writes no new attempt, consumes no less and
\* neither parks nor takes up an approval.
LEMMA SingleUseFrame ==
    ASSUME TypeOK, SingleUseInv,
           \A i \in ActIds : i \in Attempts' => i \in Attempts /\ act'[i].token = act[i].token,
           \A t \in Tokens : Consumed(t) => Consumed(t)',
           \A t \in Tokens : pending'[t] # None => pending[t] # None,
           \A t \in Tokens : pending[t] = None => pending'[t] = None,
           \A t \in Tokens : InHand(t)' => InHand(t),
           (pc = "auto" => job.token = None)'
    PROVE  SingleUseInv'
  <1>1. Attempts' \subseteq ActIds /\ Attempts \subseteq ActIds
    BY DEF Attempts
  <1>. QED
    BY <1>1 DEF SingleUseInv, SingleUse

\* Rows that keep their token and are not rejected stay the attempts they were.
LEMMA AttemptsFrame ==
    ASSUME \/ UNCHANGED act
           \/ \E i \in ActIds : \E row : /\ row.result = "rejected" /\ act \in [ActIds -> OrNone(RowType)]
                                        /\ act' = [act EXCEPT ![i] = row]
    PROVE  \A i \in ActIds : i \in Attempts' => i \in Attempts /\ act'[i].token = act[i].token
  BY DEF Attempts

\* An approval that is consumed stays so when expired ones are pruned, when
\* another is issued, and in a restart.
LEMMA ConsumedKept ==
    ASSUME TypeOK, NEW t \in Tokens, Consumed(t),
           \/ approvals'[t] = approvals[t]
           \/ approvals'[t] = Lost
    PROVE  Consumed(t)'
  BY NoRowAssumption DEF Consumed

\* Taking up the parked approval moves it from waiting to in hand.
LEMMA ManualStartSingle ==
    ASSUME TypeInv, SingleUseInv, NEW t \in Tokens, ManualStart(t)
    PROVE  SingleUseInv'
  <1>1. /\ TypeOK /\ pending[t] # None /\ pc = "idle" /\ pc' = "reval" /\ job'.token = t
        /\ UNCHANGED <<act, approvals>>
        /\ pending'[t] = None /\ \A u \in Tokens : u # t => pending'[u] = pending[u]
    BY DEF ManualStart, TypeInv, TypeOK
  <1>2. \A u \in Tokens : InHand(u)' <=> u = t
    BY <1>1 DEF InHand
  <1>3. \A u \in Tokens : Consumed(u)' <=> Consumed(u)
    BY <1>1 DEF Consumed
  <1>4. Attempts' = Attempts /\ Attempts \subseteq ActIds
    BY <1>1 DEF Attempts
  <1>6. SingleUse'
    BY <1>1, <1>4 DEF SingleUseInv, SingleUse
  <1>7. \A i \in Attempts', u \in Tokens :
           act'[i].token = u => Consumed(u)' /\ pending'[u] = None /\ ~InHand(u)'
    BY <1>1, <1>2, <1>3, <1>4 DEF SingleUseInv
  <1>8. \A u \in Tokens : pending'[u] # None => Consumed(u)' /\ ~InHand(u)'
    BY <1>1, <1>2, <1>3 DEF SingleUseInv
  <1>9. \A u \in Tokens : InHand(u)' => Consumed(u)'
    BY <1>1, <1>2, <1>3 DEF SingleUseInv
  <1>. QED
    BY <1>1, <1>6, <1>7, <1>8, <1>9 DEF SingleUseInv

\* Consuming: a fresh approval is marked used and parked; a used one is refused.
LEMMA CleanupApplySingle ==
    ASSUME TypeInv, SingleUseInv, NEW t \in Tokens, NEW b, CleanupApply(t, b)
    PROVE  SingleUseInv'
  <1>. DEFINE a == approvals[t]
  <1>0. /\ TypeOK /\ a \in ApprovalType /\ a # Lost /\ a # None /\ UNCHANGED <<pc, job>>
        /\ approvals' = [approvals EXCEPT ![t].used = TRUE]
        /\ act \in [ActIds -> OrNone(RowType)]
    BY DEF CleanupApply, TypeInv, TypeOK, lane
  <1>1. /\ approvals'[t] = [a EXCEPT !.used = TRUE]
        /\ \A u \in Tokens : u # t => approvals'[u] = approvals[u]
    BY <1>0 DEF TypeOK
  <1>2. Consumed(t)'
    <2>1. [a EXCEPT !.used = TRUE] \in ApprovalType /\ [a EXCEPT !.used = TRUE].used = TRUE
      BY <1>0 DEF ApprovalType
    <2>. QED
      BY <1>1, <2>1, NoRowAssumption DEF Consumed
  <1>3. \A u \in Tokens : Consumed(u) => Consumed(u)'
    BY <1>1, <1>2 DEF Consumed
  <1>4. \A u \in Tokens : InHand(u)' <=> InHand(u)
    BY <1>0 DEF InHand
  <1>5. (pc = "auto" => job.token = None)'
    BY <1>0 DEF SingleUseInv
  <1>6. CASE a.used \/ now >= a.expires
    <2>1. /\ UNCHANGED pending
          /\ InsertRow(Row(a.decision, a.image, "manual", t, "rejected"), b)
      BY <1>6 DEF CleanupApply, Refused
    <2>2. Row(a.decision, a.image, "manual", t, "rejected").result = "rejected"
      BY DEF Row
    <2>3. \A i \in ActIds : i \in Attempts' => i \in Attempts /\ act'[i].token = act[i].token
      BY <1>0, <2>1, <2>2, AttemptsFrame DEF InsertRow
    <2>. QED
      BY <1>0, <1>3, <1>4, <1>5, <2>1, <2>3, SingleUseFrame
  <1>7. CASE ~(a.used \/ now >= a.expires)
    <2>1. pending' = [pending EXCEPT ![t] = a] /\ UNCHANGED act
      BY <1>7 DEF CleanupApply, Refused
    <2>2. \A u \in Tokens : u # t => pending'[u] = pending[u]
      BY <1>0, <2>1 DEF TypeOK
    <2>3. ~Consumed(t)
      BY <1>0, <1>7 DEF Consumed
    <2>4. Attempts' = Attempts /\ Attempts \subseteq ActIds
      BY <2>1 DEF Attempts
    <2>5. SingleUse'
      BY <2>1, <2>4 DEF SingleUseInv, SingleUse
    <2>6. \A i \in Attempts', u \in Tokens :
             act'[i].token = u => Consumed(u)' /\ pending'[u] = None /\ ~InHand(u)'
      BY <1>3, <1>4, <2>1, <2>2, <2>3, <2>4 DEF SingleUseInv
    <2>7. \A u \in Tokens : pending'[u] # None => Consumed(u)' /\ ~InHand(u)'
      BY <1>2, <1>3, <1>4, <2>2, <2>3 DEF SingleUseInv
    <2>8. \A u \in Tokens : InHand(u)' => Consumed(u)'
      BY <1>3, <1>4 DEF SingleUseInv
    <2>. QED
      BY <1>5, <2>5, <2>6, <2>7, <2>8 DEF SingleUseInv
  <1>. QED
    BY <1>6, <1>7

\* The attempt written for the approval in hand is the first one for it.
LEMMA RevalidateSingle ==
    ASSUME TypeInv, SingleUseInv, NEW q, NEW b, Revalidate(q, b)
    PROVE  SingleUseInv'
  <1>0. /\ TypeOK /\ pc = "reval" /\ job \in JobType /\ UNCHANGED <<approvals, pending>>
        /\ act \in [ActIds -> OrNone(RowType)]
    BY RevalidateCases DEF TypeInv, TypeOK
  <1>1. \A u \in Tokens : Consumed(u)' <=> Consumed(u)
    BY <1>0 DEF Consumed
  <1>2. CASE /\ pc' = "idle"
             /\ \/ UNCHANGED act
                \/ \E i \in ActIds : act[i] = None /\ act' = [act EXCEPT ![i] =
                     Row(job.decision, job.image, job.authority, job.token, "rejected")]
    <2>1. Row(job.decision, job.image, job.authority, job.token, "rejected").result = "rejected"
      BY DEF Row
    <2>2. \A i \in ActIds : i \in Attempts' => i \in Attempts /\ act'[i].token = act[i].token
      BY <1>0, <1>2, <2>1, AttemptsFrame
    <2>3. \A u \in Tokens : ~InHand(u)'
      BY <1>2 DEF InHand
    <2>. QED
      BY <1>0, <1>1, <1>2, <2>2, <2>3, SingleUseFrame
  <1>3. ASSUME NEW i \in ActIds, act[i] = None, pc' = "gate", job' = [job EXCEPT !.action = i],
               act' = [act EXCEPT ![i] =
                         Row(job.decision, job.image, job.authority, job.token, "attempting")]
        PROVE  SingleUseInv'
    <2>1. act'[i].token = job.token /\ job.token \in OrNone(Tokens)
      BY <1>0, <1>3 DEF Row, JobType
    <2>2. \A j \in ActIds : j # i => act'[j] = act[j]
      BY <1>0, <1>3
    <2>3. \A j \in Attempts' : j = i \/ (j \in Attempts /\ act'[j] = act[j])
      BY <2>2 DEF Attempts
    <2>4. \A j \in Attempts : job.token \in Tokens => act[j].token # job.token
      BY <1>0 DEF SingleUseInv, InHand
    <2>5. SingleUse'
      BY <2>1, <2>3, <2>4 DEF SingleUseInv, SingleUse, OrNone
    <2>6. \A u \in Tokens : ~InHand(u)'
      BY <1>3 DEF InHand
    <2>7. job.token \in Tokens => Consumed(job.token) /\ pending[job.token] = None
      BY <1>0 DEF SingleUseInv, InHand
    <2>8. \A j \in Attempts', u \in Tokens :
             act'[j].token = u => Consumed(u)' /\ pending'[u] = None /\ ~InHand(u)'
      BY <1>0, <1>1, <2>1, <2>3, <2>6, <2>7 DEF SingleUseInv
    <2>9. \A u \in Tokens : pending'[u] # None => Consumed(u)' /\ ~InHand(u)'
      BY <1>0, <1>1, <2>6 DEF SingleUseInv
    <2>. QED
      BY <1>3, <2>5, <2>6, <2>8, <2>9 DEF SingleUseInv
  <1>. QED
    BY <1>2, <1>3, RevalidateCases

\* Every step keeps the chain; a completed row was attempting (LedgerInv).
LEMMA StepSingle == TypeInv /\ LedgerInv /\ SingleUseInv /\ [Next]_vars => SingleUseInv'
  <1>. SUFFICES ASSUME TypeInv, LedgerInv, SingleUseInv, [Next]_vars PROVE SingleUseInv'
    OBVIOUS
  <1>0. TypeOK
    BY DEF TypeInv
  <1>1. ASSUME UNCHANGED <<act, approvals, pending>>,
               \/ UNCHANGED <<pc, job>>
               \/ pc' \notin {"auto", "reval"}
               \/ pc' = "auto" /\ job'.token = None
               \/ pc = "auto" /\ pc' = "reval" /\ UNCHANGED job
        PROVE  SingleUseInv'
    <2>1. \A i \in ActIds : i \in Attempts' => i \in Attempts /\ act'[i].token = act[i].token
      BY <1>1, AttemptsFrame
    <2>2. \A t \in Tokens : Consumed(t) => Consumed(t)'
      BY <1>1 DEF Consumed
    <2>3. \A t \in Tokens : InHand(t)' => InHand(t)
      BY <1>1, NoneAssumption DEF InHand, SingleUseInv
    <2>4. (pc = "auto" => job.token = None)'
      BY <1>1 DEF SingleUseInv
    <2>. QED
      BY <1>0, <1>1, <2>1, <2>2, <2>3, <2>4, SingleUseFrame
  <1>2. CASE UNCHANGED vars
    BY <1>1, <1>2 DEF vars, lane
  <1>3. CASE Machine
    <2>1. OutsideDaemon
      BY <1>3 DEF Machine, Tick, SessionFlip, Work, HoldResource, Change, Reuse, Move
    <2>. QED
      BY <1>1, <2>1 DEF OutsideDaemon, lane
  <1>4. CASE ScanStart \/ AutoRevalidate
    BY <1>1, <1>4 DEF ScanStart, AutoRevalidate
  <1>5. ASSUME NEW q, ScanCommit(q) PROVE SingleUseInv'
    BY <1>1, <1>5 DEF ScanCommit, AutomaticStart
  <1>6. ASSUME NEW b, ScanFail(b) \/ SignalGate(b) \/ SignalKill(b) PROVE SingleUseInv'
    BY <1>1, <1>6 DEF ScanFail, SignalGate, SignalKill
  <1>7. CASE Restart
    <2>1. \A i \in ActIds : i \in Attempts' => i \in Attempts /\ act'[i].token = act[i].token
      BY <1>7, AttemptsFrame DEF Restart
    <2>2. \A t \in Tokens : Consumed(t) => Consumed(t)'
      BY <1>0, <1>7, ConsumedKept DEF Restart, Consumed
    <2>3. /\ \A t \in Tokens : pending'[t] = None /\ ~InHand(t)'
          /\ (pc = "auto" => job.token = None)'
      BY <1>7 DEF Restart, InHand
    <2>. QED
      BY <1>0, <2>1, <2>2, <2>3, SingleUseFrame
  <1>8. ASSUME NEW t \in Tokens, NEW b, NEW r, CleanupPreview(t, r, b) PROVE SingleUseInv'
    <2>1. \A i \in ActIds : i \in Attempts' => i \in Attempts /\ act'[i].token = act[i].token
      BY <1>8, AttemptsFrame DEF CleanupPreview
    <2>2. \A u \in Tokens : u # t => approvals'[u] = approvals[u] \/ approvals'[u] = Lost
      BY <1>8 DEF CleanupPreview, Kept
    <2>3. \A u \in Tokens : Consumed(u) => Consumed(u)'
      BY <1>0, <1>8, <2>2, ConsumedKept DEF CleanupPreview, Consumed
    <2>4. UNCHANGED <<pending, pc, job>>
      BY <1>8 DEF CleanupPreview, lane
    <2>5. /\ \A u \in Tokens : InHand(u)' => InHand(u)
          /\ (pc = "auto" => job.token = None)'
      BY <2>4 DEF InHand, SingleUseInv
    <2>. QED
      BY <1>0, <2>1, <2>3, <2>4, <2>5, SingleUseFrame
  <1>9. ASSUME NEW b, ActionFinish(b) PROVE SingleUseInv'
    <2>1. /\ UNCHANGED <<approvals, pending>> /\ pc' = "idle" /\ job.action \in ActIds
          /\ act \in [ActIds -> OrNone(RowType)] /\ act[job.action] \in RowType
          /\ \/ UNCHANGED act
             \/ act' = [act EXCEPT ![job.action].result = job.outcome]
      BY <1>9 DEF ActionFinish, TypeInv, TypeOK, LaneOK
    <2>2. \A t \in Tokens : (Consumed(t) => Consumed(t)') /\ ~InHand(t)'
      BY <2>1 DEF Consumed, InHand
    <2>3. job.action \in Attempts
      BY <1>9, <2>1, NoRowAssumption DEF ActionFinish, LedgerInv, Attempts
    <2>4. \A i \in ActIds : i \in Attempts' => i \in Attempts /\ act'[i].token = act[i].token
      <3>1. CASE act' = [act EXCEPT ![job.action].result = job.outcome]
        <4>1. act'[job.action].token = act[job.action].token
          BY <2>1, <3>1 DEF RowType
        <4>2. \A i \in ActIds : i # job.action => act'[i] = act[i]
          BY <2>1, <3>1
        <4>. QED
          BY <2>3, <4>1, <4>2 DEF Attempts
      <3>. QED
        BY <2>1, <3>1, AttemptsFrame
    <2>. QED
      BY <1>0, <2>1, <2>2, <2>4, SingleUseFrame
  <1>. QED
    BY <1>2, <1>3, <1>4, <1>5, <1>6, <1>7, <1>8, <1>9, CleanupApplySingle, ManualStartSingle,
       RevalidateSingle DEF Next, Daemon

\* A one-use approval authorises at most one attempt in every reachable state:
\* consumeApproval marks it before the lock is awaited, so neither a replay, a
\* concurrent apply nor a restart brings it back.
THEOREM SingleUseCorrect == Spec => []SingleUse
  <1>1. Init => LedgerInv /\ SingleUseInv
    BY DEF Init, LedgerInv, SignalLedger, SingleUseInv, SingleUse, Attempts, InHand
  <1>2. TypeInv /\ LedgerInv /\ SingleUseInv /\ [Next]_vars => LedgerInv' /\ SingleUseInv'
    BY StepLedger, StepSingle
  <1>3. SingleUseInv => SingleUse
    BY DEF SingleUseInv
  <1>. QED
    BY <1>1, <1>2, <1>3, TypeCorrect, PTL DEF Spec
=============================================================================
