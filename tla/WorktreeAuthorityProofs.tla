---------------------- MODULE WorktreeAuthorityProofs ----------------------
(***************************************************************************)
(* What authorises a move or a removal of the worktree lane, for every     *)
(* configuration: the lane implements ApprovalLedger, a checkout is only   *)
(* retired after its inactivity window and removed after its grace period, *)
(* and it can always be found.                                             *)
(***************************************************************************)
EXTENDS WorktreeLaneProofs

\* An attempt was written with this token.
Attempted(t) == \E a \in ActIds : act[a] # None /\ act[a].result # "rejected" /\ act[a].token = t

\* A token that was not issued, or not used.
Fresh(t) == approvals[t] = None \/ (approvals[t] # Lost /\ ~approvals[t].used)

\* A token that can still be accepted has not been, and the one that waits for
\* scanMu has not been attempted.
SingleInv ==
    /\ \A t \in Tokens : Fresh(t) => ~Attempted(t) /\ ~(waiting # None /\ waiting.token = t)
    /\ waiting # None => ~Attempted(waiting.token)

----------------------------------------------------------------------------
(* One token, one attempt. *)

\* Refusals and outcomes attempt nothing.
LEMMA AttemptedKept ==
    ASSUME TypeOK,
           \/ Inserted({"rejected"})
           \/ \E a \in ActIds : \E r : /\ act[a] \in ActType /\ act[a].result # "rejected"
                                       /\ act' = [act EXCEPT ![a].result = r]
    PROVE  \A t : Attempted(t)' => Attempted(t)
  <1>1. CASE Inserted({"rejected"})
    BY <1>1, InsertedFrame DEF Attempted
  <1>2. ASSUME NEW a \in ActIds, NEW r, act[a] \in ActType, act[a].result # "rejected",
               act' = [act EXCEPT ![a].result = r]
        PROVE  \A t : Attempted(t)' => Attempted(t)
    <2>1. act'[a].token = act[a].token /\ act[a] # None
      BY <1>2, NoRecordAssumption DEF TypeOK, ActType
    <2>2. \A b \in ActIds : b # a => act'[b] = act[b]
      BY <1>2 DEF TypeOK
    <2>. QED
      BY <1>2, <2>1, <2>2 DEF Attempted
  <1>. QED
    BY <1>1, <1>2

\* Steps that attempt nothing and accept nothing.
LEMMA SingleFrame ==
    ASSUME SingleInv, \A t : Attempted(t)' => Attempted(t),
           \A t \in Tokens : Fresh(t)' => Fresh(t),
           waiting' = None \/ waiting' = waiting
    PROVE  SingleInv'
  BY DEF SingleInv

\* Accepting an approval uses it, and refusing it does too.
LEMMA SingleApply ==
    ASSUME LaneInv, SingleInv, NEW t \in Tokens, NEW m \in BOOLEAN, NEW ok \in BOOLEAN, Apply(t, m, ok)
    PROVE  SingleInv'
  <1>0. TypeOK /\ approvals[t] \in WtApproval /\ approvals \in [Tokens -> WtApproval \cup {None, Lost}]
    BY DEF LaneInv, TypeInv, TypeOK, Apply
  <1>1. \A u : Attempted(u)' => Attempted(u)
    BY <1>0, LedgerReject, AttemptedKept DEF LaneInv
  <1>2. /\ \A u \in Tokens : u # t => approvals'[u] = approvals[u]
        /\ approvals'[t].used /\ approvals'[t] # None
    <2>1. approvals' = [approvals EXCEPT ![t].used = TRUE]
      BY DEF Apply
    <2>2. [approvals[t] EXCEPT !.used = TRUE] \in WtApproval /\ [approvals[t] EXCEPT !.used = TRUE].used
      BY <1>0 DEF WtApproval
    <2>. QED
      BY <1>0, <2>1, <2>2, NoRecordAssumption
  <1>3. ~Fresh(t)' /\ \A u \in Tokens : Fresh(u)' => Fresh(u)
    BY <1>2 DEF Fresh
  <1>4. CASE waiting' = None
    BY <1>1, <1>3, <1>4, SingleFrame
  <1>5. CASE waiting' # None
    <2>1. waiting'.token = t /\ Fresh(t)
      BY <1>0, <1>5 DEF Apply, Fresh
    <2>. QED
      BY <1>1, <1>3, <2>1 DEF SingleInv
  <1>. QED
    BY <1>4, <1>5

\* The waiting apply is spent on one attempt.
LEMMA SingleAttempt ==
    ASSUME LaneInv, SingleInv, NEW a \in ActIds, NEW ok \in BOOLEAN,
           MoveBegin(a, ok) \/ PurgePrepare(a, ok)
    PROVE  SingleInv'
  <1>0. TypeOK /\ waiting # None /\ waiting' = None /\ UNCHANGED approvals
    BY DEF LaneInv, TypeInv, MoveBegin, PurgePrepare
  <1>1. act' = act \/ \E k, r : Begin(a, Row(k, waiting.token, r))
    BY DEF MoveBegin, PurgePrepare
  <1>2. \A t : Attempted(t)' => Attempted(t) \/ t = waiting.token
    <2>1. CASE act' = act
      BY <2>1 DEF Attempted
    <2>2. ASSUME NEW k, NEW r, Begin(a, Row(k, waiting.token, r))
          PROVE  \A t : Attempted(t)' => Attempted(t) \/ t = waiting.token
      <3>1. act'[a].token = waiting.token /\ \A b \in ActIds : b # a => act'[b] = act[b]
        BY <1>0, <2>2 DEF Begin, Row, TypeOK
      <3>. QED
        BY <3>1 DEF Attempted
    <2>. QED
      BY <1>1, <2>1, <2>2
  <1>3. \A t : Fresh(t)' <=> Fresh(t)
    BY <1>0 DEF Fresh
  <1>. QED
    BY <1>0, <1>2, <1>3 DEF SingleInv

\* Every step keeps tokens single-use.
LEMMA StepSingle == LaneInv /\ SingleInv /\ [Next]_vars => SingleInv'
  <1>. SUFFICES ASSUME LaneInv, SingleInv, [Next]_vars PROVE SingleInv'
    OBVIOUS
  <1>0. TypeOK /\ approvals \in [Tokens -> WtApproval \cup {None, Lost}]
    BY DEF LaneInv, TypeInv, TypeOK
  <1>1. ASSUME UNCHANGED act \/ Inserted({"rejected"})
                 \/ \E a \in ActIds : \E r : /\ act[a] \in ActType /\ act[a].result # "rejected"
                                             /\ act' = [act EXCEPT ![a].result = r],
               \A t \in Tokens : Fresh(t)' => Fresh(t), waiting' = None \/ waiting' = waiting
        PROVE  SingleInv'
    BY <1>0, <1>1, AttemptedKept, SingleFrame DEF Inserted
  <1>2. UNCHANGED approvals => \A t \in Tokens : Fresh(t)' => Fresh(t)
    BY DEF Fresh
  <1>3. CASE \/ Machine \/ TripElsewhere \/ ScanStart
             \/ \E c \in BOOLEAN : \E i \in Inventories : ScanCommit(c, i)
             \/ \E ok \in BOOLEAN : \E i \in Inventories : ScanFail(i, ok)
             \/ \E how \in GitOutcomes : GitMove(how)
             \/ \E a \in ActIds : ExecOpen(a) \/ ExecDie(a)
             \/ \E a \in ActIds : \E how \in GitOutcomes : ExecRemove(a, how)
             \/ UNCHANGED vars
    <2>1. UNCHANGED <<act, approvals, waiting>>
      BY <1>3, MachineFrame DEF TripElsewhere, ScanStart, ScanCommit, ScanFail, GitMove, ExecOpen,
         ExecDie, ExecRemove, Foreground, store, memory, vars
    <2>. QED
      BY <1>1, <1>2, <2>1
  <1>4. CASE Restart
    <2>1. UNCHANGED act /\ waiting' = None
          /\ \A t \in Tokens : approvals'[t] = IF approvals[t] = None THEN None ELSE Lost
      BY <1>4 DEF Restart, store
    <2>2. \A t \in Tokens : Fresh(t)' => Fresh(t)
      BY <2>1, WorktreeAssumption DEF Fresh
    <2>. QED
      BY <1>1, <2>1, <2>2
  <1>5. ASSUME NEW t \in Tokens, NEW k \in Kinds, NEW ok \in BOOLEAN, Preview(t, k, ok) PROVE SingleInv'
    <2>1. UNCHANGED <<act, waiting>> /\ approvals[t] = None
      BY <1>5 DEF Preview, store
    <2>2. \A u \in Tokens : u # t => approvals'[u] = approvals[u] \/ (approvals'[u] = Lost /\ approvals[u] # None)
      BY <1>5 DEF Preview
    <2>3. \A u \in Tokens : Fresh(u)' => Fresh(u)
      BY <2>1, <2>2, WorktreeAssumption DEF Fresh
    <2>. QED
      BY <1>1, <2>1, <2>3
  <1>6. ASSUME NEW i \in BOOLEAN, NEW ok \in BOOLEAN, ApplyRefused(i, ok) PROVE SingleInv'
    <2>1. UNCHANGED approvals /\ waiting' = None
      BY <1>6 DEF ApplyRefused
    <2>2. Inserted({"rejected"})
      BY <1>6, LedgerReject DEF LaneInv
    <2>. QED
      BY <1>1, <1>2, <2>1, <2>2
  <1>7. ASSUME \/ \E ok \in BOOLEAN : MoveError(ok)
               \/ \E r, ok \in BOOLEAN : MoveRecord(r, ok)
        PROVE  SingleInv'
    <2>1. UNCHANGED <<approvals, waiting>>
      BY <1>7 DEF MoveError, MoveRecord
    <2>2. job.action \in ActIds /\ act[job.action] \in ActType /\ act[job.action].result # "rejected"
      BY <1>7 DEF MoveError, MoveRecord, LaneInv, LedgerInv, TypeInv, TypeOK, OrNone, LaneOK, MoveJob, Moving
    <2>3. UNCHANGED act \/ \E r : act' = [act EXCEPT ![job.action].result = r]
      BY <1>7 DEF MoveError, MoveRecord, FinishIf, Finish
    <2>. QED
      BY <1>1, <1>2, <2>1, <2>2, <2>3
  <1>8. ASSUME NEW a \in ActIds, NEW r \in BOOLEAN, NEW ok \in BOOLEAN, PurgeComplete(a, r, ok)
        PROVE  SingleInv'
    <2>1. UNCHANGED <<approvals, waiting>>
      BY <1>8 DEF PurgeComplete
    <2>2. act[a] \in ActType /\ act[a].result # "rejected"
      BY <1>8 DEF PurgeComplete, Stage, LaneInv, LedgerInv, TypeInv, TypeOK, OrNone
    <2>3. UNCHANGED act \/ \E o : act' = [act EXCEPT ![a].result = o]
      BY <1>8 DEF PurgeComplete, FinishIf, Finish
    <2>. QED
      BY <1>1, <1>2, <2>1, <2>2, <2>3
  <1>. QED
    BY <1>3, <1>4, <1>5, <1>6, <1>7, <1>8, SingleApply, SingleAttempt, NextStep DEF Step

\* A token is attempted at most once in every reachable state.
LEMMA SingleCorrect == Spec => []SingleInv
  <1>1. Init => SingleInv
    BY DEF Init, SingleInv, Attempted
  <1>. QED
    BY <1>1, StepSingle, LaneInvCorrect, PTL DEF Spec

----------------------------------------------------------------------------
(* The lane implements ApprovalLedger. *)

Entries == [a \in ActIds |-> LedgerEntry(a)]
Moved == {a \in ActIds : Mutated(a)}
StateOf(result) == IF result \in {"attempting", "purging"} THEN "open"
                   ELSE IF result \in {"retired", "restored"} THEN "done" ELSE "stopped"

\* Steps that move nothing and leave every entry as it was are stutters.
LEMMA PromiseStutter ==
    ASSUME UNCHANGED muts, \A a \in ActIds : LedgerEntry(a)' = LedgerEntry(a)
    PROVE  [Promise!Next]_(Promise!vars)
  <1>1. Entries' = Entries
    BY DEF Entries
  <1>2. Moved' = Moved
    BY DEF Moved, Mutated
  <1>. QED
    BY <1>1, <1>2 DEF Promise!vars, Entries, Moved

\* A rejected row is no entry.
LEMMA PromiseRejected ==
    ASSUME TypeOK, UNCHANGED muts, Inserted({"rejected"})
    PROVE  [Promise!Next]_(Promise!vars)
  <1>1. \A a \in ActIds : /\ act[a] # None => act'[a] = act[a]
                          /\ act'[a] # None /\ act[a] = None => act'[a].result = "rejected"
    BY InsertedFrame
  <1>2. \A a \in ActIds : LedgerEntry(a)' = LedgerEntry(a)
    BY <1>1 DEF LedgerEntry
  <1>. QED
    BY <1>2, PromiseStutter

\* The entry of an attempt carries its token and the state of its result.
LEMMA EntryOf ==
    ASSUME NEW r \in ActType, r.result # "rejected"
    PROVE  /\ r # None /\ StateOf(r.result) \in {"open", "done", "stopped"}
           /\ [grant |-> r.token, state |-> StateOf(r.result)] # None
           /\ \A a : act[a] = r =>
                LedgerEntry(a) = [grant |-> r.token, state |-> StateOf(r.result)]
  <1>1. [grant |-> r.token, state |-> StateOf(r.result)] \in Promise!Entry
    BY DEF StateOf, Promise!Entry, Promise!States, ActType
  <1>. QED
    BY <1>1, NoEntryAssumption, NoRecordAssumption DEF LedgerEntry, StateOf

\* A new attempt is an Intend: its token was not spent before.
LEMMA PromiseIntend ==
    ASSUME LaneInv, SingleInv, waiting # None, NEW i \in ActIds, NEW k \in WtKinds,
           NEW r \in {"attempting", "purging", "failed"}, Begin(i, Row(k, waiting.token, r)),
           UNCHANGED muts
    PROVE  [Promise!Next]_(Promise!vars)
  <1>. DEFINE t == waiting.token
              e == [grant |-> t, state |-> StateOf(r)]
  <1>0. TypeOK /\ t \in Tokens /\ act[i] = None /\ r \in WtResults
    BY DEF LaneInv, TypeInv, TypeOK, OrNone, WaitType, Begin, WtResults
  <1>1. Row(k, t, r) \in ActType /\ Row(k, t, r).result = r /\ Row(k, t, r).token = t
    BY <1>0 DEF Row, ActType
  <1>2. act'[i] = Row(k, t, r) /\ \A a \in ActIds : a # i => act'[a] = act[a]
    BY <1>0 DEF Begin, TypeOK
  <1>3. LedgerEntry(i)' = e
    BY <1>1, <1>2, NoRecordAssumption DEF LedgerEntry, StateOf
  <1>4. \A a \in ActIds : a # i => LedgerEntry(a)' = LedgerEntry(a)
    BY <1>2 DEF LedgerEntry
  <1>5. Entries' = [Entries EXCEPT ![i] = e] /\ Entries[i] = None
    BY <1>0, <1>3, <1>4 DEF Entries, LedgerEntry
  <1>6. Moved' = Moved
    BY DEF Moved, Mutated
  <1>7. ~\E a \in ActIds : Entries[a] # None /\ Entries[a].grant = t
    BY <1>0 DEF SingleInv, Attempted, Entries, LedgerEntry
  <1>8. StateOf(r) \in {"open", "stopped"}
    BY DEF StateOf
  <1>9. Promise!Intend(i, t, StateOf(r))
    BY <1>5, <1>6, <1>7, <1>8 DEF Promise!Intend, Promise!Spent, Entries, Moved
  <1>. HIDE DEF t
  <1>. QED
    BY <1>0, <1>8, <1>9 DEF Promise!Next, Promise!vars, Promise!States, Promise!Intend

\* A move or a removal is an Effect of an open attempt that had none.
LEMMA PromiseEffect ==
    ASSUME TypeOK, NEW i \in ActIds, act[i] \in ActType, act[i].result \in {"attempting", "purging"},
           ~Mutated(i), NEW m \in MutType, m.action = i, muts' = Append(muts, m), UNCHANGED act
    PROVE  [Promise!Next]_(Promise!vars)
  <1>1. Entries' = Entries
    BY DEF Entries, LedgerEntry
  <1>2. \A a : Mutated(a)' <=> Mutated(a) \/ a = i
    BY HistoryGrows
  <1>3. Moved' = Moved \cup {i} /\ i \notin Moved
    BY <1>2 DEF Moved
  <1>4. Entries[i] # None /\ Entries[i].state = "open"
    <2>1. act[i].result # "rejected" /\ StateOf(act[i].result) = "open"
      BY DEF StateOf
    <2>2. LedgerEntry(i) = [grant |-> act[i].token, state |-> "open"] /\ LedgerEntry(i) # None
      BY <2>1, EntryOf
    <2>. QED
      BY <2>2 DEF Entries
  <1>5. Promise!Effect(i)
    BY <1>1, <1>3, <1>4 DEF Promise!Effect, Entries, Moved
  <1>. QED
    BY <1>5 DEF Promise!Next, Promise!vars

\* An outcome is a Settle: done only of a move that happened.
LEMMA PromiseSettle ==
    ASSUME TypeOK, NEW i \in ActIds, act[i] \in ActType, act[i].result \in {"attempting", "purging"},
           NEW r \in {"retired", "restored", "removed", "failed", "partial"},
           r \in {"retired", "restored"} => Mutated(i),
           act' = [act EXCEPT ![i].result = r], UNCHANGED muts
    PROVE  [Promise!Next]_(Promise!vars)
  <1>. DEFINE s == StateOf(r)
  <1>1. Moved' = Moved
    BY DEF Moved, Mutated
  <1>2. /\ \A a \in ActIds : a # i => act'[a] = act[a]
        /\ act'[i].result = r /\ act'[i].token = act[i].token /\ act'[i] \in ActType
    BY DEF TypeOK, ActType, WtResults
  <1>3. s \in {"done", "stopped"} /\ (s = "done" => i \in Moved)
    BY DEF StateOf, Moved
  <1>4. LedgerEntry(i) = [grant |-> act[i].token, state |-> "open"] /\ LedgerEntry(i) # None
    <2>1. act[i].result # "rejected" /\ StateOf(act[i].result) = "open"
      BY DEF StateOf
    <2>. QED
      BY <2>1, EntryOf
  <1>5. LedgerEntry(i)' = [grant |-> act[i].token, state |-> s]
    BY <1>2, NoRecordAssumption DEF LedgerEntry, StateOf
  <1>6. \A a \in ActIds : a # i => LedgerEntry(a)' = LedgerEntry(a)
    BY <1>2 DEF LedgerEntry
  <1>. HIDE DEF s
  <1>7. Entries' = [Entries EXCEPT ![i].state = s]
    <2>1. [Entries[i] EXCEPT !.state = s] = [grant |-> act[i].token, state |-> s]
      BY <1>4 DEF Entries
    <2>. QED
      BY <1>5, <1>6, <2>1 DEF Entries
  <1>8. Entries[i] # None /\ Entries[i].state = "open"
    BY <1>4 DEF Entries
  <1>9. Promise!Settle(i, s)
    BY <1>1, <1>3, <1>7, <1>8 DEF Promise!Settle, Entries, Moved
  <1>. QED
    BY <1>3, <1>9 DEF Promise!Next, Promise!vars, Promise!States

\* Every step of the lane is a step of the ledger or none.
LEMMA StepPromise == LaneInv /\ SingleInv /\ [Next]_vars => [Promise!Next]_(Promise!vars)
  <1>. SUFFICES ASSUME LaneInv, SingleInv, [Next]_vars PROVE [Promise!Next]_(Promise!vars)
    OBVIOUS
  <1>0. TypeInv /\ TypeOK /\ LedgerInv /\ PlaceInv
    BY DEF LaneInv, TypeInv
  <1>1. CASE UNCHANGED <<act, muts>>
    BY <1>0, <1>1, PromiseRejected DEF Inserted
  <1>2. CASE \/ Machine \/ TripElsewhere \/ ScanStart \/ Restart \/ UNCHANGED vars
             \/ \E c \in BOOLEAN : \E i \in Inventories : ScanCommit(c, i)
             \/ \E ok \in BOOLEAN : \E i \in Inventories : ScanFail(i, ok)
             \/ \E t \in Tokens : \E k \in Kinds : \E ok \in BOOLEAN : Preview(t, k, ok)
             \/ \E a \in ActIds : ExecOpen(a) \/ ExecDie(a)
    BY <1>1, <1>2, MachineFrame DEF TripElsewhere, ScanStart, Restart, ScanCommit, ScanFail, Preview,
       ExecOpen, ExecDie, Foreground, machine, store, vars
  <1>3. CASE \/ \E t \in Tokens : \E m, ok \in BOOLEAN : Apply(t, m, ok)
             \/ \E i, ok \in BOOLEAN : ApplyRefused(i, ok)
    <2>1. UNCHANGED muts
      BY <1>3 DEF Apply, ApplyRefused, machine
    <2>2. Inserted({"rejected"})
      BY <1>0, <1>3, LedgerReject
    <2>. QED
      BY <1>0, <2>1, <2>2, PromiseRejected
  <1>4. ASSUME NEW a \in ActIds, NEW ok \in BOOLEAN, MoveBegin(a, ok)
        PROVE  [Promise!Next]_(Promise!vars)
    <2>1. UNCHANGED muts /\ waiting # None /\ waiting.appr.kind \in WtKinds
      BY <1>0, <1>4 DEF MoveBegin, machine, TypeOK, OrNone, WaitType, WtApproval
    <2>2. act' = act \/ Begin(a, Row(waiting.appr.kind, waiting.token, "attempting"))
      BY <1>4 DEF MoveBegin
    <2>. QED
      BY <1>1, <2>1, <2>2, PromiseIntend
  <1>5. ASSUME NEW a \in ActIds, NEW ok \in BOOLEAN, PurgePrepare(a, ok)
        PROVE  [Promise!Next]_(Promise!vars)
    <2>1. UNCHANGED muts /\ waiting # None /\ "purge" \in WtKinds
      BY <1>5 DEF PurgePrepare, machine, WtKinds
    <2>2. act' = act \/ \E r \in {"failed", "purging"} : Begin(a, Row("purge", waiting.token, r))
      BY <1>5 DEF PurgePrepare
    <2>. QED
      BY <1>1, <2>1, <2>2, PromiseIntend
  <1>6. ASSUME NEW how, GitMove(how) PROVE [Promise!Next]_(Promise!vars)
    <2>1. /\ UNCHANGED act /\ job.action \in ActIds /\ act[job.action] \in ActType
          /\ act[job.action].result = "attempting" /\ ~Mutated(job.action) /\ job \in MoveJob
      BY <1>0, <1>6 DEF GitMove, store, TypeInv, LaneOK, Moving, MoveJob, LedgerInv, TypeOK, OrNone
    <2>2. /\ Mutation(job.kind, job.action, job.row.path, job.quiet, 0) \in MutType
          /\ Mutation(job.kind, job.action, job.row.path, job.quiet, 0).action = job.action
      BY <2>1 DEF Mutation, MutType, MoveJob, WtKinds, WtRow
    <2>3. \/ UNCHANGED muts
          \/ muts' = Append(muts, Mutation(job.kind, job.action, job.row.path, job.quiet, 0))
      BY <1>6 DEF GitMove
    <2>. QED
      BY <1>0, <1>1, <2>1, <2>2, <2>3, PromiseEffect
  <1>7. ASSUME NEW a \in ActIds, NEW how, ExecRemove(a, how) PROVE [Promise!Next]_(Promise!vars)
    <2>1. /\ UNCHANGED act /\ act[a] \in ActType /\ act[a].result = "purging" /\ ~Mutated(a)
          /\ exec[a] \in ExecType
      BY <1>0, <1>7 DEF ExecRemove, Foreground, Stage, store, LedgerInv, TypeOK, OrNone
    <2>2. /\ Mutation("purge", a, exec[a].plan.row.path, 0, exec[a].sat) \in MutType
          /\ Mutation("purge", a, exec[a].plan.row.path, 0, exec[a].sat).action = a
      BY <2>1 DEF Mutation, MutType, ExecType, PlanType, WtKinds, WtRow
    <2>3. \/ UNCHANGED muts
          \/ muts' = Append(muts, Mutation("purge", a, exec[a].plan.row.path, 0, exec[a].sat))
      BY <1>7 DEF ExecRemove
    <2>. QED
      BY <1>0, <1>1, <2>1, <2>2, <2>3, PromiseEffect
  <1>8. CASE \/ \E ok \in BOOLEAN : MoveError(ok)
             \/ \E r, ok \in BOOLEAN : MoveRecord(r, ok)
    <2>1. /\ UNCHANGED muts /\ job.action \in ActIds /\ act[job.action] \in ActType
          /\ act[job.action].result = "attempting" /\ (pc = "verify" => Mutated(job.action))
      BY <1>0, <1>8 DEF MoveError, MoveRecord, machine, TypeInv, LaneOK, Moving, MoveJob, LedgerInv,
                        TypeOK, OrNone
    <2>2. \/ UNCHANGED act
          \/ \E r \in {"retired", "restored", "failed", "partial"} :
                /\ act' = [act EXCEPT ![job.action].result = r]
                /\ r \in {"retired", "restored"} => pc = "verify"
      BY <1>8 DEF MoveError, MoveRecord, FinishIf, Finish
    <2>3. PICK i \in ActIds : i = job.action
      BY <2>1
    <2>. QED
      BY <1>0, <1>1, <2>1, <2>2, <2>3, PromiseSettle
  <1>9. ASSUME NEW a \in ActIds, NEW r \in BOOLEAN, NEW ok \in BOOLEAN, PurgeComplete(a, r, ok)
        PROVE  [Promise!Next]_(Promise!vars)
    <2>1. UNCHANGED muts /\ act[a] \in ActType /\ act[a].result = "purging"
      BY <1>0, <1>9 DEF PurgeComplete, Stage, machine, LedgerInv, TypeOK, OrNone
    <2>2. \/ UNCHANGED act
          \/ \E o \in {"failed", "partial", "removed"} : act' = [act EXCEPT ![a].result = o]
      BY <1>9 DEF PurgeComplete, FinishIf, Finish
    <2>. QED
      BY <1>0, <1>1, <2>1, <2>2, PromiseSettle
  <1>. QED
    BY <1>2, <1>3, <1>4, <1>5, <1>6, <1>7, <1>8, <1>9, NextStep DEF Step

\* The worktree lane implements ApprovalLedger for every configuration: a token
\* is spent on one attempt, the row is durable before Git runs, a checkout is
\* moved or removed at most once and only while its row is open, and retired and
\* restored are recorded only of a move that happened.
THEOREM WorktreeImplementsLedger == Spec => WorktreeKeepsPromise
  <1>1. Init => Promise!Init
    <2>. SUFFICES ASSUME Init PROVE Promise!Init
      OBVIOUS
    <2>1. \A a \in ActIds : LedgerEntry(a) = None /\ ~Mutated(a)
      BY DEF Init, LedgerEntry, Mutated
    <2>. QED
      BY <2>1 DEF Promise!Init
  <1>2. LaneInv /\ SingleInv /\ [Next]_vars => [Promise!Next]_(Promise!vars)
    BY StepPromise
  <1>. QED
    BY <1>1, <1>2, LaneInvCorrect, SingleCorrect, PTL DEF Spec, WorktreeKeepsPromise, Promise!Spec

----------------------------------------------------------------------------
(* The inactivity window. *)

InWindow(r) == r # None /\ r.state \in {"observing", "stale"} /\ r.since # 0

\* Rows and plans are never ahead of the machine, and a scan is not slow.
ClockInv ==
    /\ resetAt <= now /\ retFrom <= now
    /\ pc = "scan" => job.at <= now /\ now - job.at <= MaxLag
    /\ row # None => row.head <= head /\ row.boot <= boot
    /\ waiting # None => waiting.at <= now
    /\ \A a \in ActIds : exec[a] # None =>
         exec[a].plan.row.head <= head /\ exec[a].plan.row.boot <= boot

\* A window of this daemon over this HEAD opened after the last interruption,
\* less the time a scan takes.
WindowInv ==
    /\ InWindow(row) /\ row.boot = boot /\ row.head = head => resetAt <= row.since + MaxLag
    /\ Moving /\ job.kind = "retire" => job.quiet >= StaleAfter - MaxLag
    /\ InactiveBeforeRetire


\* What a scan makes of the row: where it comes from, and what a window in
\* progress rests on.
LEMMA CollectFacts ==
    ASSUME TypeOK, NEW at, NEW active, NEW complete, NEW inventory, NEW c,
           c = CollectWorktrees(at, active, complete, inventory), c # None
    PROVE  /\ (c.head = head /\ c.boot = boot) \/ (row # None /\ c.head = row.head /\ c.boot \in {boot, row.boot})
           /\ c.state # "removed" =>
                c.path = reg \/ (row # None /\ row.state # "removed" /\ c.path = row.path)
           /\ c.state = "retired" => row # None /\ row.state = "retired" /\ c.grace = row.grace
           /\ InWindow(c) =>
                \/ inventory = "unread" /\ c = row
                \/ /\ inventory \notin {"unread", "failed"} /\ InventoryReadable
                   /\ complete /\ ~active /\ ~dirty /\ tree = reg
                   /\ \/ c.since = at
                      \/ Continuous(row, at) /\ row.since # 0 /\ c.since = row.since
  <1>1. CASE inventory = "unread"
    BY <1>1 DEF CollectWorktrees
  <1>2. CASE inventory # "unread" /\ (inventory = "failed" \/ ~InventoryReadable)
    <2>1. c = UnknownRecord(row, at)
      BY <1>2 DEF CollectWorktrees
    <2>2. row # None /\ row \in WtRow
      BY <2>1 DEF UnknownRecord, TypeOK, OrNone
    <2>. QED
      BY <2>1, <2>2 DEF UnknownRecord, InWindow, WtRow
  <1>3. CASE /\ inventory \notin {"unread", "failed"} /\ InventoryReadable
             /\ ~(reg # None /\ SourcesNow # {})
    <2>1. c = MissingRecord(row, at)
      BY <1>3 DEF CollectWorktrees
    <2>2. row # None /\ row \in WtRow
      BY <2>1 DEF MissingRecord, TypeOK, OrNone
    <2>. QED
      BY <2>1, <2>2 DEF MissingRecord, InWindow, WtRow
  <1>4. CASE /\ inventory \notin {"unread", "failed"} /\ InventoryReadable
             /\ reg # None /\ SourcesNow # {}
    <2>1. c = WorktreeRecord(CurrentRow, at, active, complete)
      BY <1>4 DEF CollectWorktrees
    <2>2. CASE CurrentRow # None /\ CurrentRow.state = "retired"
      <3>1. row = CurrentRow /\ row \in WtRow
        BY <2>2 DEF CurrentRow, TypeOK, OrNone
      <3>2. c = [row EXCEPT !.seen = at, !.registered = TRUE, !.complete = complete /\ FreshOK(row)]
        BY <2>1, <2>2, <3>1 DEF WorktreeRecord
      <3>3. /\ c.head = row.head /\ c.boot = row.boot /\ c.path = row.path /\ c.state = "retired"
            /\ c.grace = row.grace
        BY <2>2, <3>1, <3>2 DEF WtRow
      <3>. QED
        BY <2>2, <3>1, <3>3, NoRecordAssumption DEF InWindow
    <2>3. CASE ~(CurrentRow # None /\ CurrentRow.state = "retired")
      <3>. DEFINE cl == Classify(CurrentRow, at, active, complete)
      <3>1. /\ c.path = reg /\ c.state = cl.state /\ c.head = head /\ c.boot = boot /\ c.since = cl.since
        BY <2>1, <2>3 DEF WorktreeRecord
      <3>2. /\ cl.state \in {"missing", "unknown", "active", "protected", "stale", "observing"}
            /\ cl.state \in {"stale", "observing"} =>
                 /\ complete /\ ~active /\ ~dirty /\ tree = reg
                 /\ \/ cl.since = at
                    \/ /\ Continuous(CurrentRow, at) /\ CurrentRow.since # 0
                       /\ cl.since = CurrentRow.since
        BY ClassifyWindow
      <3>. HIDE DEF cl
      <3>3. Continuous(CurrentRow, at) => CurrentRow = row
        BY DEF CurrentRow, Continuous
      <3>. QED
        BY <1>4, <3>1, <3>2, <3>3 DEF InWindow
    <2>. QED
      BY <2>2, <2>3
  <1>. QED
    BY <1>1, <1>2, <1>3, <1>4

\* What recordScanFailure leaves: no window.
LEMMA UnknownFacts ==
    ASSUME NEW r \in OrNone(WtRow), NEW at, NEW c, c = UnknownRecord(r, at), c # None
    PROVE  /\ r # None /\ c.head = r.head /\ c.boot \in {boot, r.boot} /\ c.path = r.path
           /\ (c.state = "removed" <=> r.state = "removed") /\ c.state \in {"removed", "unknown"}
           /\ ~InWindow(c)
  <1>1. r # None /\ r \in WtRow
    BY DEF UnknownRecord, OrNone
  <1>. QED
    BY <1>1 DEF UnknownRecord, WtRow, InWindow

\* What a scan may make of the row and of the last interruption.
ScanRowOK ==
    /\ resetAt' \in {resetAt, job.at}
    /\ row' # None =>
         /\ row' = row \/ row'.head = head \/ (row # None /\ row'.head = row.head)
         /\ row' = row \/ row'.boot = boot \/ (row # None /\ row'.boot = row.boot)
         /\ row'.state # "removed" =>
              row'.path = reg \/ (row # None /\ row.state # "removed" /\ row'.path = row.path)
         /\ row'.state = "retired" => row # None /\ row.state = "retired" /\ row'.grace = row.grace
         /\ InWindow(row') => \/ row' = row /\ resetAt' = resetAt
                              \/ row'.since = job.at
                              \/ /\ Continuous(row, job.at) /\ row.since # 0
                                 /\ row'.since = row.since /\ resetAt' = resetAt

\* A scan collects the row or makes it unknown, and records an interruption
\* only with a row that has no window or a new one.
LEMMA ScanRow ==
    ASSUME TypeOK, LaneOK,
           \/ \E c \in BOOLEAN : \E i \in Inventories : ScanCommit(c, i)
           \/ \E ok \in BOOLEAN : \E i \in Inventories : ScanFail(i, ok)
    PROVE  /\ job \in ScanJob /\ pc = "scan" /\ pc' = "idle" /\ ScanRowOK
           /\ UNCHANGED <<now, tree, reg, other, head, retFrom, muts, act, boot, waiting, plans, exec>>
  <1>0. /\ job \in ScanJob /\ pc = "scan" /\ pc' = "idle"
        /\ UNCHANGED <<now, tree, reg, other, head, retFrom, muts, act, boot, waiting, plans, exec>>
    BY DEF ScanCommit, ScanFail, Release, place, content, LaneOK
  <1>1. ASSUME NEW c \in BOOLEAN, NEW i \in Inventories, ScanCommit(c, i) PROVE ScanRowOK
    <2>1. CASE ~Due(job.at)
      BY <1>1, <2>1 DEF ScanCommit, ScanRowOK
    <2>2. CASE Due(job.at)
      <3>1. /\ row' = CollectWorktrees(job.at, job.active, c, i)
            /\ resetAt' = IF i # "unread" /\ (~c \/ Interrupted(job.at, job.active, i)) /\ job.at > resetAt
                          THEN job.at ELSE resetAt
        BY <1>1, <2>2 DEF ScanCommit
      <3>2. CASE row' = None
        BY <3>1, <3>2 DEF ScanRowOK
      <3>3. CASE row' # None
        <4>1. ASSUME i \notin {"unread", "failed"}, InventoryReadable, c, ~job.active, ~dirty, tree = reg,
                     Continuous(row, job.at)
              PROVE  resetAt' = resetAt
          <5>1. ~(job.at - row.seen > 2 * ScanInterval)
            <6>1. row.seen \in Nat /\ job.at \in Nat /\ ScanInterval \in Nat
              BY <1>0, <4>1, Numbers DEF Continuous, TypeOK, OrNone, WtRow, ScanJob
            <6>. QED
              BY <4>1, <6>1 DEF Continuous
          <5>. QED
            BY <3>1, <4>1, <5>1 DEF Interrupted
        <4>. QED
          BY <3>1, <3>3, <4>1, CollectFacts DEF ScanRowOK
      <3>. QED
        BY <3>2, <3>3
    <2>. QED
      BY <2>1, <2>2
  <1>2. ASSUME NEW ok \in BOOLEAN, NEW i \in Inventories, ScanFail(i, ok) PROVE ScanRowOK
    <2>. DEFINE empty == FALSE
                whole == TRUE
                col == CollectWorktrees(job.at, empty, whole, i)
    <2>0. row \in OrNone(WtRow) /\ col \in OrNone(WtRow)
      BY <1>0, CollectType DEF TypeOK, ScanJob
    <2>1. \/ UNCHANGED <<row, resetAt>>
          \/ /\ resetAt' \in {resetAt, job.at}
             /\ \/ row' = UnknownRecord(col, job.at)
                \/ row' = UnknownRecord(row, job.at)
                \/ row' = row /\ row # None /\ row.state = "retired"
      BY <1>2 DEF ScanFail
    <2>2. col # None =>
             /\ (col.head = head /\ col.boot = boot)
                  \/ (row # None /\ col.head = row.head /\ col.boot \in {boot, row.boot})
             /\ col.state # "removed" =>
                  col.path = reg \/ (row # None /\ row.state # "removed" /\ col.path = row.path)
      <3>. HIDE DEF empty, whole
      <3>. QED
        BY <1>0, CollectFacts
    <2>. HIDE DEF col
    <2>4. CASE UNCHANGED <<row, resetAt>>
      BY <2>4 DEF ScanRowOK
    <2>5. CASE /\ resetAt' \in {resetAt, job.at}
               /\ \/ row' = UnknownRecord(row, job.at)
                  \/ row' = row /\ row # None /\ row.state = "retired"
      BY <2>0, <2>5, UnknownFacts DEF ScanRowOK, InWindow
    <2>3. CASE resetAt' \in {resetAt, job.at} /\ row' = UnknownRecord(col, job.at)
      <3>1. CASE row' = None
        BY <2>3, <3>1 DEF ScanRowOK
      <3>2. CASE row' # None
        <4>1. /\ col # None /\ row'.head = col.head /\ row'.boot \in {boot, col.boot}
              /\ row'.path = col.path /\ (row'.state = "removed" <=> col.state = "removed")
              /\ row'.state # "retired" /\ ~InWindow(row')
          BY <2>0, <2>3, <3>2, UnknownFacts
        <4>. QED
          BY <2>3, <2>2, <4>1 DEF ScanRowOK
      <3>. QED
        BY <3>1, <3>2
    <2>. QED
      BY <2>1, <2>3, <2>4, <2>5
  <1>. QED
    BY <1>0, <1>1, <1>2

\* Only a commit and a restart renew what a row can be compared with, and only
\* forwards.
LEMMA MachineClock ==
    ASSUME TypeOK, LaneOK, ClockInv, Machine
    PROVE  /\ now <= now' /\ head <= head' /\ resetAt <= resetAt' /\ resetAt' <= now'
           /\ head' = head => resetAt' = resetAt
           /\ tree' = None \/ UNCHANGED <<tree, reg>>
           /\ pc = "scan" => job.at <= now' /\ now' - job.at <= MaxLag
  <1>0. now \in Nat /\ head \in Nat /\ resetAt \in Nat /\ resetAt <= now
    BY DEF TypeOK, ClockInv
  <1>1. CASE Tick
    <2>1. now' = now + 1 /\ UNCHANGED <<head, resetAt, tree, reg>> /\ (pc = "scan" => now + 1 - job.at <= MaxLag)
      BY <1>1 DEF Tick, place, content
    <2>2. pc = "scan" => job.at \in Nat /\ job.at <= now
      BY DEF LaneOK, ScanJob, ClockInv
    <2>3. pc = "scan" => job.at <= now' /\ now' - job.at <= MaxLag
      <3>. SUFFICES ASSUME pc = "scan" PROVE job.at <= now' /\ now' - job.at <= MaxLag
        OBVIOUS
      <3>1. PICK t \in Nat : t = job.at
        BY <2>2
      <3>. QED
        BY <1>0, <2>1, <2>2, <3>1
    <2>. QED
      BY <1>0, <2>1, <2>3
  <1>2. CASE ~Tick
    <2>1. /\ now' = now /\ (tree' = None \/ UNCHANGED <<tree, reg>>)
          /\ \/ head' = head /\ resetAt' = resetAt
             \/ head' = head + 1 /\ resetAt' = now
      BY <1>2 DEF Machine, Commit, DirtyFlip, Delete, Touch, Use, Occupy, place, content
    <2>. QED
      BY <1>0, <2>1 DEF ClockInv
  <1>. QED
    BY <1>1, <1>2

\* Steps that leave the rows and plans of the lane alone.
LEMMA ClockFrame ==
    ASSUME TypeOK, TypeOK', ClockInv, now <= now', head <= head', boot' = boot,
           resetAt' <= now', retFrom' <= now',
           pc' = "scan" => job'.at <= now' /\ now' - job'.at <= MaxLag,
           row' # None => \/ row # None /\ row'.head = row.head /\ row'.boot = row.boot
                          \/ row'.head <= head /\ row'.boot <= boot,
           waiting' # None => waiting' = waiting \/ waiting'.at <= now',
           \A a \in ActIds : exec'[a] # None =>
              \/ exec[a] # None /\ exec'[a].plan = exec[a].plan
              \/ exec'[a].plan.row.head <= head /\ exec'[a].plan.row.boot <= boot
    PROVE  ClockInv'
  <1>0. now \in Nat /\ head \in Nat /\ boot \in Nat /\ now' \in Nat /\ head' \in Nat
    BY DEF TypeOK
  <1>1. row' # None => row'.head \in Nat /\ row'.boot \in Nat
    BY DEF TypeOK, OrNone, WtRow
  <1>2. waiting' # None => waiting'.at \in Nat
    BY DEF TypeOK, OrNone, WaitType
  <1>3. \A a \in ActIds : exec'[a] # None =>
           exec'[a].plan.row.head \in Nat /\ exec'[a].plan.row.boot \in Nat
    <2>1. \A a \in ActIds : exec'[a] # None => exec'[a] \in ExecType
      BY DEF TypeOK, OrNone
    <2>2. \A e \in ExecType : e.plan.row.head \in Nat /\ e.plan.row.boot \in Nat
      BY DEF ExecType, PlanType, WtRow
    <2>. QED
      BY <2>1, <2>2
  <1>4. row' # None => row'.head <= head' /\ row'.boot <= boot'
    BY <1>0, <1>1 DEF ClockInv
  <1>5. waiting' # None => waiting'.at <= now'
    BY <1>0, <1>2 DEF ClockInv
  <1>6. \A a \in ActIds : exec'[a] # None =>
           exec'[a].plan.row.head <= head' /\ exec'[a].plan.row.boot <= boot'
    BY <1>0, <1>3 DEF ClockInv
  <1>. QED
    BY <1>4, <1>5, <1>6 DEF ClockInv

\* The steps that leave the clock's witnesses alone, except as stated.
LEMMA StepClock == LaneInv /\ LaneInv' /\ ClockInv /\ [Next]_vars => ClockInv'
  <1>. SUFFICES ASSUME LaneInv, LaneInv', ClockInv, [Next]_vars PROVE ClockInv'
    OBVIOUS
  <1>0. /\ TypeOK /\ TypeOK' /\ LaneOK /\ PlaceInv /\ now \in Nat /\ resetAt \in Nat /\ retFrom \in Nat
        /\ head \in Nat /\ boot \in Nat /\ resetAt <= now /\ retFrom <= now
        /\ row # None => row.head <= head /\ row.boot <= boot
    BY DEF LaneInv, TypeInv, TypeOK, ClockInv
  <1>1. ASSUME UNCHANGED <<now, head, boot>>, resetAt' \in {resetAt, now}, retFrom' \in {retFrom, now},
               pc' = "scan" => UNCHANGED <<pc, job>> \/ job'.at = now,
               row' # None => \/ row # None /\ row'.head = row.head /\ row'.boot = row.boot
                              \/ row'.head <= head /\ row'.boot <= boot,
               waiting' # None => waiting' = waiting \/ waiting'.at = now,
               \A a \in ActIds : exec'[a] # None =>
                  \/ exec[a] # None /\ exec'[a].plan = exec[a].plan
                  \/ exec'[a].plan.row.head <= head /\ exec'[a].plan.row.boot <= boot
        PROVE  ClockInv'
    <2>1. pc' = "scan" => job'.at <= now' /\ now' - job'.at <= MaxLag
      BY <1>0, <1>1, Numbers DEF ClockInv
    <2>2. resetAt' <= now' /\ retFrom' <= now' /\ now <= now' /\ head <= head'
      BY <1>0, <1>1
    <2>3. waiting' # None => waiting' = waiting \/ waiting'.at <= now'
      BY <1>0, <1>1
    <2>. QED
      BY <1>0, <1>1, <2>1, <2>2, <2>3, ClockFrame
  <1>2. CASE Machine
    <2>1. /\ now <= now' /\ head <= head' /\ resetAt' <= now'
          /\ pc = "scan" => job.at <= now' /\ now' - job.at <= MaxLag
      BY <1>0, <1>2, MachineClock
    <2>2. UNCHANGED <<row, boot, waiting, pc, job, exec, retFrom>> /\ now' \in Nat
      BY <1>0, <1>2, MachineFrame DEF TypeOK
    <2>3. retFrom' <= now'
      BY <1>0, <2>1, <2>2
    <2>. QED
      BY <1>0, <2>1, <2>2, <2>3, ClockFrame
  <1>3. CASE \/ TripElsewhere \/ ScanStart \/ UNCHANGED vars
             \/ \E t \in Tokens : \E k \in Kinds : \E ok \in BOOLEAN : Preview(t, k, ok)
             \/ \E t \in Tokens : \E m, ok \in BOOLEAN : Apply(t, m, ok)
             \/ \E i, ok \in BOOLEAN : ApplyRefused(i, ok)
             \/ \E a \in ActIds : \E ok \in BOOLEAN : MoveBegin(a, ok)
             \/ \E how \in GitOutcomes : GitMove(how)
             \/ \E ok \in BOOLEAN : MoveError(ok)
    <2>1. UNCHANGED <<now, head, boot, row, exec>>
      BY <1>3 DEF TripElsewhere, ScanStart, Preview, Apply, ApplyRefused, MoveBegin, GitMove, MoveError,
                  machine, content, store, memory, vars
    <2>2. resetAt' \in {resetAt, now} /\ retFrom' \in {retFrom, now}
      BY <1>3 DEF TripElsewhere, ScanStart, Preview, Apply, ApplyRefused, MoveBegin, GitMove, MoveError,
                  machine, vars
    <2>3. pc' = "scan" => UNCHANGED <<pc, job>> \/ job'.at = now
      <3>1. CASE ScanStart
        <4>1. job'.at = now
          BY <3>1 DEF ScanStart
        <4>. QED
          BY <4>1
      <3>2. CASE \/ \E a \in ActIds : \E ok \in BOOLEAN : MoveBegin(a, ok)
                 \/ \E how \in GitOutcomes : GitMove(how)
                 \/ \E ok \in BOOLEAN : MoveError(ok)
        <4>1. pc' # "scan" \/ UNCHANGED <<pc, job>>
          BY <3>2 DEF MoveBegin, GitMove, MoveError, Release, lane
        <4>. QED
          BY <4>1
      <3>3. CASE ~ScanStart /\ ~\/ \E a \in ActIds : \E ok \in BOOLEAN : MoveBegin(a, ok)
                                \/ \E how \in GitOutcomes : GitMove(how)
                                \/ \E ok \in BOOLEAN : MoveError(ok)
        <4>1. UNCHANGED <<pc, job>>
          BY <1>3, <3>3 DEF TripElsewhere, Preview, Apply, ApplyRefused, lane, vars
        <4>. QED
          BY <4>1
      <3>. QED
        BY <3>1, <3>2, <3>3
    <2>4. waiting' # None => waiting' = waiting \/ waiting'.at = now
      <3>1. ASSUME NEW t \in Tokens, NEW m \in BOOLEAN, NEW ok \in BOOLEAN, Apply(t, m, ok)
            PROVE  waiting' = None \/ waiting'.at = now
        <4>1. waiting' = None \/ waiting' = [token |-> t, appr |-> approvals[t], at |-> now]
          BY <3>1 DEF Apply
        <4>. QED
          BY <4>1
      <3>2. CASE ~\E t \in Tokens : \E m, ok \in BOOLEAN : Apply(t, m, ok)
        BY <1>3, <3>2 DEF TripElsewhere, ScanStart, Preview, ApplyRefused, MoveBegin, GitMove,
                          MoveError, memory, vars
      <3>. QED
        BY <3>1, <3>2
    <2>. QED
      BY <1>1, <2>1, <2>2, <2>3, <2>4
  <1>4. CASE \/ \E c \in BOOLEAN : \E i \in Inventories : ScanCommit(c, i)
             \/ \E ok \in BOOLEAN : \E i \in Inventories : ScanFail(i, ok)
    <2>1. /\ job \in ScanJob /\ pc = "scan" /\ pc' = "idle" /\ ScanRowOK
          /\ UNCHANGED <<now, head, retFrom, boot, waiting, exec>>
      BY <1>0, <1>4, ScanRow
    <2>2. resetAt' <= now'
      BY <1>0, <2>1 DEF ClockInv, ScanRowOK
    <2>3. row' # None => row'.head <= head /\ row'.boot <= boot
      <3>. SUFFICES ASSUME row' # None PROVE row'.head <= head /\ row'.boot <= boot
        OBVIOUS
      <3>1. /\ row' = row \/ row'.head = head \/ (row # None /\ row'.head = row.head)
            /\ row' = row \/ row'.boot = boot \/ (row # None /\ row'.boot = row.boot)
        BY <2>1 DEF ScanRowOK
      <3>2. row'.head = head \/ (row # None /\ row'.head = row.head)
        BY <3>1
      <3>3. row'.boot = boot \/ (row # None /\ row'.boot = row.boot)
        BY <3>1
      <3>4. PICK h \in Nat, b \in Nat : h = row'.head /\ b = row'.boot
        BY <1>0 DEF TypeOK, OrNone, WtRow
      <3>. QED
        BY <1>0, <3>2, <3>3, <3>4
    <2>4. now <= now' /\ head <= head' /\ retFrom' <= now' /\ boot' = boot /\ pc' # "scan"
      BY <1>0, <2>1
    <2>. QED
      BY <1>0, <2>1, <2>2, <2>3, <2>4, ClockFrame
  <1>5. CASE \E r, ok \in BOOLEAN : MoveRecord(r, ok)
    <2>1. /\ UNCHANGED <<now, head, resetAt, retFrom, boot, waiting, exec>> /\ pc' = "idle"
          /\ row' = row \/ row' = RetiredRow \/ row' = RestoredRow
      BY <1>5 DEF MoveRecord, machine, content, Release
    <2>2. job.row = row /\ row \in WtRow /\ row # None
      BY <1>0, <1>5 DEF MoveRecord, PlaceInv, Moving, TypeOK, OrNone
    <2>3. row'.head = row.head /\ row'.boot = row.boot
      BY <2>1, <2>2 DEF RetiredRow, RestoredRow, WtRow
    <2>. QED
      BY <1>1, <2>1, <2>2, <2>3
  <1>6. ASSUME NEW a \in ActIds, NEW ok \in BOOLEAN, PurgePrepare(a, ok) PROVE ClockInv'
    <2>1. UNCHANGED <<now, head, resetAt, retFrom, boot, row, pc, job>> /\ waiting' = None
      BY <1>6 DEF PurgePrepare, machine, content, lane
    <2>2. Plan(waiting, a).row = row /\ row # None
      BY <1>0, <1>6, AuthorisedRow, NoRecordAssumption DEF Plan, PurgePrepare
    <2>3. \A b \in ActIds : \/ exec'[b] = exec[b]
                            \/ exec'[b] = [plan |-> Plan(waiting, a), stage |-> "ready",
                                           sat |-> 0, failed |-> FALSE]
      BY <1>0, <1>6 DEF PurgePrepare, TypeOK
    <2>4. \A b \in ActIds : exec'[b] # None =>
             \/ exec[b] # None /\ exec'[b].plan = exec[b].plan
             \/ exec'[b].plan.row.head <= head /\ exec'[b].plan.row.boot <= boot
      BY <1>0, <2>2, <2>3
    <2>. QED
      BY <1>1, <2>1, <2>4
  <1>7. ASSUME NEW a \in ActIds, \/ ExecOpen(a) \/ ExecDie(a) \/ \E how \in GitOutcomes : ExecRemove(a, how)
                                 \/ \E r, ok \in BOOLEAN : PurgeComplete(a, r, ok)
        PROVE  ClockInv'
    <2>1. UNCHANGED <<now, head, resetAt, retFrom, boot, waiting, pc, job>>
      BY <1>7 DEF ExecOpen, ExecDie, ExecRemove, PurgeComplete, Foreground, machine, content, memory, lane
    <2>2. \A b \in ActIds : exec'[b] # None => exec[b] # None /\ exec'[b].plan = exec[b].plan
      BY <1>0, <1>7, ExecKeepsPlan
    <2>3. row' = row \/ (row' = RemovedRow(exec[a].plan) /\ exec[a] # None)
      BY <1>7 DEF ExecOpen, ExecDie, ExecRemove, PurgeComplete, Foreground, store, Stage
    <2>4. exec[a] # None => /\ RemovedRow(exec[a].plan).head = exec[a].plan.row.head
                            /\ RemovedRow(exec[a].plan).boot = exec[a].plan.row.boot
      <3>1. exec[a] # None => exec[a].plan.row \in WtRow
        BY <1>0 DEF TypeOK, OrNone, ExecType, PlanType
      <3>. QED
        BY <3>1 DEF RemovedRow, WtRow
    <2>5. row' # None => \/ row # None /\ row'.head = row.head /\ row'.boot = row.boot
                         \/ row'.head <= head /\ row'.boot <= boot
      BY <2>3, <2>4 DEF ClockInv
    <2>. QED
      BY <1>1, <2>1, <2>2, <2>5
  <1>8. CASE Restart
    <2>1. /\ UNCHANGED <<now, head, retFrom, row, exec>> /\ resetAt' = now /\ boot' = boot + 1
          /\ waiting' = None /\ pc' = "idle"
      BY <1>8 DEF Restart, content, store, Release
    <2>2. row # None => row.boot \in Nat
      BY <1>0 DEF TypeOK, OrNone, WtRow
    <2>3. \A a \in ActIds : exec[a] # None => exec[a].plan.row.boot \in Nat
      BY <1>0 DEF TypeOK, OrNone, ExecType, PlanType, WtRow
    <2>. QED
      BY <1>0, <2>1, <2>2, <2>3 DEF ClockInv
  <1>. QED
    BY <1>2, <1>3, <1>4, <1>5, <1>6, <1>7, <1>8, NextStep DEF Step

\* Steps that move neither the machine's clocks nor a job leave every window as
\* it was, or close it.
LEMMA WindowFrame ==
    ASSUME WindowInv, UNCHANGED <<resetAt, head, boot>>, row' = row \/ ~InWindow(row'),
           UNCHANGED <<pc, job>> \/ pc' \in {"idle", "scan"},
           muts' = muts \/ InactiveBeforeRetire'
    PROVE  WindowInv'
  <1>1. InWindow(row') /\ row'.boot = boot' /\ row'.head = head' => resetAt' <= row'.since + MaxLag
    BY DEF WindowInv
  <1>2. (Moving /\ job.kind = "retire" => job.quiet >= StaleAfter - MaxLag)'
    BY DEF WindowInv, Moving
  <1>3. InactiveBeforeRetire'
    BY DEF WindowInv, InactiveBeforeRetire
  <1>4. InWindow(row)' <=> InWindow(row')
    BY DEF InWindow
  <1>. QED
    BY <1>1, <1>2, <1>3, <1>4 DEF WindowInv

\* A retirement begins only from a window of this daemon over this HEAD.
LEMMA MoveBeginQuiet ==
    ASSUME TypeOK, ClockInv, WindowInv, NEW a \in ActIds, NEW ok \in BOOLEAN, MoveBegin(a, ok),
           pc' = "git", job'.kind = "retire"
    PROVE  job'.quiet >= StaleAfter - MaxLag
  <1>1. /\ waiting.appr.kind = "retire" /\ Authorised(waiting) /\ job'.quiet = now - resetAt
    BY DEF MoveBegin, lane, Idle
  <1>2. ValidRemoval(row)
    BY <1>1 DEF Authorised, Valid
  <1>3. /\ row # None /\ row.state = "stale" /\ row.boot = boot /\ row.since # 0
        /\ now - row.since >= StaleAfter /\ row.head = head
    BY <1>2 DEF ValidRemoval, FreshOK
  <1>4. resetAt <= row.since + MaxLag
    BY <1>3 DEF WindowInv, InWindow
  <1>5. /\ now \in Nat /\ resetAt \in Nat /\ StaleAfter \in Nat /\ MaxLag \in Nat
    BY Numbers DEF TypeOK
  <1>6. PICK s \in Nat : s = row.since
    BY <1>3 DEF TypeOK, OrNone, WtRow
  <1>. QED
    BY <1>1, <1>3, <1>4, <1>5, <1>6

\* A move that Git makes is as quiet as its job says.
LEMMA QuietGrows ==
    ASSUME TypeOK, TypeOK', InactiveBeforeRetire, NEW m \in MutType, muts' = Append(muts, m),
           m.op = "retire" => m.quiet >= StaleAfter - MaxLag
    PROVE  InactiveBeforeRetire'
  <1>1. muts \in Seq(MutType) /\ Len(muts') = Len(muts) + 1 /\ muts'[Len(muts) + 1] = m
        /\ \A k \in 1..Len(muts) : muts'[k] = muts[k]
    BY DEF TypeOK
  <1>2. \A k \in 1..Len(muts') : k \in 1..Len(muts) \/ k = Len(muts) + 1
    BY <1>1
  <1>. QED
    BY <1>1, <1>2 DEF InactiveBeforeRetire

\* Every step keeps the bound on the windows, and so on what is retired.
LEMMA StepWindow ==
    LaneInv /\ LaneInv' /\ ClockInv /\ WindowInv /\ [Next]_vars => WindowInv'
  <1>. SUFFICES ASSUME LaneInv, LaneInv', ClockInv, WindowInv, [Next]_vars PROVE WindowInv'
    OBVIOUS
  <1>0. /\ TypeOK /\ TypeOK' /\ LaneOK /\ PlaceInv /\ now \in Nat /\ resetAt \in Nat
        /\ head \in Nat /\ boot \in Nat /\ resetAt <= now /\ InactiveBeforeRetire
        /\ row # None => row.head <= head /\ row.boot <= boot
    BY DEF LaneInv, TypeInv, TypeOK, ClockInv, WindowInv
  <1>r. row # None => row.head \in Nat /\ row.boot \in Nat /\ row.since \in Nat
    BY <1>0 DEF TypeOK, OrNone, WtRow
  <1>1. CASE Machine
    <2>1. UNCHANGED <<row, boot, pc, job, muts>> /\ (head' = head => resetAt' = resetAt) /\ head' >= head
      BY <1>0, <1>1, MachineFrame, MachineClock
    <2>2. CASE head' = head
      BY <2>1, <2>2, WindowFrame
    <2>3. CASE head' # head
      <3>1. row # None => row.head # head'
        BY <1>0, <1>r, <2>1, <2>3
      <3>. QED
        BY <2>1, <3>1 DEF WindowInv, InWindow, Moving, InactiveBeforeRetire
    <2>. QED
      BY <2>2, <2>3
  <1>2. CASE \/ TripElsewhere \/ ScanStart \/ UNCHANGED vars
             \/ \E t \in Tokens : \E k \in Kinds : \E ok \in BOOLEAN : Preview(t, k, ok)
             \/ \E t \in Tokens : \E m, ok \in BOOLEAN : Apply(t, m, ok)
             \/ \E i, ok \in BOOLEAN : ApplyRefused(i, ok)
             \/ \E ok \in BOOLEAN : MoveError(ok)
    <2>1. UNCHANGED <<resetAt, head, boot, row, muts>>
      BY <1>2 DEF TripElsewhere, ScanStart, Preview, Apply, ApplyRefused, MoveError,
                  machine, content, store, memory, vars
    <2>2. UNCHANGED <<pc, job>> \/ pc' \in {"idle", "scan"}
      BY <1>2 DEF TripElsewhere, ScanStart, Preview, Apply, ApplyRefused, MoveError, Release, lane, vars
    <2>. QED
      BY <2>1, <2>2, WindowFrame
  <1>3. CASE \/ \E c \in BOOLEAN : \E i \in Inventories : ScanCommit(c, i)
             \/ \E ok \in BOOLEAN : \E i \in Inventories : ScanFail(i, ok)
    <2>1. /\ job \in ScanJob /\ pc = "scan" /\ pc' = "idle" /\ ScanRowOK
          /\ UNCHANGED <<now, head, boot, muts>>
      BY <1>0, <1>3, ScanRow
    <2>2. PICK t \in Nat : t = job.at
      BY <2>1 DEF ScanJob
    <2>3. t <= now /\ now - t <= MaxLag /\ resetAt' \in {resetAt, t}
      BY <2>1, <2>2 DEF ClockInv, ScanRowOK
    <2>4. ASSUME InWindow(row'), row'.boot = boot, row'.head = head
          PROVE  resetAt' <= row'.since + MaxLag
      <3>1. CASE row' = row /\ resetAt' = resetAt
        BY <2>4, <3>1 DEF WindowInv
      <3>2. CASE row'.since = t
        BY <1>0, <2>2, <2>3, <3>2, Numbers
      <3>3. CASE /\ Continuous(row, job.at) /\ row.since # 0
                 /\ row'.since = row.since /\ resetAt' = resetAt
        <4>1. InWindow(row) /\ row.boot = boot /\ row.head = head
          BY <3>3 DEF Continuous, InWindow
        <4>. QED
          BY <3>3, <4>1 DEF WindowInv
      <3>4. row' # None
        BY <2>4 DEF InWindow
      <3>5. \/ row' = row /\ resetAt' = resetAt
            \/ row'.since = job.at
            \/ /\ Continuous(row, job.at) /\ row.since # 0
               /\ row'.since = row.since /\ resetAt' = resetAt
        BY <2>1, <2>4, <3>4 DEF ScanRowOK
      <3>. QED
        BY <2>2, <3>1, <3>2, <3>3, <3>5
    <2>5. InWindow(row)' <=> InWindow(row')
      BY DEF InWindow
    <2>. QED
      BY <1>0, <2>1, <2>4, <2>5 DEF WindowInv, Moving, InactiveBeforeRetire
  <1>4. ASSUME NEW a \in ActIds, NEW ok \in BOOLEAN, MoveBegin(a, ok) PROVE WindowInv'
    <2>1. UNCHANGED <<resetAt, head, boot, row, muts>> /\ (UNCHANGED <<pc, job>> \/ pc' = "git")
      BY <1>4 DEF MoveBegin, machine, content, lane
    <2>2. pc' = "git" /\ job'.kind = "retire" => job'.quiet >= StaleAfter - MaxLag
      BY <1>0, <1>4, MoveBeginQuiet
    <2>. QED
      BY <2>1, <2>2 DEF WindowInv, InWindow, Moving, InactiveBeforeRetire
  <1>5. ASSUME NEW how, GitMove(how) PROVE WindowInv'
    <2>1. /\ pc = "git" /\ pc' \in {"verify", "error"} /\ job \in MoveJob
          /\ UNCHANGED <<head, boot, row, job>>
          /\ \/ UNCHANGED <<resetAt, muts>>
             \/ /\ muts' = Append(muts, Mutation(job.kind, job.action, job.row.path, job.quiet, 0))
                /\ resetAt' = resetAt \/ job.kind = "restore"
      BY <1>0, <1>5 DEF GitMove, content, store, memory, LaneOK, Moving
    <2>2. /\ Mutation(job.kind, job.action, job.row.path, job.quiet, 0) \in MutType
          /\ Mutation(job.kind, job.action, job.row.path, job.quiet, 0).op = job.kind
          /\ Mutation(job.kind, job.action, job.row.path, job.quiet, 0).quiet = job.quiet
      BY <2>1 DEF Mutation, MutType, MoveJob, WtKinds, WtRow
    <2>3. job.kind = "retire" => job.quiet >= StaleAfter - MaxLag
      BY <2>1 DEF WindowInv, Moving
    <2>4. InactiveBeforeRetire'
      BY <1>0, <2>1, <2>2, <2>3, QuietGrows DEF InactiveBeforeRetire
    <2>5. job.kind = "restore" => ~InWindow(row)
      BY <1>0, <2>1 DEF PlaceInv, Moving, InWindow
    <2>. QED
      BY <2>1, <2>3, <2>4, <2>5 DEF WindowInv, InWindow, Moving
  <1>6. CASE \E r, ok \in BOOLEAN : MoveRecord(r, ok)
    <2>1. /\ UNCHANGED <<head, resetAt, boot, muts>> /\ pc' = "idle"
          /\ row' = row \/ row' = RetiredRow \/ row' = RestoredRow
      BY <1>6 DEF MoveRecord, machine, content, Release
    <2>2. job.row = row /\ row \in WtRow /\ row # None
      BY <1>0, <1>6 DEF MoveRecord, PlaceInv, Moving, TypeOK, OrNone
    <2>3. RetiredRow.state = "retired" /\ RestoredRow.since = 0
      BY <2>2 DEF RetiredRow, RestoredRow, WtRow
    <2>4. row' = row \/ ~InWindow(row')
      BY <2>1, <2>3 DEF InWindow
    <2>. QED
      BY <2>1, <2>4, WindowFrame
  <1>7. CASE \/ \E a \in ActIds : \E ok \in BOOLEAN : PurgePrepare(a, ok)
             \/ \E a \in ActIds : ExecOpen(a) \/ ExecDie(a)
    <2>1. UNCHANGED <<head, resetAt, boot, row, pc, job, muts>>
      <3>1. CASE \E a \in ActIds : \E ok \in BOOLEAN : PurgePrepare(a, ok)
        BY <3>1 DEF PurgePrepare, machine, content, lane
      <3>2. CASE \E a \in ActIds : ExecOpen(a) \/ ExecDie(a)
        BY <3>2 DEF ExecOpen, ExecDie, Foreground, machine, content, store, memory, lane
      <3>. QED
        BY <1>7, <3>1, <3>2
    <2>. QED
      BY <2>1, WindowFrame
  <1>8. ASSUME NEW a \in ActIds, NEW how, ExecRemove(a, how) PROVE WindowInv'
    <2>1. /\ UNCHANGED <<head, resetAt, boot, row, pc, job>> /\ exec[a] \in ExecType
          /\ \/ UNCHANGED muts
             \/ muts' = Append(muts, Mutation("purge", a, exec[a].plan.row.path, 0, exec[a].sat))
      BY <1>0, <1>8 DEF ExecRemove, Stage, Foreground, store, memory, lane, TypeOK, OrNone
    <2>2. /\ Mutation("purge", a, exec[a].plan.row.path, 0, exec[a].sat) \in MutType
          /\ Mutation("purge", a, exec[a].plan.row.path, 0, exec[a].sat).op = "purge"
      BY <2>1 DEF Mutation, MutType, ExecType, PlanType, WtKinds, WtRow
    <2>3. muts' = muts \/ InactiveBeforeRetire'
      BY <1>0, <2>1, <2>2, QuietGrows
    <2>. QED
      BY <2>1, <2>3, WindowFrame
  <1>9. ASSUME NEW a \in ActIds, NEW r \in BOOLEAN, NEW ok \in BOOLEAN, PurgeComplete(a, r, ok)
        PROVE  WindowInv'
    <2>1. /\ UNCHANGED <<head, resetAt, boot, pc, job, muts>> /\ exec[a] \in ExecType
          /\ row' = row \/ row' = RemovedRow(exec[a].plan)
      BY <1>0, <1>9 DEF PurgeComplete, Stage, machine, content, lane, TypeOK, OrNone
    <2>2. RemovedRow(exec[a].plan).state = "removed"
      BY <2>1 DEF RemovedRow, ExecType, PlanType, WtRow
    <2>3. row' = row \/ ~InWindow(row')
      BY <2>1, <2>2 DEF InWindow
    <2>. QED
      BY <2>1, <2>3, WindowFrame
  <1>10. CASE Restart
    <2>1. UNCHANGED <<head, row, muts>> /\ boot' = boot + 1 /\ pc' = "idle"
      BY <1>10 DEF Restart, content, store, Release
    <2>2. row # None => row.boot # boot'
      BY <1>0, <1>r, <2>1
    <2>. QED
      BY <1>0, <2>1, <2>2 DEF WindowInv, InWindow, Moving, InactiveBeforeRetire
  <1>. QED
    BY <1>1, <1>2, <1>3, <1>4, <1>5, <1>6, <1>7, <1>8, <1>9, <1>10, NextStep DEF Step

\* The invariant of the clocks and the windows.
LEMMA WindowCorrect == Spec => [](ClockInv /\ WindowInv)
  <1>1. Init => ClockInv /\ WindowInv
    <2>1. Init => ClockInv
      BY DEF Init, ClockInv
    <2>2. Init => WindowInv
      BY DEF Init, WindowInv, InWindow, Moving, InactiveBeforeRetire
    <2>. QED
      BY <2>1, <2>2
  <1>2. LaneInv /\ LaneInv' /\ ClockInv /\ WindowInv /\ [Next]_vars => (ClockInv /\ WindowInv)'
    BY StepClock, StepWindow
  <1>. QED
    BY <1>1, <1>2, LaneInvCorrect, PTL DEF Spec

\* For every configuration, a checkout that was moved to a retirement path had
\* been quiet for StaleAfter less the time a scan takes: no recorded failure,
\* restart, gap, change of HEAD or status or use lies in the window it rests on.
THEOREM InactiveCorrect == Spec => []InactiveBeforeRetire
  <1>1. WindowInv => InactiveBeforeRetire
    BY DEF WindowInv
  <1>. QED
    BY <1>1, WindowCorrect, PTL

----------------------------------------------------------------------------
(* Where to look for the checkout. *)

\* A move whose outcome is open or ambiguous.
MoveOpen == \E a \in ActIds : act[a] # None /\ act[a].kind # "purge"
                              /\ act[a].result \in {"attempting", "partial"}

\* Unless such a move says where to look, Git has the checkout where it is, and
\* so has its row.
TraceInv ==
    tree # None /\ (reg # tree \/ (row # None /\ row.state # "removed" /\ row.path # tree))
        => MoveOpen

\* An open move stays open where no outcome is written.
LEMMA MoveOpenKept ==
    ASSUME TypeOK, NEW R, Inserted(R), MoveOpen
    PROVE  MoveOpen'
  <1>1. \A a \in ActIds : act[a] # None => act'[a] = act[a]
    BY InsertedFrame
  <1>. QED
    BY <1>1 DEF MoveOpen

\* The outcome of a move: only one that is not ambiguous ends the search.
LEMMA TraceMoveEnd ==
    ASSUME LaneInv, TraceInv,
           \/ \E ok \in BOOLEAN : MoveError(ok)
           \/ \E r, ok \in BOOLEAN : MoveRecord(r, ok)
    PROVE  TraceInv'
  <1>0. /\ TypeOK /\ job \in MoveJob /\ job.action \in ActIds /\ act[job.action] \in ActType
        /\ act[job.action].result = "attempting" /\ act[job.action].kind # "purge"
        /\ job.row = row /\ row # None /\ row \in WtRow
    BY DEF MoveError, MoveRecord, LaneInv, TypeInv, LaneOK, Moving, MoveJob, LedgerInv, PlaceInv,
           TypeOK, OrNone
  <1>1. UNCHANGED <<tree, reg, other>>
    BY DEF MoveError, MoveRecord, machine, place
  <1>2. PICK i \in ActIds : i = job.action
    BY <1>0
  <1>3. UNCHANGED act => MoveOpen'
    BY <1>0, <1>2, NoRecordAssumption DEF MoveOpen
  <1>4. act' = [act EXCEPT ![i].result = "partial"] => MoveOpen'
    <2>. SUFFICES ASSUME act' = [act EXCEPT ![i].result = "partial"] PROVE MoveOpen'
      OBVIOUS
    <2>1. act'[i] = [act[i] EXCEPT !.result = "partial"]
      BY <1>0 DEF TypeOK
    <2>2. act'[i].result = "partial" /\ act'[i].kind # "purge" /\ act'[i] \in ActType
      BY <1>0, <1>2, <2>1 DEF ActType, WtResults
    <2>. QED
      BY <2>2, NoRecordAssumption DEF MoveOpen
  <1>5. ASSUME NEW ok \in BOOLEAN, MoveError(ok) PROVE TraceInv'
    <2>1. CASE ~ok \/ ~Exists(row.path) \/ Exists(job.to)
      <3>1. UNCHANGED act \/ act' = [act EXCEPT ![i].result = "partial"]
        BY <1>0, <1>2, <1>5, <2>1 DEF MoveError, FinishIf, Finish
      <3>. QED
        BY <1>3, <1>4, <3>1 DEF TraceInv
    <2>2. CASE Exists(row.path) /\ ~Exists(job.to)
      <3>1. tree = None \/ (tree = row.path /\ reg = row.path)
        BY <1>0, <1>5, <2>2 DEF LaneInv, PlaceInv, MoveError, Exists
      <3>2. UNCHANGED row
        BY <1>5 DEF MoveError
      <3>. QED
        BY <1>1, <3>1, <3>2 DEF TraceInv
    <2>. QED
      BY <2>1, <2>2
  <1>6. ASSUME NEW r \in BOOLEAN, NEW ok \in BOOLEAN, MoveRecord(r, ok) PROVE TraceInv'
    <2>1. CASE ok /\ r /\ ~Exists(row.path) /\ tree = job.to /\ reg = job.to
      <3>1. row' = RetiredRow \/ row' = RestoredRow
        BY <1>0, <1>6, <2>1 DEF MoveRecord
      <3>2. RetiredRow.path = job.to /\ RestoredRow.path = job.to
        BY <1>0 DEF RetiredRow, RestoredRow, WtRow
      <3>. QED
        BY <1>1, <2>1, <3>1, <3>2 DEF TraceInv
    <2>2. CASE ~(ok /\ r /\ ~Exists(row.path) /\ tree = job.to /\ reg = job.to)
      <3>1. UNCHANGED act \/ act' = [act EXCEPT ![i].result = "partial"]
        BY <1>0, <1>2, <1>6, <2>2 DEF MoveRecord, FinishIf, Finish
      <3>. QED
        BY <1>3, <1>4, <3>1 DEF TraceInv
    <2>. QED
      BY <2>1, <2>2
  <1>. QED
    BY <1>5, <1>6

\* Every step keeps the trail.
LEMMA StepTrace == LaneInv /\ TraceInv /\ [Next]_vars => TraceInv'
  <1>. SUFFICES ASSUME LaneInv, TraceInv, [Next]_vars PROVE TraceInv'
    OBVIOUS
  <1>0. TypeOK /\ TypeInv /\ LaneOK /\ LedgerInv /\ PlaceInv
    BY DEF LaneInv, TypeInv
  <1>1. ASSUME tree' = None \/ UNCHANGED <<tree, reg>>,
               UNCHANGED row \/ row' = None \/ row'.state = "removed", MoveOpen => MoveOpen'
        PROVE  TraceInv'
    BY <1>1 DEF TraceInv
  <1>2. UNCHANGED act => (MoveOpen => MoveOpen')
    BY DEF MoveOpen
  <1>3. CASE \/ Machine \/ TripElsewhere \/ ScanStart \/ Restart \/ UNCHANGED vars
             \/ \E t \in Tokens : \E k \in Kinds : \E ok \in BOOLEAN : Preview(t, k, ok)
             \/ \E a \in ActIds : ExecOpen(a) \/ ExecDie(a)
    <2>1. CASE Machine
      <3>1. UNCHANGED <<row, act>> /\ (tree' = None \/ UNCHANGED <<tree, reg>>)
        BY <2>1, MachineFrame, UnmovedFrame DEF Unmoved
      <3>. QED
        BY <1>1, <1>2, <3>1
    <2>2. CASE ~Machine
      <3>1. UNCHANGED <<row, act, tree, reg>>
        <4>1. CASE TripElsewhere \/ ScanStart \/ Restart \/ UNCHANGED vars
          BY <4>1 DEF TripElsewhere, ScanStart, Restart, machine, place, store, vars
        <4>2. CASE \/ \E t \in Tokens : \E k \in Kinds : \E ok \in BOOLEAN : Preview(t, k, ok)
                   \/ \E a \in ActIds : ExecOpen(a) \/ ExecDie(a)
          <5>1. CASE \E t \in Tokens : \E k \in Kinds : \E ok \in BOOLEAN : Preview(t, k, ok)
            BY <5>1 DEF Preview, machine, place, store
          <5>2. ASSUME NEW a \in ActIds, ExecOpen(a) \/ ExecDie(a) PROVE UNCHANGED <<row, act, tree, reg>>
            BY <5>2 DEF ExecOpen, ExecDie, Foreground, machine, place, store
          <5>. QED
            BY <4>2, <5>1, <5>2
        <4>. QED
          BY <1>3, <2>2, <4>1, <4>2
      <3>. QED
        BY <1>1, <1>2, <3>1
    <2>. QED
      BY <2>1, <2>2
  <1>4. CASE \/ \E c \in BOOLEAN : \E i \in Inventories : ScanCommit(c, i)
             \/ \E ok \in BOOLEAN : \E i \in Inventories : ScanFail(i, ok)
    <2>1. ScanRowOK /\ UNCHANGED <<tree, reg, act>>
      BY <1>0, <1>4, ScanRow
    <2>2. row' # None /\ row'.state # "removed" =>
            row'.path = reg \/ (row # None /\ row.state # "removed" /\ row'.path = row.path)
      BY <2>1 DEF ScanRowOK
    <2>. QED
      BY <1>2, <2>1, <2>2 DEF TraceInv
  <1>5. CASE \/ \E t \in Tokens : \E m, ok \in BOOLEAN : Apply(t, m, ok)
             \/ \E i, ok \in BOOLEAN : ApplyRefused(i, ok)
    <2>1. UNCHANGED <<row, tree, reg>>
      BY <1>5 DEF Apply, ApplyRefused, machine, place
    <2>2. Inserted({"rejected"})
      BY <1>0, <1>5, LedgerReject
    <2>. QED
      BY <1>0, <1>1, <2>1, <2>2, MoveOpenKept
  <1>6. ASSUME NEW a \in ActIds, NEW ok \in BOOLEAN, MoveBegin(a, ok) \/ PurgePrepare(a, ok)
        PROVE  TraceInv'
    <2>1. UNCHANGED <<row, tree, reg>>
      BY <1>6 DEF MoveBegin, PurgePrepare, machine, place
    <2>2. \A b \in ActIds : act[b] # None => act'[b] = act[b]
      BY <1>0, <1>6 DEF MoveBegin, PurgePrepare, Begin, TypeOK
    <2>3. MoveOpen => MoveOpen'
      BY <2>2 DEF MoveOpen
    <2>. QED
      BY <1>1, <2>1, <2>3
  <1>7. CASE \E how \in GitOutcomes : GitMove(how)
    <2>1. /\ UNCHANGED act /\ job.action \in ActIds /\ act[job.action] # None
          /\ act[job.action].result = "attempting" /\ act[job.action].kind # "purge"
      BY <1>0, <1>7 DEF GitMove, store, LaneOK, Moving, MoveJob, LedgerInv
    <2>2. MoveOpen
      BY <2>1 DEF MoveOpen
    <2>. QED
      BY <1>2, <2>1, <2>2 DEF TraceInv
  <1>8. CASE \E a \in ActIds : \E how \in GitOutcomes : ExecRemove(a, how)
    <2>1. UNCHANGED <<row, act>> /\ (tree' = None \/ UNCHANGED <<tree, reg>>)
      BY <1>8 DEF ExecRemove, Foreground, store
    <2>. QED
      BY <1>1, <1>2, <2>1
  <1>9. ASSUME NEW a \in ActIds, NEW r \in BOOLEAN, NEW ok \in BOOLEAN, PurgeComplete(a, r, ok)
        PROVE  TraceInv'
    <2>1. /\ UNCHANGED <<tree, reg>> /\ act[a].kind = "purge" /\ exec[a] \in ExecType
          /\ row' = row \/ row' = RemovedRow(exec[a].plan)
          /\ act' = act \/ \E o \in WtResults : act' = [act EXCEPT ![a].result = o]
      BY <1>0, <1>9 DEF PurgeComplete, Stage, machine, place, LedgerInv, TypeOK, OrNone, WtResults,
                        FinishIf, Finish
    <2>2. RemovedRow(exec[a].plan).state = "removed"
      BY <2>1 DEF RemovedRow, ExecType, PlanType, WtRow
    <2>3. \A b \in ActIds : b # a => act'[b] = act[b]
      BY <1>0, <2>1 DEF TypeOK
    <2>4. MoveOpen => MoveOpen'
      BY <2>1, <2>3 DEF MoveOpen
    <2>. QED
      BY <1>1, <2>1, <2>2, <2>4
  <1>10. CASE \/ \E ok \in BOOLEAN : MoveError(ok)
              \/ \E r, ok \in BOOLEAN : MoveRecord(r, ok)
    BY <1>10, TraceMoveEnd
  <1>. QED
    BY <1>3, <1>4, <1>5, <1>6, <1>7, <1>8, <1>9, <1>10, NextStep DEF Step

\* For every configuration no crash, half-done move or failed transaction
\* strands a checkout: its row names the path it is at, or an unresolved action
\* in the ledger says where to look.
THEOREM TraceCorrect == Spec => []CheckoutTraceable
  <1>1. Init => TraceInv
    BY DEF Init, TraceInv
  <1>2. LaneInv /\ TraceInv /\ [Next]_vars => TraceInv'
    BY StepTrace
  <1>3. TraceInv => CheckoutTraceable
    BY DEF TraceInv, MoveOpen, CheckoutTraceable, Unresolved
  <1>. QED
    BY <1>1, <1>2, <1>3, LaneInvCorrect, PTL DEF Spec

----------------------------------------------------------------------------
(* The grace period. *)

Restored == \E k \in 1..Len(muts) : muts[k].op = "restore"

\* What a plan in force knows: it is short, no window can have grown stale since
\* it was made, and until it expires its row tells where the checkout is.
PlanOK(a) ==
    LET p == exec[a].plan
    IN /\ p.expires <= now + PlanLifetime
       /\ pc = "scan" => p.expires <= job.at + PlanLifetime
       /\ InWindow(row) => p.expires <= row.since + PlanLifetime
       /\ Moving /\ job.kind = "retire" => p.expires <= now
       /\ now < p.expires => /\ retFrom + RetireGrace <= p.row.grace /\ p.row.grace <= now
                             /\ ~Restored => {tree, reg} \subseteq {None, p.row.path}
       /\ exec[a].stage = "remove" => exec[a].sat >= RetireGrace

\* A retired row has the deadline of the last retirement, and so has the plan of
\* an executor until it expires.
GraceInv ==
    /\ row # None /\ row.state = "retired" => row.grace >= retFrom + RetireGrace
    /\ \A a \in ActIds : exec[a] # None => PlanOK(a)
    /\ GraceBeforeRemoval /\ RemovedMeansGone

\* The types of what a plan is compared with.
LEMMA PlanTypes ==
    ASSUME TypeOK, NEW a \in ActIds, exec[a] # None
    PROVE  /\ exec[a] \in ExecType /\ exec[a].plan.expires \in Nat /\ exec[a].plan.row.grace \in Nat
           /\ exec[a].plan.row \in WtRow
  <1>1. exec[a] \in ExecType
    BY DEF TypeOK, OrNone
  <1>2. exec[a].plan.row \in WtRow /\ exec[a].plan.expires \in Nat
    BY <1>1 DEF ExecType, PlanType
  <1>. QED
    BY <1>1, <1>2 DEF WtRow

\* Steps that keep the plan, the clock or let it run, and open no window.
LEMMA PlanFrame ==
    ASSUME TypeOK, NEW a \in ActIds, exec[a] # None, PlanOK(a),
           now' \in Nat, now <= now', retFrom' = retFrom, Restored => Restored',
           exec'[a].plan = exec[a].plan,
           exec'[a].stage = "remove" => exec'[a].sat >= RetireGrace,
           pc' = "scan" => (pc = "scan" /\ job' = job) \/ job'.at = now,
           Moving' /\ job'.kind = "retire" => (Moving /\ job' = job) \/ exec[a].plan.expires <= now,
           InWindow(row') => \/ InWindow(row) /\ row'.since = row.since
                             \/ exec[a].plan.expires <= row'.since + PlanLifetime,
           tree' = None \/ tree' = tree, reg' = None \/ reg' = reg
    PROVE  PlanOK(a)'
  <1>0. /\ exec[a].plan.expires \in Nat /\ exec[a].plan.row.grace \in Nat /\ now \in Nat
        /\ retFrom \in Nat /\ PlanLifetime \in Nat /\ RetireGrace \in Nat
    BY PlanTypes, Numbers DEF TypeOK
  <1>. DEFINE x == exec[a].plan.expires
              g == exec[a].plan.row.grace
  <1>1. x <= now + PlanLifetime
    BY DEF PlanOK
  <1>2. x <= now' + PlanLifetime
    BY <1>0, <1>1
  <1>3. pc' = "scan" => x <= job'.at + PlanLifetime
    BY <1>1 DEF PlanOK
  <1>4. InWindow(row') => x <= row'.since + PlanLifetime
    BY DEF PlanOK
  <1>5. Moving' /\ job'.kind = "retire" => x <= now'
    BY <1>0 DEF PlanOK
  <1>7. now' < x => /\ retFrom + RetireGrace <= g /\ g <= now'
                    /\ ~Restored' => {tree', reg'} \subseteq {None, exec[a].plan.row.path}
    <2>. SUFFICES ASSUME now' < x PROVE <1>7!2
      OBVIOUS
    <2>1. now < x
      BY <1>0
    <2>2. retFrom + RetireGrace <= g /\ g <= now
      BY <2>1 DEF PlanOK
    <2>3. ~Restored => {tree, reg} \subseteq {None, exec[a].plan.row.path}
      BY <2>1 DEF PlanOK
    <2>. QED
      BY <1>0, <2>2, <2>3
  <1>8. InWindow(row)' <=> InWindow(row')
    BY DEF InWindow
  <1>. QED
    BY <1>2, <1>3, <1>4, <1>5, <1>7, <1>8 DEF PlanOK

\* The plan of a purge that passed validation.
LEMMA PlanMade ==
    ASSUME LaneInv, ClockInv, GraceInv, NEW a \in ActIds, NEW ok \in BOOLEAN, PurgePrepare(a, ok),
           exec'[a] = [plan |-> Plan(waiting, a), stage |-> "ready", sat |-> 0, failed |-> FALSE]
    PROVE  PlanOK(a)'
  <1>0. TypeOK /\ waiting # None /\ waiting.appr.kind = "purge" /\ pc = "idle" /\ Authorised(waiting)
    BY DEF LaneInv, TypeInv, PurgePrepare, Idle
  <1>1. UNCHANGED <<now, tree, reg, row, retFrom, muts, pc, job>>
    BY DEF PurgePrepare, machine, place, lane
  <1>2. /\ row \in WtRow /\ row # None /\ row.state = "retired" /\ row.path = tree /\ row.path = reg
        /\ now >= row.grace /\ waiting \in WaitType
    BY <1>0, AuthorisedRow, NoRecordAssumption
  <1>3. waiting.at <= now /\ waiting.at \in Nat /\ row.grace \in Nat /\ now \in Nat /\ retFrom \in Nat
        /\ PlanLifetime \in Nat /\ RetireGrace \in Nat
    BY <1>0, <1>2, Numbers DEF ClockInv, WaitType, WtRow, TypeOK
  <1>4. exec'[a].plan.row = row /\ exec'[a].plan.expires = waiting.at + PlanLifetime
        /\ exec'[a].stage = "ready"
    BY DEF Plan
  <1>5. retFrom + RetireGrace <= row.grace
    BY <1>2, <1>3 DEF GraceInv
  <1>6. ~InWindow(row')
    BY <1>1, <1>2 DEF InWindow
  <1>7. InWindow(row)' <=> InWindow(row')
    BY DEF InWindow
  <1>8. waiting.at + PlanLifetime <= now + PlanLifetime
    BY <1>3
  <1>. QED
    BY <1>0, <1>1, <1>2, <1>3, <1>4, <1>5, <1>6, <1>7, <1>8 DEF PlanOK, Moving

\* A move keeps the plans: a retirement finds none in force, and after a restore
\* they say nothing of the place.
LEMMA PlanGitMove ==
    ASSUME LaneInv, GraceInv, NEW how, GitMove(how), NEW a \in ActIds, exec[a] # None
    PROVE  PlanOK(a)'
  <1>0. TypeOK /\ job \in MoveJob /\ PlanOK(a) /\ now \in Nat /\ exec[a].plan.expires \in Nat
    BY PlanTypes DEF LaneInv, TypeInv, LaneOK, Moving, GitMove, TypeOK, GraceInv
  <1>1. /\ pc = "git" /\ pc' \in {"verify", "error"} /\ UNCHANGED <<now, row, job, exec>>
    BY DEF GitMove, content, store, memory
  <1>2. CASE UNCHANGED <<tree, reg, retFrom, muts>>
    <2>1. /\ now' \in Nat /\ now <= now' /\ exec'[a].plan = exec[a].plan
          /\ exec'[a].stage = "remove" => exec'[a].sat >= RetireGrace
      BY <1>0, <1>1 DEF PlanOK
    <2>2. InWindow(row') => InWindow(row) /\ row'.since = row.since
      BY <1>1
    <2>3. /\ pc' = "scan" => (pc = "scan" /\ job' = job) \/ job'.at = now
          /\ Moving' /\ job'.kind = "retire" => (Moving /\ job' = job) \/ exec[a].plan.expires <= now
      BY <1>1 DEF Moving
    <2>4. Restored => Restored'
      BY <1>2 DEF Restored
    <2>. QED
      BY <1>0, <1>2, <2>1, <2>2, <2>3, <2>4, PlanFrame
  <1>3. CASE /\ muts' = Append(muts, Mutation(job.kind, job.action, job.row.path, job.quiet, 0))
             /\ retFrom' = IF job.kind = "retire" THEN now ELSE retFrom
    <2>. DEFINE m == Mutation(job.kind, job.action, job.row.path, job.quiet, 0)
    <2>1. m \in MutType /\ m.op = job.kind
      BY <1>0 DEF Mutation, MutType, MoveJob, WtKinds, WtRow
    <2>2. job.kind = "restore" => Restored'
      <3>1. Len(muts) \in Nat /\ Len(muts') = Len(muts) + 1 /\ muts'[Len(muts) + 1] = m
        BY <1>0, <1>3, <2>1, HistoryGrows
      <3>. HIDE DEF m
      <3>2. Len(muts) + 1 \in 1..Len(muts')
        BY <3>1
      <3>. QED
        BY <2>1, <3>1, <3>2 DEF Restored
    <2>3. job.kind = "retire" => exec[a].plan.expires <= now
      BY <1>0, <1>1 DEF PlanOK, Moving
    <2>4. job.kind \in {"retire", "restore"}
      BY <1>0 DEF MoveJob
    <2>5. (now < exec[a].plan.expires =>
             /\ retFrom + RetireGrace <= exec[a].plan.row.grace /\ exec[a].plan.row.grace <= now
             /\ ~Restored => {tree, reg} \subseteq {None, exec[a].plan.row.path})'
      <3>1. CASE job.kind = "retire"
        BY <1>0, <1>1, <2>3, <3>1
      <3>2. CASE job.kind = "restore"
        BY <1>0, <1>1, <1>3, <2>2, <3>2 DEF PlanOK
      <3>. QED
        BY <2>4, <3>1, <3>2
    <2>6. InWindow(row)' <=> InWindow(row)
      BY <1>1 DEF InWindow
    <2>. QED
      BY <1>0, <1>1, <2>3, <2>5, <2>6 DEF PlanOK, Moving
  <1>. QED
    BY <1>2, <1>3 DEF GitMove

\* The deadline of the row, over every step.
LEMMA StepDeadline ==
    ASSUME LaneInv, ClockInv, GraceInv, [Next]_vars
    PROVE  row' # None /\ row'.state = "retired" => row'.grace >= retFrom' + RetireGrace
  <1>0. TypeOK /\ TypeInv /\ LaneOK /\ PlaceInv /\ now \in Nat /\ retFrom \in Nat /\ retFrom <= now
        /\ RetireGrace \in Nat
    BY Numbers DEF LaneInv, TypeInv, TypeOK, ClockInv
  <1>1. CASE UNCHANGED <<row, retFrom>>
    BY <1>1 DEF GraceInv
  <1>2. CASE \/ Machine \/ TripElsewhere \/ ScanStart \/ Restart \/ UNCHANGED vars
             \/ \E t \in Tokens : \E k \in Kinds : \E ok \in BOOLEAN : Preview(t, k, ok)
             \/ \E t \in Tokens : \E m, ok \in BOOLEAN : Apply(t, m, ok)
             \/ \E i, ok \in BOOLEAN : ApplyRefused(i, ok)
             \/ \E ok \in BOOLEAN : MoveError(ok)
    <2>1. CASE Machine
      BY <1>1, <2>1, MachineFrame
    <2>2. CASE ~Machine
      <3>1. UNCHANGED row
        BY <1>2, <2>2 DEF TripElsewhere, ScanStart, Restart, Preview, Apply, ApplyRefused, MoveError,
                          store, vars
      <3>2. UNCHANGED retFrom
        BY <1>2, <2>2 DEF TripElsewhere, ScanStart, Restart, Preview, Apply, ApplyRefused, MoveError,
                          machine, vars
      <3>. QED
        BY <1>1, <3>1, <3>2
    <2>. QED
      BY <2>1, <2>2
  <1>3. CASE \/ \E a \in ActIds : \E ok \in BOOLEAN : MoveBegin(a, ok)
             \/ \E a \in ActIds : \E ok \in BOOLEAN : PurgePrepare(a, ok)
    BY <1>1, <1>3 DEF MoveBegin, PurgePrepare, machine
  <1>4. CASE \/ \E a \in ActIds : ExecOpen(a) \/ ExecDie(a)
             \/ \E a \in ActIds : \E how \in GitOutcomes : ExecRemove(a, how)
    <2>1. ASSUME NEW a \in ActIds, ExecOpen(a) \/ ExecDie(a) PROVE UNCHANGED <<row, retFrom>>
      BY <2>1 DEF ExecOpen, ExecDie, Foreground, machine, store
    <2>2. ASSUME NEW a \in ActIds, NEW how \in GitOutcomes, ExecRemove(a, how)
          PROVE  UNCHANGED <<row, retFrom>>
      BY <2>2 DEF ExecRemove, Foreground, store
    <2>. QED
      BY <1>1, <1>4, <2>1, <2>2
  <1>5. CASE \/ \E c \in BOOLEAN : \E i \in Inventories : ScanCommit(c, i)
             \/ \E ok \in BOOLEAN : \E i \in Inventories : ScanFail(i, ok)
    <2>1. ScanRowOK /\ UNCHANGED retFrom
      BY <1>0, <1>5, ScanRow
    <2>2. row' # None /\ row'.state = "retired" =>
             row # None /\ row.state = "retired" /\ row'.grace = row.grace
      BY <2>1 DEF ScanRowOK
    <2>. QED
      BY <2>1, <2>2 DEF GraceInv
  <1>6. CASE \E how \in GitOutcomes : GitMove(how)
    <2>1. row' = row /\ (retFrom' = retFrom \/ job.kind = "retire")
      BY <1>6 DEF GitMove, store
    <2>2. job.kind = "retire" => row.state = "stale"
      BY <1>0, <1>6 DEF GitMove, PlaceInv, Moving
    <2>. QED
      BY <2>1, <2>2 DEF GraceInv
  <1>7. CASE \E r, ok \in BOOLEAN : MoveRecord(r, ok)
    <2>1. /\ retFrom' = retFrom /\ job.row \in WtRow
          /\ row' = row \/ row' = RetiredRow \/ row' = RestoredRow
      BY <1>0, <1>7 DEF MoveRecord, machine, LaneOK, Moving, MoveJob
    <2>2. RetiredRow.grace = now + RetireGrace /\ RestoredRow.state = "observing"
      BY <2>1 DEF RetiredRow, RestoredRow, WtRow
    <2>3. now + RetireGrace >= retFrom + RetireGrace
      BY <1>0
    <2>4. CASE row' = row
      BY <1>1, <2>1, <2>4
    <2>5. CASE row' = RetiredRow \/ row' = RestoredRow
      BY <2>1, <2>2, <2>3, <2>5
    <2>. QED
      BY <2>1, <2>4, <2>5
  <1>8. ASSUME NEW a \in ActIds, NEW r \in BOOLEAN, NEW ok \in BOOLEAN, PurgeComplete(a, r, ok)
        PROVE  row' # None /\ row'.state = "retired" => row'.grace >= retFrom' + RetireGrace
    <2>1. /\ retFrom' = retFrom /\ exec[a] \in ExecType
          /\ row' = row \/ row' = RemovedRow(exec[a].plan)
      BY <1>0, <1>8 DEF PurgeComplete, Stage, machine, TypeOK, OrNone
    <2>2. RemovedRow(exec[a].plan).state = "removed"
      BY <2>1 DEF RemovedRow, ExecType, PlanType, WtRow
    <2>. QED
      BY <1>1, <2>1, <2>2
  <1>. QED
    BY <1>2, <1>3, <1>4, <1>5, <1>6, <1>7, <1>8, NextStep DEF Step

\* No removal of an executor comes before its plan's deadline.
LEMMA StepSat ==
    ASSUME LaneInv, LaneInv', GraceInv, [Next]_vars
    PROVE  GraceBeforeRemoval'
  <1>0. TypeOK /\ TypeOK' /\ TypeInv /\ LaneOK /\ GraceBeforeRemoval
    BY DEF LaneInv, TypeInv, GraceInv
  <1>1. ASSUME NEW m \in MutType, muts' = Append(muts, m), m.op = "purge" => m.sat >= RetireGrace
        PROVE  GraceBeforeRemoval'
    <2>1. /\ \A k \in 1..Len(muts) : muts'[k] = muts[k]
          /\ \A k \in 1..Len(muts') : k \in 1..Len(muts) \/ k = Len(muts) + 1
          /\ muts'[Len(muts) + 1] = m
      BY <1>0, <1>1, HistoryGrows
    <2>. QED
      BY <1>0, <1>1, <2>1 DEF GraceBeforeRemoval
  <1>2. CASE UNCHANGED muts
    BY <1>0, <1>2 DEF GraceBeforeRemoval
  <1>3. CASE Unmoved \/ UNCHANGED vars
    BY <1>2, <1>3, UnmovedFrame DEF vars, machine
  <1>4. CASE \E a \in ActIds : \E ok \in BOOLEAN : MoveBegin(a, ok)
    BY <1>2, <1>4 DEF MoveBegin, machine
  <1>5. CASE \E how \in GitOutcomes : GitMove(how)
    <2>1. /\ job \in MoveJob
          /\ \/ UNCHANGED muts
             \/ muts' = Append(muts, Mutation(job.kind, job.action, job.row.path, job.quiet, 0))
      BY <1>0, <1>5 DEF GitMove, LaneOK, Moving
    <2>2. /\ Mutation(job.kind, job.action, job.row.path, job.quiet, 0) \in MutType
          /\ Mutation(job.kind, job.action, job.row.path, job.quiet, 0).op # "purge"
      BY <2>1 DEF Mutation, MutType, MoveJob, WtKinds, WtRow
    <2>. QED
      BY <1>1, <1>2, <2>1, <2>2
  <1>6. ASSUME NEW a \in ActIds, NEW how \in GitOutcomes, ExecRemove(a, how) PROVE GraceBeforeRemoval'
    <2>1. /\ exec[a] \in ExecType /\ exec[a] # None /\ exec[a].stage = "remove"
          /\ \/ UNCHANGED muts
             \/ muts' = Append(muts, Mutation("purge", a, exec[a].plan.row.path, 0, exec[a].sat))
      BY <1>0, <1>6 DEF ExecRemove, Stage, TypeOK, OrNone
    <2>2. /\ Mutation("purge", a, exec[a].plan.row.path, 0, exec[a].sat) \in MutType
          /\ Mutation("purge", a, exec[a].plan.row.path, 0, exec[a].sat).sat = exec[a].sat
      BY <2>1 DEF Mutation, MutType, ExecType, PlanType, WtKinds, WtRow
    <2>3. exec[a].sat >= RetireGrace
      BY <2>1 DEF GraceInv, PlanOK
    <2>. QED
      BY <1>1, <1>2, <2>1, <2>2, <2>3
  <1>. QED
    BY <1>3, <1>4, <1>5, <1>6, NextStep DEF Step, Unmoved

\* A step of an executor changes its own plan's stage, and may end it.
LEMMA ExecStage ==
    ASSUME LaneInv, GraceInv, NEW a \in ActIds,
           \/ ExecOpen(a) \/ ExecDie(a) \/ \E how \in GitOutcomes : ExecRemove(a, how)
           \/ \E r, ok \in BOOLEAN : PurgeComplete(a, r, ok),
           NEW b \in ActIds, exec'[b] # None
    PROVE  exec'[b].stage = "remove" => exec'[b].sat >= RetireGrace
  <1>0. TypeOK /\ exec \in [ActIds -> OrNone(ExecType)] /\ exec[b] # None /\ PlanOK(b)
    BY ExecKeepsPlan DEF LaneInv, TypeInv, TypeOK, GraceInv
  <1>1. CASE exec'[b] = exec[b]
    BY <1>0, <1>1 DEF PlanOK
  <1>2. CASE exec'[b] # exec[b] /\ ExecOpen(a)
    <2>1. b = a /\ exec[a] # None /\ exec[a] \in ExecType
      BY <1>0, <1>2 DEF ExecOpen, OrNone
    <2>. DEFINE p == exec[a].plan
                exact == /\ now < p.expires
                         /\ tree = p.row.path /\ links = p.val.links /\ dirv = p.val.dirv
                n == [exec[a] EXCEPT !.stage = IF exact THEN "remove" ELSE "report",
                                     !.sat = now - retFrom, !.failed = ~exact]
    <2>2. exec'[a] = n
      BY <1>0, <1>2 DEF ExecOpen
    <2>3. n.stage = (IF exact THEN "remove" ELSE "report") /\ n.sat = now - retFrom
      BY <2>1 DEF ExecType
    <2>. HIDE DEF n
    <2>4. exec'[a].stage = "remove" => now < p.expires
      BY <2>2, <2>3
    <2>5. now < p.expires => retFrom + RetireGrace <= p.row.grace /\ p.row.grace <= now
      BY <1>0, <2>1 DEF PlanOK
    <2>6. now \in Nat /\ retFrom \in Nat /\ RetireGrace \in Nat /\ p.row.grace \in Nat
      BY <1>0, <2>1, Numbers, PlanTypes DEF TypeOK
    <2>. HIDE DEF p, exact
    <2>. QED
      BY <2>1, <2>2, <2>3, <2>4, <2>5, <2>6
  <1>3. CASE exec'[b] # exec[b] /\ \E how \in GitOutcomes : ExecRemove(a, how)
    <2>1. b = a /\ exec[a] \in ExecType
      BY <1>0, <1>3 DEF ExecRemove, OrNone
    <2>2. \E f : exec' = [exec EXCEPT ![a].stage = "report", ![a].failed = f]
      BY <1>3 DEF ExecRemove
    <2>3. \A f : [exec[a] EXCEPT !.stage = "report", !.failed = f].stage = "report"
      BY <2>1 DEF ExecType
    <2>. QED
      BY <1>0, <2>1, <2>2, <2>3
  <1>4. CASE exec'[b] # exec[b] /\ (ExecDie(a) \/ \E r, ok \in BOOLEAN : PurgeComplete(a, r, ok))
    BY <1>0, <1>4 DEF ExecDie, PurgeComplete
  <1>. QED
    BY <1>1, <1>2, <1>3, <1>4

\* Every plan stays in order over every step.
LEMMA StepPlans ==
    ASSUME LaneInv, LaneInv', ClockInv, GraceInv, [Next]_vars, NEW a \in ActIds, exec'[a] # None
    PROVE  PlanOK(a)'
  <1>0. TypeOK /\ TypeOK' /\ TypeInv /\ LaneOK /\ PlaceInv /\ LedgerInv /\ now \in Nat /\ now' \in Nat
    BY DEF LaneInv, TypeInv, TypeOK
  <1>1. ASSUME exec[a] # None, now <= now', UNCHANGED <<retFrom, muts>>,
               exec'[a].plan = exec[a].plan,
               exec'[a].stage = "remove" => exec'[a].sat >= RetireGrace,
               pc' = "scan" => (pc = "scan" /\ job' = job) \/ job'.at = now,
               Moving' /\ job'.kind = "retire" => (Moving /\ job' = job) \/ exec[a].plan.expires <= now,
               InWindow(row') => \/ InWindow(row) /\ row'.since = row.since
                                 \/ exec[a].plan.expires <= row'.since + PlanLifetime,
               tree' = None \/ tree' = tree, reg' = None \/ reg' = reg
        PROVE  PlanOK(a)'
    <2>1. PlanOK(a) /\ (Restored => Restored')
      BY <1>1 DEF GraceInv, Restored
    <2>. QED
      BY <1>0, <1>1, <2>1, PlanFrame
  <1>2. exec'[a] = exec[a] =>
           exec[a] # None /\ (exec'[a].stage = "remove" => exec'[a].sat >= RetireGrace)
    BY DEF GraceInv, PlanOK
  <1>3. CASE Machine
    <2>1. /\ UNCHANGED <<row, pc, job, exec, retFrom, muts>> /\ now <= now'
      BY <1>0, <1>3, MachineFrame
    <2>2. (tree' = None \/ tree' = tree) /\ (reg' = None \/ reg' = reg)
      BY <1>3 DEF Machine, Commit, DirtyFlip, Delete, Touch, Tick, Use, Occupy, place
    <2>3. pc' = "scan" => pc = "scan" /\ job' = job
      BY <2>1
    <2>4. Moving' => Moving /\ job' = job
      BY <2>1 DEF Moving
    <2>. QED
      BY <1>1, <1>2, <2>1, <2>2, <2>3, <2>4
  <1>4. CASE \/ TripElsewhere \/ ScanStart \/ Restart \/ UNCHANGED vars
             \/ \E t \in Tokens : \E k \in Kinds : \E ok \in BOOLEAN : Preview(t, k, ok)
             \/ \E t \in Tokens : \E m, ok \in BOOLEAN : Apply(t, m, ok)
             \/ \E i, ok \in BOOLEAN : ApplyRefused(i, ok)
             \/ \E ok \in BOOLEAN : MoveError(ok)
    <2>1. UNCHANGED <<now, tree, reg, retFrom, muts>>
      <3>1. CASE TripElsewhere \/ ScanStart \/ Restart \/ UNCHANGED vars
        BY <3>1 DEF TripElsewhere, ScanStart, Restart, machine, place, vars
      <3>2. CASE ~(TripElsewhere \/ ScanStart \/ Restart \/ UNCHANGED vars)
        BY <1>4, <3>2 DEF Preview, Apply, ApplyRefused, MoveError, machine, place
      <3>. QED
        BY <3>1, <3>2
    <2>2. UNCHANGED <<row, exec>>
      <3>1. CASE TripElsewhere \/ ScanStart \/ Restart \/ UNCHANGED vars
        BY <3>1 DEF TripElsewhere, ScanStart, Restart, store, vars
      <3>2. CASE ~(TripElsewhere \/ ScanStart \/ Restart \/ UNCHANGED vars)
        BY <1>4, <3>2 DEF Preview, Apply, ApplyRefused, MoveError, store
      <3>. QED
        BY <3>1, <3>2
    <2>3. pc' = "idle" \/ UNCHANGED <<pc, job>> \/ (pc' = "scan" /\ job'.at = now)
      <3>1. CASE ScanStart
        <4>1. pc' = "scan" /\ job'.at = now
          BY <3>1 DEF ScanStart
        <4>. QED
          BY <4>1
      <3>2. CASE TripElsewhere \/ Restart \/ UNCHANGED vars
        BY <3>2 DEF TripElsewhere, Restart, Release, lane, vars
      <3>3. CASE ~(TripElsewhere \/ ScanStart \/ Restart \/ UNCHANGED vars)
        BY <1>4, <3>3 DEF Preview, Apply, ApplyRefused, MoveError, Release, lane
      <3>. QED
        BY <3>1, <3>2, <3>3
    <2>4. pc' = "scan" => (pc = "scan" /\ job' = job) \/ job'.at = now
      BY <2>3
    <2>5. Moving' => Moving /\ job' = job
      BY <2>3 DEF Moving
    <2>. QED
      BY <1>0, <1>1, <1>2, <2>1, <2>2, <2>4, <2>5
  <1>5. CASE \/ \E c \in BOOLEAN : \E i \in Inventories : ScanCommit(c, i)
             \/ \E ok \in BOOLEAN : \E i \in Inventories : ScanFail(i, ok)
    <2>1. /\ pc = "scan" /\ pc' = "idle" /\ ScanRowOK
          /\ UNCHANGED <<now, tree, reg, retFrom, muts, exec>>
      BY <1>0, <1>5, ScanRow
    <2>2. PlanOK(a) /\ exec[a] # None
      BY <2>1 DEF GraceInv
    <2>3. InWindow(row') => \/ InWindow(row) /\ row'.since = row.since
                            \/ exec[a].plan.expires <= row'.since + PlanLifetime
      <3>. SUFFICES ASSUME InWindow(row') PROVE <2>3!2
        OBVIOUS
      <3>1. row' # None
        BY DEF InWindow
      <3>2. \/ row' = row
            \/ row'.since = job.at
            \/ Continuous(row, job.at) /\ row.since # 0 /\ row'.since = row.since
        BY <2>1, <3>1 DEF ScanRowOK
      <3>. QED
        BY <2>1, <2>2, <3>2 DEF PlanOK, Continuous, InWindow
    <2>4. ~Moving' /\ pc' # "scan"
      BY <2>1 DEF Moving
    <2>. QED
      BY <1>0, <1>1, <1>2, <2>1, <2>3, <2>4
  <1>6. ASSUME NEW b \in ActIds, NEW ok \in BOOLEAN, MoveBegin(b, ok) PROVE PlanOK(a)'
    <2>1. UNCHANGED <<now, tree, reg, retFrom, muts, row, exec>> /\ pc = "idle"
      BY <1>6 DEF MoveBegin, machine, place, Idle
    <2>2. UNCHANGED <<pc, job>> \/ (pc' = "git" /\ job'.kind = waiting.appr.kind)
      BY <1>0, <1>6, MoveBeginJob
    <2>3. waiting.appr.kind = "retire" => exec[a].plan.expires <= now
      <3>. SUFFICES ASSUME waiting.appr.kind = "retire" PROVE exec[a].plan.expires <= now
        OBVIOUS
      <3>1. row \in WtRow /\ row.state = "stale" /\ row.since # 0 /\ now - row.since >= StaleAfter
        BY <1>0, <1>6, AuthorisedRow DEF MoveBegin
      <3>2. InWindow(row)
        BY <3>1, NoRecordAssumption DEF InWindow
      <3>3. exec[a].plan.expires <= row.since + PlanLifetime
        BY <2>1, <3>2 DEF GraceInv, PlanOK
      <3>4. exec[a].plan.expires \in Nat /\ row.since \in Nat /\ PlanLifetime <= StaleAfter
            /\ PlanLifetime \in Nat /\ StaleAfter \in Nat
        BY <1>0, <2>1, <3>1, PlanTypes, Numbers DEF WtRow
      <3>. QED
        BY <1>0, <3>1, <3>3, <3>4
    <2>4. pc' = "scan" => pc = "scan"
      BY <2>1, <2>2
    <2>5. Moving' /\ job'.kind = "retire" => exec[a].plan.expires <= now
      BY <2>1, <2>2, <2>3 DEF Moving
    <2>6. now <= now'
      BY <1>0, <2>1
    <2>7. pc' # "scan"
      BY <2>1, <2>2
    <2>. QED
      BY <1>1, <1>2, <2>1, <2>5, <2>6, <2>7
  <1>7. CASE \E how \in GitOutcomes : GitMove(how)
    <2>1. exec[a] # None
      BY <1>7 DEF GitMove
    <2>. QED
      BY <1>7, <2>1, PlanGitMove
  <1>8. CASE \E r, ok \in BOOLEAN : MoveRecord(r, ok)
    <2>1. /\ UNCHANGED <<now, tree, reg, retFrom, muts, exec>> /\ pc' = "idle" /\ job.row \in WtRow
          /\ row' = row \/ row' = RetiredRow \/ row' = RestoredRow
      BY <1>0, <1>8 DEF MoveRecord, machine, place, Release, LaneOK, Moving, MoveJob
    <2>2. RetiredRow.state = "retired" /\ RestoredRow.since = 0
      BY <2>1 DEF RetiredRow, RestoredRow, WtRow
    <2>3. InWindow(row') => InWindow(row) /\ row'.since = row.since
      BY <2>1, <2>2 DEF InWindow
    <2>4. ~Moving' /\ pc' # "scan" /\ now <= now'
      BY <1>0, <2>1 DEF Moving
    <2>. QED
      BY <1>1, <1>2, <2>1, <2>3, <2>4
  <1>9. ASSUME NEW b \in ActIds, NEW ok \in BOOLEAN, PurgePrepare(b, ok) PROVE PlanOK(a)'
    <2>1. UNCHANGED <<now, tree, reg, retFrom, muts, row, pc, job>> /\ pc = "idle"
      BY <1>9 DEF PurgePrepare, machine, place, lane, Idle
    <2>2. \/ exec' = exec
          \/ exec' = [exec EXCEPT ![b] = [plan |-> Plan(waiting, b), stage |-> "ready",
                                          sat |-> 0, failed |-> FALSE]]
      BY <1>9 DEF PurgePrepare
    <2>3. CASE exec'[a] = exec[a]
      <3>1. now <= now' /\ pc' # "scan" /\ ~Moving'
        BY <1>0, <2>1 DEF Moving
      <3>. QED
        BY <1>1, <1>2, <2>1, <2>3, <3>1
    <2>4. CASE exec'[a] # exec[a]
      <3>1. a = b /\ exec'[a] = [plan |-> Plan(waiting, a), stage |-> "ready", sat |-> 0, failed |-> FALSE]
        BY <1>0, <2>2, <2>4 DEF TypeOK
      <3>. QED
        BY <1>9, <3>1, PlanMade
    <2>. QED
      BY <2>3, <2>4
  <1>10. ASSUME NEW b \in ActIds,
                \/ ExecOpen(b) \/ ExecDie(b) \/ \E how \in GitOutcomes : ExecRemove(b, how)
                \/ \E r, ok \in BOOLEAN : PurgeComplete(b, r, ok)
         PROVE  PlanOK(a)'
    <2>1. exec[a] # None /\ exec'[a].plan = exec[a].plan
      BY <1>0, <1>10, ExecKeepsPlan
    <2>2. exec'[a].stage = "remove" => exec'[a].sat >= RetireGrace
      BY <1>10, ExecStage
    <2>3. /\ UNCHANGED <<now, retFrom, pc, job>>
          /\ (tree' = None \/ tree' = tree) /\ (reg' = None \/ reg' = reg)
      <3>1. CASE ExecOpen(b)
        BY <3>1 DEF ExecOpen, Foreground, place, lane
      <3>2. CASE ExecDie(b)
        BY <3>2 DEF ExecDie, Foreground, machine, place, lane
      <3>3. CASE \E how \in GitOutcomes : ExecRemove(b, how)
        BY <3>3 DEF ExecRemove, Foreground, lane
      <3>4. CASE \E r, ok \in BOOLEAN : PurgeComplete(b, r, ok)
        BY <3>4 DEF PurgeComplete, machine, place, lane
      <3>. QED
        BY <1>10, <3>1, <3>2, <3>3, <3>4
    <2>4. InWindow(row') => InWindow(row) /\ row'.since = row.since
      <3>1. CASE UNCHANGED row
        BY <3>1
      <3>2. ASSUME NEW r \in BOOLEAN, NEW ok \in BOOLEAN, PurgeComplete(b, r, ok)
            PROVE  row' = row \/ row'.state = "removed"
        <4>1. row' = row \/ row' = RemovedRow(exec[b].plan)
          BY <3>2 DEF PurgeComplete
        <4>2. exec[b].plan.row \in WtRow
          BY <1>0, <3>2, PlanTypes DEF PurgeComplete, Stage
        <4>3. RemovedRow(exec[b].plan).state = "removed"
          BY <4>2 DEF RemovedRow, WtRow
        <4>. QED
          BY <4>1, <4>3
      <3>3. CASE ~\E r, ok \in BOOLEAN : PurgeComplete(b, r, ok)
        BY <1>10, <3>3 DEF ExecOpen, ExecDie, ExecRemove, Foreground, store
      <3>. QED
        BY <3>1, <3>2, <3>3 DEF InWindow
    <2>5. Restored => Restored'
      <3>1. CASE UNCHANGED muts
        BY <3>1 DEF Restored
      <3>2. CASE muts' = Append(muts, Mutation("purge", b, exec[b].plan.row.path, 0, exec[b].sat))
        <4>1. /\ Len(muts) \in Nat /\ Len(muts') = Len(muts) + 1
              /\ \A k \in 1..Len(muts) : muts'[k] = muts[k]
          BY <1>0, <3>2 DEF TypeOK
        <4>2. \A k \in 1..Len(muts) : k \in 1..Len(muts')
          BY <4>1
        <4>. QED
          BY <4>1, <4>2 DEF Restored
      <3>3. UNCHANGED muts \/ muts' = Append(muts, Mutation("purge", b, exec[b].plan.row.path, 0, exec[b].sat))
        <4>1. CASE \/ ExecOpen(b) \/ ExecDie(b) \/ \E r, ok \in BOOLEAN : PurgeComplete(b, r, ok)
          BY <4>1 DEF ExecOpen, ExecDie, PurgeComplete, machine
        <4>2. CASE \E how \in GitOutcomes : ExecRemove(b, how)
          BY <4>2 DEF ExecRemove
        <4>. QED
          BY <1>10, <4>1, <4>2
      <3>. QED
        BY <3>1, <3>2, <3>3
    <2>6. pc' = "scan" => pc = "scan" /\ job' = job
      BY <2>3
    <2>7. Moving' => Moving /\ job' = job
      BY <2>3 DEF Moving
    <2>8. PlanOK(a) /\ now <= now'
      BY <1>0, <2>1, <2>3 DEF GraceInv
    <2>. QED
      BY <1>0, <2>1, <2>2, <2>3, <2>4, <2>5, <2>6, <2>7, <2>8, PlanFrame
  <1>. QED
    BY <1>3, <1>4, <1>5, <1>6, <1>7, <1>8, <1>9, <1>10, NextStep DEF Step

\* What is gone stays gone, and only an executor that is in time and finds it
\* gone says so.
LEMMA StepGone ==
    ASSUME LaneInv, LaneInv', GraceInv, [Next]_vars
    PROVE  RemovedMeansGone'
  <1>. DEFINE removed == \E a \in ActIds : act[a] # None /\ act[a].result = "removed"
              gone == tree = None /\ reg = None
  <1>0. TypeOK /\ TypeInv /\ LaneOK /\ LedgerInv /\ PlaceInv /\ (removed /\ ~Restored => gone)
    BY DEF LaneInv, TypeInv, GraceInv, RemovedMeansGone, Restored
  <1>1. SUFFICES removed' /\ ~Restored' => gone'
    BY DEF RemovedMeansGone, Restored
  <1>2. ASSUME UNCHANGED muts \/ \E m \in MutType : muts' = Append(muts, m), Restored
        PROVE  Restored'
    <2>1. \A k \in 1..Len(muts) : k \in 1..Len(muts') /\ muts'[k] = muts[k]
      <3>1. CASE UNCHANGED muts
        BY <3>1
      <3>2. ASSUME NEW m \in MutType, muts' = Append(muts, m) PROVE <2>1!:
        <4>1. /\ Len(muts) \in Nat /\ Len(muts') = Len(muts) + 1
              /\ \A k \in 1..Len(muts) : muts'[k] = muts[k]
          BY <1>0, <3>2, HistoryGrows
        <4>. QED
          BY <4>1
      <3>. QED
        BY <1>2, <3>1, <3>2
    <2>. QED
      BY <1>2, <2>1 DEF Restored
  <1>3. ASSUME UNCHANGED muts \/ \E m \in MutType : muts' = Append(muts, m),
               removed' => removed, gone => gone'
        PROVE  removed' /\ ~Restored' => gone'
    <2>. HIDE DEF removed, gone
    <2>. QED
      BY <1>0, <1>2, <1>3
  <1>4. UNCHANGED <<tree, reg>> => (gone => gone')
    OBVIOUS
  <1>5. UNCHANGED act => (removed' => removed)
    OBVIOUS
  <1>6. ASSUME \A b \in ActIds : act'[b] = act[b] \/ act'[b] = None \/ act'[b].result # "removed"
        PROVE  removed' => removed
    BY <1>6
  <1>7. CASE Machine
    <2>1. UNCHANGED <<act, muts>> /\ (gone => gone')
      BY <1>7, MachineFrame DEF Machine, Commit, DirtyFlip, Delete, Touch, Tick, Use, Occupy, place
    <2>. QED
      BY <1>3, <1>5, <2>1
  <1>8. CASE \/ TripElsewhere \/ ScanStart \/ Restart \/ UNCHANGED vars
             \/ \E t \in Tokens : \E k \in Kinds : \E ok \in BOOLEAN : Preview(t, k, ok)
             \/ \E c \in BOOLEAN : \E i \in Inventories : ScanCommit(c, i)
             \/ \E ok \in BOOLEAN : \E i \in Inventories : ScanFail(i, ok)
             \/ \E a \in ActIds : ExecOpen(a) \/ ExecDie(a)
    <2>1. UNCHANGED <<act, muts, tree, reg>>
      <3>1. CASE TripElsewhere \/ ScanStart \/ Restart \/ UNCHANGED vars
        BY <3>1 DEF TripElsewhere, ScanStart, Restart, machine, place, store, vars
      <3>2. CASE \/ \E c \in BOOLEAN : \E i \in Inventories : ScanCommit(c, i)
                 \/ \E ok \in BOOLEAN : \E i \in Inventories : ScanFail(i, ok)
        BY <1>0, <3>2, ScanRow
      <3>3. CASE \E t \in Tokens : \E k \in Kinds : \E ok \in BOOLEAN : Preview(t, k, ok)
        BY <3>3 DEF Preview, machine, place, store
      <3>4. CASE \E a \in ActIds : ExecOpen(a) \/ ExecDie(a)
        BY <3>4 DEF ExecOpen, ExecDie, Foreground, machine, place, store
      <3>. QED
        BY <1>8, <3>1, <3>2, <3>3, <3>4
    <2>. QED
      BY <1>3, <1>4, <1>5, <2>1
  <1>9. CASE \/ \E t \in Tokens : \E m, ok \in BOOLEAN : Apply(t, m, ok)
             \/ \E i, ok \in BOOLEAN : ApplyRefused(i, ok)
    <2>1. UNCHANGED <<muts, tree, reg>>
      BY <1>9 DEF Apply, ApplyRefused, machine, place
    <2>2. \A b \in ActIds : act'[b] = act[b] \/ act'[b] = None \/ act'[b].result = "rejected"
      BY <1>0, <1>9, LedgerReject, InsertedFrame
    <2>. QED
      BY <1>3, <1>4, <1>6, <2>1, <2>2
  <1>10. ASSUME NEW a \in ActIds, NEW ok \in BOOLEAN, MoveBegin(a, ok) \/ PurgePrepare(a, ok)
         PROVE  removed' /\ ~Restored' => gone'
    <2>1. UNCHANGED <<muts, tree, reg>>
      BY <1>10 DEF MoveBegin, PurgePrepare, machine, place
    <2>2. act' = act \/ \E k, r : r # "removed" /\ Begin(a, Row(k, waiting.token, r))
      BY <1>10 DEF MoveBegin, PurgePrepare
    <2>3. \A b \in ActIds : act'[b] = act[b] \/ act'[b].result # "removed"
      BY <1>0, <2>2 DEF Begin, Row, TypeOK
    <2>. QED
      BY <1>3, <1>4, <1>6, <2>1, <2>3
  <1>11. CASE \E how \in GitOutcomes : GitMove(how)
    <2>1. UNCHANGED act /\ job \in MoveJob
      BY <1>0, <1>11 DEF GitMove, store, LaneOK, Moving
    <2>2. \/ UNCHANGED <<tree, reg, muts>>
          \/ /\ muts' = Append(muts, Mutation(job.kind, job.action, job.row.path, job.quiet, 0))
             /\ tree = job.row.path
      BY <1>11 DEF GitMove
    <2>3. Mutation(job.kind, job.action, job.row.path, job.quiet, 0) \in MutType
      BY <2>1 DEF Mutation, MutType, MoveJob, WtKinds, WtRow
    <2>4. job.row.path # None
      BY <1>0, <1>11 DEF GitMove, PlaceInv, Moving
    <2>5. gone => gone'
      BY <2>2, <2>4
    <2>. QED
      BY <1>3, <1>5, <2>1, <2>2, <2>3, <2>5
  <1>12. ASSUME NEW a \in ActIds, NEW how \in GitOutcomes, ExecRemove(a, how)
         PROVE  removed' /\ ~Restored' => gone'
    <2>1. /\ UNCHANGED act /\ exec[a] \in ExecType /\ (gone => gone')
          /\ \/ UNCHANGED muts
             \/ muts' = Append(muts, Mutation("purge", a, exec[a].plan.row.path, 0, exec[a].sat))
      BY <1>0, <1>12 DEF ExecRemove, Stage, Foreground, store, TypeOK, OrNone
    <2>2. Mutation("purge", a, exec[a].plan.row.path, 0, exec[a].sat) \in MutType
      BY <2>1 DEF Mutation, MutType, ExecType, PlanType, WtKinds, WtRow
    <2>. QED
      BY <1>3, <1>5, <2>1, <2>2
  <1>13. CASE \/ \E ok \in BOOLEAN : MoveError(ok)
              \/ \E r, ok \in BOOLEAN : MoveRecord(r, ok)
    <2>1. UNCHANGED <<muts, tree, reg>> /\ job.action \in ActIds /\ act[job.action] \in ActType
      BY <1>0, <1>13 DEF MoveError, MoveRecord, machine, place, LaneOK, Moving, MoveJob, LedgerInv,
                         TypeOK, OrNone
    <2>2. act' = act \/ \E o \in {"failed", "partial", "retired", "restored"} :
                          act' = [act EXCEPT ![job.action].result = o]
      BY <1>13 DEF MoveError, MoveRecord, FinishIf, Finish
    <2>3. \A b \in ActIds : act'[b] = act[b] \/ act'[b].result # "removed"
      BY <1>0, <2>1, <2>2 DEF TypeOK, ActType
    <2>. QED
      BY <1>3, <1>4, <1>6, <2>1, <2>3
  <1>14. ASSUME NEW a \in ActIds, NEW r \in BOOLEAN, NEW ok \in BOOLEAN, PurgeComplete(a, r, ok)
         PROVE  removed' /\ ~Restored' => gone'
    <2>1. UNCHANGED <<muts, tree, reg>> /\ exec[a] # None /\ act[a] \in ActType
      BY <1>0, <1>14 DEF PurgeComplete, Stage, machine, place, LedgerInv, TypeOK, OrNone
    <2>2. CASE \/ UNCHANGED act
               \/ \E o \in {"failed", "partial"} : act' = [act EXCEPT ![a].result = o]
      <3>1. \A b \in ActIds : act'[b] = act[b] \/ act'[b].result # "removed"
        BY <1>0, <2>1, <2>2 DEF TypeOK, ActType
      <3>. QED
        BY <1>3, <1>4, <1>6, <2>1, <3>1
    <2>3. CASE ~\/ UNCHANGED act
                \/ \E o \in {"failed", "partial"} : act' = [act EXCEPT ![a].result = o]
      <3>. DEFINE p == exec[a].plan
      <3>1. ~Exists(p.row.path) /\ reg # p.row.path /\ ~(now >= p.expires)
        <4>1. \/ p \notin plans /\ act' = act
              \/ \E o \in {"failed", "partial"} : FinishIf(ok, a, o)
              \/ ~Exists(p.row.path) /\ reg # p.row.path /\ ~(now >= p.expires)
          BY <1>14 DEF PurgeComplete
        <4>. QED
          BY <2>3, <4>1 DEF FinishIf, Finish
      <3>2. now < p.expires
        BY <1>0, <2>1, <3>1, PlanTypes DEF TypeOK
      <3>3. ~Restored => {tree, reg} \subseteq {None, p.row.path}
        BY <2>1, <3>2 DEF GraceInv, PlanOK
      <3>4. tree # p.row.path
        BY <3>1 DEF Exists
      <3>5. ~Restored => gone
        BY <3>1, <3>3, <3>4
      <3>6. Restored' <=> Restored
        BY <2>1 DEF Restored
      <3>. QED
        BY <1>4, <2>1, <3>5, <3>6
    <2>. QED
      BY <2>2, <2>3
  <1>. QED
    BY <1>7, <1>8, <1>9, <1>10, <1>11, <1>12, <1>13, <1>14, NextStep DEF Step

\* The invariant of the grace period.
LEMMA GraceInvCorrect == Spec => []GraceInv
  <1>1. Init => GraceInv
    <2>. SUFFICES ASSUME Init PROVE GraceInv
      OBVIOUS
    <2>1. GraceBeforeRemoval /\ RemovedMeansGone
      BY DEF Init, GraceBeforeRemoval, RemovedMeansGone
    <2>. QED
      BY <2>1 DEF Init, GraceInv
  <1>2. LaneInv /\ LaneInv' /\ ClockInv /\ GraceInv /\ [Next]_vars => GraceInv'
    <2>. SUFFICES ASSUME LaneInv, LaneInv', ClockInv, GraceInv, [Next]_vars PROVE GraceInv'
      OBVIOUS
    <2>1. row' # None /\ row'.state = "retired" => row'.grace >= retFrom' + RetireGrace
      BY StepDeadline
    <2>2. \A a \in ActIds : exec'[a] # None => PlanOK(a)'
      BY StepPlans
    <2>3. GraceBeforeRemoval' /\ RemovedMeansGone'
      BY StepSat, StepGone
    <2>. QED
      BY <2>1, <2>2, <2>3 DEF GraceInv
  <1>. QED
    BY <1>1, <1>2, LaneInvCorrect, WindowCorrect, PTL DEF Spec

\* For every configuration, whatever restarts, expires or is restored between
\* plan and removal: no executor removes a checkout that has not sat at its
\* retirement path for the whole grace period.
THEOREM GraceCorrect == Spec => []GraceBeforeRemoval
  <1>1. GraceInv => GraceBeforeRemoval
    BY DEF GraceInv
  <1>. QED
    BY <1>1, GraceInvCorrect, PTL

\* For every configuration, removed in the ledger is a fact about disk and
\* registration and not the executor's word, unless a restore moved the checkout.
THEOREM RemovedCorrect == Spec => []RemovedMeansGone
  <1>1. GraceInv => RemovedMeansGone
    BY DEF GraceInv
  <1>. QED
    BY <1>1, GraceInvCorrect, PTL

=============================================================================
