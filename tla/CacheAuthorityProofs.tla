------------------------ MODULE CacheAuthorityProofs ------------------------
(***************************************************************************)
(* What authorises a rename or an unlink of the cache lane, for every      *)
(* configuration: the lane implements ApprovalLedger, a file is only       *)
(* quarantined after its stable window and unlinked after its grace        *)
(* period, and a stranded file can always be traced to an action.          *)
(***************************************************************************)
EXTENDS CacheLaneProofs

\* An attempt was written with this token.
Attempted(t) == \E a \in ActIds : act[a] # None /\ act[a].result # "rejected" /\ act[a].token = t

\* A token that was not issued, or not used.
Fresh(t) == approvals[t] = None \/ (approvals[t] # Lost /\ ~approvals[t].used)

\* A token that can still be accepted has not been, and one that waits for the
\* locks has not been attempted.
SingleInv ==
    \A t \in Tokens : /\ Fresh(t) => ~Attempted(t) /\ pending[t] = None
                      /\ pending[t] # None => ~Attempted(t)

----------------------------------------------------------------------------
(* One token, one attempt. *)

\* Refusals and outcomes attempt nothing.
LEMMA AttemptedKept ==
    ASSUME TypeOK,
           \/ Inserted({"rejected"})
           \/ \E a \in ActIds : \E r : /\ act[a] \in RowType /\ act[a].result # "rejected"
                                       /\ act' = [act EXCEPT ![a].result = r]
    PROVE  \A t : Attempted(t)' => Attempted(t)
  <1>1. CASE Inserted({"rejected"})
    BY <1>1, InsertedFrame DEF Attempted
  <1>2. ASSUME NEW a \in ActIds, NEW r, act[a] \in RowType, act[a].result # "rejected",
               act' = [act EXCEPT ![a].result = r]
        PROVE  \A t : Attempted(t)' => Attempted(t)
    <2>1. act'[a].token = act[a].token /\ act[a] # None
      BY <1>2, NoRecordAssumption DEF TypeOK, RowType
    <2>2. \A b \in ActIds : b # a => act'[b] = act[b]
      BY <1>2 DEF TypeOK
    <2>. QED
      BY <1>2, <2>1, <2>2 DEF Attempted
  <1>. QED
    BY <1>1, <1>2

\* Steps that attempt nothing and accept nothing.
LEMMA SingleFrame ==
    ASSUME SingleInv, \A t : Attempted(t)' => Attempted(t),
           \A t \in Tokens : Fresh(t)' => Fresh(t),
           \A t \in Tokens : pending'[t] = None \/ pending'[t] = pending[t]
    PROVE  SingleInv'
  BY DEF SingleInv

\* Accepting an approval uses it, and refusing it does too.
LEMMA SingleApply ==
    ASSUME LaneInv, SingleInv, NEW t \in Tokens, NEW b \in BOOLEAN, NEW ok \in BOOLEAN,
           CacheApply(t, b, ok)
    PROVE  SingleInv'
  <1>0. /\ TypeInv /\ TypeOK /\ approvals[t] \in ApprovalType
        /\ approvals \in [Tokens -> ApprovalType \cup {None, Lost}]
    BY DEF LaneInv, TypeInv, TypeOK, CacheApply
  <1>1. \A u : Attempted(u)' => Attempted(u)
    BY <1>0, ApplyInserts, AttemptedKept
  <1>2. /\ \A u \in Tokens : u # t => approvals'[u] = approvals[u]
        /\ approvals'[t].used /\ approvals'[t] # None
    <2>1. approvals' = [approvals EXCEPT ![t] = [approvals[t] EXCEPT !.used = TRUE]]
      BY DEF CacheApply
    <2>2. [approvals[t] EXCEPT !.used = TRUE] \in ApprovalType /\ [approvals[t] EXCEPT !.used = TRUE].used
      BY <1>0, UsedApproval
    <2>. QED
      BY <1>0, <2>1, <2>2, NoRecordAssumption
  <1>3. ~Fresh(t)' /\ \A u \in Tokens : Fresh(u)' => Fresh(u)
    BY <1>2 DEF Fresh
  <1>4. CASE UNCHANGED pending
    BY <1>1, <1>3, <1>4, SingleFrame
  <1>5. CASE ~approvals[t].used /\ pending' = [pending EXCEPT ![t] = [appr |-> approvals[t], at |-> now]]
    <2>1. Fresh(t) /\ \A u \in Tokens : u # t => pending'[u] = pending[u]
      BY <1>0, <1>5, NoRecordAssumption DEF Fresh, TypeOK
    <2>. QED
      BY <1>1, <1>3, <2>1 DEF SingleInv
  <1>. QED
    BY <1>4, <1>5 DEF CacheApply, Consumable

\* A waiting apply is spent on one attempt.
LEMMA SingleAttempt ==
    ASSUME LaneInv, SingleInv, NEW t \in Tokens, NEW a \in ActIds, NEW ok \in BOOLEAN,
           MoveBegin(t, a, ok) \/ PurgePrepare(t, a, ok)
    PROVE  SingleInv'
  <1>0. /\ TypeOK /\ pending[t] # None /\ UNCHANGED approvals
        /\ pending' = [pending EXCEPT ![t] = None]
    BY DEF LaneInv, TypeInv, MoveBegin, PurgePrepare
  <1>1. pending'[t] = None /\ \A u \in Tokens : u # t => pending'[u] = pending[u]
    BY <1>0 DEF TypeOK
  <1>2. act' = act \/ \E r : Begin(a, Row(t, pending[t].appr, r))
    BY DEF MoveBegin, PurgePrepare
  <1>3. \A u : Attempted(u)' => Attempted(u) \/ u = t
    <2>1. CASE act' = act
      BY <2>1 DEF Attempted
    <2>2. ASSUME NEW r, Begin(a, Row(t, pending[t].appr, r))
          PROVE  \A u : Attempted(u)' => Attempted(u) \/ u = t
      <3>1. act'[a].token = t /\ \A b \in ActIds : b # a => act'[b] = act[b]
        BY <1>0, <2>2 DEF Begin, Row, TypeOK
      <3>. QED
        BY <3>1 DEF Attempted
    <2>. QED
      BY <1>2, <2>1, <2>2
  <1>4. \A u : Fresh(u)' <=> Fresh(u)
    BY <1>0 DEF Fresh
  <1>. QED
    BY <1>0, <1>1, <1>3, <1>4 DEF SingleInv

\* Every step keeps tokens single-use.
LEMMA StepSingle == LaneInv /\ SingleInv /\ [Next]_vars => SingleInv'
  <1>. SUFFICES ASSUME LaneInv, SingleInv, [Next]_vars PROVE SingleInv'
    OBVIOUS
  <1>0. /\ TypeInv /\ TypeOK /\ HeldOK /\ LedgerInv
    BY DEF LaneInv, TypeInv
  <1>1. ASSUME UNCHANGED act \/ Inserted({"rejected"})
                 \/ \E a \in ActIds : \E r : /\ act[a] \in RowType /\ act[a].result # "rejected"
                                             /\ act' = [act EXCEPT ![a].result = r],
               \A t \in Tokens : Fresh(t)' => Fresh(t),
               \A t \in Tokens : pending'[t] = None \/ pending'[t] = pending[t]
        PROVE  SingleInv'
    BY <1>0, <1>1, AttemptedKept, SingleFrame DEF Inserted
  <1>2. UNCHANGED approvals => \A t \in Tokens : Fresh(t)' => Fresh(t)
    BY DEF Fresh
  <1>3. CASE Machine \/ ProcessScan \/ TripElsewhere \/ UNCHANGED vars
    <2>1. UNCHANGED <<act, approvals, pending>>
      BY <1>3, MachineFrame DEF ProcessScan, TripElsewhere, store, vars
    <2>. QED
      BY <1>1, <1>2, <2>1
  <1>4. CASE \/ \E lag \in 0..MaxLag : CacheScanStart(lag)
             \/ \E c \in BOOLEAN : CacheScanCommit(c) \/ CacheScanFail(c)
             \/ MoveRename
             \/ \E a \in ActIds : ExecCheck(a) \/ ExecDie(a) \/ ExecUnlink(a)
    <2>1. UNCHANGED <<act, approvals, pending>>
      BY <1>4 DEF CacheScanStart, CacheScanCommit, CacheScanFail, MoveRename, ExecCheck, ExecDie,
                  ExecUnlink, Foreground, store
    <2>. QED
      BY <1>1, <1>2, <2>1
  <1>5. CASE Restart
    <2>1. /\ UNCHANGED act /\ \A t \in Tokens : pending'[t] = None
          /\ \A t \in Tokens : approvals'[t] = IF approvals[t] = None THEN None ELSE Lost
      BY <1>5 DEF Restart, store
    <2>2. \A t \in Tokens : Fresh(t)' => Fresh(t)
      BY <2>1, Numbers DEF Fresh
    <2>. QED
      BY <1>1, <2>1, <2>2
  <1>6. ASSUME NEW t \in Tokens, NEW i \in Inodes, NEW ok \in BOOLEAN, Preview(t, i, ok) PROVE SingleInv'
    <2>1. UNCHANGED <<act, pending>> /\ approvals[t] = None
          /\ \A u \in Tokens : u # t => approvals'[u] = approvals[u]
                                        \/ (approvals'[u] = Lost /\ approvals[u] # None)
      BY <1>0, <1>6, PreviewApproval DEF store
    <2>2. \A u \in Tokens : Fresh(u)' => Fresh(u)
      BY <2>1, Numbers DEF Fresh
    <2>. QED
      BY <1>1, <2>1, <2>2
  <1>7. ASSUME NEW t \in Tokens, NEW b \in BOOLEAN, NEW ok \in BOOLEAN, ApplyRefused(t, b, ok)
        PROVE  SingleInv'
    <2>1. UNCHANGED approvals /\ pending' = [pending EXCEPT ![t] = None]
      BY <1>7 DEF ApplyRefused
    <2>2. Inserted({"rejected"})
      BY <1>0, <1>7, ApplyInserts
    <2>3. \A u \in Tokens : pending'[u] = None \/ pending'[u] = pending[u]
      BY <1>0, <2>1 DEF TypeOK
    <2>. QED
      BY <1>1, <1>2, <2>1, <2>2, <2>3
  <1>8. ASSUME NEW ok \in BOOLEAN, MoveCheck(ok) \/ MoveFail(ok) \/ MoveRecord(ok) PROVE SingleInv'
    <2>1. /\ UNCHANGED <<approvals, pending>> /\ job.action \in ActIds /\ act[job.action] \in RowType
          /\ act[job.action].result # "rejected"
          /\ UNCHANGED act \/ \E r : act' = [act EXCEPT ![job.action].result = r]
      BY <1>0, <1>8, MoveOutcome
    <2>. QED
      BY <1>1, <1>2, <2>1
  <1>9. ASSUME NEW a \in ActIds, NEW s \in BOOLEAN, NEW ok \in BOOLEAN, CachePurgeComplete(a, s, ok)
        PROVE  SingleInv'
    <2>1. /\ UNCHANGED <<approvals, pending>> /\ act[a] \in RowType /\ act[a].result # "rejected"
          /\ UNCHANGED act \/ \E r : act' = [act EXCEPT ![a].result = r]
      BY <1>0, <1>9, PurgeCompleteWrites DEF Finish
    <2>. QED
      BY <1>1, <1>2, <2>1
  <1>. QED
    BY <1>3, <1>4, <1>5, <1>6, <1>7, <1>8, <1>9, SingleApply, SingleAttempt, NextStep DEF Step

\* A token is attempted at most once in every reachable state.
LEMMA SingleCorrect == Spec => []SingleInv
  <1>1. Init => SingleInv
    BY DEF Init, SingleInv, Attempted
  <1>. QED
    BY <1>1, StepSingle, LaneInvCorrect, PTL DEF Spec

----------------------------------------------------------------------------
(* The lane implements ApprovalLedger. *)

Entries == [a \in ActIds |-> LedgerEntry(a)]
Moved == {a \in ActIds : Mutated(a)}
StateOf(result) == IF result \in {"attempting", "purging"} THEN "open"
                   ELSE IF result \in {"quarantined", "restored"} THEN "done" ELSE "stopped"

\* Steps that move nothing and leave every entry as it was are stutters.
LEMMA PromiseStutter ==
    ASSUME UNCHANGED muts, \A a \in ActIds : LedgerEntry(a)' = LedgerEntry(a)
    PROVE  [Promise!Next]_(Promise!vars)
  <1>1. Entries' = Entries
    BY DEF Entries
  <1>2. Moved' = Moved
    BY DEF Moved, Mutated
  <1>. QED
    BY <1>1, <1>2 DEF Promise!vars, Entries, Moved

\* A rejected row is no entry.
LEMMA PromiseRejected ==
    ASSUME TypeOK, UNCHANGED muts, Inserted({"rejected"})
    PROVE  [Promise!Next]_(Promise!vars)
  <1>1. \A a \in ActIds : /\ act[a] # None => act'[a] = act[a]
                          /\ act'[a] # None /\ act[a] = None => act'[a].result = "rejected"
    BY InsertedFrame
  <1>2. \A a \in ActIds : LedgerEntry(a)' = LedgerEntry(a)
    BY <1>1 DEF LedgerEntry
  <1>. QED
    BY <1>2, PromiseStutter

\* The entry of an attempt carries its token and the state of its result.
LEMMA EntryOf ==
    ASSUME NEW r \in RowType, r.result # "rejected"
    PROVE  /\ r # None /\ StateOf(r.result) \in {"open", "done", "stopped"}
           /\ [grant |-> r.token, state |-> StateOf(r.result)] # None
           /\ \A a : act[a] = r =>
                LedgerEntry(a) = [grant |-> r.token, state |-> StateOf(r.result)]
  <1>1. [grant |-> r.token, state |-> StateOf(r.result)] \in Promise!Entry
    BY DEF StateOf, Promise!Entry, Promise!States, RowType
  <1>. QED
    BY <1>1, NoEntryAssumption, NoRecordAssumption DEF LedgerEntry, StateOf

\* A new attempt is an Intend: its token was not spent before.
LEMMA PromiseIntend ==
    ASSUME LaneInv, SingleInv, NEW t \in Tokens, pending[t] # None, NEW i \in ActIds,
           NEW p \in ApprovalType, NEW r \in {"attempting", "purging", "failed"},
           Begin(i, Row(t, p, r)), UNCHANGED muts
    PROVE  [Promise!Next]_(Promise!vars)
  <1>. DEFINE e == [grant |-> t, state |-> StateOf(r)]
  <1>0. TypeOK /\ r \in Results
    BY DEF LaneInv, TypeInv, Results
  <1>1. /\ act[i] = None /\ act'[i] # None /\ act'[i].token = t /\ act'[i].result = r
        /\ \A a \in ActIds : a # i => act'[a] = act[a]
    BY <1>0, BeginInserts
  <1>3. LedgerEntry(i)' = e
    BY <1>1 DEF LedgerEntry, StateOf
  <1>4. \A a \in ActIds : a # i => LedgerEntry(a)' = LedgerEntry(a)
    BY <1>1 DEF LedgerEntry
  <1>5. Entries' = [Entries EXCEPT ![i] = e] /\ Entries[i] = None
    BY <1>1, <1>3, <1>4 DEF Entries, LedgerEntry
  <1>6. Moved' = Moved
    BY DEF Moved, Mutated
  <1>7. ~\E a \in ActIds : Entries[a] # None /\ Entries[a].grant = t
    BY DEF SingleInv, Attempted, Entries, LedgerEntry
  <1>8. StateOf(r) \in {"open", "stopped"}
    BY DEF StateOf
  <1>9. Promise!Intend(i, t, StateOf(r))
    BY <1>5, <1>6, <1>7, <1>8 DEF Promise!Intend, Promise!Spent, Entries, Moved
  <1>. QED
    BY <1>0, <1>8, <1>9 DEF Promise!Next, Promise!vars, Promise!States, Promise!Intend

\* A rename or an unlink is an Effect of an open attempt that had none.
LEMMA PromiseEffect ==
    ASSUME TypeOK, NEW i \in ActIds, act[i] \in RowType, act[i].result \in {"attempting", "purging"},
           ~Mutated(i), NEW m \in MutType, m.action = i, muts' = Append(muts, m), UNCHANGED act
    PROVE  [Promise!Next]_(Promise!vars)
  <1>1. Entries' = Entries
    BY DEF Entries, LedgerEntry
  <1>2. \A a : Mutated(a)' <=> Mutated(a) \/ a = i
    BY HistoryGrows
  <1>3. Moved' = Moved \cup {i} /\ i \notin Moved
    BY <1>2 DEF Moved
  <1>4. Entries[i] # None /\ Entries[i].state = "open"
    <2>1. act[i].result # "rejected" /\ StateOf(act[i].result) = "open"
      BY DEF StateOf
    <2>2. LedgerEntry(i) = [grant |-> act[i].token, state |-> "open"] /\ LedgerEntry(i) # None
      BY <2>1, EntryOf
    <2>. QED
      BY <2>2 DEF Entries
  <1>5. Promise!Effect(i)
    BY <1>1, <1>3, <1>4 DEF Promise!Effect, Entries, Moved
  <1>. QED
    BY <1>5 DEF Promise!Next, Promise!vars

\* An outcome is a Settle: done only of a move that happened.
LEMMA PromiseSettle ==
    ASSUME TypeOK, NEW i \in ActIds, act[i] \in RowType, act[i].result \in {"attempting", "purging"},
           NEW r \in {"quarantined", "restored", "purged", "failed", "partial"},
           r \in {"quarantined", "restored"} => Mutated(i),
           act' = [act EXCEPT ![i].result = r], UNCHANGED muts
    PROVE  [Promise!Next]_(Promise!vars)
  <1>. DEFINE s == StateOf(r)
  <1>1. Moved' = Moved
    BY DEF Moved, Mutated
  <1>2. /\ \A a \in ActIds : a # i => act'[a] = act[a]
        /\ act'[i].result = r /\ act'[i].token = act[i].token /\ act'[i] \in RowType
    BY DEF TypeOK, RowType, Results
  <1>3. s \in {"done", "stopped"} /\ (s = "done" => i \in Moved)
    BY DEF StateOf, Moved
  <1>4. LedgerEntry(i) = [grant |-> act[i].token, state |-> "open"] /\ LedgerEntry(i) # None
    <2>1. act[i].result # "rejected" /\ StateOf(act[i].result) = "open"
      BY DEF StateOf
    <2>. QED
      BY <2>1, EntryOf
  <1>5. LedgerEntry(i)' = [grant |-> act[i].token, state |-> s]
    BY <1>2, NoRecordAssumption DEF LedgerEntry, StateOf
  <1>6. \A a \in ActIds : a # i => LedgerEntry(a)' = LedgerEntry(a)
    BY <1>2 DEF LedgerEntry
  <1>. HIDE DEF s
  <1>7. Entries' = [Entries EXCEPT ![i].state = s]
    <2>1. [Entries[i] EXCEPT !.state = s] = [grant |-> act[i].token, state |-> s]
      BY <1>4 DEF Entries
    <2>. QED
      BY <1>5, <1>6, <2>1 DEF Entries
  <1>8. Entries[i] # None /\ Entries[i].state = "open"
    BY <1>4 DEF Entries
  <1>9. Promise!Settle(i, s)
    BY <1>1, <1>3, <1>7, <1>8 DEF Promise!Settle, Entries, Moved
  <1>. QED
    BY <1>3, <1>9 DEF Promise!Next, Promise!vars, Promise!States

\* The unlink of an executor that finds something in the slot.
LEMMA UnlinkEntry ==
    ASSUME TypeInv, LedgerInv, NEW a \in ActIds, ExecUnlink(a)
    PROVE  LET s == exec[a].plan.id IN
           /\ exec[a] \in ExecType /\ s \in Inodes /\ UNCHANGED <<act, qrow, art, pc, job, orig, file, now>>
           /\ UNCHANGED <<quarFrom, quietFrom>>
           /\ act[a] \in RowType /\ act[a].result = "purging" /\ ~Mutated(a)
           /\ \/ UNCHANGED <<quar, muts>>
              \/ /\ quar[s] \in Inodes /\ quar' = [quar EXCEPT ![s] = None]
                 /\ \E m \in MutType : /\ muts' = Append(muts, m) /\ m.op = "purge" /\ m.action = a
                                       /\ m.ino = quar[s] /\ m.sat = exec[a].sat
  <1>. DEFINE s == exec[a].plan.id
              m == Mutation("purge", a, quar[s], exec[a].sat)
  <1>0. TypeOK /\ exec[a] # None /\ exec[a].stage = "unlink"
    BY DEF TypeInv, ExecUnlink, Stage
  <1>1. exec[a] \in ExecType /\ act[a] \in RowType /\ act[a].result = "purging" /\ ~Mutated(a)
    BY <1>0 DEF LedgerInv, TypeOK, OrNone
  <1>2. s \in Inodes /\ exec[a].sat \in OrNone(Int)
    BY <1>1 DEF ExecType, PlanType
  <1>3. UNCHANGED <<act, qrow, art, pc, job, orig, file, now>> /\ UNCHANGED <<quarFrom, quietFrom>>
    BY DEF ExecUnlink, Foreground, store, lane
  <1>4. CASE UNCHANGED <<quar, muts>>
    BY <1>1, <1>2, <1>3, <1>4
  <1>5. CASE quar[s] # None /\ quar' = [quar EXCEPT ![s] = None] /\ muts' = Append(muts, m)
    <2>1. quar[s] \in Inodes
      BY <1>0, <1>2, <1>5 DEF TypeOK, OrNone
    <2>2. now \in Nat /\ quietFrom[quar[s]] \in Nat
      BY <1>0, <2>1 DEF TypeOK
    <2>3. m \in MutType /\ m.op = "purge" /\ m.action = a /\ m.ino = quar[s] /\ m.sat = exec[a].sat
      BY <1>2, <2>1, <2>2 DEF Mutation, MutType, CacheKinds
    <2>. HIDE DEF m
    <2>. QED
      BY <1>1, <1>2, <1>3, <1>5, <2>1, <2>3
  <1>. QED
    BY <1>4, <1>5 DEF ExecUnlink

\* Every step of the lane is a step of the ledger or none.
LEMMA StepPromise == LaneInv /\ SingleInv /\ [Next]_vars => [Promise!Next]_(Promise!vars)
  <1>. SUFFICES ASSUME LaneInv, SingleInv, [Next]_vars PROVE [Promise!Next]_(Promise!vars)
    OBVIOUS
  <1>0. TypeInv /\ TypeOK /\ HeldOK /\ LedgerInv
    BY DEF LaneInv, TypeInv
  <1>1. CASE UNCHANGED <<act, muts>>
    BY <1>0, <1>1, PromiseRejected DEF Inserted
  <1>2. CASE Silent \/ UNCHANGED vars
    BY <1>0, <1>1, <1>2, SilentFrame DEF vars, machine, store
  <1>3. CASE \E t \in Tokens : \E b, ok \in BOOLEAN : CacheApply(t, b, ok) \/ ApplyRefused(t, b, ok)
    <2>1. UNCHANGED muts
      BY <1>3 DEF CacheApply, ApplyRefused, machine
    <2>2. Inserted({"rejected"})
      BY <1>0, <1>3, ApplyInserts
    <2>. QED
      BY <1>0, <2>1, <2>2, PromiseRejected
  <1>4. ASSUME NEW t \in Tokens, NEW a \in ActIds, NEW ok \in BOOLEAN, MoveBegin(t, a, ok)
        PROVE  [Promise!Next]_(Promise!vars)
    <2>1. UNCHANGED muts /\ pending[t] # None /\ pending[t].appr \in ApprovalType
      BY <1>0, <1>4, AuthorisedFacts DEF MoveBegin, machine
    <2>2. act' = act \/ Begin(a, Row(t, pending[t].appr, "attempting"))
      BY <1>4 DEF MoveBegin
    <2>. QED
      BY <1>1, <2>1, <2>2, PromiseIntend
  <1>5. ASSUME NEW t \in Tokens, NEW a \in ActIds, NEW ok \in BOOLEAN, PurgePrepare(t, a, ok)
        PROVE  [Promise!Next]_(Promise!vars)
    <2>1. UNCHANGED muts /\ pending[t] # None /\ pending[t].appr \in ApprovalType
      BY <1>0, <1>5, PurgePlan DEF PurgePrepare, machine
    <2>2. act' = act \/ \E r \in {"failed", "purging"} : Begin(a, Row(t, pending[t].appr, r))
      BY <1>5 DEF PurgePrepare
    <2>. QED
      BY <1>1, <2>1, <2>2, PromiseIntend
  <1>6. CASE MoveRename
    <2>. DEFINE src == IF job.kind = "cleanup" THEN orig ELSE quar[job.id]
                m == Mutation(job.kind, job.action, src, None)
    <2>1. /\ UNCHANGED act /\ job.action \in ActIds /\ act[job.action] \in RowType
          /\ act[job.action].result = "attempting" /\ ~Mutated(job.action)
      BY <1>0, <1>6 DEF MoveRename, store, TypeInv, LaneOK, Moving, MoveJob, LedgerInv, TypeOK, OrNone
    <2>2. m \in MutType /\ muts' = Append(muts, m)
      BY <1>0, <1>6, MoveRenameJob
    <2>3. m.action = job.action
      BY DEF Mutation
    <2>. HIDE DEF m
    <2>. QED
      BY <1>0, <2>1, <2>2, <2>3, PromiseEffect
  <1>7. ASSUME NEW a \in ActIds, ExecUnlink(a) PROVE [Promise!Next]_(Promise!vars)
    BY <1>0, <1>1, <1>7, UnlinkEntry, PromiseEffect
  <1>8. ASSUME NEW ok \in BOOLEAN, MoveCheck(ok) \/ MoveFail(ok) \/ MoveRecord(ok)
        PROVE  [Promise!Next]_(Promise!vars)
    <2>1. /\ UNCHANGED muts /\ job.action \in ActIds /\ act[job.action] \in RowType
          /\ act[job.action].result = "attempting" /\ (pc = "record" => Mutated(job.action))
      BY <1>0, <1>8, MoveOutcome DEF machine, LedgerInv
    <2>2. \/ UNCHANGED act
          \/ \E r \in {"quarantined", "restored", "failed"} :
                act' = [act EXCEPT ![job.action].result = r] /\ (r # "failed" => pc = "record")
      BY <1>0, <1>8, MoveOutcome
    <2>3. PICK i \in ActIds : i = job.action
      BY <2>1
    <2>. QED
      BY <1>0, <1>1, <2>1, <2>2, <2>3, PromiseSettle
  <1>9. ASSUME NEW a \in ActIds, NEW s \in BOOLEAN, NEW ok \in BOOLEAN, CachePurgeComplete(a, s, ok)
        PROVE  [Promise!Next]_(Promise!vars)
    <2>1. /\ UNCHANGED muts /\ act[a] \in RowType /\ act[a].result = "purging"
          /\ \/ UNCHANGED act
             \/ \E r \in {"failed", "partial", "purged"} : act' = [act EXCEPT ![a].result = r]
      BY <1>0, <1>9, PurgeCompleteWrites DEF Finish, machine
    <2>. QED
      BY <1>0, <1>1, <2>1, PromiseSettle
  <1>. QED
    BY <1>2, <1>3, <1>4, <1>5, <1>6, <1>7, <1>8, <1>9, NextStep DEF Step, Silent

\* The cache lane implements ApprovalLedger for every configuration: a token is
\* spent on one attempt, the row is durable before the rename or unlink, a file
\* is moved at most once per action and only while its row is open, and
\* quarantined and restored are recorded only of a move that happened.
THEOREM CacheImplementsLedger == Spec => CacheKeepsPromise
  <1>1. Init => Promise!Init
    <2>. SUFFICES ASSUME Init PROVE Promise!Init
      OBVIOUS
    <2>1. \A a \in ActIds : LedgerEntry(a) = None /\ ~Mutated(a)
      BY DEF Init, LedgerEntry, Mutated
    <2>2. Entries = [a \in ActIds |-> None] /\ Moved = {}
      BY <2>1 DEF Entries, Moved
    <2>. QED
      BY <2>2 DEF Promise!Init, Entries, Moved
  <1>2. Spec => [](LaneInv /\ SingleInv)
    BY LaneInvCorrect, SingleCorrect, PTL
  <1>. QED
    BY <1>1, <1>2, StepPromise, PTL DEF Spec, CacheKeepsPromise, Promise!Spec

----------------------------------------------------------------------------
(* Clocks and versions only go forward. *)

\* A file that enters the quarantine directory gets a new ctime, and one that
\* is written to a new body, so an identity seen before and found unchanged
\* means that nothing happened to the file in between.
Forward ==
    /\ now \in Nat /\ now' \in Nat /\ now <= now'
    /\ \A i \in Inodes :
         /\ file[i].ctime \in Nat /\ file'[i].ctime \in Nat /\ file[i].ctime <= file'[i].ctime
         /\ file[i].body \in Nat /\ file'[i].body \in Nat /\ file[i].body <= file'[i].body
         /\ quarFrom[i] \in Nat /\ quietFrom[i] \in Nat
         /\ quarFrom'[i] = quarFrom[i] \/ (quarFrom'[i] = now /\ file[i].ctime < file'[i].ctime)
         /\ quietFrom'[i] = quietFrom[i] \/ (quietFrom'[i] = now /\ file[i].body < file'[i].body)

\* Steps that leave the machine alone.
LEMMA ForwardFrame ==
    ASSUME TypeOK, UNCHANGED <<now, file, quarFrom, quietFrom>>
    PROVE  Forward
  <1>1. now \in Nat /\ file \in [Inodes -> [body : Nat, ctime : Nat]]
        /\ quietFrom \in [Inodes -> Nat] /\ quarFrom \in [Inodes -> Nat]
    BY DEF TypeOK
  <1>. QED
    BY <1>1 DEF Forward

\* Every step goes forward.
LEMMA StepForward == LaneInv /\ [Next]_vars => Forward
  <1>. SUFFICES ASSUME LaneInv, [Next]_vars PROVE Forward
    OBVIOUS
  <1>0. TypeInv /\ HeldOK /\ TypeOK
    BY DEF LaneInv, TypeInv
  <1>1. now \in Nat /\ file \in [Inodes -> [body : Nat, ctime : Nat]]
        /\ quietFrom \in [Inodes -> Nat] /\ quarFrom \in [Inodes -> Nat]
    BY <1>0 DEF TypeOK
  <1>2. ASSUME NEW i \in Inodes, Touch(i), UNCHANGED <<now, quarFrom>> PROVE Forward
    <2>1. /\ file' = [file EXCEPT ![i] = [body |-> file[i].body + 1, ctime |-> file[i].ctime + 1]]
          /\ quietFrom' = [quietFrom EXCEPT ![i] = now]
      BY <1>2 DEF Touch
    <2>2. /\ file'[i].body = file[i].body + 1 /\ file'[i].ctime = file[i].ctime + 1
          /\ quietFrom'[i] = now
      BY <1>1, <2>1
    <2>3. \A j \in Inodes : j # i => file'[j] = file[j] /\ quietFrom'[j] = quietFrom[j]
      BY <1>1, <2>1
    <2>. QED
      BY <1>1, <1>2, <2>2, <2>3 DEF Forward
  <1>3. CASE Machine
    <2>1. CASE Tick
      BY <1>1, <2>1 DEF Tick, Forward
    <2>2. CASE Remove \/ SessionFlip
      BY <1>0, <2>2, ForwardFrame DEF Remove, SessionFlip
    <2>3. CASE Write
      <3>1. PICK i \in Inodes : i = orig /\ Touch(i)
        BY <1>0, <2>3 DEF Write, TypeOK, OrNone
      <3>. QED
        BY <1>2, <2>3, <3>1 DEF Write
    <2>4. ASSUME NEW i \in Inodes, Create(i) PROVE Forward
      BY <1>2, <2>4 DEF Create
    <2>5. ASSUME NEW s \in Inodes, Tamper(s) PROVE Forward
      <3>1. PICK i \in Inodes : i = quar[s] /\ Touch(i)
        BY <1>0, <2>5 DEF Tamper, TypeOK, OrNone
      <3>. QED
        BY <1>2, <2>5, <3>1 DEF Tamper
    <2>. QED
      BY <1>3, <2>1, <2>2, <2>3, <2>4, <2>5 DEF Machine
  <1>4. CASE MoveRename
    <2>. DEFINE src == IF job.kind = "cleanup" THEN orig ELSE quar[job.id]
    <2>1. /\ src \in Inodes /\ file' = [file EXCEPT ![src].ctime = @ + 1]
          /\ file'[src].ctime = file[src].ctime + 1 /\ file'[src].body = file[src].body
      BY <1>0, <1>4, MoveRenameJob
    <2>2. /\ UNCHANGED <<now, quietFrom>>
          /\ quarFrom' = [quarFrom EXCEPT ![src] = IF job.kind = "cleanup" THEN now ELSE @]
      BY <1>4 DEF MoveRename
    <2>. HIDE DEF src
    <2>3. \A j \in Inodes : j # src => file'[j] = file[j] /\ quarFrom'[j] = quarFrom[j]
      BY <1>1, <2>1, <2>2
    <2>4. quarFrom'[src] \in {now, quarFrom[src]}
      BY <1>1, <2>1, <2>2
    <2>. QED
      BY <1>1, <2>1, <2>2, <2>3, <2>4 DEF Forward
  <1>5. CASE \E t \in Tokens : \E i \in Inodes : \E ok \in BOOLEAN : Preview(t, i, ok)
    <2>1. UNCHANGED machine
      BY <1>0, <1>5, PreviewApproval
    <2>. QED
      BY <1>0, <2>1, ForwardFrame DEF machine
  <1>6. CASE \/ ProcessScan \/ TripElsewhere \/ Restart
             \/ \E lag \in 0..MaxLag : CacheScanStart(lag)
             \/ \E c \in BOOLEAN : CacheScanCommit(c) \/ CacheScanFail(c)
    <2>1. UNCHANGED machine
      BY <1>6 DEF ProcessScan, TripElsewhere, Restart, CacheScanStart, CacheScanCommit, CacheScanFail
    <2>. QED
      BY <1>0, <2>1, ForwardFrame DEF machine
  <1>7. CASE \/ \E t \in Tokens : \E b, ok \in BOOLEAN : CacheApply(t, b, ok) \/ ApplyRefused(t, b, ok)
             \/ \E t \in Tokens : \E a \in ActIds : \E ok \in BOOLEAN : MoveBegin(t, a, ok)
             \/ \E t \in Tokens : \E a \in ActIds : \E ok \in BOOLEAN : PurgePrepare(t, a, ok)
    <2>1. UNCHANGED machine
      BY <1>7 DEF CacheApply, ApplyRefused, MoveBegin, PurgePrepare
    <2>. QED
      BY <1>0, <2>1, ForwardFrame DEF machine
  <1>8. CASE \/ \E ok \in BOOLEAN : MoveCheck(ok) \/ MoveFail(ok)
             \/ \E ok \in BOOLEAN : MoveRecord(ok)
    <2>1. UNCHANGED machine
      BY <1>8 DEF MoveCheck, MoveFail, MoveRecord, Fail
    <2>. QED
      BY <1>0, <2>1, ForwardFrame DEF machine
  <1>9. CASE \/ \E a \in ActIds : ExecCheck(a) \/ ExecDie(a)
             \/ \E a \in ActIds : ExecUnlink(a)
             \/ \E a \in ActIds : \E b, ok \in BOOLEAN : CachePurgeComplete(a, b, ok)
             \/ UNCHANGED vars
    <2>1. UNCHANGED <<now, file, quarFrom, quietFrom>>
      BY <1>9 DEF ExecCheck, ExecDie, ExecUnlink, CachePurgeComplete, vars, machine
    <2>. QED
      BY <1>0, <2>1, ForwardFrame
  <1>. QED
    BY <1>3, <1>4, <1>5, <1>6, <1>7, <1>8, <1>9, NextStep DEF Step

----------------------------------------------------------------------------
(* What a step may do to each table. *)

\* A quarantine row keeps its identity and deadline until a move is recorded.
LEMMA RowsKept ==
    ASSUME LaneInv, [Next]_vars, NEW i \in Inodes, qrow'[i] # None
    PROVE  \/ qrow[i] # None /\ qrow'[i].ident = qrow[i].ident /\ qrow'[i].grace = qrow[i].grace
           \/ /\ pc = "record" /\ job.kind = "cleanup" /\ i = job.id
              /\ qrow'[i].ident = job.ident /\ qrow'[i].grace = now + Grace
  <1>. DEFINE Same == qrow[i] # None /\ qrow'[i].ident = qrow[i].ident /\ qrow'[i].grace = qrow[i].grace
              Recorded == /\ pc = "record" /\ job.kind = "cleanup" /\ i = job.id
                          /\ qrow'[i].ident = job.ident /\ qrow'[i].grace = now + Grace
  <1>0. TypeInv /\ HeldOK /\ LedgerInv /\ TypeOK /\ qrow \in [Inodes -> OrNone(QuarType)]
    BY DEF LaneInv, TypeInv, TypeOK
  <1>1. CASE UNCHANGED qrow
    BY <1>1
  <1>2. ASSUME NEW j \in Inodes, qrow[j] \in QuarType, NEW s, qrow' = [qrow EXCEPT ![j].status = s]
        PROVE  qrow[i] # None /\ qrow'[i].ident = qrow[i].ident /\ qrow'[i].grace = qrow[i].grace
    <2>1. CASE i = j
      BY <1>0, <1>2, <2>1, NoRecordAssumption DEF QuarType
    <2>2. CASE i # j
      BY <1>0, <1>2, <2>2
    <2>. QED
      BY <2>1, <2>2
  <1>3. CASE Silent \/ UNCHANGED vars
    BY <1>0, <1>1, <1>3, SilentFrame DEF vars, store
  <1>4. CASE \/ \E t \in Tokens : \E b, ok \in BOOLEAN : CacheApply(t, b, ok) \/ ApplyRefused(t, b, ok)
             \/ \E t \in Tokens : \E a \in ActIds : \E ok \in BOOLEAN : MoveBegin(t, a, ok)
             \/ \E t \in Tokens : \E a \in ActIds : \E ok \in BOOLEAN : PurgePrepare(t, a, ok)
             \/ \E ok \in BOOLEAN : MoveCheck(ok) \/ MoveFail(ok)
             \/ MoveRename
             \/ \E a \in ActIds : ExecUnlink(a)
    <2>1. UNCHANGED qrow
      BY <1>4 DEF CacheApply, ApplyRefused, MoveBegin, PurgePrepare, MoveCheck, MoveFail, Fail,
                  MoveRename, ExecUnlink, Foreground, store
    <2>. QED
      BY <1>1, <2>1
  <1>5. ASSUME NEW ok \in BOOLEAN, MoveRecord(ok) PROVE Same \/ Recorded
    <2>1. pc = "record" /\ job.id \in Inodes /\ (job.kind = "restore" => qrow[job.id] \in QuarType)
          /\ job.kind \in {"cleanup", "restore"}
      BY <1>0, <1>5 DEF MoveRecord, TypeInv, LaneOK, Moving, MoveJob, HeldOK, OrNone
    <2>2. CASE job.kind = "cleanup"
                 /\ qrow' = [qrow EXCEPT ![job.id] = [ident |-> job.ident, grace |-> now + Grace,
                                                      status |-> "quarantined"]]
      BY <1>0, <2>1, <2>2
    <2>3. CASE job.kind = "restore" /\ qrow' = [qrow EXCEPT ![job.id].status = "restored"]
      BY <1>2, <2>1, <2>3
    <2>. QED
      BY <1>1, <1>5, <2>1, <2>2, <2>3 DEF MoveRecord
  <1>6. ASSUME NEW a \in ActIds, NEW s \in BOOLEAN, NEW ok \in BOOLEAN, CachePurgeComplete(a, s, ok)
        PROVE  Same \/ Recorded
    <2>1. /\ exec[a].plan.id \in Inodes /\ qrow[exec[a].plan.id] \in QuarType
          /\ qrow' = qrow \/ qrow' = [qrow EXCEPT ![exec[a].plan.id].status = "purged"]
      BY <1>0, <1>6, PurgeCompleteWrites
    <2>. QED
      BY <1>1, <1>2, <2>1
  <1>. QED
    BY <1>3, <1>4, <1>5, <1>6, NextStep DEF Step, Silent

\* An apply starts to wait now, or has been waiting.
LEMMA WaitKept ==
    ASSUME LaneInv, [Next]_vars, NEW t \in Tokens, pending'[t] # None
    PROVE  pending'[t] = pending[t] \/ pending'[t].at = now
  <1>0. TypeOK /\ pending \in [Tokens -> OrNone(WaitType)]
    BY DEF LaneInv, TypeInv, TypeOK
  <1>1. CASE UNCHANGED pending
    BY <1>1
  <1>2. CASE \/ Machine \/ ProcessScan \/ TripElsewhere \/ UNCHANGED vars
             \/ \E u \in Tokens : \E i \in Inodes : \E ok \in BOOLEAN : Preview(u, i, ok)
    <2>1. UNCHANGED pending
      BY <1>0, <1>2, MachineFrame, PreviewApproval DEF ProcessScan, TripElsewhere, vars
    <2>. QED
      BY <1>1, <2>1
  <1>3. CASE \/ \E lag \in 0..MaxLag : CacheScanStart(lag)
             \/ \E c \in BOOLEAN : CacheScanCommit(c) \/ CacheScanFail(c)
             \/ \E ok \in BOOLEAN : MoveCheck(ok) \/ MoveFail(ok)
             \/ \E ok \in BOOLEAN : MoveRecord(ok)
             \/ MoveRename
    <2>1. UNCHANGED pending
      BY <1>3 DEF CacheScanStart, CacheScanCommit, CacheScanFail, MoveCheck, MoveFail, Fail,
                  MoveRecord, MoveRename
    <2>. QED
      BY <1>1, <2>1
  <1>4. CASE \/ \E a \in ActIds : ExecCheck(a) \/ ExecDie(a)
             \/ \E a \in ActIds : ExecUnlink(a)
             \/ \E a \in ActIds : \E b, ok \in BOOLEAN : CachePurgeComplete(a, b, ok)
    <2>1. UNCHANGED pending
      BY <1>4 DEF ExecCheck, ExecDie, ExecUnlink, Foreground, CachePurgeComplete
    <2>. QED
      BY <1>1, <2>1
  <1>5. CASE Restart
    BY <1>5 DEF Restart
  <1>6. ASSUME NEW u \in Tokens, pending' = [pending EXCEPT ![u] = None]
        PROVE  pending'[t] = pending[t] \/ pending'[t].at = now
    BY <1>0, <1>6
  <1>7. ASSUME NEW u \in Tokens, NEW b \in BOOLEAN, NEW ok \in BOOLEAN, CacheApply(u, b, ok)
        PROVE  pending'[t] = pending[t] \/ pending'[t].at = now
    <2>1. \/ UNCHANGED pending
          \/ pending' = [pending EXCEPT ![u] = [appr |-> approvals[u], at |-> now]]
      BY <1>7 DEF CacheApply
    <2>. QED
      BY <1>0, <1>1, <2>1
  <1>8. CASE \/ \E u \in Tokens : \E b, ok \in BOOLEAN : ApplyRefused(u, b, ok)
             \/ \E u \in Tokens : \E a \in ActIds : \E ok \in BOOLEAN : MoveBegin(u, a, ok)
             \/ \E u \in Tokens : \E a \in ActIds : \E ok \in BOOLEAN : PurgePrepare(u, a, ok)
    BY <1>6, <1>8 DEF ApplyRefused, MoveBegin, PurgePrepare
  <1>. QED
    BY <1>2, <1>3, <1>4, <1>5, <1>7, <1>8, NextStep DEF Step

\* A plan is carried unchanged from its preparation, and its executor goes on
\* to unlink only a file that it found exactly as planned.
LEMMA ExecKept ==
    ASSUME LaneInv, [Next]_vars, NEW a \in ActIds, exec'[a] # None
    PROVE  \/ /\ exec[a] # None /\ exec'[a].plan = exec[a].plan
              /\ exec'[a].stage = "unlink" =>
                   \/ exec[a].stage = "unlink" /\ exec'[a].sat = exec[a].sat
                   \/ LET p == exec[a].plan IN
                      Ident(p.id) = p.ident /\ exec'[a].sat = now - quarFrom[p.id]
           \/ /\ exec'[a].stage = "ready" /\ exec'[a].plan.id \in Inodes
              /\ qrow[exec'[a].plan.id] # None
              /\ exec'[a].plan.ident = qrow[exec'[a].plan.id].ident
              /\ \E t \in Tokens : pending[t] # None /\ pending[t].at >= qrow[exec'[a].plan.id].grace
  <1>. DEFINE Seen == LET p == exec[a].plan IN
                      Ident(p.id) = p.ident /\ exec'[a].sat = now - quarFrom[p.id]
              Carried == /\ exec[a] # None /\ exec'[a].plan = exec[a].plan
                         /\ exec'[a].stage = "unlink" =>
                              \/ exec[a].stage = "unlink" /\ exec'[a].sat = exec[a].sat
                              \/ Seen
              Prepared == /\ exec'[a].stage = "ready" /\ exec'[a].plan.id \in Inodes
                          /\ qrow[exec'[a].plan.id] # None
                          /\ exec'[a].plan.ident = qrow[exec'[a].plan.id].ident
                          /\ \E t \in Tokens : pending[t] # None
                                               /\ pending[t].at >= qrow[exec'[a].plan.id].grace
  <1>0. TypeInv /\ HeldOK /\ LedgerInv /\ TypeOK /\ exec \in [ActIds -> OrNone(ExecType)]
    BY DEF LaneInv, TypeInv, TypeOK
  <1>1. exec'[a] = exec[a] => Carried
    OBVIOUS
  <1>2. CASE \/ Machine \/ ProcessScan \/ TripElsewhere \/ Restart \/ UNCHANGED vars
             \/ \E t \in Tokens : \E i \in Inodes : \E ok \in BOOLEAN : Preview(t, i, ok)
    <2>1. UNCHANGED exec
      BY <1>0, <1>2, MachineFrame, PreviewApproval DEF ProcessScan, TripElsewhere, Restart, vars
    <2>. QED
      BY <1>1, <2>1
  <1>3. CASE \/ \E lag \in 0..MaxLag : CacheScanStart(lag)
             \/ \E c \in BOOLEAN : CacheScanCommit(c) \/ CacheScanFail(c)
             \/ \E ok \in BOOLEAN : MoveCheck(ok) \/ MoveFail(ok)
             \/ \E ok \in BOOLEAN : MoveRecord(ok)
             \/ MoveRename
    <2>1. UNCHANGED exec
      BY <1>3 DEF CacheScanStart, CacheScanCommit, CacheScanFail, MoveCheck, MoveFail, Fail,
                  MoveRecord, MoveRename
    <2>. QED
      BY <1>1, <2>1
  <1>4. CASE \/ \E t \in Tokens : \E b, ok \in BOOLEAN : CacheApply(t, b, ok) \/ ApplyRefused(t, b, ok)
             \/ \E t \in Tokens : \E b \in ActIds : \E ok \in BOOLEAN : MoveBegin(t, b, ok)
    <2>1. UNCHANGED exec
      BY <1>4 DEF CacheApply, ApplyRefused, MoveBegin
    <2>. QED
      BY <1>1, <2>1
  <1>5. ASSUME NEW b \in ActIds, ExecDie(b) \/ exec' = [exec EXCEPT ![b] = None] PROVE Carried
    BY <1>0, <1>1, <1>5 DEF ExecDie
  <1>6. ASSUME NEW b \in ActIds, ExecUnlink(b) PROVE Carried
    <2>1. CASE a = b
      <3>1. exec[a] # None /\ exec'[a].plan = exec[a].plan
        BY <1>0, <1>6, ExecKeepsPlan
      <3>2. exec[a] \in ExecType /\ exec' = [exec EXCEPT ![a].stage = "report"]
        BY <1>0, <1>6, <2>1, <3>1 DEF ExecUnlink, OrNone
      <3>3. exec'[a].stage = "report"
        BY <1>0, <3>2 DEF ExecType
      <3>. QED
        BY <3>1, <3>3
    <2>2. CASE a # b
      BY <1>0, <1>1, <1>6, <2>2, ExecKeepsPlan
    <2>. QED
      BY <2>1, <2>2
  <1>7. ASSUME NEW b \in ActIds, ExecCheck(b) PROVE Carried
    <2>1. CASE a = b
      <3>. DEFINE p == exec[a].plan
                  exact == now < p.expires /\ quar[p.id] # None /\ Ident(quar[p.id]) = p.ident
                  st == IF exact THEN "unlink" ELSE "report"
                  sat == IF exact THEN now - quarFrom[quar[p.id]] ELSE None
      <3>1. exec[a] # None /\ exec'[a].plan = exec[a].plan
        BY <1>0, <1>7, ExecKeepsPlan
      <3>2. exec[a] \in ExecType /\ p.id \in Inodes
        BY <1>0, <3>1 DEF OrNone, ExecType, PlanType
      <3>3. exec' = [exec EXCEPT ![a].stage = st, ![a].sat = sat]
        BY <1>7, <2>1 DEF ExecCheck
      <3>4. (st = "unlink" => exact) /\ (exact => sat = now - quarFrom[quar[p.id]])
        OBVIOUS
      <3>5. exact => quar[p.id] = p.id
        BY <1>0, <3>1, <3>2 DEF HeldOK, Ident
      <3>6. st = "unlink" => Ident(p.id) = p.ident /\ sat = now - quarFrom[p.id]
        BY <3>4, <3>5
      <3>. HIDE DEF st, sat, p
      <3>7. exec'[a].stage = st /\ exec'[a].sat = sat
        BY <1>0, <3>2, <3>3 DEF ExecType
      <3>. QED
        BY <3>1, <3>6, <3>7 DEF p
    <2>2. CASE a # b
      BY <1>0, <1>1, <1>7, <2>2, ExecKeepsPlan
    <2>. QED
      BY <2>1, <2>2
  <1>8. CASE \E b \in ActIds : \E s, ok \in BOOLEAN : CachePurgeComplete(b, s, ok)
    BY <1>5, <1>8 DEF CachePurgeComplete
  <1>9. ASSUME NEW t \in Tokens, NEW b \in ActIds, NEW ok \in BOOLEAN, PurgePrepare(t, b, ok)
        PROVE  Carried \/ Prepared
    <2>. DEFINE p == pending[t]
    <2>1. /\ p.appr.id \in Inodes /\ Plan(p, b).id = p.appr.id /\ qrow[p.appr.id] # None
          /\ Plan(p, b).ident = p.appr.qrow.ident
          /\ \/ UNCHANGED exec
             \/ exec' = [exec EXCEPT ![b] = [plan |-> Plan(p, b), stage |-> "ready", sat |-> None]]
      BY <1>0, <1>9, PurgePlan
    <2>2. pending[t] # None /\ p.at >= p.appr.qrow.grace /\ qrow[p.appr.id] = p.appr.qrow
      BY <1>0, <1>9, AuthorisedFacts DEF PurgePrepare
    <2>3. CASE /\ a = b
               /\ exec' = [exec EXCEPT ![b] = [plan |-> Plan(p, b), stage |-> "ready", sat |-> None]]
      <3>1. exec'[a].plan = Plan(p, b) /\ exec'[a].stage = "ready"
        BY <1>0, <2>3
      <3>. QED
        BY <2>1, <2>2, <3>1
    <2>4. CASE exec'[a] = exec[a]
      BY <1>1, <2>4
    <2>. QED
      BY <1>0, <2>1, <2>3, <2>4
  <1>. QED
    BY <1>2, <1>3, <1>4, <1>5, <1>6, <1>7, <1>8, <1>9, NextStep DEF Step

\* A move in progress is the one that was begun, until its rename.
LEMMA JobKept ==
    ASSUME LaneInv, [Next]_vars, Moving'
    PROVE  \/ Moving /\ UNCHANGED job /\ (pc' = pc \/ (pc = "check" /\ pc' = "rename"))
           \/ \E t \in Tokens : \E a \in ActIds : \E ok \in BOOLEAN :
                MoveBegin(t, a, ok) /\ pc' = "check"
           \/ MoveRename
  <1>0. TypeInv /\ HeldOK /\ LedgerInv /\ TypeOK
    BY DEF LaneInv, TypeInv
  <1>1. UNCHANGED <<pc, job>> => Moving
    BY DEF Moving
  <1>2. CASE Silent \/ UNCHANGED vars
    BY <1>0, <1>1, <1>2, SilentFrame DEF Moving, vars, lane
  <1>3. CASE \/ \E t \in Tokens : \E b, ok \in BOOLEAN : CacheApply(t, b, ok) \/ ApplyRefused(t, b, ok)
             \/ \E t \in Tokens : \E a \in ActIds : \E ok \in BOOLEAN : PurgePrepare(t, a, ok)
             \/ \E a \in ActIds : ExecUnlink(a)
             \/ \E a \in ActIds : \E b, ok \in BOOLEAN : CachePurgeComplete(a, b, ok)
    <2>1. UNCHANGED <<pc, job>>
      BY <1>3 DEF CacheApply, ApplyRefused, PurgePrepare, ExecUnlink, Foreground, CachePurgeComplete,
                  lane
    <2>. QED
      BY <1>1, <2>1
  <1>4. ASSUME NEW t \in Tokens, NEW a \in ActIds, NEW ok \in BOOLEAN, MoveBegin(t, a, ok)
        PROVE  pc' = "check"
    BY <1>4, <1>1 DEF MoveBegin, lane, Idle, Moving
  <1>5. CASE \E ok \in BOOLEAN : MoveCheck(ok) \/ MoveFail(ok)
    BY <1>5 DEF MoveCheck, MoveFail, Fail, Release, Moving
  <1>6. CASE \E ok \in BOOLEAN : MoveRecord(ok)
    BY <1>6 DEF MoveRecord, Release, Moving
  <1>. QED
    BY <1>2, <1>3, <1>4, <1>5, <1>6, NextStep DEF Step, Silent

\* The history is extended by renames and unlinks.
LEMMA HistoryKept ==
    ASSUME LaneInv, [Next]_vars
    PROVE  UNCHANGED muts \/ MoveRename \/ \E a \in ActIds : ExecUnlink(a)
  <1>0. TypeInv /\ HeldOK /\ LedgerInv /\ TypeOK
    BY DEF LaneInv, TypeInv
  <1>1. CASE Silent \/ UNCHANGED vars
    BY <1>0, <1>1, SilentFrame DEF vars, machine
  <1>2. CASE \/ \E t \in Tokens : \E b, ok \in BOOLEAN : CacheApply(t, b, ok) \/ ApplyRefused(t, b, ok)
             \/ \E t \in Tokens : \E a \in ActIds : \E ok \in BOOLEAN : MoveBegin(t, a, ok)
             \/ \E t \in Tokens : \E a \in ActIds : \E ok \in BOOLEAN : PurgePrepare(t, a, ok)
    BY <1>2 DEF CacheApply, ApplyRefused, MoveBegin, PurgePrepare, machine
  <1>3. CASE \/ \E ok \in BOOLEAN : MoveCheck(ok) \/ MoveFail(ok)
             \/ \E ok \in BOOLEAN : MoveRecord(ok)
             \/ \E a \in ActIds : \E b, ok \in BOOLEAN : CachePurgeComplete(a, b, ok)
    BY <1>3 DEF MoveCheck, MoveFail, Fail, MoveRecord, CachePurgeComplete, machine
  <1>. QED
    BY <1>1, <1>2, <1>3, NextStep DEF Step, Silent

----------------------------------------------------------------------------
(* Nothing is unlinked before its grace period is over. *)

\* What the deadline of a row says about the file in the slot: as long as the
\* recorded ctime is the file's, the file entered the directory a whole grace
\* period before the deadline.
GraceRows == \A i \in Inodes :
    /\ quarFrom[i] <= now
    /\ qrow[i] # None =>
         /\ qrow[i].ident.ctime <= file[i].ctime
         /\ qrow[i].ident.ctime = file[i].ctime => quarFrom[i] + Grace <= qrow[i].grace
GraceMove == Moving => job.ident.ctime <= file[job.id].ctime
GraceWait == \A t \in Tokens : pending[t] # None => pending[t].at <= now

\* And what a plan says about the file it names.
GracePlan(a) ==
    LET p == exec[a].plan
    IN /\ p.ident.ctime <= file[p.id].ctime
       /\ p.ident.ctime = file[p.id].ctime => quarFrom[p.id] + Grace <= now
       /\ exec[a].stage = "unlink" => exec[a].sat \in Int /\ exec[a].sat >= Grace
GraceInv ==
    /\ GraceRows /\ GraceMove /\ GraceWait
    /\ \A a \in ActIds : exec[a] # None => GracePlan(a)
    /\ GraceBeforePurge

\* The numbers in the rows, the lane's hand and the plans.
LEMMA GraceNumbers ==
    ASSUME TypeInv
    PROVE  /\ \A i \in Inodes : qrow[i] # None =>
                qrow[i] \in QuarType /\ qrow[i].ident.ctime \in Nat /\ qrow[i].grace \in Nat
           /\ Moving => job.id \in Inodes /\ job.ident.ctime \in Nat
           /\ \A t \in Tokens : pending[t] # None => pending[t].at \in Nat
           /\ \A a \in ActIds : exec[a] # None =>
                /\ exec[a].plan.id \in Inodes /\ exec[a].plan.ident.ctime \in Nat
                /\ exec[a].sat \in OrNone(Int)
  <1>1. \A i \in Inodes : qrow[i] # None =>
                qrow[i] \in QuarType /\ qrow[i].ident.ctime \in Nat /\ qrow[i].grace \in Nat
    BY DEF TypeInv, TypeOK, OrNone, QuarType, IdentType
  <1>2. Moving => job.id \in Inodes /\ job.ident.ctime \in Nat
    BY DEF TypeInv, LaneOK, MoveJob, IdentType
  <1>3. \A t \in Tokens : pending[t] # None => pending[t].at \in Nat
    BY DEF TypeInv, TypeOK, OrNone, WaitType
  <1>4. \A a \in ActIds : exec[a] # None =>
                /\ exec[a].plan.id \in Inodes /\ exec[a].plan.ident.ctime \in Nat
                /\ exec[a].sat \in OrNone(Int)
    BY DEF TypeInv, TypeOK, OrNone, ExecType, PlanType, IdentType
  <1>. QED
    BY <1>1, <1>2, <1>3, <1>4

\* The deadlines after a step.
LEMMA StepGraceRows == LaneInv /\ GraceInv /\ [Next]_vars => GraceRows'
  <1>. SUFFICES ASSUME LaneInv, GraceInv, [Next]_vars, NEW i \in Inodes
                PROVE  (/\ quarFrom[i] <= now
                        /\ qrow[i] # None =>
                             /\ qrow[i].ident.ctime <= file[i].ctime
                             /\ qrow[i].ident.ctime = file[i].ctime
                                  => quarFrom[i] + Grace <= qrow[i].grace)'
    BY DEF GraceRows
  <1>0. Forward /\ TypeInv /\ Grace \in Nat
    BY StepForward, Numbers DEF LaneInv
  <1>1. quarFrom'[i] <= now'
    BY <1>0 DEF GraceInv, GraceRows, Forward
  <1>2. CASE qrow'[i] # None /\ qrow[i] # None /\ qrow'[i].ident = qrow[i].ident
               /\ qrow'[i].grace = qrow[i].grace
    <2>1. qrow[i].ident.ctime \in Nat /\ qrow[i].grace \in Nat
      BY <1>0, <1>2, GraceNumbers
    <2>2. qrow[i].ident.ctime <= file[i].ctime
          /\ (qrow[i].ident.ctime = file[i].ctime => quarFrom[i] + Grace <= qrow[i].grace)
      BY <1>2 DEF GraceInv, GraceRows
    <2>. QED
      BY <1>0, <1>1, <1>2, <2>1, <2>2 DEF Forward
  <1>3. CASE /\ qrow'[i] # None /\ pc = "record" /\ i = job.id /\ qrow'[i].ident = job.ident
             /\ qrow'[i].grace = now + Grace
    <2>1. job.ident.ctime \in Nat /\ job.ident.ctime <= file[i].ctime
      BY <1>0, <1>3, GraceNumbers DEF GraceInv, GraceMove, Moving
    <2>2. quarFrom[i] <= now
      BY DEF GraceInv, GraceRows
    <2>. QED
      BY <1>0, <1>1, <1>3, <2>1, <2>2 DEF Forward
  <1>. QED
    BY <1>1, <1>2, <1>3, RowsKept

\* What a move knows about its file after a step.
LEMMA StepGraceMove == LaneInv /\ GraceInv /\ [Next]_vars => GraceMove'
  <1>. SUFFICES ASSUME LaneInv, GraceInv, [Next]_vars, Moving'
                PROVE  job'.ident.ctime <= file'[job'.id].ctime
    BY DEF GraceMove
  <1>0. Forward /\ TypeInv /\ HeldOK
    BY StepForward DEF LaneInv
  <1>1. CASE Moving /\ UNCHANGED job
    BY <1>0, <1>1, GraceNumbers DEF GraceInv, GraceMove, Forward
  <1>2. ASSUME NEW t \in Tokens, NEW a \in ActIds, NEW ok \in BOOLEAN, MoveBegin(t, a, ok), pc' = "check"
        PROVE  job'.ident.ctime <= file'[job'.id].ctime
    <2>. DEFINE i == pending[t].appr.id
    <2>1. job'.id = i /\ job'.ident = pending[t].appr.art.ident
      BY <1>0, <1>2, MoveBeginJob DEF MoveBegin, Idle
    <2>2. /\ pending[t].appr \in ApprovalType /\ pending[t].appr.kind # "purge"
          /\ art[i] = pending[t].appr.art
          /\ pending[t].appr.kind = "cleanup" => orig = i /\ Ident(orig) = pending[t].appr.art.ident
          /\ pending[t].appr.kind # "cleanup" => Quarantined(i)
      BY <1>0, <1>2, AuthorisedFacts DEF MoveBegin
    <2>3. i \in Inodes
      BY <2>2, ApprovalParts
    <2>4. CASE pending[t].appr.kind = "cleanup"
      BY <1>0, <2>1, <2>2, <2>3, <2>4 DEF Ident, Forward
    <2>5. CASE pending[t].appr.kind # "cleanup"
      <3>1. qrow[i] # None /\ pending[t].appr.art.ident = qrow[i].ident
        BY <2>2, <2>5 DEF Quarantined
      <3>2. qrow[i].ident.ctime \in Nat /\ qrow[i].ident.ctime <= file[i].ctime
        BY <1>0, <2>3, <3>1, GraceNumbers DEF GraceInv, GraceRows
      <3>. QED
        BY <1>0, <2>1, <2>3, <3>1, <3>2 DEF Forward
    <2>. QED
      BY <2>4, <2>5
  <1>3. CASE MoveRename
    <2>1. CASE pc' = "record"
      <3>1. /\ job'.id = job.id /\ job.id \in Inodes
            /\ job'.ident.ctime = file'[job.id].ctime
        BY <1>0, <1>3, <2>1, MoveRenameJob
      <3>. QED
        BY <1>0, <3>1 DEF Forward
    <2>2. CASE pc' # "record"
      <3>1. job' = job /\ Moving
        BY <1>0, <1>3, <2>2, MoveRenameJob DEF MoveRename, Moving
      <3>. QED
        BY <1>1, <3>1
    <2>. QED
      BY <2>1, <2>2
  <1>. QED
    BY <1>1, <1>2, <1>3, JobKept

\* The plans after a step.
LEMMA StepGracePlan ==
    ASSUME LaneInv, GraceInv, [Next]_vars, NEW a \in ActIds, exec'[a] # None
    PROVE  GracePlan(a)'
  <1>0. Forward /\ TypeInv /\ HeldOK /\ Grace \in Nat
    BY StepForward, Numbers DEF LaneInv
  <1>1. CASE /\ exec[a] # None /\ exec'[a].plan = exec[a].plan
             /\ exec'[a].stage = "unlink" =>
                   \/ exec[a].stage = "unlink" /\ exec'[a].sat = exec[a].sat
                   \/ LET p == exec[a].plan IN
                      Ident(p.id) = p.ident /\ exec'[a].sat = now - quarFrom[p.id]
    <2>. DEFINE p == exec[a].plan
    <2>1. p.id \in Inodes /\ p.ident.ctime \in Nat
      BY <1>0, <1>1, GraceNumbers
    <2>2. /\ p.ident.ctime <= file[p.id].ctime
          /\ p.ident.ctime = file[p.id].ctime => quarFrom[p.id] + Grace <= now
          /\ exec[a].stage = "unlink" => exec[a].sat \in Int /\ exec[a].sat >= Grace
      BY <1>1 DEF GraceInv, GracePlan
    <2>3. exec'[a].plan = p
      BY <1>1
    <2>4. Ident(p.id) = p.ident => p.ident.ctime = file[p.id].ctime
      BY DEF Ident
    <2>5. exec'[a].stage = "unlink" =>
             \/ exec[a].stage = "unlink" /\ exec'[a].sat = exec[a].sat
             \/ Ident(p.id) = p.ident /\ exec'[a].sat = now - quarFrom[p.id]
      BY <1>1
    <2>. HIDE DEF p
    <2>6. exec'[a].stage = "unlink" => exec'[a].sat \in Int /\ exec'[a].sat >= Grace
      BY <1>0, <2>1, <2>2, <2>4, <2>5 DEF Forward
    <2>7. /\ p.ident.ctime <= file'[p.id].ctime
          /\ p.ident.ctime = file'[p.id].ctime => quarFrom'[p.id] + Grace <= now'
      BY <1>0, <2>1, <2>2 DEF Forward
    <2>. QED
      BY <2>3, <2>6, <2>7 DEF GracePlan
  <1>2. ASSUME exec'[a].stage = "ready", NEW i \in Inodes, i = exec'[a].plan.id, qrow[i] # None,
               exec'[a].plan.ident = qrow[i].ident,
               NEW t \in Tokens, pending[t] # None, pending[t].at >= qrow[i].grace
        PROVE  GracePlan(a)'
    <2>1. qrow[i].ident.ctime \in Nat /\ qrow[i].grace \in Nat /\ pending[t].at \in Nat
      BY <1>0, <1>2, GraceNumbers
    <2>2. /\ qrow[i].ident.ctime <= file[i].ctime
          /\ qrow[i].ident.ctime = file[i].ctime => quarFrom[i] + Grace <= qrow[i].grace
          /\ pending[t].at <= now
      BY <1>2 DEF GraceInv, GraceRows, GraceWait
    <2>3. /\ qrow[i].ident.ctime <= file'[i].ctime
          /\ qrow[i].ident.ctime = file'[i].ctime => quarFrom'[i] + Grace <= now'
      BY <1>0, <1>2, <2>1, <2>2 DEF Forward
    <2>. QED
      BY <1>2, <2>3 DEF GracePlan
  <1>. QED
    BY <1>1, <1>2, ExecKept

\* Every step keeps the grace period.
LEMMA StepGrace == LaneInv /\ GraceInv /\ [Next]_vars => GraceInv'
  <1>. SUFFICES ASSUME LaneInv, GraceInv, [Next]_vars PROVE GraceInv'
    OBVIOUS
  <1>0. Forward /\ TypeInv /\ TypeOK /\ HeldOK /\ LedgerInv
    BY StepForward DEF LaneInv, TypeInv
  <1>1. GraceWait'
    <2>. SUFFICES ASSUME NEW t \in Tokens, pending'[t] # None PROVE pending'[t].at <= now'
      BY DEF GraceWait
    <2>1. CASE pending'[t] = pending[t]
      BY <1>0, <2>1, GraceNumbers DEF GraceInv, GraceWait, Forward
    <2>2. CASE pending'[t].at = now
      BY <1>0, <2>2 DEF Forward
    <2>. QED
      BY <2>1, <2>2, WaitKept
  <1>2. GraceBeforePurge'
    <2>1. CASE UNCHANGED muts
      BY <2>1 DEF GraceInv, GraceBeforePurge
    <2>2. ASSUME NEW m \in MutType, muts' = Append(muts, m), m.op = "purge" => m.sat >= Grace
          PROVE  GraceBeforePurge'
      <3>1. /\ Len(muts') = Len(muts) + 1 /\ muts'[Len(muts) + 1] = m
            /\ \A k \in 1..Len(muts) : muts'[k] = muts[k]
            /\ \A k \in 1..Len(muts') : k \in 1..Len(muts) \/ k = Len(muts) + 1
        BY <1>0, <2>2, HistoryGrows
      <3>. QED
        BY <2>2, <3>1 DEF GraceInv, GraceBeforePurge
    <2>3. CASE MoveRename
      <3>. DEFINE src == IF job.kind = "cleanup" THEN orig ELSE quar[job.id]
                  m == Mutation(job.kind, job.action, src, None)
      <3>1. m \in MutType /\ muts' = Append(muts, m) /\ job \in MoveJob
        BY <1>0, <2>3, MoveRenameJob
      <3>2. m.op # "purge"
        BY <3>1 DEF Mutation, MoveJob
      <3>. HIDE DEF m
      <3>. QED
        BY <2>2, <3>1, <3>2
    <2>4. ASSUME NEW a \in ActIds, ExecUnlink(a) PROVE GraceBeforePurge'
      <3>1. exec[a] # None /\ exec[a].stage = "unlink"
        BY <2>4 DEF ExecUnlink, Stage
      <3>2. exec[a].sat >= Grace
        BY <3>1 DEF GraceInv, GracePlan
      <3>. QED
        BY <1>0, <2>1, <2>2, <2>4, <3>2, UnlinkEntry
    <2>. QED
      BY <2>1, <2>3, <2>4, HistoryKept
  <1>. QED
    BY <1>1, <1>2, StepGraceRows, StepGraceMove, StepGracePlan DEF GraceInv

\* In every configuration no executor gets past its check unless the file it is
\* about to unlink sat in quarantine for the whole grace period, uninterrupted,
\* whatever was restored, quarantined again, replaced or delayed meanwhile.
THEOREM GraceCorrect == Spec => []GraceBeforePurge
  <1>1. Init => GraceInv
    <2>. SUFFICES ASSUME Init PROVE GraceInv
      OBVIOUS
    <2>1. /\ Len(muts) = 0 /\ pc = "idle" /\ now = 0
          /\ \A i \in Inodes : quarFrom[i] = 0 /\ qrow[i] = None
          /\ \A t \in Tokens : pending[t] = None
          /\ \A a \in ActIds : exec[a] = None
      BY DEF Init
    <2>. QED
      BY <2>1 DEF GraceInv, GraceRows, GraceMove, GraceWait, GraceBeforePurge, Moving
  <1>2. GraceInv => GraceBeforePurge
    BY DEF GraceInv
  <1>. QED
    BY <1>1, <1>2, StepGrace, LaneInvCorrect, PTL DEF Spec

----------------------------------------------------------------------------
(* Nothing is quarantined before its stable window is over. *)

\* An artifact row keeps its identity and window until a scan or a move writes it.
LEMMA ArtKept ==
    ASSUME LaneInv, [Next]_vars, NEW i \in Inodes, art'[i] # None
    PROVE  \/ /\ art[i] # None /\ art'[i].ident = art[i].ident /\ art'[i].path = art[i].path
              /\ art'[i].since = art[i].since
           \/ /\ pc = "scan" /\ job \in ScanJob /\ UNCHANGED machine /\ art'[i].ident = Ident(i)
              /\ art'[i].since = StableSince(Ident(i), job.at, Current(i))
           \/ /\ pc = "record" /\ i = job.id /\ UNCHANGED machine /\ art'[i].ident = job.ident
              /\ art'[i].path = "orig" => art'[i].since = now
  <1>. DEFINE Same == /\ art[i] # None /\ art'[i].ident = art[i].ident /\ art'[i].path = art[i].path
                      /\ art'[i].since = art[i].since
              Scanned == /\ pc = "scan" /\ job \in ScanJob /\ UNCHANGED machine
                         /\ art'[i].ident = Ident(i)
                         /\ art'[i].since = StableSince(Ident(i), job.at, Current(i))
              Written == /\ pc = "record" /\ i = job.id /\ UNCHANGED machine /\ art'[i].ident = job.ident
                         /\ art'[i].path = "orig" => art'[i].since = now
  <1>. SUFFICES Same \/ Scanned \/ Written
    OBVIOUS
  <1>0. TypeInv /\ HeldOK /\ LedgerInv /\ TypeOK /\ art \in [Inodes -> OrNone(ArtType)]
    BY DEF LaneInv, TypeInv, TypeOK
  <1>1. art'[i] = art[i] => Same
    OBVIOUS
  <1>2. CASE \/ Machine \/ ProcessScan \/ TripElsewhere \/ Restart \/ UNCHANGED vars
             \/ \E t \in Tokens : \E j \in Inodes : \E ok \in BOOLEAN : Preview(t, j, ok)
    <2>1. UNCHANGED art
      BY <1>0, <1>2, MachineFrame, PreviewApproval
         DEF ProcessScan, TripElsewhere, Restart, vars, store
    <2>. QED
      BY <1>1, <2>1
  <1>3. CASE \/ \E lag \in 0..MaxLag : CacheScanStart(lag)
             \/ \E c \in BOOLEAN : CacheScanFail(c)
             \/ \E ok \in BOOLEAN : MoveCheck(ok) \/ MoveFail(ok)
             \/ MoveRename
    <2>1. UNCHANGED art
      BY <1>3 DEF CacheScanStart, CacheScanFail, MoveCheck, MoveFail, Fail, MoveRename, store
    <2>. QED
      BY <1>1, <2>1
  <1>4. CASE \/ \E t \in Tokens : \E b, ok \in BOOLEAN : CacheApply(t, b, ok) \/ ApplyRefused(t, b, ok)
             \/ \E t \in Tokens : \E b \in ActIds : \E ok \in BOOLEAN : MoveBegin(t, b, ok)
             \/ \E t \in Tokens : \E b \in ActIds : \E ok \in BOOLEAN : PurgePrepare(t, b, ok)
             \/ \E a \in ActIds : ExecCheck(a) \/ ExecDie(a)
             \/ \E a \in ActIds : ExecUnlink(a)
    <2>1. UNCHANGED art
      BY <1>4 DEF CacheApply, ApplyRefused, MoveBegin, PurgePrepare, ExecCheck, ExecDie, ExecUnlink,
                  Foreground, store
    <2>. QED
      BY <1>1, <2>1
  <1>5. ASSUME NEW c \in BOOLEAN, CacheScanCommit(c) PROVE Same \/ Scanned
    <2>1. pc = "scan" /\ UNCHANGED machine
      BY <1>5 DEF CacheScanCommit
    <2>2. CASE i = orig
      <3>1. /\ job \in ScanJob /\ art'[orig].ident = Ident(orig)
            /\ art'[orig].since = StableSince(Ident(orig), job.at, Current(orig))
        BY <1>0, <1>5, <2>2, ScanCommitRow, Numbers
      <3>. QED
        BY <2>1, <2>2, <3>1
    <2>3. CASE i # orig
      <3>1. art'[i] = art[i]
        BY <1>0, <1>5, <2>3, ScanCommitRow
      <3>. QED
        BY <1>1, <3>1
    <2>. QED
      BY <2>2, <2>3
  <1>6. ASSUME NEW ok \in BOOLEAN, MoveRecord(ok) PROVE Same \/ Written
    <2>1. /\ pc = "record" /\ job.id \in Inodes /\ UNCHANGED machine /\ art[job.id] \in ArtType
      BY <1>0, <1>6 DEF MoveRecord, TypeInv, LaneOK, Moving, MoveJob, HeldOK, OrNone
    <2>. DEFINE q == [art[job.id] EXCEPT !.life = "quarantined", !.ident = job.ident, !.path = "quar"]
                r == [art[job.id] EXCEPT !.life = "restored", !.ident = job.ident, !.path = "orig",
                                         !.since = now]
    <2>2. q.ident = job.ident /\ q.path = "quar" /\ r.ident = job.ident /\ r.since = now
      BY <2>1 DEF ArtType
    <2>3. UNCHANGED art \/ art' = [art EXCEPT ![job.id] = q] \/ art' = [art EXCEPT ![job.id] = r]
      BY <1>6 DEF MoveRecord
    <2>. HIDE DEF q, r
    <2>4. CASE i = job.id
      <3>1. art'[i] = art[i] \/ art'[i] = q \/ art'[i] = r
        BY <1>0, <2>1, <2>3, <2>4
      <3>. QED
        BY <1>1, <2>1, <2>2, <2>4, <3>1
    <2>5. CASE i # job.id
      BY <1>0, <1>1, <2>3, <2>5
    <2>. QED
      BY <2>4, <2>5
  <1>7. ASSUME NEW a \in ActIds, NEW s \in BOOLEAN, NEW ok \in BOOLEAN, CachePurgeComplete(a, s, ok)
        PROVE  Same
    <2>0. /\ exec[a].plan.id \in Inodes /\ art[exec[a].plan.id] \in ArtType
          /\ \/ UNCHANGED art
             \/ art' = [art EXCEPT ![exec[a].plan.id].life = "partial"]
             \/ art' = [art EXCEPT ![exec[a].plan.id].life = "purged"]
      BY <1>0, <1>7, PurgeCompleteWrites
    <2>1. PICK j \in Inodes : /\ art[j] \in ArtType
                              /\ \/ UNCHANGED art
                                 \/ art' = [art EXCEPT ![j].life = "partial"]
                                 \/ art' = [art EXCEPT ![j].life = "purged"]
      BY <2>0
    <2>2. \A l : /\ [art[j] EXCEPT !.life = l].ident = art[j].ident
                 /\ [art[j] EXCEPT !.life = l].path = art[j].path
                 /\ [art[j] EXCEPT !.life = l].since = art[j].since
      BY <2>1 DEF ArtType
    <2>3. art[j] # None
      BY <2>1, NoRecordAssumption
    <2>4. CASE i = j
      <3>1. art'[i] = art[i] \/ \E l : art'[i] = [art[j] EXCEPT !.life = l]
        BY <1>0, <2>1, <2>4
      <3>. QED
        BY <1>1, <2>2, <2>3, <2>4, <3>1
    <2>5. CASE i # j
      <3>1. art'[i] = art[i]
        BY <1>0, <2>1, <2>5
      <3>. QED
        BY <1>1, <3>1
    <2>. QED
      BY <2>4, <2>5
  <1>. HIDE DEF Same, Scanned, Written
  <1>. QED
    BY <1>2, <1>3, <1>4, <1>5, <1>6, <1>7, NextStep DEF Step

\* Rows are inserted without an outcome, and get one outcome: quarantined and
\* restored from the move that is being recorded.
LEMMA ActKept ==
    ASSUME LaneInv, [Next]_vars, NEW a \in ActIds, act'[a] # None
    PROVE  \/ act'[a] = act[a]
           \/ act[a] = None /\ act'[a].result \in {"rejected", "attempting", "purging", "failed"}
           \/ /\ act[a] # None /\ act'[a].art = act[a].art
              /\ act'[a].result \in {"failed", "partial", "purged"}
           \/ /\ act[a] # None /\ act'[a].art = act[a].art /\ pc = "record" /\ a = job.action
              /\ act'[a].result = "quarantined" => job.kind = "cleanup"
  <1>. DEFINE Added == act[a] = None /\ act'[a].result \in {"rejected", "attempting", "purging", "failed"}
              Stopped == /\ act[a] # None /\ act'[a].art = act[a].art
                         /\ act'[a].result \in {"failed", "partial", "purged"}
              Done == /\ act[a] # None /\ act'[a].art = act[a].art /\ pc = "record" /\ a = job.action
                      /\ act'[a].result = "quarantined" => job.kind = "cleanup"
  <1>0. TypeInv /\ HeldOK /\ LedgerInv /\ TypeOK /\ act \in [ActIds -> OrNone(RowType)]
    BY DEF LaneInv, TypeInv, TypeOK
  <1>1. ASSUME NEW b \in ActIds, act[b] \in RowType, NEW r, act' = [act EXCEPT ![b].result = r]
        PROVE  act'[a] = act[a] \/ (a = b /\ act[a] # None /\ act'[a].art = act[a].art /\ act'[a].result = r)
    <2>1. CASE a = b
      BY <1>0, <1>1, <2>1, NoRecordAssumption DEF RowType
    <2>2. CASE a # b
      BY <1>0, <1>1, <2>2
    <2>. QED
      BY <2>1, <2>2
  <1>2. CASE Silent \/ UNCHANGED vars \/ MoveRename
    <2>1. UNCHANGED act
      BY <1>0, <1>2, SilentFrame DEF vars, store, MoveRename
    <2>. QED
      BY <2>1
  <1>3. CASE \E t \in Tokens : \E b, ok \in BOOLEAN : CacheApply(t, b, ok) \/ ApplyRefused(t, b, ok)
    <2>1. Inserted({"rejected"})
      BY <1>0, <1>3, ApplyInserts
    <2>. QED
      BY <1>0, <2>1, InsertedFrame
  <1>4. ASSUME NEW t \in Tokens, NEW b \in ActIds, NEW ok \in BOOLEAN,
               MoveBegin(t, b, ok) \/ PurgePrepare(t, b, ok)
        PROVE  act'[a] = act[a] \/ Added
    <2>1. pending[t].appr \in ApprovalType
      BY <1>0, <1>4, AuthorisedFacts DEF MoveBegin, PurgePrepare
    <2>2. act' = act \/ \E r \in {"attempting", "purging", "failed"} : Begin(b, Row(t, pending[t].appr, r))
      BY <1>4 DEF MoveBegin, PurgePrepare
    <2>3. {"attempting", "purging", "failed"} \subseteq Results
      BY DEF Results
    <2>4. ASSUME NEW r \in {"attempting", "purging", "failed"}, Begin(b, Row(t, pending[t].appr, r))
          PROVE  act'[a] = act[a] \/ Added
      <3>1. Inserted({r})
        BY <1>0, <2>1, <2>3, <2>4, BeginInserts
      <3>. QED
        BY <1>0, <3>1, InsertedFrame
    <2>. QED
      BY <2>2, <2>4
  <1>5. ASSUME NEW ok \in BOOLEAN, MoveCheck(ok) \/ MoveFail(ok) \/ MoveRecord(ok)
        PROVE  act'[a] = act[a] \/ Stopped \/ Done
    <2>1. /\ job.action \in ActIds /\ act[job.action] \in RowType
          /\ \/ UNCHANGED act
             \/ \E r \in {"failed", "quarantined", "restored"} :
                  /\ act' = [act EXCEPT ![job.action].result = r]
                  /\ r # "failed" => pc = "record"
                  /\ r = "quarantined" => job.kind = "cleanup"
      BY <1>0, <1>5, MoveOutcome
    <2>. QED
      BY <1>1, <2>1
  <1>6. ASSUME NEW b \in ActIds, NEW s \in BOOLEAN, NEW ok \in BOOLEAN, CachePurgeComplete(b, s, ok)
        PROVE  act'[a] = act[a] \/ Stopped
    <2>1. /\ act[b] \in RowType
          /\ \/ UNCHANGED act
             \/ \E r \in {"failed", "partial", "purged"} : act' = [act EXCEPT ![b].result = r]
      BY <1>0, <1>6, PurgeCompleteWrites DEF Finish
    <2>. QED
      BY <1>1, <2>1
  <1>7. CASE UNCHANGED <<act, muts>> \/ \E b \in ActIds : ExecUnlink(b)
    BY <1>7 DEF ExecUnlink, Foreground, store
  <1>. QED
    BY <1>2, <1>3, <1>4, <1>5, <1>6, <1>7, NextStep DEF Step, Silent

\* A scan runs at most MaxLag behind the tick it works for.
StableScan == pc = "scan" => job.at <= now /\ now - job.at <= MaxLag

\* As long as the recorded body is the file's, the file was last written before
\* the recorded window began, or while the scan that opened it was running.
StableRows == \A i \in Inodes :
    /\ quietFrom[i] <= now
    /\ art[i] # None /\ art[i].path = "orig" =>
         /\ art[i].ident.body <= file[i].body
         /\ art[i].ident.body = file[i].body => quietFrom[i] <= art[i].since + MaxLag
    /\ qrow[i] # None => qrow[i].ident.body <= file[i].body

\* A move that will find its file unchanged moves one that was long unchanged.
StableMove == pc \in {"check", "rename"} =>
    /\ job.ident.body <= file[job.id].body
    /\ job.kind = "cleanup" /\ job.ident.body = file[job.id].body =>
         now - quietFrom[job.id] >= MinStable - MaxLag
StableRecord == pc = "record" =>
    /\ job.ident.body <= file[job.id].body
    /\ job.kind = "cleanup" => \A k \in 1..Len(muts) : muts[k].action = job.action =>
         muts[k].ino = job.id /\ muts[k].quiet >= MinStable - MaxLag
StableInv == StableScan /\ StableRows /\ StableMove /\ StableRecord /\ StableBeforeQuarantine

\* The numbers these facts are about.
LEMMA StableNumbers ==
    ASSUME TypeInv
    PROVE  /\ \A i \in Inodes : art[i] # None =>
                art[i] \in ArtType /\ art[i].ident.body \in Nat /\ art[i].since \in Nat
           /\ \A i \in Inodes : qrow[i] # None => qrow[i].ident.body \in Nat
           /\ Moving => job.id \in Inodes /\ job.ident.body \in Nat /\ job.action \in ActIds
           /\ pc = "scan" => job.at \in Nat
  <1>1. \A i \in Inodes : art[i] # None =>
                art[i] \in ArtType /\ art[i].ident.body \in Nat /\ art[i].since \in Nat
    BY DEF TypeInv, TypeOK, OrNone, ArtType, IdentType
  <1>2. \A i \in Inodes : qrow[i] # None => qrow[i].ident.body \in Nat
    BY DEF TypeInv, TypeOK, OrNone, QuarType, IdentType
  <1>3. Moving => job.id \in Inodes /\ job.ident.body \in Nat /\ job.action \in ActIds
    BY DEF TypeInv, LaneOK, MoveJob, IdentType
  <1>4. pc = "scan" => job.at \in Nat
    BY DEF TypeInv, LaneOK, ScanJob
  <1>. QED
    BY <1>1, <1>2, <1>3, <1>4

\* Scans after a step.
LEMMA StepStableScan == LaneInv /\ StableInv /\ [Next]_vars => StableScan'
  <1>. SUFFICES ASSUME LaneInv, StableInv, [Next]_vars, pc' = "scan"
                PROVE  job'.at <= now' /\ now' - job'.at <= MaxLag
    BY DEF StableScan
  <1>0. TypeInv /\ HeldOK /\ LedgerInv /\ TypeOK /\ now \in Nat /\ MaxLag \in Nat
    BY Numbers DEF LaneInv, TypeInv, TypeOK
  <1>1. CASE UNCHANGED <<now, pc, job>>
    BY <1>1 DEF StableInv, StableScan
  <1>2. CASE Tick
    <2>1. pc = "scan" /\ job' = job /\ now' = now + 1 /\ now + 1 - job.at <= MaxLag
      BY <1>2 DEF Tick, Elsewhere, lane
    <2>2. job.at \in Nat /\ job.at <= now
      BY <1>0, <2>1, StableNumbers DEF StableInv, StableScan
    <2>. QED
      BY <1>0, <2>1, <2>2
  <1>3. ASSUME NEW lag \in 0..MaxLag, CacheScanStart(lag) PROVE job'.at <= now' /\ now' - job'.at <= MaxLag
    <2>1. job'.at = now - lag /\ now' = now
      BY <1>3 DEF CacheScanStart, machine
    <2>. QED
      BY <1>0, <2>1
  <1>4. CASE \/ Write \/ Remove \/ SessionFlip \/ \E i \in Inodes : Create(i) \/ Tamper(i)
             \/ ProcessScan \/ TripElsewhere \/ UNCHANGED vars
    <2>1. UNCHANGED <<now, pc, job>>
      BY <1>4 DEF Write, Remove, SessionFlip, Create, Tamper, ProcessScan, TripElsewhere, Elsewhere,
                  vars, machine, lane
    <2>. QED
      BY <1>1, <2>1
  <1>5. CASE \E t \in Tokens : \E i \in Inodes : \E ok \in BOOLEAN : Preview(t, i, ok)
    <2>1. UNCHANGED <<machine, lane>>
      BY <1>0, <1>5, PreviewApproval
    <2>. QED
      BY <1>1, <2>1 DEF machine, lane
  <1>6. CASE \/ \E t \in Tokens : \E b, ok \in BOOLEAN : CacheApply(t, b, ok) \/ ApplyRefused(t, b, ok)
             \/ \E t \in Tokens : \E a \in ActIds : \E ok \in BOOLEAN : PurgePrepare(t, a, ok)
             \/ \E a \in ActIds : ExecCheck(a) \/ ExecDie(a)
             \/ \E a \in ActIds : ExecUnlink(a)
             \/ \E a \in ActIds : \E b, ok \in BOOLEAN : CachePurgeComplete(a, b, ok)
    <2>1. UNCHANGED <<now, pc, job>>
      BY <1>6 DEF CacheApply, ApplyRefused, PurgePrepare, ExecCheck, ExecDie, ExecUnlink, Foreground,
                  CachePurgeComplete, machine, lane
    <2>. QED
      BY <1>1, <2>1
  <1>7. CASE \/ Restart
             \/ \E c \in BOOLEAN : CacheScanCommit(c) \/ CacheScanFail(c)
             \/ \E t \in Tokens : \E a \in ActIds : \E ok \in BOOLEAN : MoveBegin(t, a, ok)
             \/ \E ok \in BOOLEAN : MoveCheck(ok) \/ MoveFail(ok)
             \/ \E ok \in BOOLEAN : MoveRecord(ok)
             \/ MoveRename
    <2>1. pc' # "scan"
      BY <1>7 DEF Restart, CacheScanCommit, CacheScanFail, MoveBegin, MoveCheck, MoveFail, Fail,
                  MoveRecord, MoveRename, Release, lane, Idle
    <2>. QED
      BY <2>1
  <1>. QED
    BY <1>2, <1>3, <1>4, <1>5, <1>6, <1>7, NextStep DEF Step, Machine

\* The window a scan gives an entry, from what it knew of it.
LEMMA WindowOf ==
    ASSUME TypeInv, StableInv, NEW i \in Inodes, NEW at \in Nat, now <= at + MaxLag
    PROVE  /\ StableSince(Ident(i), at, Current(i)) \in Nat
           /\ quietFrom[i] <= StableSince(Ident(i), at, Current(i)) + MaxLag
  <1>0. /\ TypeOK /\ now \in Nat /\ quietFrom[i] \in Nat /\ MaxLag \in Nat
        /\ quietFrom[i] <= now
    BY Numbers DEF TypeInv, TypeOK, StableInv, StableRows
  <1>1. CASE StableSince(Ident(i), at, Current(i)) = at
    BY <1>0, <1>1
  <1>2. CASE /\ Current(i) # None /\ Current(i).ident = Ident(i) /\ Current(i).path = "orig"
             /\ StableSince(Ident(i), at, Current(i)) = Current(i).since
    <2>1. Current(i) = art[i] /\ art[i] # None
      BY <1>2 DEF Current
    <2>2. art[i].since \in Nat /\ art[i].ident.body = file[i].body
      BY <1>2, <2>1, StableNumbers DEF Ident
    <2>3. quietFrom[i] <= art[i].since + MaxLag
      BY <1>2, <2>1, <2>2 DEF StableInv, StableRows
    <2>. QED
      BY <1>2, <2>1, <2>2, <2>3
  <1>. QED
    BY <1>1, <1>2 DEF StableSince

\* The windows after a step.
LEMMA StepStableRows == LaneInv /\ StableInv /\ [Next]_vars => StableRows'
  <1>. SUFFICES ASSUME LaneInv, StableInv, [Next]_vars, NEW i \in Inodes
                PROVE  /\ quietFrom'[i] <= now'
                       /\ art'[i] # None /\ art'[i].path = "orig" =>
                            /\ art'[i].ident.body <= file'[i].body
                            /\ art'[i].ident.body = file'[i].body
                                 => quietFrom'[i] <= art'[i].since + MaxLag
                       /\ qrow'[i] # None => qrow'[i].ident.body <= file'[i].body
    BY DEF StableRows
  <1>0. Forward /\ TypeInv /\ HeldOK /\ LedgerInv /\ TypeOK /\ MaxLag \in Nat
    BY StepForward, Numbers DEF LaneInv, TypeInv
  <1>1. quietFrom'[i] <= now'
    BY <1>0 DEF StableInv, StableRows, Forward
  <1>2. ASSUME pc = "record", job.id = i PROVE job.ident.body \in Nat /\ job.ident.body <= file[i].body
    BY <1>0, <1>2, StableNumbers DEF Moving, StableInv, StableRecord
  <1>3. ASSUME qrow'[i] # None PROVE qrow'[i].ident.body <= file'[i].body
    <2>1. CASE qrow[i] # None /\ qrow'[i].ident = qrow[i].ident
      <3>1. qrow[i].ident.body \in Nat /\ qrow[i].ident.body <= file[i].body
        BY <1>0, <2>1, StableNumbers DEF StableInv, StableRows
      <3>. QED
        BY <1>0, <2>1, <3>1 DEF Forward
    <2>2. CASE pc = "record" /\ i = job.id /\ qrow'[i].ident = job.ident
      BY <1>0, <1>2, <2>2 DEF Forward
    <2>. QED
      BY <1>3, <2>1, <2>2, RowsKept
  <1>4. ASSUME art'[i] # None, art'[i].path = "orig"
        PROVE  /\ art'[i].ident.body <= file'[i].body
               /\ art'[i].ident.body = file'[i].body => quietFrom'[i] <= art'[i].since + MaxLag
    <2>1. CASE /\ art[i] # None /\ art'[i].ident = art[i].ident /\ art'[i].path = art[i].path
               /\ art'[i].since = art[i].since
      <3>1. /\ art[i].ident.body \in Nat /\ art[i].since \in Nat
            /\ art[i].ident.body <= file[i].body
            /\ art[i].ident.body = file[i].body => quietFrom[i] <= art[i].since + MaxLag
        BY <1>0, <1>4, <2>1, StableNumbers DEF StableInv, StableRows
      <3>. QED
        BY <1>0, <2>1, <3>1 DEF Forward
    <2>2. CASE /\ pc = "scan" /\ UNCHANGED machine /\ art'[i].ident = Ident(i)
               /\ art'[i].since = StableSince(Ident(i), job.at, Current(i))
      <3>1. job.at \in Nat /\ now <= job.at + MaxLag
        <4>1. job.at \in Nat /\ now - job.at <= MaxLag
          BY <1>0, <2>2, StableNumbers DEF StableInv, StableScan
        <4>. QED
          BY <1>0, <4>1 DEF Forward
      <3>2. quietFrom[i] <= art'[i].since + MaxLag
        BY <1>0, <2>2, <3>1, WindowOf
      <3>3. UNCHANGED <<file, quietFrom>> /\ art'[i].ident.body = file[i].body
        BY <2>2 DEF machine, Ident
      <3>. QED
        BY <1>0, <3>2, <3>3 DEF Forward
    <2>3. CASE /\ pc = "record" /\ i = job.id /\ UNCHANGED machine /\ art'[i].ident = job.ident
               /\ art'[i].path = "orig" => art'[i].since = now
      <3>1. UNCHANGED <<now, file, quietFrom>> /\ art'[i].since = now
        BY <1>4, <2>3 DEF machine
      <3>2. job.ident.body <= file[i].body
        BY <1>2, <2>3
      <3>. QED
        BY <1>0, <1>1, <2>3, <3>1, <3>2 DEF Forward
    <2>. QED
      BY <1>4, <2>1, <2>2, <2>3, ArtKept
  <1>. QED
    BY <1>1, <1>3, <1>4

\* What a move that was not renamed yet knows after a step.
LEMMA StepStableMove == LaneInv /\ StableInv /\ [Next]_vars => StableMove'
  <1>. SUFFICES ASSUME LaneInv, StableInv, [Next]_vars, pc' \in {"check", "rename"}
                PROVE  /\ job'.ident.body <= file'[job'.id].body
                       /\ job'.kind = "cleanup" /\ job'.ident.body = file'[job'.id].body =>
                            now' - quietFrom'[job'.id] >= MinStable - MaxLag
    BY DEF StableMove
  <1>0. Forward /\ TypeInv /\ TypeOK /\ HeldOK /\ MinStable \in Nat /\ MaxLag \in Nat
    BY StepForward, Numbers DEF LaneInv, TypeInv
  <1>1. CASE pc \in {"check", "rename"} /\ UNCHANGED job
    <2>1. job.id \in Inodes /\ job.ident.body \in Nat
      BY <1>0, <1>1, StableNumbers DEF Moving
    <2>2. /\ job.ident.body <= file[job.id].body
          /\ job.kind = "cleanup" /\ job.ident.body = file[job.id].body =>
               now - quietFrom[job.id] >= MinStable - MaxLag
      BY <1>1 DEF StableInv, StableMove
    <2>. QED
      BY <1>0, <1>1, <2>1, <2>2 DEF Forward
  <1>2. ASSUME NEW t \in Tokens, NEW a \in ActIds, NEW ok \in BOOLEAN, MoveBegin(t, a, ok), pc' = "check"
        PROVE  /\ job'.ident.body <= file'[job'.id].body
               /\ job'.kind = "cleanup" /\ job'.ident.body = file'[job'.id].body =>
                    now' - quietFrom'[job'.id] >= MinStable - MaxLag
    <2>1. /\ job'.id = pending[t].appr.id /\ job'.ident = pending[t].appr.art.ident
          /\ job'.kind = pending[t].appr.kind
      BY <1>0, <1>2, MoveBeginJob DEF MoveBegin, Idle
    <2>2. /\ pending[t].appr \in ApprovalType
          /\ pending[t].appr.kind = "cleanup" =>
               /\ orig = pending[t].appr.id /\ Ident(orig) = pending[t].appr.art.ident
               /\ \E c \in BOOLEAN :
                    Evaluate(Ident(pending[t].appr.id), now, ObserveProtects(c, sesEnded),
                             Current(pending[t].appr.id), eval).life = "recommended"
          /\ pending[t].appr.kind # "cleanup" =>
               Quarantined(pending[t].appr.id) /\ art[pending[t].appr.id] = pending[t].appr.art
      BY <1>0, <1>2, AuthorisedFacts DEF MoveBegin
    <2>3. PICK i \in Inodes : i = pending[t].appr.id
      BY <2>2, ApprovalParts
    <2>4. UNCHANGED <<now, file, quietFrom>>
      BY <1>2 DEF MoveBegin, machine
    <2>5. CASE pending[t].appr.kind = "cleanup"
      <3>. DEFINE since == StableSince(Ident(i), now, Current(i))
      <3>1. job'.ident.body = file[i].body
        BY <2>1, <2>2, <2>3, <2>5 DEF Ident
      <3>2. since \in Nat /\ quietFrom[i] <= since + MaxLag
        BY <1>0, WindowOf DEF Forward
      <3>3. now - since >= MinStable
        <4>1. PICK c \in BOOLEAN : Evaluate(Ident(i), now, ObserveProtects(c, sesEnded), Current(i),
                                            eval).life = "recommended"
          BY <2>2, <2>3, <2>5
        <4>2. /\ Ident(i) \in IdentType /\ now \in Nat /\ eval \in Nat
              /\ Current(i) \in OrNone(ArtType)
          BY <1>0, IdentIsTyped DEF Current, TypeOK, OrNone
        <4>3. ObserveProtects(c, sesEnded) \in BOOLEAN
          BY DEF ObserveProtects
        <4>. QED
          BY <4>1, <4>2, <4>3, EvaluateType
      <3>. HIDE DEF since
      <3>. QED
        BY <1>0, <2>1, <2>3, <2>4, <3>1, <3>2, <3>3 DEF Forward
    <2>6. CASE pending[t].appr.kind # "cleanup"
      <3>1. qrow[i] # None /\ job'.ident = qrow[i].ident
        BY <2>1, <2>2, <2>3, <2>6 DEF Quarantined
      <3>2. qrow[i].ident.body <= file[i].body
        BY <3>1 DEF StableInv, StableRows
      <3>. QED
        BY <2>1, <2>3, <2>4, <2>6, <3>1, <3>2
    <2>. QED
      BY <2>5, <2>6
  <1>3. CASE MoveRename
    <2>1. pc' \in {"record", "fail"}
      BY <1>0, <1>3, MoveRenameJob
    <2>. QED
      BY <2>1
  <1>4. Moving'
    BY DEF Moving
  <1>. QED
    BY <1>1, <1>2, <1>3, <1>4, JobKept

\* What a move that was renamed knows after a step.
LEMMA StepStableRecord == LaneInv /\ StableInv /\ [Next]_vars => StableRecord'
  <1>. SUFFICES ASSUME LaneInv, StableInv, [Next]_vars, pc' = "record" PROVE StableRecord'
    BY DEF StableRecord
  <1>0. Forward /\ TypeInv /\ TypeOK /\ HeldOK /\ LedgerInv /\ Moving'
    BY StepForward DEF LaneInv, TypeInv, Moving
  <1>1. CASE pc = "record" /\ UNCHANGED job
    <2>1. /\ job.id \in Inodes /\ job.ident.body \in Nat /\ job.action \in ActIds
          /\ job.ident.body <= file[job.id].body
      BY <1>0, <1>1, StableNumbers DEF Moving, StableInv, StableRecord
    <2>2. job'.ident.body <= file'[job'.id].body
      BY <1>0, <1>1, <2>1 DEF Forward
    <2>3. job.kind = "cleanup" => \A k \in 1..Len(muts) : muts[k].action = job.action =>
             muts[k].ino = job.id /\ muts[k].quiet >= MinStable - MaxLag
      BY <1>1 DEF StableInv, StableRecord
    <2>4. CASE UNCHANGED muts
      BY <1>1, <2>2, <2>3, <2>4 DEF StableRecord
    <2>5. ASSUME NEW a \in ActIds, ExecUnlink(a) PROVE StableRecord'
      <3>1. act[a].result = "purging" /\ act[job.action].result = "attempting"
        BY <1>0, <1>1, <2>5, UnlinkEntry DEF LedgerInv, Moving
      <3>2. UNCHANGED muts \/ \E m \in MutType : muts' = Append(muts, m) /\ m.action = a
        BY <1>0, <2>5, UnlinkEntry
      <3>3. ASSUME NEW m \in MutType, muts' = Append(muts, m), m.action = a PROVE StableRecord'
        <4>1. /\ muts'[Len(muts) + 1] = m /\ \A k \in 1..Len(muts) : muts'[k] = muts[k]
              /\ \A k \in 1..Len(muts') : k \in 1..Len(muts) \/ k = Len(muts) + 1
          BY <1>0, <3>3, HistoryGrows
        <4>2. m.action # job.action
          BY <3>1, <3>3
        <4>. QED
          BY <1>1, <2>2, <2>3, <4>1, <4>2 DEF StableRecord
      <3>. QED
        BY <2>4, <3>2, <3>3
    <2>6. ~MoveRename
      BY <1>1 DEF MoveRename
    <2>. QED
      BY <2>4, <2>5, <2>6, HistoryKept
  <1>2. CASE MoveRename
    <2>. DEFINE src == IF job.kind = "cleanup" THEN orig ELSE quar[job.id]
                m == Mutation(job.kind, job.action, src, None)
    <2>1. /\ m \in MutType /\ muts' = Append(muts, m) /\ src = job.id /\ src \in Inodes
          /\ job'.kind = job.kind /\ job'.id = job.id /\ job'.action = job.action
          /\ job'.ident.body = file'[src].body /\ job.ident.body = file[src].body
      BY <1>0, <1>2, MoveRenameJob
    <2>2. m.action = job.action /\ m.ino = src /\ m.quiet = now - quietFrom[src]
      BY DEF Mutation
    <2>. HIDE DEF m, src
    <2>3. pc = "rename" /\ ~Mutated(job.action)
      BY <1>0, <1>2 DEF MoveRename, LedgerInv
    <2>4. job.kind = "cleanup" => m.quiet >= MinStable - MaxLag
      BY <2>1, <2>2, <2>3 DEF StableInv, StableMove
    <2>5. /\ muts'[Len(muts) + 1] = m /\ \A k \in 1..Len(muts) : muts'[k] = muts[k]
          /\ \A k \in 1..Len(muts') : k \in 1..Len(muts) \/ k = Len(muts) + 1
      BY <1>0, <2>1, HistoryGrows
    <2>6. \A k \in 1..Len(muts) : muts[k].action # job.action
      BY <2>3 DEF Mutated
    <2>7. job'.ident.body <= file'[job'.id].body
      BY <1>0, <2>1 DEF Forward
    <2>. QED
      BY <2>1, <2>2, <2>4, <2>5, <2>6, <2>7 DEF StableRecord
  <1>. QED
    BY <1>0, <1>1, <1>2, JobKept

\* Every step keeps the stable window.
LEMMA StepStable == LaneInv /\ StableInv /\ [Next]_vars => StableInv'
  <1>. SUFFICES ASSUME LaneInv, StableInv, [Next]_vars PROVE StableInv'
    OBVIOUS
  <1>0. TypeInv /\ TypeOK /\ HeldOK /\ LedgerInv
    BY DEF LaneInv, TypeInv
  <1>1. ASSUME NEW a \in ActIds, act'[a] # None, act'[a].result = "quarantined"
        PROVE  \/ act'[a] = act[a]
               \/ /\ pc = "record" /\ job.kind = "cleanup" /\ a = job.action /\ act[a] # None
                  /\ act'[a].art = act[a].art
    BY <1>1, ActKept
  <1>2. CASE UNCHANGED muts
    <2>. SUFFICES ASSUME NEW k \in 1..Len(muts), act'[muts[k].action] # None,
                         act'[muts[k].action].result = "quarantined"
                  PROVE  /\ muts[k].ino = act'[muts[k].action].art
                         /\ muts[k].quiet >= MinStable - MaxLag
      BY <1>2, StepStableScan, StepStableRows, StepStableMove, StepStableRecord
         DEF StableInv, StableBeforeQuarantine
    <2>1. muts[k].action \in ActIds
      BY <1>0, HistoryType DEF MutType
    <2>2. CASE act'[muts[k].action] = act[muts[k].action]
      BY <2>2 DEF StableInv, StableBeforeQuarantine
    <2>3. CASE /\ pc = "record" /\ job.kind = "cleanup" /\ muts[k].action = job.action
               /\ act'[muts[k].action].art = act[muts[k].action].art
      <3>1. act[job.action].art = job.id
        BY <1>0, <2>3 DEF LedgerInv, Moving
      <3>2. muts[k].ino = job.id /\ muts[k].quiet >= MinStable - MaxLag
        BY <2>3 DEF StableInv, StableRecord
      <3>. QED
        BY <2>3, <3>1, <3>2
    <2>. QED
      BY <1>1, <2>1, <2>2, <2>3
  <1>3. ASSUME UNCHANGED act, NEW m \in MutType, muts' = Append(muts, m),
               act[m.action].result # "quarantined"
        PROVE  StableInv'
    <2>1. /\ muts'[Len(muts) + 1] = m /\ \A k \in 1..Len(muts) : muts'[k] = muts[k]
          /\ \A k \in 1..Len(muts') : k \in 1..Len(muts) \/ k = Len(muts) + 1
      BY <1>0, <1>3, HistoryGrows
    <2>2. StableBeforeQuarantine'
      BY <1>3, <2>1 DEF StableInv, StableBeforeQuarantine
    <2>. QED
      BY <2>2, StepStableScan, StepStableRows, StepStableMove, StepStableRecord DEF StableInv
  <1>4. CASE MoveRename
    <2>. DEFINE src == IF job.kind = "cleanup" THEN orig ELSE quar[job.id]
                m == Mutation(job.kind, job.action, src, None)
    <2>1. m \in MutType /\ muts' = Append(muts, m) /\ UNCHANGED act
      BY <1>0, <1>4, MoveRenameJob DEF MoveRename, store
    <2>2. m.action = job.action /\ act[job.action].result = "attempting"
      BY <1>0, <1>4 DEF Mutation, LedgerInv, MoveRename, Moving
    <2>. HIDE DEF m
    <2>. QED
      BY <1>3, <2>1, <2>2
  <1>5. ASSUME NEW a \in ActIds, ExecUnlink(a) PROVE StableInv'
    <2>1. UNCHANGED act /\ act[a].result = "purging"
      BY <1>0, <1>5, UnlinkEntry
    <2>2. UNCHANGED muts \/ \E m \in MutType : muts' = Append(muts, m) /\ m.action = a
      BY <1>0, <1>5, UnlinkEntry
    <2>. QED
      BY <1>2, <1>3, <2>1, <2>2
  <1>. QED
    BY <1>2, <1>4, <1>5, HistoryKept

\* In every configuration a file recorded as quarantined is the approved inode
\* and was not written to for MinStable before it was moved, less the lag of the
\* scan that opened its window, whatever rewrote or replaced it in between.
THEOREM StableCorrect == Spec => []StableBeforeQuarantine
  <1>1. Init => StableInv
    <2>. SUFFICES ASSUME Init PROVE StableInv
      OBVIOUS
    <2>1. /\ Len(muts) = 0 /\ pc = "idle" /\ now = 0
          /\ \A i \in Inodes : quietFrom[i] = 0 /\ qrow[i] = None /\ art[i] = None
      BY DEF Init
    <2>. QED
      BY <2>1 DEF StableInv, StableScan, StableRows, StableMove, StableRecord, StableBeforeQuarantine
  <1>2. StableInv => StableBeforeQuarantine
    BY DEF StableInv
  <1>. QED
    BY <1>1, <1>2, StepStable, LaneInvCorrect, PTL DEF Spec

----------------------------------------------------------------------------
(* A stranded file can be traced. *)

Open == {"attempting", "purging", "partial", "failed"}

\* Somebody other than this action accounts for the slot.
OtherUnsettled(i, b) ==
    \E a \in ActIds \ {b} : act[a] # None /\ act[a].art = i /\ act[a].result \in Open

\* A file that was renamed is where the record about to be written says, or an
\* executor that emptied the slot meanwhile accounts for it.
TraceRecord == pc = "record" =>
    IF job.kind = "cleanup" THEN quar[job.id] = job.id \/ OtherUnsettled(job.id, job.action)
    ELSE quar[job.id] = None
TraceInv == StrandedIsTraceable /\ TraceRecord

\* A row that claims no success goes on doing so.
OpenKept(a) == act[a] # None /\ act[a].result \in Open =>
    act'[a] # None /\ act'[a].art = act[a].art /\ act'[a].result \in Open

\* Insertions keep the rows that are there.
LEMMA OpenInserted ==
    ASSUME TypeOK, NEW R, Inserted(R)
    PROVE  \A a \in ActIds : OpenKept(a)
  BY InsertedFrame DEF OpenKept

\* An outcome settles its own row at most.
LEMMA OpenOutcome ==
    ASSUME TypeOK, NEW b \in ActIds, act[b] \in RowType, NEW r \in Results,
           act' = [act EXCEPT ![b].result = r]
    PROVE  /\ \A a \in ActIds : a # b \/ r \in Open => OpenKept(a)
           /\ \A a \in ActIds : a # b => act'[a] = act[a]
  <1>1. \A a \in ActIds : a # b => act'[a] = act[a]
    BY DEF TypeOK
  <1>2. act'[b].art = act[b].art /\ act'[b].result = r /\ act'[b] \in RowType
    BY DEF TypeOK, RowType
  <1>. QED
    BY <1>1, <1>2, NoRecordAssumption DEF OpenKept

\* What has to be accounted for in slot i.
Stranded(i) ==
    \/ qrow[i] # None /\ qrow[i].status = "quarantined" /\ quar[i] # i
    \/ quar[i] # None /\ (qrow[i] = None \/ qrow[i].status # "quarantined")

\* Which is what StrandedIsTraceable is about: a slot holds its file when it
\* holds the inode it is named after.
LEMMA TraceStranded == LaneInv =>
    (StrandedIsTraceable <=> \A i \in Inodes : Stranded(i) => Unsettled(i))
  <1>. SUFFICES ASSUME LaneInv
                PROVE  StrandedIsTraceable <=> \A i \in Inodes : Stranded(i) => Unsettled(i)
    OBVIOUS
  <1>1. \A i \in Inodes : qrow[i] # None => (Holds(i) <=> quar[i] = i)
    BY Numbers DEF LaneInv, HeldOK, Holds
  <1>. QED
    BY <1>1 DEF StrandedIsTraceable, Stranded

\* A slot that a step leaves alone, and whose rows it leaves open.
LEMMA TraceSlot ==
    ASSUME LaneInv, StrandedIsTraceable, NEW i \in Inodes, quar'[i] = quar[i], qrow'[i] = qrow[i],
           \A a \in ActIds : act[a] # None /\ act[a].art = i => OpenKept(a)
    PROVE  Stranded(i)' => Unsettled(i)'
  <1>. SUFFICES ASSUME Stranded(i)' PROVE Unsettled(i)'
    OBVIOUS
  <1>1. Stranded(i)
    BY DEF Stranded
  <1>2. PICK a \in ActIds : act[a] # None /\ act[a].art = i /\ act[a].result \in Open
    BY <1>1, TraceStranded DEF Unsettled, Open
  <1>. QED
    BY <1>2 DEF OpenKept, Unsettled, Open

\* Steps that leave every slot and its row alone.
LEMMA TraceFrame ==
    ASSUME LaneInv, TraceInv, UNCHANGED <<quar, qrow>>, \A a \in ActIds : OpenKept(a),
           pc' # "record" \/ UNCHANGED <<pc, job>>
    PROVE  (\A i \in Inodes : Stranded(i)' => Unsettled(i)') /\ TraceRecord'
  <1>1. \A i \in Inodes : Stranded(i)' => Unsettled(i)'
    BY TraceSlot DEF TraceInv
  <1>2. CASE UNCHANGED <<pc, job>>
    <2>1. OtherUnsettled(job.id, job.action) => OtherUnsettled(job.id, job.action)'
      BY <1>2 DEF OtherUnsettled, OpenKept
    <2>. QED
      BY <1>1, <1>2, <2>1 DEF TraceInv, TraceRecord
  <1>3. CASE pc' # "record"
    BY <1>1, <1>3 DEF TraceRecord
  <1>. QED
    BY <1>2, <1>3

\* The rename, whose attempting row accounts for the slot.
LEMMA TraceRename ==
    ASSUME LaneInv, TraceInv, MoveRename
    PROVE  (\A i \in Inodes : Stranded(i)' => Unsettled(i)') /\ TraceRecord'
  <1>. DEFINE src == IF job.kind = "cleanup" THEN orig ELSE quar[job.id]
  <1>0. TypeInv /\ HeldOK /\ LedgerInv /\ TypeOK
    BY DEF LaneInv, TypeInv
  <1>1. /\ job \in MoveJob /\ job'.kind = job.kind /\ job'.id = job.id /\ job'.action = job.action
        /\ pc' = "record" => src = job.id
    BY <1>0, MoveRenameJob
  <1>2. /\ UNCHANGED <<act, qrow>>
        /\ quar' = [quar EXCEPT ![job.id] = IF job.kind = "cleanup" THEN src ELSE None]
    BY DEF MoveRename, store
  <1>. HIDE DEF src
  <1>3. job.id \in Inodes /\ job.action \in ActIds
    BY <1>1 DEF MoveJob
  <1>4. /\ quar'[job.id] = IF job.kind = "cleanup" THEN src ELSE None
        /\ \A i \in Inodes : i # job.id => quar'[i] = quar[i]
    BY <1>0, <1>2, <1>3 DEF TypeOK
  <1>5. act[job.action] # None /\ act[job.action].result = "attempting" /\ act[job.action].art = job.id
    BY <1>0 DEF LedgerInv, Moving, MoveRename
  <1>6. ASSUME NEW i \in Inodes PROVE Stranded(i)' => Unsettled(i)'
    <2>1. CASE i = job.id
      BY <1>2, <1>3, <1>5, <2>1 DEF Unsettled
    <2>2. CASE i # job.id
      <3>1. quar'[i] = quar[i] /\ qrow'[i] = qrow[i] /\ \A a \in ActIds : OpenKept(a)
        BY <1>2, <1>4, <2>2 DEF OpenKept
      <3>. QED
        BY <3>1, TraceSlot DEF TraceInv
    <2>. QED
      BY <2>1, <2>2
  <1>7. TraceRecord'
    BY <1>1, <1>4 DEF TraceRecord
  <1>. QED
    BY <1>6, <1>7

\* Recording a move settles its row in the transaction that makes the rows
\* agree with the slot.
LEMMA TraceMoveRecord ==
    ASSUME LaneInv, TraceInv, NEW ok \in BOOLEAN, MoveRecord(ok)
    PROVE  (\A i \in Inodes : Stranded(i)' => Unsettled(i)') /\ TraceRecord'
  <1>0. TypeInv /\ HeldOK /\ LedgerInv /\ TypeOK
    BY DEF LaneInv, TypeInv
  <1>1. /\ pc = "record" /\ pc' = "idle" /\ UNCHANGED quar /\ job \in MoveJob
    BY <1>0 DEF MoveRecord, Release, machine, TypeInv, LaneOK, Moving
  <1>2. /\ job.id \in Inodes /\ job.action \in ActIds /\ job.kind \in {"cleanup", "restore"}
        /\ act[job.action] \in RowType /\ act[job.action].art = job.id
        /\ job.kind = "restore" => qrow[job.id] \in QuarType
    BY <1>0, <1>1 DEF MoveJob, LedgerInv, HeldOK, Moving, TypeOK, OrNone
  <1>3. PICK n \in Inodes : n = job.id
    BY <1>2
  <1>4. CASE UNCHANGED <<act, qrow>>
    BY <1>1, <1>4, TraceFrame DEF OpenKept
  <1>5. ASSUME NEW r \in {"quarantined", "restored"}, act' = [act EXCEPT ![job.action].result = r],
               \A i \in Inodes : i # n => qrow'[i] = qrow[i],
               Stranded(n)' => Unsettled(n)'
        PROVE  (\A i \in Inodes : Stranded(i)' => Unsettled(i)') /\ TraceRecord'
    <2>1. r \in Results
      BY <1>5 DEF Results
    <2>2. \A a \in ActIds : a # job.action => OpenKept(a)
      BY <1>0, <1>2, <1>5, <2>1, OpenOutcome
    <2>3. ASSUME NEW i \in Inodes, i # n PROVE Stranded(i)' => Unsettled(i)'
      <3>1. \A a \in ActIds : act[a] # None /\ act[a].art = i => OpenKept(a)
        BY <1>2, <1>3, <2>2, <2>3
      <3>. QED
        BY <1>1, <1>5, <2>3, <3>1, TraceSlot DEF TraceInv
    <2>. QED
      BY <1>1, <1>5, <2>3 DEF TraceRecord
  <1>6. CASE /\ job.kind = "cleanup" /\ act' = [act EXCEPT ![job.action].result = "quarantined"]
             /\ qrow' = [qrow EXCEPT ![job.id] = [ident |-> job.ident, grace |-> now + Grace,
                                                  status |-> "quarantined"]]
    <2>1. /\ \A i \in Inodes : i # job.id => qrow'[i] = qrow[i]
          /\ qrow'[job.id] = [ident |-> job.ident, grace |-> now + Grace, status |-> "quarantined"]
      BY <1>0, <1>2, <1>6 DEF TypeOK
    <2>2. "quarantined" \in Results
      BY DEF Results
    <2>3. \A a \in ActIds : a # job.action => act'[a] = act[a]
      BY <1>0, <1>2, <1>6, <2>2, OpenOutcome
    <2>4. qrow'[job.id] # None /\ qrow'[job.id].status = "quarantined"
      <3>1. qrow'[job.id] \in QuarType
        BY <1>0, <1>1, <2>1, Numbers DEF QuarType, MoveJob, TypeOK
      <3>. QED
        BY <2>1, <3>1, NoRecordAssumption
    <2>5. quar[job.id] = job.id \/ OtherUnsettled(job.id, job.action)
      BY <1>1, <1>6 DEF TraceInv, TraceRecord
    <2>6. OtherUnsettled(job.id, job.action) => Unsettled(n)'
      BY <1>3, <2>3 DEF OtherUnsettled, Unsettled, Open
    <2>7. Stranded(n)' => Unsettled(n)'
      BY <1>1, <1>3, <2>4, <2>5, <2>6 DEF Stranded
    <2>. QED
      BY <1>5, <1>6, <1>3, <2>1, <2>7
  <1>7. CASE /\ job.kind = "restore" /\ act' = [act EXCEPT ![job.action].result = "restored"]
             /\ qrow' = [qrow EXCEPT ![job.id].status = "restored"]
    <2>1. quar[job.id] = None
      BY <1>1, <1>7 DEF TraceInv, TraceRecord
    <2>2. /\ \A i \in Inodes : i # job.id => qrow'[i] = qrow[i]
          /\ qrow'[job.id].status = "restored"
      BY <1>0, <1>2, <1>7 DEF TypeOK, QuarType
    <2>3. ~Stranded(n)'
      BY <1>1, <1>3, <2>1, <2>2 DEF Stranded
    <2>. QED
      BY <1>5, <1>7, <1>3, <2>2, <2>3
  <1>. QED
    BY <1>2, <1>4, <1>6, <1>7 DEF MoveRecord, Finish

\* The unlink, whose purging row accounts for the slot.
LEMMA TraceUnlink ==
    ASSUME LaneInv, TraceInv, NEW a \in ActIds, ExecUnlink(a)
    PROVE  (\A i \in Inodes : Stranded(i)' => Unsettled(i)') /\ TraceRecord'
  <1>0. TypeInv /\ HeldOK /\ LedgerInv /\ TypeOK
    BY DEF LaneInv, TypeInv
  <1>1. PICK s \in Inodes : s = exec[a].plan.id
    BY <1>0, UnlinkEntry
  <1>2. /\ UNCHANGED <<act, qrow, pc, job>> /\ act[a] \in RowType /\ act[a].result = "purging"
        /\ UNCHANGED quar \/ quar' = [quar EXCEPT ![s] = None]
    BY <1>0, <1>1, UnlinkEntry
  <1>3. act[a] # None /\ act[a].art = s
    BY <1>0, <1>1 DEF LedgerInv, ExecUnlink, Stage
  <1>4. \A b \in ActIds : OpenKept(b)
    BY <1>2 DEF OpenKept
  <1>5. CASE UNCHANGED quar
    BY <1>2, <1>4, <1>5, TraceFrame
  <1>6. CASE quar' = [quar EXCEPT ![s] = None]
    <2>1. quar'[s] = None /\ \A i \in Inodes : i # s => quar'[i] = quar[i]
      BY <1>0, <1>6 DEF TypeOK
    <2>2. Unsettled(s)'
      BY <1>2, <1>3 DEF Unsettled
    <2>3. \A i \in Inodes : i # s => (Stranded(i)' => Unsettled(i)')
      BY <1>2, <1>4, <2>1, TraceSlot DEF TraceInv
    <2>4. ASSUME pc' = "record" PROVE TraceRecord'
      <3>1. job.id \in Inodes /\ act[job.action].result = "attempting" /\ pc = "record"
        BY <1>0, <1>2, <2>4 DEF TypeInv, LaneOK, Moving, MoveJob, LedgerInv
      <3>2. CASE job.id = s
        <4>1. a # job.action
          BY <1>2, <3>1
        <4>2. OtherUnsettled(s, job.action)'
          BY <1>2, <1>3, <4>1 DEF OtherUnsettled, Open
        <4>. QED
          BY <1>2, <2>1, <3>2, <4>2 DEF TraceRecord
      <3>3. CASE job.id # s
        <4>1. quar'[job.id] = quar[job.id]
          BY <2>1, <3>1, <3>3
        <4>2. OtherUnsettled(job.id, job.action) => OtherUnsettled(job.id, job.action)'
          BY <1>2 DEF OtherUnsettled
        <4>. QED
          BY <1>2, <3>1, <4>1, <4>2 DEF TraceInv, TraceRecord
      <3>. QED
        BY <3>2, <3>3
    <2>. QED
      BY <2>2, <2>3, <2>4 DEF TraceRecord
  <1>. QED
    BY <1>2, <1>5, <1>6

\* A completion records purged only of a slot it found empty.
LEMMA TracePurged ==
    ASSUME LaneInv, TraceInv, NEW a \in ActIds, NEW s \in BOOLEAN, NEW ok \in BOOLEAN,
           CachePurgeComplete(a, s, ok)
    PROVE  (\A i \in Inodes : Stranded(i)' => Unsettled(i)') /\ TraceRecord'
  <1>0. TypeInv /\ HeldOK /\ LedgerInv /\ TypeOK
    BY DEF LaneInv, TypeInv
  <1>1. PICK n \in Inodes : n = exec[a].plan.id
    BY <1>0, PurgeCompleteWrites
  <1>2. /\ act[a] \in RowType /\ act[a].art = n /\ qrow[n] \in QuarType
        /\ pc = "idle" /\ UNCHANGED <<quar, pc, job>>
        /\ \/ UNCHANGED <<act, qrow>>
           \/ act' = [act EXCEPT ![a].result = "partial"] /\ UNCHANGED qrow
           \/ act' = [act EXCEPT ![a].result = "failed"] /\ UNCHANGED qrow
           \/ /\ act' = [act EXCEPT ![a].result = "purged"] /\ quar[n] = None
              /\ qrow' = [qrow EXCEPT ![n].status = "purged"]
    BY <1>0, <1>1, PurgeCompleteWrites DEF Finish, machine, lane
  <1>3. {"partial", "failed", "purged"} \subseteq Results /\ {"partial", "failed"} \subseteq Open
    BY DEF Results, Open
  <1>4. CASE UNCHANGED <<act, qrow>>
    BY <1>2, <1>4, TraceFrame DEF OpenKept
  <1>5. ASSUME NEW r \in {"partial", "failed"}, act' = [act EXCEPT ![a].result = r], UNCHANGED qrow
        PROVE  (\A i \in Inodes : Stranded(i)' => Unsettled(i)') /\ TraceRecord'
    <2>1. \A b \in ActIds : OpenKept(b)
      BY <1>0, <1>2, <1>3, <1>5, OpenOutcome
    <2>. QED
      BY <1>2, <1>5, <2>1, TraceFrame
  <1>6. CASE /\ act' = [act EXCEPT ![a].result = "purged"] /\ quar[n] = None
             /\ qrow' = [qrow EXCEPT ![n].status = "purged"]
    <2>1. \A b \in ActIds : b # a => OpenKept(b)
      <3>1. "purged" \in Results
        BY <1>3
      <3>. QED
        BY <1>0, <1>2, <1>6, <3>1, OpenOutcome
    <2>2. /\ \A i \in Inodes : i # n => qrow'[i] = qrow[i]
          /\ qrow'[n].status = "purged"
      BY <1>0, <1>2, <1>6 DEF TypeOK, QuarType
    <2>3. ~Stranded(n)'
      BY <1>2, <1>6, <2>2 DEF Stranded
    <2>4. ASSUME NEW i \in Inodes, i # n PROVE Stranded(i)' => Unsettled(i)'
      <3>1. \A b \in ActIds : act[b] # None /\ act[b].art = i => OpenKept(b)
        BY <1>2, <2>1, <2>4
      <3>. QED
        BY <1>2, <2>2, <2>4, <3>1, TraceSlot DEF TraceInv
    <2>. QED
      BY <1>2, <2>3, <2>4 DEF TraceRecord
  <1>. QED
    BY <1>2, <1>4, <1>5, <1>6

\* Every step keeps stranded files traceable.
LEMMA StepTrace == LaneInv /\ TraceInv /\ [Next]_vars /\ LaneInv' => TraceInv'
  <1>. SUFFICES ASSUME LaneInv, TraceInv, [Next]_vars, LaneInv' PROVE TraceInv'
    OBVIOUS
  <1>0. TypeInv /\ HeldOK /\ LedgerInv /\ TypeOK
    BY DEF LaneInv, TypeInv
  <1>1. SUFFICES (\A i \in Inodes : Stranded(i)' => Unsettled(i)') /\ TraceRecord'
    <2>1. \A i \in Inodes : qrow'[i] # None => (Holds(i)' <=> quar'[i] = i)
      BY Numbers DEF LaneInv, HeldOK, Holds
    <2>. QED
      BY <1>1, <2>1 DEF TraceInv, StrandedIsTraceable, Stranded
  <1>2. UNCHANGED act => \A a \in ActIds : OpenKept(a)
    BY DEF OpenKept
  <1>3. CASE Silent \/ UNCHANGED vars
    <2>1. UNCHANGED <<quar, qrow, act>> /\ (pc' # "record" \/ UNCHANGED <<pc, job>>)
      BY <1>0, <1>3, SilentFrame DEF vars, machine, store, lane
    <2>. QED
      BY <1>2, <2>1, TraceFrame
  <1>4. CASE \E t \in Tokens : \E b, ok \in BOOLEAN : CacheApply(t, b, ok) \/ ApplyRefused(t, b, ok)
    <2>1. UNCHANGED <<quar, qrow, pc, job>>
      BY <1>4 DEF CacheApply, ApplyRefused, machine, lane
    <2>2. Inserted({"rejected"})
      BY <1>0, <1>4, ApplyInserts
    <2>. QED
      BY <1>0, <2>1, <2>2, OpenInserted, TraceFrame
  <1>5. ASSUME NEW t \in Tokens, NEW b \in ActIds, NEW ok \in BOOLEAN,
               MoveBegin(t, b, ok) \/ PurgePrepare(t, b, ok)
        PROVE  (\A i \in Inodes : Stranded(i)' => Unsettled(i)') /\ TraceRecord'
    <2>1. UNCHANGED <<quar, qrow>>
      BY <1>5 DEF MoveBegin, PurgePrepare, machine
    <2>2. pc' \in {"idle", "check"}
      BY <1>5 DEF MoveBegin, PurgePrepare, lane, Idle
    <2>3. act' = act \/ \E r : act[b] = None /\ act' = [act EXCEPT ![b] = r]
      BY <1>5 DEF MoveBegin, PurgePrepare, Begin
    <2>4. \A a \in ActIds : OpenKept(a)
      BY <1>0, <2>3 DEF OpenKept, TypeOK
    <2>. QED
      BY <2>1, <2>2, <2>4, TraceFrame
  <1>6. ASSUME NEW ok \in BOOLEAN, MoveCheck(ok) \/ MoveFail(ok)
        PROVE  (\A i \in Inodes : Stranded(i)' => Unsettled(i)') /\ TraceRecord'
    <2>1. UNCHANGED <<quar, qrow>> /\ pc' # "record" /\ pc # "record"
      BY <1>6 DEF MoveCheck, MoveFail, Fail, Release, machine, store
    <2>2. /\ job.action \in ActIds /\ act[job.action] \in RowType
          /\ UNCHANGED act \/ act' = [act EXCEPT ![job.action].result = "failed"]
      BY <1>0, <1>6, <2>1, MoveOutcome
    <2>3. "failed" \in Results /\ "failed" \in Open
      BY DEF Results, Open
    <2>4. PICK b \in ActIds : b = job.action
      BY <2>2
    <2>5. \A a \in ActIds : OpenKept(a)
      BY <1>0, <1>2, <2>2, <2>3, <2>4, OpenOutcome
    <2>. QED
      BY <2>1, <2>5, TraceFrame
  <1>. QED
    BY <1>3, <1>4, <1>5, <1>6, TraceRename, TraceMoveRecord, TraceUnlink, TracePurged, NextStep
       DEF Step, Silent

\* In every configuration, whenever the quarantine directory and a quarantine
\* row disagree, an action row that did not claim success names the artifact: no
\* crash, failed transaction or concurrent executor strands a file untraceably.
THEOREM TraceCorrect == Spec => []StrandedIsTraceable
  <1>1. Init => TraceInv
    BY DEF Init, TraceInv, TraceRecord, StrandedIsTraceable
  <1>2. TraceInv => StrandedIsTraceable
    BY DEF TraceInv
  <1>. QED
    BY <1>1, <1>2, StepTrace, LaneInvCorrect, PTL DEF Spec

=============================================================================
