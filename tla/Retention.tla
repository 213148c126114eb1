------------------------------ MODULE Retention ------------------------------
(***************************************************************************)
(* What the daemon's compaction may delete (internal/storage/retention.go) *)
(* while scans and actions go on writing the tables it prunes.  The tables *)
(* fall into three groups that no statement joins with one another; a      *)
(* behaviour follows one group, retTopic.  Rows are records in sets, ids   *)
(* come from one AUTOINCREMENT counter, time is retNow.                    *)
(***************************************************************************)
EXTENDS Integers, FiniteSets, FiniteSetsExt

CONSTANTS RetWorktrees,     \* worktree ids
          RetWindows,       \* configured windows: [raw, actions]
          RetHour,          \* the window used for one that is not positive
          RetCooldown,      \* a policy's cooldown
          RetInventory,     \* the bound on the worktree inventory
          RetMaxTime, RetMaxSeq

ASSUME RetentionAssumption ==
    /\ RetWindows \subseteq [raw : Nat, actions : Nat]
    /\ RetHour \in Nat \ {0} /\ RetCooldown \in Nat /\ RetInventory \in Nat \ {0}
    /\ RetWorktrees \subseteq Nat \ {0}

VARIABLES retTopic, retNow, retSeq, retWindow,
          retPass,      \* "idle", or "tight": over budget, the second transaction is due
          retPolicy,    \* policy_evaluations and policy_decisions of one policy/process pair
          retTree,      \* worktrees and worktree_actions
          retCache,     \* cache_* tables, for one artifact
          retGhost      \* what the daemon has promised to remember

retVars == <<retTopic, retNow, retSeq, retWindow, retPass, retPolicy, retTree, retCache, retGhost>>

Unresolved == {"attempting", "purging", "partial"}
TheArtifact == 0     \* the one artifact among the things held aside; worktree ids are positive

\* cutoff: rows strictly older than the window go; a window that is not positive is an hour.
Old(ts, window) == ts < retNow - (IF window <= 0 THEN RetHour ELSE window)
Half(window) == [raw |-> window.raw \div 2, actions |-> window.actions \div 2]
Newest(rows, id) == \E r \in rows : r.id = id /\ \A s \in rows : s.id <= id

----------------------------------------------------------------------------
(* Policy evaluations and their decisions.                                 *)

\* Faulty variant: a running cooldown does not keep its decision.
PolicyPassForgetful(t, w) ==
    LET decisions == {d \in t.decisions : ~(/\ Old(d.ts, w.actions)
                                            /\ ~Newest(t.evaluations, d.evaluation))}
    IN [evaluations |-> {e \in t.evaluations :
                            \/ ~Old(e.ts, w.actions) \/ Newest(t.evaluations, e.id)
                            \/ \E d \in decisions : d.evaluation = e.id},
        decisions   |-> decisions]

PolicyPass(t, w) ==
    LET decisions == {d \in t.decisions : ~(/\ Old(d.ts, w.actions)
                                            /\ ~Newest(t.evaluations, d.evaluation)
                                            /\ d.result # "candidate" \/ d.until <= retNow)}
    IN [evaluations |-> {e \in t.evaluations :
                            \/ ~Old(e.ts, w.actions) \/ Newest(t.evaluations, e.id)
                            \/ \E d \in decisions : d.evaluation = e.id},
        decisions   |-> decisions]

\* LastCandidateCooldown: the newest candidate row that is still stored, 0 when there is none.
LastCandidateCooldown(t) ==
    LET candidates == {d \in t.decisions : d.result = "candidate"}
    IN IF candidates = {} THEN 0
       ELSE (CHOOSE d \in candidates : \A e \in candidates : e.evaluation <= d.evaluation).until

\* One committed evaluation: no match, a refusal by a protection, or a match,
\* which is a candidate unless the stored cooldown has not run out.
RetEvaluate ==
    /\ retTopic = "policy" /\ retSeq < RetMaxSeq
    /\ \E match \in {"none", "refused", "matched"} :
         LET id == retSeq + 1
             cooling == LastCandidateCooldown(retPolicy)
             result == IF match = "refused" THEN "refused"
                       ELSE IF cooling > retNow THEN "cooldown" ELSE "candidate"
             until == CASE result = "refused" -> 0 [] result = "cooldown" -> cooling
                        [] OTHER -> retNow + RetCooldown
             new == IF match = "none" THEN {}
                    ELSE {[evaluation |-> id, ts |-> retNow, result |-> result, until |-> until]}
         IN /\ retSeq' = id
            /\ retPolicy' = [evaluations |-> retPolicy.evaluations \cup {[id |-> id, ts |-> retNow]},
                             decisions |-> retPolicy.decisions \cup new]
            /\ retGhost' = [retGhost EXCEPT !.newest = id, !.current = new,
                              !.cooling = IF match = "matched" /\ result = "candidate" THEN until ELSE @]
    /\ UNCHANGED <<retTopic, retNow, retWindow, retPass, retTree, retCache>>

----------------------------------------------------------------------------
(* Worktree rows and the ledger of their actions.                          *)

OpenOn(actions, w) == \E a \in actions : a.subject = w /\ a.result \in Unresolved

\* Faulty variant: absent rows are dropped whatever their state.
TreePassAbsent(t, w) ==
    LET actions == {a \in t.actions : ~(Old(a.ts, w.actions) /\ a.result \notin Unresolved)}
    IN [actions |-> actions,
        rows |-> {r \in t.rows :
                    /\ ~(~r.registered /\ r.state # "removed" /\ Old(r.seen, w.actions) /\ ~OpenOn(actions, r.worktree))
                    /\ ~(r.state = "removed" /\ Old(r.removed, w.actions))}]

TreePass(t, w) ==
    LET actions == {a \in t.actions : ~(Old(a.ts, w.actions) /\ a.result \notin Unresolved)}
    IN [actions |-> actions,
        rows |-> {r \in t.rows :
                    /\ ~(/\ ~r.registered /\ r.state \notin {"removed", "retired"}
                         /\ Old(r.seen, w.actions) /\ ~OpenOn(actions, r.worktree))
                    /\ ~(r.state = "removed" /\ Old(r.removed, w.actions))}]

\* ORDER BY registered DESC, open DESC, last_seen DESC, worktree_id: r comes before s.
Ahead(t, r, s) ==
    LET rank(x) == <<IF x.registered THEN 1 ELSE 0, IF OpenOn(t.actions, x.worktree) THEN 1 ELSE 0, x.seen>>
        a == rank(r)
        b == rank(s)
    IN \/ a[1] > b[1]
       \/ a[1] = b[1] /\ a[2] > b[2]
       \/ a[1] = b[1] /\ a[2] = b[2] /\ a[3] > b[3]
       \/ a = b /\ r.worktree < s.worktree

\* The first RetInventory rows in that order: what ListCurrentWorktrees reads and what pruning spares.
Kept(t) == {r \in t.rows : /\ r.state # "removed"
                           /\ Cardinality({s \in t.rows : s.state # "removed" /\ Ahead(t, s, r)}) < RetInventory}

\* PruneAbsentWorktrees, at the end of every persisted worktree scan.
PruneAbsentWorktrees(t) ==
    [t EXCEPT !.rows = {r \in @ : \/ r.registered \/ r.state \in {"removed", "retired"}
                                  \/ OpenOn(t.actions, r.worktree) \/ r \in Kept(t)}]

RowOf(w) == {r \in retTree.rows : r.worktree = w}
Put(t, r) == [t EXCEPT !.rows = {s \in @ : s.worktree # r.worktree} \cup {r}]

\* UpsertWorktree for every record of a batch, then the prune.
Store(t, batch) ==
    PruneAbsentWorktrees([t EXCEPT !.rows = {r \in @ : \A b \in batch : b.worktree # r.worktree} \cup batch])

\* What an inventory may list: a removed worktree is gone, and a list beyond the bound is a failure.
Inventories ==
    {seen \in SUBSET {w \in RetWorktrees : \A r \in RowOf(w) : r.state # "removed"} :
        Cardinality(seen) <= RetInventory}

\* The retired rows a scan has read; the others it cannot tell from worktrees it never saw.
ListedRetired == {r \in Kept(retTree) : r.state = "retired"}
Unlisted(seen) == {w \in seen : \A r \in ListedRetired : r.worktree # w}

\* collectWorktrees: a retired worktree that was read keeps its state and is
\* registered or not, any other that is seen is active, one that was read and
\* not seen is missing.
Observed(seen) ==
    {[worktree |-> w, registered |-> TRUE, state |-> "active", seen |-> retNow, removed |-> 0] : w \in Unlisted(seen)}
    \cup {[r EXCEPT !.registered = (r.worktree \in seen), !.seen = retNow] : r \in ListedRetired}
    \cup {[r EXCEPT !.registered = FALSE, !.state = "missing"] :
             r \in {s \in Kept(retTree) : s.state # "retired" /\ s.worktree \notin seen}}

\* A committed worktree scan.  What it overwrites without having read it is no longer promised.
RetTreeScan ==
    /\ retTopic = "tree" /\ retSeq < RetMaxSeq
    /\ \E seen \in Inventories :
         /\ retTree' = Store(retTree, Observed(seen))
         /\ retGhost' = [retGhost EXCEPT !.held = @ \ Unlisted(seen)]
    /\ retSeq' = retSeq + 1
    /\ UNCHANGED <<retTopic, retNow, retWindow, retPass, retPolicy, retCache>>

AsUnknown(rows) == {[r EXCEPT !.state = "unknown"] : r \in rows}

\* ResetWorktreeInactivity: every row but the removed and the retired ones.
ResetInactivity(t) ==
    LET live == {r \in t.rows : r.state \notin {"removed", "retired"}}
    IN [t EXCEPT !.rows = (@ \ live) \cup AsUnknown(live)]

\* A scan that failed is stored too.  When the inventory failed, the rows that were
\* read (none, when the reading failed) are stored as unknown; when the process
\* scan failed, recordScanFailure resets every live row and, if an inventory was
\* due, stores its records as unknown: the retired ones included, either way.
RetTreeScanFails ==
    /\ retTopic = "tree" /\ retSeq < RetMaxSeq
    /\ \E reset, due \in BOOLEAN, batch \in {{}, Kept(retTree)} \cup {Observed(seen) : seen \in Inventories} :
         LET t == IF reset THEN ResetInactivity(retTree) ELSE retTree
         IN /\ reset \/ (due /\ batch \in {{}, Kept(retTree)})
            /\ retTree' = IF due THEN Store(t, AsUnknown(batch)) ELSE t
            /\ retGhost' = [retGhost EXCEPT !.held = IF due THEN @ \ {r.worktree : r \in batch} ELSE @]
    /\ retSeq' = retSeq + 1
    /\ UNCHANGED <<retTopic, retNow, retWindow, retPass, retPolicy, retCache>>

\* InsertWorktreeAction: the intent to retire an active worktree, or to restore or purge a retired one.
RetTreeBegin ==
    /\ retTopic = "tree" /\ retSeq < RetMaxSeq
    /\ \E r \in retTree.rows, kind \in {"retire", "restore", "purge"} :
         /\ r.state = (IF kind = "retire" THEN "active" ELSE "retired")
         /\ LET a == [id |-> retSeq + 1, subject |-> r.worktree, kind |-> kind, ts |-> retNow,
                      result |-> IF kind = "purge" THEN "purging" ELSE "attempting"]
            IN /\ retTree' = [retTree EXCEPT !.actions = @ \cup {a}]
               /\ retGhost' = [retGhost EXCEPT !.open = @ \cup {a.id}]
    /\ retSeq' = retSeq + 1
    /\ UNCHANGED <<retTopic, retNow, retWindow, retPass, retPolicy, retCache>>

\* UpdateWorktreeAction with the row it belongs to: done, refused, or partial after an ambiguous effect.
RetTreeFinish ==
    /\ retTopic = "tree"
    /\ \E a \in retTree.actions, result \in {"done", "failed", "partial"} :
         /\ a.result \in {"attempting", "purging"}
         /\ \E r \in RowOf(a.subject) :
              LET moved == CASE a.kind = "retire" -> [r EXCEPT !.state = "retired", !.registered = TRUE, !.seen = retNow]
                             [] a.kind = "restore" -> [r EXCEPT !.state = "active", !.registered = TRUE, !.seen = retNow]
                             [] OTHER -> [r EXCEPT !.state = "removed", !.registered = FALSE, !.removed = retNow]
              IN /\ retTree' = Put([retTree EXCEPT !.actions = (@ \ {a}) \cup {[a EXCEPT !.result = result]}],
                                   IF result = "done" THEN moved ELSE r)
                 /\ retGhost' = [retGhost EXCEPT !.open = IF result = "partial" THEN @ ELSE @ \ {a.id},
                                   !.held = IF result = "done"
                                            THEN IF a.kind = "retire" THEN @ \cup {a.subject} ELSE @ \ {a.subject}
                                            ELSE @,
                                   !.gone = IF result = "done" /\ a.kind = "purge" THEN @ \cup {a.subject} ELSE @]
    /\ UNCHANGED <<retTopic, retNow, retSeq, retWindow, retPass, retPolicy, retCache>>

----------------------------------------------------------------------------
(* Cache evaluations, observations, decisions, the artifact, its quarantine *)
(* and its actions.                                                        *)

CacheChildren(t, w) ==
    [observations |-> {o \in t.observations : ~(Old(o.ts, w.raw) /\ ~Newest(t.evaluations, o.evaluation))},
     decisions |-> {d \in t.decisions : ~ \E e \in t.evaluations :
                        /\ e.id = d.evaluation /\ Old(e.ts, w.actions) /\ ~Newest(t.evaluations, e.id)},
     actions |-> {a \in t.actions : ~(Old(a.ts, w.actions) /\ a.result \notin Unresolved)},
     quarantine |-> {q \in t.quarantine : ~(Old(q.ts, w.actions) /\ q.status \in {"restored", "purged"})}]

CacheArtifactRow(t, c, evaluations, w) ==
    {r \in t.artifact : ~(/\ Old(r.seen, w.actions) /\ ~Newest(evaluations, r.evaluation)
                          /\ r.lifecycle \notin {"quarantined", "partial"}
                          /\ \A q \in c.quarantine : q.status # "quarantined"
                          /\ \A a \in c.actions : a.result \notin Unresolved)}

CachePass(t, w) ==
    LET c == CacheChildren(t, w)
        evaluations == {e \in t.evaluations :
                           \/ ~Old(e.ts, w.actions) \/ Newest(t.evaluations, e.id)
                           \/ \E o \in c.observations : o.evaluation = e.id
                           \/ \E d \in c.decisions : d.evaluation = e.id}
    IN [evaluations |-> evaluations, observations |-> c.observations, decisions |-> c.decisions,
        actions |-> c.actions, quarantine |-> c.quarantine,
        artifact |-> CacheArtifactRow(t, c, evaluations, w)]

\* PersistCacheEvaluation: a scan that found the artifact, or did not.
RetCacheScan ==
    /\ retTopic = "cache" /\ retSeq < RetMaxSeq
    /\ \E found \in BOOLEAN :
         LET id == retSeq + 1
             only(row) == IF found THEN {row} ELSE {}
         IN retCache' = [retCache EXCEPT
              !.evaluations = @ \cup {[id |-> id, ts |-> retNow]},
              !.observations = @ \cup only([evaluation |-> id, ts |-> retNow]),
              !.decisions = @ \cup only([evaluation |-> id]),
              !.artifact = IF found THEN {[evaluation |-> id, seen |-> retNow, lifecycle |-> "observed"]} ELSE @]
    /\ retSeq' = retSeq + 1
    /\ UNCHANGED <<retTopic, retNow, retWindow, retPass, retPolicy, retTree, retGhost>>

\* BeginCacheAction: a quarantine of the artifact the newest evaluation lists, or
\* a restore or a purge of the quarantined one.
RetCacheBegin ==
    /\ retTopic = "cache" /\ retSeq < RetMaxSeq
    /\ \A a \in retCache.actions : a.result \notin {"attempting", "purging"}
    /\ \E kind \in {"quarantine", "restore", "purge"} :
         /\ IF kind = "quarantine"
            THEN \E r \in retCache.artifact : Newest(retCache.evaluations, r.evaluation) /\ r.lifecycle = "observed"
            ELSE \E q \in retCache.quarantine : q.status = "quarantined"
         /\ LET a == [id |-> retSeq + 1, kind |-> kind, ts |-> retNow,
                      result |-> IF kind = "purge" THEN "purging" ELSE "attempting"]
            IN /\ retCache' = [retCache EXCEPT !.actions = @ \cup {a}]
               /\ retGhost' = [retGhost EXCEPT !.open = @ \cup {a.id}]
    /\ retSeq' = retSeq + 1
    /\ UNCHANGED <<retTopic, retNow, retWindow, retPass, retPolicy, retTree>>

\* RecordCacheQuarantined, RecordCacheRestored, RecordCachePurged, or
\* FinishCacheAction with a failure (partial also marks the artifact).
RetCacheFinish ==
    /\ retTopic = "cache"
    /\ \E a \in retCache.actions, result \in {"done", "failed", "partial"} :
         /\ a.result \in {"attempting", "purging"}
         /\ LET status == CASE a.kind = "quarantine" -> "quarantined" [] a.kind = "restore" -> "restored"
                            [] OTHER -> "purged"
                mark(v) == {[r EXCEPT !.lifecycle = v] : r \in retCache.artifact}
            IN retCache' = [retCache EXCEPT
                 !.actions = (@ \ {a}) \cup {[a EXCEPT !.result = result]},
                 !.quarantine = IF result = "done" THEN {[status |-> status, ts |-> retNow]} ELSE @,
                 !.artifact = CASE result = "done" -> mark(status) [] result = "partial" -> mark("partial")
                                [] OTHER -> @]
         /\ retGhost' = [retGhost EXCEPT !.open = IF result = "partial" THEN @ ELSE @ \ {a.id},
                           !.held = IF result # "done" THEN @
                                    ELSE IF a.kind = "quarantine" THEN {TheArtifact} ELSE {}]
    /\ UNCHANGED <<retTopic, retNow, retSeq, retWindow, retPass, retPolicy, retTree>>

----------------------------------------------------------------------------
(* Compact: one transaction, and a second with halved windows when the     *)
(* database was over its budget; other transactions may come between them. *)

PassOver(w) == /\ retPolicy' = PolicyPass(retPolicy, w)
               /\ retTree' = TreePass(retTree, w)
               /\ retCache' = CachePass(retCache, w)

RetCompact ==
    /\ retPass = "idle"
    /\ PassOver(retWindow)
    /\ \E overBudget \in BOOLEAN : retPass' = IF overBudget THEN "tight" ELSE "idle"
    /\ UNCHANGED <<retTopic, retNow, retSeq, retWindow, retGhost>>

RetTighten ==
    /\ retPass = "tight"
    /\ PassOver(Half(retWindow))
    /\ retPass' = "idle"
    /\ UNCHANGED <<retTopic, retNow, retSeq, retWindow, retGhost>>

\* The second transaction fails, or the daemon stops before it: Compact returns early.
RetGiveUp ==
    /\ retPass = "tight" /\ retPass' = "idle"
    /\ UNCHANGED <<retTopic, retNow, retSeq, retWindow, retPolicy, retTree, retCache, retGhost>>

RetTick ==
    /\ retNow < RetMaxTime /\ retNow' = retNow + 1
    /\ UNCHANGED <<retTopic, retSeq, retWindow, retPass, retPolicy, retTree, retCache, retGhost>>

RetInit ==
    /\ retTopic \in {"policy", "tree", "cache"} /\ retWindow \in RetWindows
    /\ retNow = 0 /\ retSeq = 0 /\ retPass = "idle"
    /\ retPolicy = [evaluations |-> {}, decisions |-> {}]
    /\ retTree = [rows |-> {}, actions |-> {}]
    /\ retCache = [evaluations |-> {}, observations |-> {}, decisions |-> {}, actions |-> {},
                   quarantine |-> {}, artifact |-> {}]
    /\ retGhost = [newest |-> 0, current |-> {}, cooling |-> 0, open |-> {}, held |-> {}, gone |-> {}]

RetNext == \/ RetEvaluate \/ RetTreeScan \/ RetTreeScanFails \/ RetTreeBegin \/ RetTreeFinish
           \/ RetCacheScan \/ RetCacheBegin \/ RetCacheFinish
           \/ RetCompact \/ RetTighten \/ RetGiveUp \/ RetTick

RetSpec == RetInit /\ [][RetNext]_retVars

----------------------------------------------------------------------------
(* Properties.                                                             *)

\* What later decisions are read from outlives every window: a cooldown that
\* still runs is found by the next evaluation, the current evaluation keeps all
\* its decisions, and no row outlives the evaluation it belongs to, although the
\* tables have different windows and no foreign key ties them together
\* (retention.go: the halved second pass included).
DecisionsKept ==
    /\ retGhost.cooling > retNow => LastCandidateCooldown(retPolicy) = retGhost.cooling
    /\ retGhost.newest > 0 =>
          /\ Newest(retPolicy.evaluations, retGhost.newest)
          /\ {d \in retPolicy.decisions : d.evaluation = retGhost.newest} = retGhost.current
    /\ \A d \in retPolicy.decisions : \E e \in retPolicy.evaluations : e.id = d.evaluation
    /\ \A o \in retCache.observations \cup retCache.decisions :
          \E e \in retCache.evaluations : e.id = o.evaluation

\* Compaction and pruning lose nothing that was moved aside and nothing nobody
\* knows the outcome of: a retired worktree keeps its row as retired until it is
\* restored, removed, or rewritten by a scan (a failed one stores it as unknown,
\* worktree_scan_failure.go, and one that could not read it as new: the loss
\* RetirementDurable of WorktreeLane shows); a quarantined artifact keeps its
\* quarantine row; an unresolved action keeps its own row and, whatever scans
\* make of it, the row of what it acted on, unless that was removed for good
\* (retention.go, storage/worktree.go: PruneAbsentWorktrees).
TracesKept ==
    /\ \A x \in retGhost.held :
          \/ x \in RetWorktrees /\ \E r \in RowOf(x) : r.state = "retired"
          \/ /\ x \notin RetWorktrees /\ retCache.artifact # {}
             /\ \E q \in retCache.quarantine : q.status = "quarantined"
    /\ \A id \in retGhost.open :
          \/ \E a \in retTree.actions : /\ a.id = id /\ a.result \in Unresolved
                                        /\ RowOf(a.subject) # {} \/ a.subject \in retGhost.gone
          \/ /\ \E a \in retCache.actions : a.id = id /\ a.result \in Unresolved
             /\ retCache.artifact # {}
=============================================================================
