--------------------------- MODULE ApprovalLedger ---------------------------
(***************************************************************************)
(* What all three lanes promise about destructive work, without saying how: *)
(* a grant is spent on at most one attempt, the attempt is durable before   *)
(* its effect, the effect happens at most once and only while the attempt   *)
(* is open, and success is recorded only of an effect that happened.        *)
(* A signal, a rename, an unlink and a git operation are all effects.       *)
(* ProcessLane, CacheLane and WorktreeLane are shown to implement it.       *)
(***************************************************************************)
CONSTANTS
    Grants,     \* single-use approvals
    Actions,    \* rows of an action table
    None        \* no row; as a grant, the standing authority of a policy

VARIABLES
    ledger,     \* the durable attempt of each action
    effects     \* the actions whose effect has happened

vars == <<ledger, effects>>

States == {"open", "done", "stopped"}
Entry == [grant : Grants \cup {None}, state : States]

Spent(g) == \E a \in Actions : ledger[a] # None /\ ledger[a].grant = g

Init == ledger = [a \in Actions |-> None] /\ effects = {}

\* An attempt becomes durable.  One that finds no room is stopped at once.
Intend(a, g, s) ==
    /\ ledger[a] = None /\ (g # None => ~Spent(g)) /\ s # "done"
    /\ ledger' = [ledger EXCEPT ![a] = [grant |-> g, state |-> s]]
    /\ UNCHANGED effects

Effect(a) ==
    /\ ledger[a] # None /\ ledger[a].state = "open" /\ a \notin effects
    /\ effects' = effects \cup {a} /\ UNCHANGED ledger

\* The outcome is recorded once.  A crash may leave an attempt open for ever.
Settle(a, s) ==
    /\ ledger[a] # None /\ ledger[a].state = "open" /\ s # "open"
    /\ s = "done" => a \in effects
    /\ ledger' = [ledger EXCEPT ![a].state = s] /\ UNCHANGED effects

\* The first conjunct lets TLC tell a stuttering step from the others early.
Next ==
    /\ vars' # vars
    /\ \E a \in Actions :
         \/ Effect(a)
         \/ \E s \in States : Settle(a, s) \/ \E g \in Grants \cup {None} : Intend(a, g, s)

Spec == Init /\ [][Next]_vars
=============================================================================
