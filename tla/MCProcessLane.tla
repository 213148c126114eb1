--------------------------- MODULE MCProcessLane ---------------------------
(* Instances of ProcessLane small enough for TLC. *)
EXTENDS ProcessLane, TLC

ManualPolicies ==
    {[id |-> "orphans", enabled |-> TRUE, mode |-> "recommend", automatic |-> FALSE,
      states |-> {"orphaned"}, images |-> Images, requireDetached |-> TRUE,
      requireSessionEnded |-> TRUE, minStable |-> StrongWindow, cooldown |-> 2]}

AutomaticPolicies ==
    {[id |-> "enforce", enabled |-> TRUE, mode |-> "enforce", automatic |-> TRUE,
      states |-> {"orphaned"}, images |-> Images, requireDetached |-> TRUE,
      requireSessionEnded |-> TRUE, minStable |-> StrongWindow, cooldown |-> 2]}

\* Every policy-eligible state, scoped to one image.
MixedPolicies ==
    {[id |-> "mixed", enabled |-> TRUE, mode |-> "recommend", automatic |-> FALSE,
      states |-> {"orphaned", "hung", "crashed"}, images |-> {CHOOSE x \in Images : TRUE},
      requireDetached |-> TRUE, requireSessionEnded |-> TRUE,
      minStable |-> StrongWindow, cooldown |-> 2],
     [id |-> "stuck", enabled |-> TRUE, mode |-> "recommend", automatic |-> FALSE,
      states |-> {"hung", "crashed"}, images |-> Images,
      requireDetached |-> FALSE, requireSessionEnded |-> TRUE,
      minStable |-> StrongWindow, cooldown |-> 1]}

Sym == Permutations(Tokens) \cup Permutations(ActIds)
=============================================================================
