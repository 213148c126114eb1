------------------------------ MODULE Startup ------------------------------
(***************************************************************************)
(* The configuration a daemon runs with (internal/config): built-in        *)
(* profile, the optional file laid over it, validation, and the startup    *)
(* mode as a ceiling; and the authority that results in each lane.  Only   *)
(* what decides authority is kept: modes, enabled flags, and whether a     *)
(* policy has the narrow scope that enforcement needs.  The worktree lane   *)
(* reads no mode, so no mode caps it.                                       *)
(***************************************************************************)
EXTENDS Integers, Sequences, SequencesExt, FiniteSets

Modes == {"disabled", "audit", "recommend", "enforce"}
Unset == "unset"     \* a key the file does not mention

Policy == [enabled : BOOLEAN, mode : Modes, automatic : BOOLEAN, narrow : BOOLEAN]
CachePolicy == [enabled : BOOLEAN, mode : Modes]

\* A file: what each key says.  A list is <<>> when the file does not have it,
\* <<list>> when it has; modes and flags are Unset.
File(policies, cachePolicies) ==
    [global : Modes \cup {Unset}, policies : {<<>>} \cup {<<l>> : l \in policies},
     cacheEnabled : {Unset, "yes", "no"}, cacheGlobal : Modes \cup {Unset},
     cachePolicies : {<<>>} \cup {<<l>> : l \in cachePolicies}]

\* validatePolicies: modes and the automatic flag agree, enforcement is narrow and unique.
ValidPolicies(policies) ==
    /\ \A i \in 1..Len(policies) :
         LET p == policies[i]
         IN /\ ~(p.enabled /\ p.mode = "disabled")
            /\ p.automatic <=> p.mode = "enforce"
            /\ p.mode = "enforce" => p.narrow
    /\ Cardinality({i \in 1..Len(policies) : policies[i].enabled /\ policies[i].mode = "enforce"}) <= 1

ValidCache(cache) ==
    /\ cache.global \in {"disabled", "audit", "recommend"}
    /\ cache.enabled => cache.roots
    /\ \A i \in 1..Len(cache.policies) :
         /\ cache.policies[i].mode # "enforce"
         /\ ~(cache.policies[i].enabled /\ cache.policies[i].mode = "disabled")
    /\ Cardinality({i \in 1..Len(cache.policies) : cache.policies[i].enabled}) <= 1

Validate(cfg) == cfg.global \in Modes /\ ValidPolicies(cfg.policies) /\ ValidCache(cfg.cache)

\* Default: audit, no policies, no cache observation.
Default == [global |-> "audit", policies |-> <<>>,
            cache |-> [enabled |-> FALSE, global |-> "audit", roots |-> FALSE, policies |-> <<>>]]

\* startupDefaults: the built-in profile of a startup mode; roots says that
\* ~/.codex/shell_snapshots is a real directory.
StartupDefaults(mode, roots) ==
    LET action == IF mode = "reconcile" THEN "recommend" ELSE "audit"
    IN [global |-> action,
        policies |-> <<[enabled |-> TRUE, mode |-> action, automatic |-> FALSE, narrow |-> TRUE]>>,
        cache |-> IF roots THEN [enabled |-> TRUE, global |-> action, roots |-> TRUE,
                                 policies |-> <<[enabled |-> TRUE, mode |-> action]>>]
                  ELSE Default.cache]

\* The strict YAML file decoded over the profile: a key that is set replaces the
\* profile's value, a list as a whole.  A file that enables the cache lists roots.
Overlay(cfg, file) ==
    LET set(v, d) == IF v = Unset THEN d ELSE v
        listed(l, d) == IF l = <<>> THEN d ELSE l[1]
    IN [global |-> set(file.global, cfg.global),
        policies |-> listed(file.policies, cfg.policies),
        cache |-> [enabled |-> IF file.cacheEnabled = Unset THEN cfg.cache.enabled ELSE file.cacheEnabled = "yes",
                   global |-> set(file.cacheGlobal, cfg.cache.global),
                   roots |-> cfg.cache.roots \/ file.cacheEnabled = "yes",
                   policies |-> listed(file.cachePolicies, cfg.cache.policies)]]

CappedMode(current, ceiling) ==
    CASE ceiling = "audit" /\ current \in {"recommend", "enforce"} -> "audit"
      [] ceiling = "recommend" /\ current = "enforce" -> "recommend"
      [] OTHER -> current

\* A policy whose mode is lowered loses its automatic authority with it.
CappedPolicy(p, ceiling) ==
    LET capped == CappedMode(p.mode, ceiling)
    IN [p EXCEPT !.mode = capped, !.automatic = IF capped = p.mode THEN @ ELSE FALSE]

\* Faulty variant: only the global mode is capped.
ApplyStartupCeilingGlobal(cfg, mode) ==
    [cfg EXCEPT !.global = CappedMode(@, IF mode = "reconcile" THEN "recommend" ELSE "audit")]

\* The startup mode caps every mode of the configuration.
ApplyStartupCeiling(cfg, mode) ==
    LET ceiling == IF mode = "reconcile" THEN "recommend" ELSE "audit"
        capped(p) == [p EXCEPT !.mode = CappedMode(p.mode, ceiling)]
        cache == cfg.cache
    IN [cfg EXCEPT !.global = CappedMode(cfg.global, ceiling),
          !.policies = [i \in 1..Len(cfg.policies) |-> CappedPolicy(cfg.policies[i], ceiling)],
          !.cache = [cache EXCEPT !.global = CappedMode(cache.global, ceiling),
                                  !.policies = [i \in 1..Len(cache.policies) |-> capped(cache.policies[i])]]]

\* Load and LoadForStartup: <<configuration>>, or <<>> when the file is refused.
Loaded(defaults, file) ==
    LET cfg == Overlay(defaults, file) IN IF Validate(cfg) THEN <<cfg>> ELSE <<>>
LoadForStartup(mode, roots, file) ==
    LET cfg == Loaded(StartupDefaults(mode, roots), file)
    IN IF cfg = <<>> THEN <<>>
       ELSE LET capped == ApplyStartupCeiling(cfg[1], mode)
            IN IF Validate(capped) THEN <<capped>> ELSE <<>>

\* ghostgc start always has a mode; ghostgc daemon and service install have no
\* ceiling when none is given.
Effective(in) == IF in.mode = Unset THEN Loaded(Default, in.file)
                 ELSE LoadForStartup(in.mode, in.roots, in.file)

\* Authority, as the lanes ask for it.
ManualCleanupEnabled(cfg) ==
    cfg.global \in {"recommend", "enforce"}
    /\ \E i \in 1..Len(cfg.policies) : cfg.policies[i].enabled /\ cfg.policies[i].mode = "recommend"
AutomaticCleanupEnabled(cfg) ==
    cfg.global = "enforce"
    /\ \E i \in 1..Len(cfg.policies) :
         LET p == cfg.policies[i] IN p.enabled /\ p.mode = "enforce" /\ p.automatic
CachePolicyEnabled(cfg) ==
    cfg.cache.enabled /\ cfg.cache.global = "recommend"
    /\ \E i \in 1..Len(cfg.cache.policies) : cfg.cache.policies[i].enabled /\ cfg.cache.policies[i].mode = "recommend"

----------------------------------------------------------------------------
(* Properties, of every input.                                             *)

Rank(mode) == CASE mode = "disabled" -> 0 [] mode = "audit" -> 1 [] mode = "recommend" -> 2 [] OTHER -> 3

\* A startup mode is a ceiling whatever the file says: an audit start has no
\* authority over processes or cache artifacts, a reconcile start none that is
\* automatic (startup.go:110).
CeilingHolds(in) ==
    \A i \in 1..Len(Effective(in)) :
        LET cfg == Effective(in)[i]
        IN /\ in.mode # Unset => ~AutomaticCleanupEnabled(cfg)
           /\ in.mode = "audit" => ~ManualCleanupEnabled(cfg) /\ ~CachePolicyEnabled(cfg)

\* The ceiling never makes a valid configuration invalid, so a file that loads
\* without a mode's cap also starts with it (startup.go:45).
CeilingKeepsValidity(in) ==
    in.mode # Unset => Len(Loaded(StartupDefaults(in.mode, in.roots), in.file)) = Len(Effective(in))

\* The ceiling only narrows: no mode ends above what the file asked for, and
\* what the file disabled stays disabled.
OnlyNarrows(in) ==
    \A i \in 1..Len(Effective(in)) :
        LET cfg == Effective(in)[i]
        IN /\ in.file.global # Unset => Rank(cfg.global) <= Rank(in.file.global)
           /\ in.file.cacheGlobal # Unset => Rank(cfg.cache.global) <= Rank(in.file.cacheGlobal)
           /\ in.file.policies # <<>> =>
                \A k \in 1..Len(cfg.policies) : /\ Rank(cfg.policies[k].mode) <= Rank(in.file.policies[1][k].mode)
                                                /\ cfg.policies[k].automatic => in.file.policies[1][k].automatic
=============================================================================
