---------------------------- MODULE Protection -----------------------------
(***************************************************************************)
(* The hard protections (internal/protection/protection.go) as the set of  *)
(* rules that apply to one observed process.  Executable classes are       *)
(* reduced to one, the broad runtimes; Detection has the names and paths.  *)
(***************************************************************************)
EXTENDS Detection

CONSTANTS SelfPid       \* the daemon's own pid

\* proc: what a snapshot holds.  sid is 0 when it could not be read.
ProtectionInput ==
    [pid : {1, SelfPid, SelfPid + 1}, own : BOOLEAN, tty : BOOLEAN, sid : {0, SelfPid + 1, SelfPid + 2},
     detailed : BOOLEAN, base : Names \ {""}, dir : Directories,
     root : BOOLEAN, active : BOOLEAN, descendants : {0, 1}, confidence : {949999, 950000}]

ExecClass == {"node"}

\* Faulty variant: names are compared as they are.
ExecutableProtectionExact(name) == name \in ExecClass

\* Classes are matched on the lower-cased basename.
ExecutableProtection(name) == Lower(name) \in ExecClass

\* The adapter's own patterns: the exact basename, or the package directory
\* anywhere in the path.  They compare names as they are.
AdapterRules(in) == (IF in.base = "codex" THEN {"codex-session-root-v1"} ELSE {})
                    \cup (IF PackagePair(in) THEN {"codex-npm-launcher-v1"} ELSE {})

Protections(in) ==
    LET rule(applies, id) == IF applies THEN {id} ELSE {}
    IN rule(in.pid = SelfPid, "self") \cup rule(in.pid = 1, "init")
       \cup rule(~in.own, "other-user") \cup rule(in.tty, "controlling-terminal")
       \cup rule(in.pid = in.sid /\ in.sid # 0, "session-leader")
       \cup rule(in.root, "agent-root") \cup rule(in.active, "active-session")
       \cup rule(in.descendants > 0, "has-descendants")
       \cup rule(in.confidence < ConfidencePolicyEligiblePPM, "uncertain-attribution")
       \cup rule(~in.detailed, "not-inspected")
       \cup rule(Lower(in.base) \in ExecClass, "class")
       \cup AdapterRules(in)

\* What config.validatePolicies accepts as an executable of a policy.
PolicyExecutable(name) == name # "" /\ ~ExecutableProtection(name)

----------------------------------------------------------------------------
(* Properties, of every input.                                             *)

\* Whatever the adapter takes for Codex by its executable is protected by the
\* adapter's own patterns, also when it is not the root of its session: the two
\* lists of names and paths are kept apart (codex.go:218, signals.go:55).
RecognisedIsProtected(in) ==
    CombineWeights(IF AppHelper(in) THEN {} ELSE ExecutableIdentity(in)) >= ConfidenceRootDetection
        => AdapterRules(in) # {}

\* A policy that the configuration accepts never aims at a protected class,
\* however the name is spelled (policy.go:95, protection.go:135).
PolicyNeverAimsAtClass(in) == PolicyExecutable(in.base) => "class" \notin Protections(in)
=============================================================================
