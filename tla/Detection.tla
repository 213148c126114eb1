----------------------------- MODULE Detection -----------------------------
(***************************************************************************)
(* How the Codex adapter recognises a process (internal/adapters/codex/    *)
(* signals.go) and how evidence becomes confidence (internal/adapters/     *)
(* adapter.go), as pure operators over one observed process.  A path is    *)
(* its basename and the kind of directory it lies in; weights are          *)
(* hundredths, confidences are parts per million.                          *)
(***************************************************************************)
EXTENDS Integers, FiniteSets, FiniteSetsExt

Names == {"codex", "Codex", "codex helper", "node", "Node", "chrome-headless-shell", ""}
Lower(name) == CASE name = "Codex" -> "codex" [] name = "Node" -> "node" [] OTHER -> name

\* Where the executable lies: "backend" is Codex.app/Contents/Resources, "bundle"
\* any other place inside an application; "@openai" is the package scope itself,
\* "@openai/x" another package of it.
Directories == {"plain", "@openai", "@openai/x", "@openai/codex", "bundle", "backend"}
Scripts == {"none", "codex.js", "@openai/codex/codex.js"}
EnvKeys == {"package root", "managed", "home", "session", "thread"}

\* A process whose path could not be read has the empty name.
DetectionInput ==
    {in \in [base : Names, dir : Directories, arg0 : Names, script : Scripts, env : SUBSET EnvKeys] :
        in.base = "" => in.dir = "plain"}

PPM == 1000000
ConfidencePolicyEligiblePPM == 950000
ConfidenceRootDetection == 500000

\* Faulty variant: weights are added up.
CombineWeightsAdded(evidence) ==
    Min({MapThenSumSet(LAMBDA e : 10000 * e.weight, evidence), 990000})

\* The noisy-or of independent weights, capped below certainty.
CombineWeights(evidence) ==
    LET inverse == MapThenFoldSet(LAMBDA w, rest : ((100 - w) * rest) \div 100, PPM,
                                  LAMBDA e : Min({e.weight, 99}),
                                  LAMBDA S : CHOOSE e \in S : TRUE, {e \in evidence : e.weight > 0})
    IN Min({PPM - inverse, 990000})

\* "@openai" followed by "codex" among the segments of the whole path.
PackagePair(in) == in.dir = "@openai/codex" \/ (in.dir = "@openai" /\ in.base = "codex")

IsDesktopBackend(in) == in.base = "codex" /\ in.dir = "backend"

\* A helper of a macOS application that merely has a name like Codex: nothing else is looked at.
AppHelper(in) ==
    ~IsDesktopBackend(in) /\ in.dir \in {"bundle", "backend"} /\ Lower(in.base) \in {"codex", "codex helper"}

\* Evidence of the executable alone.
ExecutableIdentity(in) ==
    (IF IsDesktopBackend(in) THEN {[of |-> "backend", weight |-> 90]} ELSE {})
    \cup (IF in.base = "codex" THEN {[of |-> "basename", weight |-> 55]} ELSE {})
    \cup (CASE PackagePair(in) -> {[of |-> "package", weight |-> 60]}
            [] ~PackagePair(in) /\ in.dir \in {"@openai", "@openai/x"} -> {[of |-> "package", weight |-> 30]}
            [] OTHER -> {})

\* The npm wrapper: a JavaScript runtime that was handed codex.js.
ScriptIdentity(in) ==
    IF in.arg0 # "node" THEN {}
    ELSE CASE in.script = "@openai/codex/codex.js" -> {[of |-> "script", weight |-> 70]}
           [] in.script = "codex.js" -> {[of |-> "script", weight |-> 40]} [] OTHER -> {}

Membership(in) ==
    {e \in {[of |-> "package root", weight |-> 85], [of |-> "managed", weight |-> 70],
            [of |-> "home", weight |-> 45]} : e.of \in in.env}
    \cup (IF in.env \cap {"session", "thread"} # {} THEN {[of |-> "named", weight |-> 90]} ELSE {})

Identity(in) == IF AppHelper(in) THEN {} ELSE ExecutableIdentity(in) \cup ScriptIdentity(in)
AllEvidence(in) == IF AppHelper(in) THEN {} ELSE Identity(in) \cup Membership(in)

----------------------------------------------------------------------------
(* Properties, of every input.                                             *)

\* Of processes without an environment of the agent's, exactly one kind reaches the
\* bar of a cleanup policy: the desktop backend, whose path and name together are
\* worth 0.955 (signals.go:65-85), although adapter.go:21-22 says that nothing
\* reaches it by name alone.  An executable and a script with every other right
\* name together stay below.
OnlyBackendByName(in) ==
    in.env = {} => (CombineWeights(AllEvidence(in)) >= ConfidencePolicyEligiblePPM <=> IsDesktopBackend(in))

\* More evidence never lowers confidence, and no evidence makes it certain.
ConfidenceMonotone(in) ==
    \A key \in EnvKeys : LET more == CombineWeights(AllEvidence([in EXCEPT !.env = @ \cup {key}]))
                         IN CombineWeights(AllEvidence(in)) <= more /\ more < PPM
=============================================================================
