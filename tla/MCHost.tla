------------------------------- MODULE MCHost -------------------------------
(***************************************************************************)
(* The parts of the daemon's host that share no state: its starts and ends, *)
(* its log writer, the compaction of its tables, and the pure decisions     *)
(* about a snapshot's tree, a process's protections, its detection and the  *)
(* configuration.  A behaviour follows one of them; the pure ones take one  *)
(* step for every input.                                                    *)
(***************************************************************************)
EXTENDS TLC, Service, ServiceLog, Retention, ProcessTree, Protection, Startup

VARIABLES part,     \* the part this behaviour follows
          input     \* what a pure part was given, <<>> before that

hostVars == <<part, input, logVars, retVars, serviceVars>>

MCRetWindows == {[raw |-> 2, actions |-> 2], [raw |-> 4, actions |-> 2]}

\* A start differs from another only in its name.
HostSymmetry == Permutations(Daemons)

TreePids == 1..4
TreeInputs ==
    UNION {[pids -> [ppid : 0..4, start : 1..2]] : pids \in {{1} \cup s : s \in SUBSET (TreePids \ {1})}}

PolicyLists == {<<>>} \cup {<<p>> : p \in Policy}
               \cup {<<p, q>> : p, q \in {r \in Policy : r.narrow /\ (r.automatic <=> r.mode = "enforce")}}
CachePolicyLists == {<<>>} \cup {<<p>> : p \in {r \in CachePolicy : r.enabled}}
StartupInputs ==
    [mode : {"audit", "reconcile", Unset}, roots : BOOLEAN, file : File(PolicyLists, CachePolicyLists)]

\* The state of a part that is not followed is one of its initial states.
Still == /\ part # "log" => stream = CHOOSE n \in OldSizes : TRUE
         /\ part # "retention" => retTopic = "policy" /\ retWindow = CHOOSE w \in RetWindows : TRUE

Pure(name, inputs) ==
    /\ part = name /\ input = <<>>
    /\ \E in \in inputs : input' = <<in>>
    /\ UNCHANGED <<part, logVars, retVars, serviceVars>>

Init == part \in {"service", "log", "retention", "tree", "protection", "detection", "startup"} 
        /\ input = <<>> /\ LogInit /\ RetInit /\ ServiceInit /\ Still

Next == \/ part = "service" /\ ServiceNext /\ UNCHANGED <<part, input, logVars, retVars>>
        \/ part = "log" /\ LogNext /\ UNCHANGED <<part, input, retVars, serviceVars>>
        \/ part = "retention" /\ RetNext /\ UNCHANGED <<part, input, logVars, serviceVars>>
        \/ Pure("tree", TreeInputs) \/ Pure("protection", ProtectionInput)
        \/ Pure("detection", DetectionInput) \/ Pure("startup", StartupInputs)

Spec == Init /\ [][Next]_hostVars
----------------------------------------------------------------------------
(* The properties of the pure parts, at the input the behaviour has taken. *)

Given(name, holds(_)) == part = name /\ input # <<>> => holds(input[1])

\* Ancestry reads the same from both ends on any snapshot, a torn one with
\* recycled pids, cycles and missing parents included, never leads back to the
\* process itself and never to one that started later (tree.go:114-157).
AncestryAgrees ==
    Given("tree", LAMBDA snap :
        \A p, q \in DOMAIN snap :
            /\ q \in Descendants(snap, p) <=> IsDescendantOf(snap, q, p)
            /\ q \in Descendants(snap, p) => p # q /\ snap[p].start <= snap[q].start)

\* Confidence means what policies take it for: names and paths alone, however many
\* of them are right, reach the bar of a cleanup policy for the desktop backend
\* and for no other process, and more evidence never lowers the confidence or
\* makes it certain, in whatever order it is combined (codex/signals.go,
\* adapters/adapter.go).
ConfidenceSound == Given("detection", LAMBDA in : OnlyBackendByName(in) /\ ConfidenceMonotone(in))

\* The lists of names agree: what the adapter recognises as Codex by its
\* executable its own patterns protect, and no policy that validation accepts
\* aims at a protected class, however the name is spelled (codex/signals.go
\* against codex.go, config/policy.go against protection.go).
ProtectionsAgree ==
    /\ Given("detection", LAMBDA in : RecognisedIsProtected(in))
    /\ Given("protection", LAMBDA in : PolicyNeverAimsAtClass(in))

\* Whatever the file says, an audit start has no authority over processes or
\* cache artifacts and a reconcile start none that is automatic; the ceiling
\* raises nothing and never makes a valid configuration invalid
\* (config/startup.go: applyStartupCeiling, cappedMode, LoadForStartup).
StartupCeiling ==
    Given("startup", LAMBDA in : CeilingHolds(in) /\ CeilingKeepsValidity(in) /\ OnlyNarrows(in))
=============================================================================
