----------------------------- MODULE CiPipeline -----------------------------
(***************************************************************************)
(* The CI workflow (.github/workflows/ci.yml) with the scripts its jobs    *)
(* run: classify resolves the event's range and selects owners, preflight  *)
(* checks the same patch in a checkout of its own, the jobs of the selected*)
(* owners run side by side, and the gate decides from their results.       *)
(*                                                                         *)
(* A job is a few steps here: those of the scripts, and one for the rest   *)
(* of it, which succeeds or fails.  Any running job may be ended from      *)
(* outside, by its timeout or its runner, and the jobs of a run that is    *)
(* cancelled, as a later push to the pull request does, end as cancelled.  *)
(* The coverage job, which the gate does not need, is left out.            *)
(***************************************************************************)
EXTENDS ChangeClassification, FuzzTargets, CTestInventory

CONSTANTS
    Platforms,         \* the jobs of the platforms: linux, windows, macos
    Listings,          \* what ctest may list for the label sanitizer-smoke
    TargetManifests,   \* what CMake may have written as target manifest
    TestManifest       \* the committed manifest of the tests

ASSUME PlatformsAssumption ==
    Platforms \cap {"classify", "preflight", "gate", "fuzz", "full", "perf"} = {}

ASSUME ListingsAssumption == \A l \in Listings \ {Garbled} : DOMAIN l = 1 .. Len(l)

VARIABLES
    base,              \* the base that the event names
    is_root,           \* whether its head has no parent
    range,             \* what resolve_comparison.py put out
    compared,          \* the ranges that git diff was given, by job
    result,            \* how each job ended
    ran,               \* the owners whose part of the job succeeded
    smoke              \* the tests that ran under the label, by job

eventVars == <<base, is_root>>
jobVars == <<range, compared, result, ran, smoke>>
vars == <<classifyVars, fuzzVars, eventVars, jobVars>>

Comparison == INSTANCE ResolveComparison

Workers == Platforms \cup {"fuzz", "full", "perf"}
Jobs == {"classify", "preflight", "gate"} \cup Workers
Ended == {"success", "failure", "cancelled", "skipped"}
NoRange == [base |-> "none", force_all |-> FALSE]
NotCompared == [from |-> "none", to |-> "none", merge_base |-> FALSE]
SmokeLabel == "sanitizer-smoke"

\* An event names commits that exist; a push that creates a branch names none
\* before it.  What a manual run or a new branch changes is not looked at.
Init ==
    /\ ClassifyInit
    /\ FuzzInit
    /\ base \in CASE event = "workflow_dispatch" -> {Comparison!NoBase}
                  [] event = "push"              -> {Comparison!Base, Comparison!Zero}
                  [] OTHER                       -> {Comparison!Base}
    /\ base # Comparison!Base => changed = <<>>
    /\ is_root \in (IF event = "workflow_dispatch" THEN BOOLEAN ELSE {FALSE})
    /\ range = NoRange
    /\ compared = [j \in {"classify", "preflight"} |-> NotCompared]
    /\ result = [j \in Jobs |-> "waiting"]
    /\ ran = [j \in Workers |-> {}]
    /\ smoke = [j \in Platforms |-> {}]

-----------------------------------------------------------------------------
(* From outside.                                                           *)

\* The jobs that have not started do not; the gate always does.
CancelRun ==
    /\ result["gate"] = "waiting"
    /\ result' = [job \in Jobs |-> IF job # "gate" /\ result[job] = "waiting" THEN "cancelled"
                                    ELSE result[job]]
    /\ UNCHANGED <<classifyVars, fuzzVars, eventVars, range, compared, ran, smoke>>

EndFromOutside(job) ==
    /\ result[job] = "running"
    /\ result' = [result EXCEPT ![job] = "failure"]
    /\ UNCHANGED <<classifyVars, fuzzVars, eventVars, range, compared, ran, smoke>>

-----------------------------------------------------------------------------
(* classify and preflight.  Each has a checkout of its own.  Branches may  *)
(* be rewritten and objects dropped at any time, so that what a checkout   *)
(* brings and what origin serves are chosen anew.                          *)

EventCommits == {Comparison!Base, Comparison!Head}

ResolveRange ==
    /\ result["classify"] = "waiting"
    /\ \E checkout, origin \in SUBSET EventCommits, shallow \in BOOLEAN :
          IF Comparison!CanResolve(checkout, origin, base, shallow)
          THEN /\ range' = [base |-> Comparison!ResolvedBase(base, shallow),
                            force_all |-> Comparison!ForceAll(base)]
               /\ result' = [result EXCEPT !["classify"] = "running"]
          ELSE /\ result' = [result EXCEPT !["classify"] = "failure"]
               /\ UNCHANGED range
    /\ UNCHANGED <<classifyVars, fuzzVars, eventVars, compared, ran, smoke>>

\* Paths are read from the diff of the event's range, or from an empty input.
Classify ==
    /\ result["classify"] = "running"
    /\ IF range.force_all
       THEN NothingKnown /\ UNCHANGED compared
       ELSE /\ ClassifyPaths \/ Unreadable
            /\ compared' = [compared EXCEPT !["classify"] =
                    Comparison!Between(range.base, event \in {"pull_request", "merge_group"})]
    /\ UNCHANGED <<fuzzVars, eventVars, range, result, ran, smoke>>

FinishClassify ==
    /\ result["classify"] = "running"
    /\ classify = "done"
    /\ result' = [result EXCEPT !["classify"] = "success"]
    /\ UNCHANGED <<classifyVars, fuzzVars, eventVars, range, compared, ran, smoke>>

\* check_patch_whitespace.py resolves the range again; git diff --check fails on
\* a bad patch and without a merge base.
CheckWhitespace ==
    /\ result["preflight"] = "waiting"
    /\ result["classify"] = "success"
    /\ \E checkout, origin \in SUBSET EventCommits, shallow \in BOOLEAN :
          IF Comparison!CanResolve(checkout, origin, range.base, shallow)
          THEN /\ compared' = [compared EXCEPT !["preflight"] =
                       Comparison!DiffRange(Comparison!ResolvedBase(range.base, shallow))]
               /\ \E r \in {"running", "failure"} : result' = [result EXCEPT !["preflight"] = r]
          ELSE /\ result' = [result EXCEPT !["preflight"] = "failure"]
               /\ UNCHANGED compared
    /\ UNCHANGED <<classifyVars, fuzzVars, eventVars, range, ran, smoke>>

\* The policy tests pass.
FinishPreflight ==
    /\ result["preflight"] = "running"
    /\ result' = [result EXCEPT !["preflight"] = "success"]
    /\ UNCHANGED <<classifyVars, fuzzVars, eventVars, range, compared, ran, smoke>>

-----------------------------------------------------------------------------
(* The owners' jobs.                                                       *)

Planned(owner) == owner \in plan

\* The condition of the job, on the outputs of classify.
Wanted(job) == IF job \in Platforms THEN Planned("quick") \/ Planned("benchmark") ELSE Planned(job)

Needs(job) == IF job = "preflight" THEN {"classify"} ELSE {"classify", "preflight"}
NeedsEnded(job) == \A need \in Needs(job) : result[need] \in Ended
NeedsSucceeded(job) == \A need \in Needs(job) : result[need] = "success"

Start(job) ==
    /\ result[job] = "waiting"
    /\ NeedsSucceeded(job) /\ Wanted(job)
    /\ result' = [result EXCEPT ![job] = "running"]
    /\ UNCHANGED <<classifyVars, fuzzVars, eventVars, range, compared, ran, smoke>>

\* Mutated form: a job whose needs were themselves skipped goes on waiting.
SkipAfterFailure(job) ==
    /\ result[job] = "waiting"
    /\ NeedsEnded(job)
    /\ \A need \in Needs(job) : result[need] # "skipped"
    /\ ~ (NeedsSucceeded(job) /\ (job \in Workers => Wanted(job)))
    /\ result' = [result EXCEPT ![job] = "skipped"]
    /\ UNCHANGED <<classifyVars, fuzzVars, eventVars, range, compared, ran, smoke>>

Skip(job) ==
    /\ result[job] = "waiting"
    /\ NeedsEnded(job)
    /\ ~ (NeedsSucceeded(job) /\ (job \in Workers => Wanted(job)))
    /\ result' = [result EXCEPT ![job] = "skipped"]
    /\ UNCHANGED <<classifyVars, fuzzVars, eventVars, range, compared, ran, smoke>>

\* The tests, with the targets they run, of each list that passes the inventory.
VerifiedTests ==
    { {<<test.name, test.target>> : test \in Range(listing)} :
        listing \in {l \in Listings : \E manifest \in TargetManifests :
                        InventoryVerified(l, SmokeLabel, manifest, TestManifest)} }

\* Build and tests of the quick profile; on Linux only after the inventory of
\* the label was verified, and with the tests that it lists.
RunQuick(job) ==
    /\ result[job] = "running"
    /\ Planned("quick") /\ "quick" \notin ran[job]
    /\ IF job = "linux"
       THEN \E tests \in VerifiedTests : smoke' = [smoke EXCEPT ![job] = tests]
       ELSE UNCHANGED smoke
    /\ ran' = [ran EXCEPT ![job] = @ \cup {"quick"}]
    /\ UNCHANGED <<classifyVars, fuzzVars, eventVars, range, compared, result>>

RunBenchmark(job) ==
    /\ result[job] = "running"
    /\ Planned("benchmark") /\ "benchmark" \notin ran[job]
    /\ ran' = [ran EXCEPT ![job] = @ \cup {"benchmark"}]
    /\ UNCHANGED <<classifyVars, fuzzVars, eventVars, range, compared, result, smoke>>

FinishPlatform(job) ==
    /\ result[job] = "running"
    /\ plan \cap {"quick", "benchmark"} \subseteq ran[job]
    /\ result' = [result EXCEPT ![job] = "success"]
    /\ UNCHANGED <<classifyVars, fuzzVars, eventVars, range, compared, ran, smoke>>

RunFuzz ==
    /\ result["fuzz"] = "running"
    /\ RunFuzzTargets
    /\ UNCHANGED <<classifyVars, eventVars, jobVars>>

\* The steps after the targets, which run when those succeeded.
FinishFuzz ==
    /\ result["fuzz"] = "running"
    /\ fuzz = "success"
    /\ ran' = [ran EXCEPT !["fuzz"] = {"fuzz"}]
    /\ result' = [result EXCEPT !["fuzz"] = "success"]
    /\ UNCHANGED <<classifyVars, fuzzVars, eventVars, range, compared, smoke>>

FailFuzz ==
    /\ result["fuzz"] = "running"
    /\ fuzz \in {"failure", "raised"}
    /\ result' = [result EXCEPT !["fuzz"] = "failure"]
    /\ UNCHANGED <<classifyVars, fuzzVars, eventVars, range, compared, ran, smoke>>

RunOther(job) ==
    /\ job \in {"full", "perf"}
    /\ result[job] = "running"
    /\ ran' = [ran EXCEPT ![job] = {job}]
    /\ result' = [result EXCEPT ![job] = "success"]
    /\ UNCHANGED <<classifyVars, fuzzVars, eventVars, range, compared, smoke>>

-----------------------------------------------------------------------------
(* The gate.                                                               *)

\* The arguments of evaluate_gate.py, from the results and outputs.
GateJobs ==
    LET Job(name, required) == [name |-> name, required |-> required, result |-> result[name]]
        Unclassified == result["classify"] # "success"
    IN  {Job("classify", TRUE), Job("preflight", TRUE)}
        \cup {Job(p, Wanted(p)) : p \in Platforms}
        \cup {Job(j, Unclassified \/ Planned(j)) : j \in {"fuzz", "full", "perf"}}

\* Mutated form: every job has to succeed.
JobSucceeded(job) == job.result = "success"

JobIsFine(job) ==
    IF job.required THEN job.result = "success" ELSE job.result \in {"success", "skipped"}

EvaluateGate ==
    /\ result["gate"] = "waiting"
    /\ \A job \in Jobs \ {"gate"} : result[job] \in Ended
    /\ result' = [result EXCEPT !["gate"] =
                    IF \A job \in GateJobs : JobIsFine(job) THEN "success" ELSE "failure"]
    /\ UNCHANGED <<classifyVars, fuzzVars, eventVars, range, compared, ran, smoke>>

Decided == result["gate"] \in Ended /\ UNCHANGED vars

Progress ==
    \/ ResolveRange \/ Classify \/ FinishClassify
    \/ CheckWhitespace \/ FinishPreflight
    \/ \E job \in Workers : Start(job) \/ RunOther(job)
    \/ \E job \in Workers \cup {"preflight"} : Skip(job)
    \/ \E job \in Platforms : RunQuick(job) \/ RunBenchmark(job) \/ FinishPlatform(job)
    \/ RunFuzz \/ FinishFuzz \/ FailFuzz
    \/ EvaluateGate

Next == Progress \/ CancelRun \/ (\E job \in Jobs : EndFromOutside(job)) \/ Decided

\* Runners keep running what was started, and every job has a timeout.
Spec == Init /\ [][Next]_vars /\ WF_vars(Progress \/ \E job \in Jobs : EndFromOutside(job))

-----------------------------------------------------------------------------
(* What the gate stands for.                                               *)

\* The range that the event asks for: its own, or the head against its first
\* parent when it is run by hand; the whole tree when there is nothing before.
RequestedFrom ==
    CASE event = "workflow_dispatch" -> IF is_root THEN Comparison!EmptyTree ELSE Comparison!Parent
      [] base = Comparison!Zero      -> Comparison!EmptyTree
      [] OTHER                       -> base

Requested ==
    [from |-> RequestedFrom, to |-> Comparison!Head, merge_base |-> event \in {"pull_request", "merge_group"}]

Needed ==
    {owner \in RequiredPlan(Owners) :
        base = Comparison!Base => \E k \in DOMAIN changed : Reads(owner, changed[k])}

JobsOf(owner) == IF owner \in {"quick", "benchmark"} THEN Platforms ELSE {owner}

\* A gate that passes vouches for the whole patch: every owner that reads a file
\* of it, or every owner when there is no such patch, ran and succeeded in each
\* of its jobs; the tests behind the label were exactly those of the committed
\* manifest; and both fuzz targets ran to the end (ci.yml, evaluate_gate.py).
GatePassMeansVerified ==
    result["gate"] = "success" =>
        /\ result["classify"] = "success" /\ result["preflight"] = "success"
        /\ \A owner \in Needed : \A job \in JobsOf(owner) :
              result[job] = "success" /\ owner \in ran[job]
        /\ "quick" \in Needed => \A job \in Platforms \cap {"linux"} :
              smoke[job] = {<<line[1], line[2]>> : line \in {l \in Range(TestManifest) : IsEntry(l)}}
        /\ "fuzz" \in Needed => \A t \in Targets : status[t] = "0"

\* No job ever looks at another patch than the one asked for, whatever has gone
\* from the origin in the meantime: neither commit is replaced, and the two jobs
\* compare in the same way (resolve, diff_range, main of the whitespace check).
SameComparison ==
    /\ \A job \in DOMAIN compared : compared[job] \in {NotCompared, Requested}
    /\ result["preflight"] = "success" => compared["preflight"] = Requested
    /\ plan # NoPlan /\ compared["classify"] = NotCompared => plan = RequiredPlan(Owners)

\* The gate says no only when a job failed or was cancelled: jobs that are skipped
\* because nothing needs them do not hold up a patch (ci.yml, evaluate_gate.py).  Its
\* own checkout and timeout are not part of this.
GateFailsOnlyForCause ==
    result["gate"] = "failure" =>
        \E job \in Jobs \ {"gate"} : result[job] \in {"failure", "cancelled"}

\* The gate decides, also when jobs are cancelled or skipped.
GateDecides == <>(result["gate"] \in Ended)
=============================================================================
