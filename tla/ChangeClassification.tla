------------------------ MODULE ChangeClassification ------------------------
(***************************************************************************)
(* tools/ci/classify_changes.py: selects, from the paths a patch changes,  *)
(* the owners whose jobs have to run.  One behaviour is one call of main():*)
(* it reads a diff, or finds that git cannot give one, then looks at the   *)
(* paths one after the other and returns early where the code does.        *)
(*                                                                         *)
(* A path is the sequence of its components with the kind of its suffix:   *)
(* "document" for .md and .rst, "image", or "other".  An odd path is one   *)
(* with a backslash or a zero byte in it.                                  *)
(***************************************************************************)
EXTENDS Naturals, Sequences, SequencesExt, FiniteSetsExt

CONSTANTS
    Paths,       \* the paths a patch may change
    MaxPaths     \* bound on the number of them in one patch

ASSUME PathsAssumption ==
    \A path \in Paths : /\ path.at \in Seq(STRING)
                        /\ path.suffix \in {"document", "image", "other"}
                        /\ path.odd \in BOOLEAN

ASSUME MaxPathsAssumption == MaxPaths \in Nat

Owners == {"quick", "benchmark", "fuzz", "perf", "full"}
Events == {"pull_request", "push", "merge_group", "workflow_dispatch"}
NoPlan == {"none"}

VARIABLES
    event,       \* --event
    changed,     \* what git diff --name-only prints
    classify,    \* where main() is
    next,        \* the path its loop is at
    selected,    \* the owners selected so far
    plan         \* what it emitted

classifyVars == <<event, changed, classify, next, selected, plan>>

-----------------------------------------------------------------------------
(* Predicates on a path.                                                   *)

Below(path, directory) == IsStrictPrefix(directory, path.at)

Under(path, directories) == \E d \in directories : IsPrefix(d, path.at)

ContentPathPrefixes ==
    { <<"include">>, <<"single_include">>, <<"test", "fixtures">>,
      <<"test", "fuzz", "corpus">>, <<"benchmark", "datasets">>,
      <<"third_party", "verification", "catch2">>,
      <<"third_party", "verification", "google_benchmark">> }

\* Mutated form: the suffix alone makes a document.
DocumentationBySuffix(path) ==
    \/ path.suffix = "document"
    \/ Below(path, <<"docs">>)
    \/ path.suffix = "image" /\ Below(path, <<"img">>)

Documentation(path) ==
    /\ \A d \in ContentPathPrefixes : ~ Below(path, d)
    /\ \/ path.suffix = "document"
       \/ Below(path, <<"docs">>)
       \/ path.suffix = "image" /\ Below(path, <<"img">>)

Malformed(path) == path.at = <<>> \/ Head(path.at) = "" \/ path.odd

\* The loop tries these in order; a rule that selects every owner returns.
OwnerRules ==
    << [under  |-> { <<".github", "workflows">>, <<"tools", "ci">>, <<"cmake">>, <<"CMakeLists.txt">>,
                     <<"csv2Config.cmake.in">>, <<"csv2.pc.in">> },
        owners |-> Owners],
       [under  |-> { <<"include">>, <<"single_include">> }, owners |-> Owners],
       [under  |-> { <<"test", "fixtures">> }, owners |-> Owners],
       [under  |-> { <<"test", "CMakeLists.txt">>, <<"test", "fuzz">>, <<"test", "support">>,
                     <<"test", "cmake">> },
        owners |-> {"quick", "fuzz", "full"}],
       [under  |-> { <<"test">> }, owners |-> {"quick", "full"}],
       [under  |-> { <<"benchmark">> }, owners |-> {"benchmark", "fuzz", "perf", "full"}],
       [under  |-> { <<"third_party", "verification", "catch2">> }, owners |-> {"quick", "full"}],
       [under  |-> { <<"third_party", "verification", "google_benchmark">> },
        owners |-> {"benchmark", "fuzz", "perf", "full"}],
       [under  |-> { <<"third_party", "verification">>, <<"tools", "vendor">> }, owners |-> Owners],
       [under  |-> { <<".clang-format">> }, owners |-> {"quick", "full"}] >>

\* The first rule decides; a path without one is never assumed harmless.
SelectedBy(path) ==
    LET matching == {r \in DOMAIN OwnerRules : Under(path, OwnerRules[r].under)}
    IN  IF matching = {} THEN Owners ELSE OwnerRules[Min(matching)].owners

\* required_plan: performance runs for pull requests only.
RequiredPlan(owners) == IF event = "pull_request" THEN owners ELSE owners \ {"perf"}

-----------------------------------------------------------------------------
ClassifyInit ==
    /\ event \in Events
    /\ changed \in BoundedSeq(Paths, MaxPaths)
    /\ classify = "start"
    /\ next = 1
    /\ selected = {}
    /\ plan = NoPlan

\* classify_paths returns these owners, and main() emits the plan.
Emit(owners) ==
    /\ classify' = "done"
    /\ plan' = RequiredPlan(owners)
    /\ next' = 1
    /\ selected' = {}
    /\ UNCHANGED <<event, changed>>

\* git diff fails, or a name is not UTF-8.
Unreadable == classify = "start" /\ Emit(Owners)

\* What is left of the early returns: nothing changed, or a malformed path.
NothingKnown ==
    /\ classify = "start"
    /\ changed = <<>> \/ \E k \in DOMAIN changed : Malformed(changed[k])
    /\ Emit(Owners)

DocumentationOnly ==
    /\ classify = "start"
    /\ changed # <<>>
    /\ \A k \in DOMAIN changed : ~ Malformed(changed[k]) /\ Documentation(changed[k])
    /\ Emit({})

EnterLoop ==
    /\ classify = "start"
    /\ \A k \in DOMAIN changed : ~ Malformed(changed[k])
    /\ \E k \in DOMAIN changed : ~ Documentation(changed[k])
    /\ classify' = "loop"
    /\ UNCHANGED <<event, changed, next, selected, plan>>

\* Mutated form: a document selects what the rules say of its directory.
SelectForDocument ==
    /\ classify = "loop"
    /\ next <= Len(changed)
    /\ Documentation(changed[next])
    /\ selected' = selected \cup SelectedBy(changed[next])
    /\ next' = next + 1
    /\ UNCHANGED <<event, changed, classify, plan>>

SkipDocument ==
    /\ classify = "loop"
    /\ next <= Len(changed)
    /\ Documentation(changed[next])
    /\ next' = next + 1
    /\ UNCHANGED <<event, changed, classify, selected, plan>>

ReturnEveryOwner ==
    /\ classify = "loop"
    /\ next <= Len(changed)
    /\ ~ Documentation(changed[next])
    /\ SelectedBy(changed[next]) = Owners
    /\ Emit(Owners)

SelectOwners ==
    /\ classify = "loop"
    /\ next <= Len(changed)
    /\ ~ Documentation(changed[next])
    /\ SelectedBy(changed[next]) # Owners
    /\ selected' = selected \cup SelectedBy(changed[next])
    /\ next' = next + 1
    /\ UNCHANGED <<event, changed, classify, plan>>

EndLoop ==
    /\ classify = "loop"
    /\ next > Len(changed)
    /\ Emit(selected)

\* classify_paths(git_changed_files(...)), or of what standard input holds.
ClassifyPaths ==
    \/ NothingKnown \/ DocumentationOnly \/ EnterLoop
    \/ SkipDocument \/ ReturnEveryOwner \/ SelectOwners \/ EndLoop

Classified == classify = "done" /\ UNCHANGED classifyVars

ClassifyNext == Unreadable \/ ClassifyPaths \/ Classified

ClassifySpec == ClassifyInit /\ [][ClassifyNext]_classifyVars

-----------------------------------------------------------------------------
(* What each owner's jobs build and read, from the workflows and the CMake *)
(* files, which is what the selection has to be right about.               *)

BuildFiles == { <<"cmake">>, <<"CMakeLists.txt">>, <<"csv2Config.cmake.in">>, <<"csv2.pc.in">> }
Library == { <<"include">>, <<"single_include">> }
Benchmarks == { <<"benchmark">>, <<"third_party", "verification", "google_benchmark">> }
Tests == { <<"test">>, <<"third_party", "verification", "catch2">> }
FuzzTests == { <<"test", "CMakeLists.txt">>, <<"test", "cmake">>, <<"test", "support">>,
                 <<"test", "fuzz">> }

Inputs ==
    [quick     |-> Library \cup BuildFiles \cup Tests \cup { <<".clang-format">> },
     benchmark |-> Library \cup BuildFiles \cup Benchmarks,
     fuzz      |-> Library \cup BuildFiles \cup Benchmarks \cup FuzzTests,
     perf      |-> Library \cup BuildFiles \cup Benchmarks,
     full      |-> Library \cup BuildFiles \cup Benchmarks \cup Tests \cup { <<".clang-format">> }]

\* Data directories are read whatever their files are called.
DataDirectories ==
    { <<"test", "fixtures">>, <<"test", "fuzz", "corpus">>, <<"benchmark", "datasets">>,
      <<"third_party", "verification", "catch2">>,
      <<"third_party", "verification", "google_benchmark">> }

Reads(owner, path) ==
    /\ Under(path, Inputs[owner])
    /\ path.suffix # "document" \/ \E d \in DataDirectories : Below(path, d)

\* Whatever else a patch changes, and in whatever order, an owner that reads a
\* file it changes is in the plan: neither a document beside it nor a rule for
\* an enclosing directory hides it (classify_paths, required_plan).
PlanCoversPatch ==
    plan # NoPlan =>
        \A k \in DOMAIN changed, owner \in Owners :
            Reads(owner, changed[k]) /\ owner \in RequiredPlan(Owners) => owner \in plan

\* What is specific to no owner, or unknown, concerns them all.
Shared(path) ==
    \/ ~ Under(path, Benchmarks \cup Tests \cup { <<".clang-format">> })
    \/ Under(path, { <<"test", "fixtures">> })

\* When the paths are looked at one by one, an owner is selected only for a
\* path that it reads or that concerns every owner, and never for a document:
\* those run nothing, whatever they lie beside (classify_paths).
OnlyReadersRun ==
    [][classify = "loop" /\ classify' = "done" =>
         \A owner \in plan' : \E k \in DOMAIN changed :
            /\ changed[k].suffix # "document" \/ Under(changed[k], DataDirectories \cup Library)
            /\ Reads(owner, changed[k]) \/ Shared(changed[k])]_classifyVars
=============================================================================
