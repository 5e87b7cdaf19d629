---------------------------- MODULE FuzzTargets -----------------------------
(***************************************************************************)
(* tools/ci/run_fuzz_targets.py: runs the two libFuzzer targets, the       *)
(* reader's first, and leaves beside each one's artifacts how it ended.    *)
(***************************************************************************)
VARIABLES
    fuzz,        \* where run_pair is
    status,      \* what each target returned
    artifact     \* the status.txt of each

fuzzVars == <<fuzz, status, artifact>>

Targets == {"reader", "writer"}
NotRun == "not run"
Statuses == {"0", "failed"}

FuzzInit ==
    /\ fuzz = "idle"
    /\ status = [t \in Targets |-> NotRun]
    /\ artifact = [t \in Targets |-> NotRun]

Rejected == fuzz' = "raised" /\ UNCHANGED <<status, artifact>>

\* parse_args ends the process: an executable or a corpus is missing, or --runs
\* is not positive.
InvalidArguments == fuzz = "idle" /\ Rejected

RunPair ==
    /\ fuzz = "idle"
    /\ fuzz' = "reader"
    /\ UNCHANGED <<status, artifact>>

\* run_pair's result, once both statuses are there.
Verdict == IF \E t \in Targets : status'[t] # "0" THEN "failure" ELSE "success"

\* Mutated form: a target that fails ends the pair.
RunTargetOrStop(target) ==
    /\ fuzz = target
    /\ \E s \in Statuses :
          /\ status' = [status EXCEPT ![target] = s]
          /\ artifact' = [artifact EXCEPT ![target] = s]
          /\ fuzz' = IF s # "0" THEN "failure" ELSE IF target = "reader" THEN "writer" ELSE Verdict

\* run_target: a target that cannot be launched has failed, too, and the next one
\* runs whatever this one returned.
RunTarget(target) ==
    /\ fuzz = target
    /\ \E s \in Statuses :
          /\ status' = [status EXCEPT ![target] = s]
          /\ artifact' = [artifact EXCEPT ![target] = s]
    /\ fuzz' = IF target = "reader" THEN "writer" ELSE Verdict

\* The directory or status.txt cannot be written, and nothing catches that;
\* the target may have run.
CannotRecord(target) ==
    /\ fuzz = target
    /\ \E s \in Statuses \cup {NotRun} : status' = [status EXCEPT ![target] = s]
    /\ fuzz' = "raised"
    /\ UNCHANGED artifact

RunFuzzTargets ==
    \/ InvalidArguments \/ RunPair
    \/ \E target \in Targets : RunTarget(target) \/ CannotRecord(target)

\* A target that fails does not keep the other one from running, and each says
\* in its artifacts how it ended; the pair succeeds when both did (run_pair).
BothTargetsRun ==
    fuzz \in {"success", "failure"} =>
        /\ artifact = status
        /\ \A t \in Targets : status[t] # NotRun
        /\ fuzz = "success" <=> \A t \in Targets : status[t] = "0"
=============================================================================
