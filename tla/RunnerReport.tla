----------------------------- MODULE RunnerReport ---------------------------
(***************************************************************************)
(* The report of a benchmark run and its artifact manifest, as main() of   *)
(* benchmark/tools/csv2bench/runner.py writes them: a report that is       *)
(* running, then completed or failed, replaced as a whole each time, and a *)
(* manifest that identifies the completed one.  Runs may be given the same *)
(* paths, one after another or at a time; each can fail at any call or be  *)
(* killed, and the executables it measures can be rebuilt beside it.       *)
(* Data sets, which the manifest identifies anew, are left out, and a run  *)
(* identifies the executables at once: verify_unchanged refuses a mixture. *)
(*                                                                         *)
(* A file is named by its version: no two writes leave the same one, as    *)
(* modification times differ.  An identity has two parts, read one after   *)
(* the other: what stat() says, and the digest.                            *)
(***************************************************************************)
EXTENDS Integers

CONSTANTS
    Runner,        \* the runs
    MaxCases,      \* cases measured by each: bound
    MaxBuilds      \* times that the executables are rebuilt: bound

ASSUME RunnerAssumption == MaxCases \in Nat /\ MaxBuilds \in Nat

VARIABLES
    tools,         \* version of the executables
    report,        \* version of the report file
    vouching,      \* the artifact manifest
    one_by_one,    \* whether a run starts only when no other one is under way
    at,            \* where each run is
    measured,      \* the version of them that it identified at its start
    cases,         \* how many cases it has measured
    stat_read,     \* version of the report that stat() saw
    digest_read    \* version of the report that was hashed

runVars == <<at, measured, cases, stat_read, digest_read>>
runnerVars == <<tools, report, vouching, one_by_one, runVars>>

NoReport == [status |-> "none"]
NoManifest == [report |-> [stat |-> NoReport, digest |-> NoReport], tools |-> 0]

\* A version of the report, with what it says.
Version(r, status) == [of |-> r, status |-> status, cases |-> cases[r], tools |-> measured[r]]

Identity(version) == [stat |-> version, digest |-> version]

Ended == {"done", "raised", "killed"}

UnderWay == {"measure", "complete", "stat", "digest", "vouch", "sync", "failing"}

Idle ==
    /\ tools = 0
    /\ report = NoReport
    /\ vouching = NoManifest
    /\ one_by_one \in BOOLEAN
    /\ at = [r \in Runner |-> "start"]
    /\ measured = [r \in Runner |-> 0]
    /\ cases = [r \in Runner |-> 0]
    /\ stat_read = [r \in Runner |-> NoReport]
    /\ digest_read = [r \in Runner |-> NoReport]

-----------------------------------------------------------------------------
Goto(r, from, to) == at[r] = from /\ at' = [at EXCEPT ![r] = to]

\* Identifies what it will measure. The first report is written next.
Begin(r) ==
    /\ one_by_one => \A other \in Runner : at[other] \notin UnderWay \cup {"first"}
    /\ Goto(r, "start", "first")
    /\ measured' = [measured EXCEPT ![r] = tools]
    /\ UNCHANGED <<tools, report, vouching, one_by_one, cases, stat_read, digest_read>>

FirstReport(r) ==
    /\ Goto(r, "first", "measure")
    /\ report' = Version(r, "running")
    /\ UNCHANGED <<tools, vouching, one_by_one, measured, cases, stat_read, digest_read>>

AddCase(r) ==
    /\ Goto(r, "measure", "measure")
    /\ cases[r] < MaxCases
    /\ cases' = [cases EXCEPT ![r] = @ + 1]
    /\ report' = [Version(r, "running") EXCEPT !.cases = @ + 1]
    /\ UNCHANGED <<tools, vouching, one_by_one, measured, stat_read, digest_read>>

\* The verify_unchanged calls after the last case.
VerifyMeasured(r) ==
    /\ cases[r] = MaxCases
    /\ \/ tools = measured[r] /\ Goto(r, "measure", "complete")
       \/ tools # measured[r] /\ Goto(r, "measure", "failing")
    /\ UNCHANGED <<tools, report, vouching, one_by_one, measured, cases, stat_read, digest_read>>

\* Mutated form: the status is set, but the file keeps the running report.
CompleteInMemory(r) ==
    /\ Goto(r, "complete", "stat")
    /\ UNCHANGED <<tools, report, vouching, one_by_one, measured, cases, stat_read, digest_read>>

Complete(r) ==
    /\ Goto(r, "complete", "stat")
    /\ report' = Version(r, "completed")
    /\ UNCHANGED <<tools, vouching, one_by_one, measured, cases, stat_read, digest_read>>

\* artifacts.metadata(args.output)
StatReport(r) ==
    /\ Goto(r, "stat", "digest")
    /\ stat_read' = [stat_read EXCEPT ![r] = report]
    /\ UNCHANGED <<tools, report, vouching, one_by_one, measured, cases, digest_read>>

DigestReport(r) ==
    /\ Goto(r, "digest", "vouch")
    /\ digest_read' = [digest_read EXCEPT ![r] = report]
    /\ UNCHANGED <<tools, report, vouching, one_by_one, measured, cases, stat_read>>

WriteManifest(r) ==
    /\ Goto(r, "vouch", "sync")
    /\ vouching' = [of |-> r, tools |-> measured[r],
                    report |-> [stat |-> stat_read[r], digest |-> digest_read[r]]]
    /\ UNCHANGED <<tools, report, one_by_one, measured, cases, stat_read, digest_read>>

\* The manifest is in place and its directory synced.
Finish(r) ==
    /\ Goto(r, "sync", "done")
    /\ UNCHANGED <<tools, report, vouching, one_by_one, measured, cases, stat_read, digest_read>>

\* Any call of the try block raises: a measurement, or a write before or after
\* it took effect.
CallRaises(r) ==
    /\ at[r] \in UnderWay \ {"failing"}
    /\ at' = [at EXCEPT ![r] = "failing"]
    /\ UNCHANGED <<tools, report, vouching, one_by_one, measured, cases, stat_read, digest_read>>

\* The handler, whose own write may fail too.
ReportFailure(r) ==
    /\ Goto(r, "failing", "raised")
    /\ report' \in {Version(r, "failed"), report}
    /\ UNCHANGED <<tools, vouching, one_by_one, measured, cases, stat_read, digest_read>>

\* Killed, or the first report could not be written.
StopRun(r) ==
    /\ at[r] \notin Ended
    /\ at' = [at EXCEPT ![r] = "killed"]
    /\ UNCHANGED <<tools, report, vouching, one_by_one, measured, cases, stat_read, digest_read>>

Rebuild ==
    /\ tools < MaxBuilds
    /\ tools' = tools + 1
    /\ UNCHANGED <<report, vouching, one_by_one, runVars>>

Run(r) ==
    \/ Begin(r) \/ FirstReport(r) \/ AddCase(r) \/ VerifyMeasured(r) \/ Complete(r)
    \/ StatReport(r) \/ DigestReport(r) \/ WriteManifest(r) \/ Finish(r)
    \/ CallRaises(r) \/ ReportFailure(r) \/ StopRun(r)

-----------------------------------------------------------------------------
\* A manifest that identifies the report in place vouches for a completed one
\* and for the executables that it measured: whatever failed or was killed
\* before, after or between the two, and while a later run replaces the report,
\* as long as runs for one path do not overlap (main(), the last two write_json
\* calls).
ManifestVouches ==
    one_by_one /\ vouching.report = Identity(report) /\ report # NoReport =>
        /\ report.status = "completed"
        /\ vouching.tools = report.tools
=============================================================================
