-------------------------- MODULE MCEvidenceInputs --------------------------
(***************************************************************************)
(* Three instances of EvidenceInputs: attempts that compete, with faults   *)
(* or without, after all of them have loaded and verified inputs that      *)
(* nobody writes any more; runs that write, with no attempt; and one       *)
(* attempt, without faults, that loads and verifies its inputs while a     *)
(* second run replaces what a first one has left, if anything.             *)
(***************************************************************************)
EXTENDS EvidenceInputs

CONSTANTS
    r1,              \* the first run
    a1, p1, p2, p3,  \* the one attempt and its paths, and another one
    d1, d2           \* the directory of the first two, and of the third

Homes == [p \in {p1, p2, p3} |-> IF p = p3 THEN d2 ELSE d1]

\* What r1 leaves when it is done and has measured version t.
ReportOf(t) == [of |-> r1, status |-> "completed", cases |-> MaxCases, tools |-> t]
ManifestFor(t) == [of |-> r1, tools |-> t, report |-> Identity(ReportOf(t))]

\* r1 is over, the other runs are at pos, and the files are version, vouched for
\* by vouches.
After(t, version, vouches, pos) ==
    /\ tools = t
    /\ report = version
    /\ vouching = vouches
    /\ one_by_one = TRUE
    /\ at = [r \in Runner |-> IF r # r1 THEN pos
                              ELSE IF version = NoReport THEN "killed" ELSE "done"]
    /\ measured = [r \in Runner |-> t]
    /\ cases = [r \in Runner |-> IF r = r1 /\ version # NoReport THEN MaxCases ELSE 0]
    /\ stat_read = [r \in Runner |-> IF r = r1 THEN version ELSE NoReport]
    /\ digest_read = stat_read

FirstRunDone(t, pos) == After(t, ReportOf(t), ManifestFor(t), pos)

\* Killed at once.
FirstRunGone == After(0, NoReport, NoManifest, "start")

NothingLoaded ==
    /\ looks = [a \in Attempt |-> 0]
    /\ identities = [a \in Attempt |-> Nothing]
    /\ loaded = [a \in Attempt |-> Nothing]

AllLoaded(t) ==
    /\ looks = [a \in Attempt |-> Len(Looks)]
    /\ identities = [a \in Attempt |-> [report |-> Identity(ReportOf(t)),
                                        manifest |-> Identity(ManifestFor(t))]]
    /\ loaded = [a \in Attempt |-> [report |-> ReportOf(t), manifest |-> ManifestFor(t)]]

\* No output exists, and the attempts but those of S were killed before they
\* staged anything.
Only(S) ==
    /\ faults = FALSE
    /\ pc = [a \in Attempt |-> IF a \in S THEN "check" ELSE "killed"]
    /\ staged = {}
    /\ names = [p \in Path |-> NoFile]
    /\ disk = names
    /\ made = Directory /\ kept = made /\ established = made
    /\ output = [a \in Attempt |-> p1]
    /\ manifest = [a \in Attempt |-> p2]

\* The directories that are there at first have been written back.  The first two
\* paths are alike, and the first attempt is given p1 before p2.
AttemptsCompete ==
    /\ Init /\ kept = made
    /\ output[a1] # p2 /\ (manifest[a1] = p2 => output[a1] = p1)
    /\ FirstRunDone(MaxBuilds, "done") /\ AllLoaded(MaxBuilds)

RunsWrite == Only({}) /\ Idle /\ NothingLoaded

AttemptBesideRun == Only({a1}) /\ (FirstRunDone(0, "start") \/ FirstRunGone) /\ NothingLoaded

MCInit ==
    /\ AttemptsCompete \/ RunsWrite \/ AttemptBesideRun
    /\ seen = [a \in Attempt |-> NotRead]
    /\ current = [a \in Attempt |-> FALSE]

MCSpec == MCInit /\ [][EvidenceNext]_evidenceVars /\ EvidenceFairness

\* With inputs that nobody writes, attempts that compete for the same paths
\* never all lose, when nothing fails and no path is wanted both as a bundle and
\* as a manifest.
QuietAttemptSucceeds ==
    (tools = MaxBuilds /\ \A r \in Runner : at[r] = "done") => SomeoneSucceeds
=============================================================================
