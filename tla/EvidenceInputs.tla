---------------------------- MODULE EvidenceInputs --------------------------
(***************************************************************************)
(* The other half of finalize() (benchmark/tools/csv2bench/evidence.py,    *)
(* with verify_unchanged of artifacts.py): it loads a report and its       *)
(* manifest, compares them, refuses outputs that exist, verifies           *)
(* everything once more and publishes as EvidencePublish says, while runs  *)
(* write those files as RunnerReport says.  No lock is shared.             *)
(***************************************************************************)
EXTENDS EvidencePublish, RunnerReport, Sequences

CONSTANT NotRead     \* no version

VARIABLES
    looks,        \* how many looks at the inputs each attempt has had
    seen,         \* what stat() saw, between it and the digest
    identities,   \* the identities taken when the documents were loaded
    loaded,       \* the documents
    current       \* history: everything was in place at one time, see below

attemptVars == <<looks, seen, identities, loaded, current>>
evidenceVars == <<vars, runnerVars, attemptVars>>

Look(file, how) == [file |-> file, how |-> how]

\* load_document of both; then the documents, and what they identify.
Load == <<
    Look("report", "identify"), Look("report", "read"), Look("report", "compare"),
    Look("manifest", "identify"), Look("manifest", "read"), Look("manifest", "compare"),
    Look("documents", "assemble"),
    Look("report", "compare"), Look("tools", "compare") >>

\* Mutated form: what was verified when it was loaded is not verified again.
ReverifyNothing == <<>>

\* Before anything is staged.
Reverify == <<
    Look("report", "compare"), Look("manifest", "compare"),
    Look("report", "compare"), Look("tools", "compare"),
    Look("report", "compare"), Look("manifest", "compare") >>

Looks == Load \o Reverify

File(name) ==
    CASE name = "report" -> report
      [] name = "manifest" -> vouching
      [] name = "tools" -> tools

Exists(name) ==
    /\ name = "report" => report # NoReport
    /\ name = "manifest" => vouching # NoManifest

Expected(a, name) ==
    IF name = "tools" THEN Identity(loaded[a].manifest.tools) ELSE identities[a][name]

Nothing == [report |-> NotRead, manifest |-> NotRead]

-----------------------------------------------------------------------------
(* One look of an attempt, at what is next.                                *)

\* The absence check stands between the two lists.
MayLook(a) ==
    \/ pc[a] = "check" /\ looks[a] < Len(Load)
    \/ pc[a] = "stage_bundle" /\ looks[a] < Len(Looks)

NextLook(a) == Looks[looks[a] + 1]

Pass(a) ==
    /\ looks' = [looks EXCEPT ![a] = @ + 1]
    /\ seen' = [seen EXCEPT ![a] = NotRead]
    /\ UNCHANGED pc

Reject(a) ==
    /\ pc' = [pc EXCEPT ![a] = "failed"]
    /\ UNCHANGED <<looks, seen, identities, loaded>>

\* metadata() and canonical_existing: a file that is not there is an error.
Stat(a) ==
    /\ NextLook(a).how \in {"identify", "compare"}
    /\ seen[a] = NotRead
    /\ \/ /\ Exists(NextLook(a).file)
          /\ seen' = [seen EXCEPT ![a] = File(NextLook(a).file)]
          /\ UNCHANGED <<pc, looks, identities, loaded>>
       \/ ~ Exists(NextLook(a).file) /\ Reject(a)

Digest(a) ==
    LET file == NextLook(a).file
        identity == [stat |-> seen[a], digest |-> File(file)]
    IN  /\ seen[a] # NotRead
        /\ \/ /\ NextLook(a).how = "identify"
              /\ identities' = [identities EXCEPT ![a][file] = identity]
              /\ Pass(a)
              /\ UNCHANGED loaded
           \/ /\ NextLook(a).how = "compare"
              /\ identity = Expected(a, file)
              /\ Pass(a)
              /\ UNCHANGED <<identities, loaded>>
           \/ /\ NextLook(a).how = "compare"
              /\ identity # Expected(a, file)
              /\ Reject(a)

Read(a) ==
    /\ NextLook(a).how = "read"
    /\ loaded' = [loaded EXCEPT ![a][NextLook(a).file] = File(NextLook(a).file)]
    /\ Pass(a)
    /\ UNCHANGED identities

\* assemble_evidence and _verify_comparison_manifest, on the documents loaded.
DocumentsAgree(a) ==
    /\ loaded[a].report.status = "completed"
    /\ loaded[a].manifest.report = identities[a].report
    /\ loaded[a].manifest.tools = loaded[a].report.tools

Assemble(a) ==
    /\ NextLook(a).how = "assemble"
    /\ \/ DocumentsAgree(a) /\ Pass(a) /\ UNCHANGED <<identities, loaded>>
       \/ ~ DocumentsAgree(a) /\ Reject(a)

InPlace(a) ==
    /\ report = loaded[a].report
    /\ vouching = loaded[a].manifest
    /\ tools = loaded[a].manifest.tools

\* History: at some time since the outputs were seen to be absent the files were
\* together those that the attempt has loaded.
Observe ==
    current' = [a \in Attempt |-> current[a] \/ (pc[a] = "stage_bundle" /\ InPlace(a))]

AttemptLooks(a) ==
    /\ MayLook(a)
    /\ Stat(a) \/ Digest(a) \/ Read(a) \/ Assemble(a)
    /\ Observe
    /\ UNCHANGED <<given, staged, names, disk, directoryVars, runnerVars>>

\* A step of EvidencePublish, behind the looks that come before it.
AttemptPublishes(a) ==
    /\ ~ MayLook(a)
    /\ Step(a)
    /\ Observe
    /\ UNCHANGED <<runnerVars, looks, seen, identities, loaded>>

-----------------------------------------------------------------------------
Fault ==
    /\ \/ \E a \in Attempt : CallFails(a) \/ Kill(a)
       \/ \E p \in Path : WriteBack(p)
       \/ \E d \in Directory : WriteBackDirectory(d)
       \/ PowerLoss
    /\ Observe
    /\ UNCHANGED <<runnerVars, looks, seen, identities, loaded>>

InputsWritten ==
    /\ Rebuild \/ \E r \in Runner : Run(r)
    /\ Observe
    /\ UNCHANGED <<vars, looks, seen, identities, loaded>>

NothingLeft ==
    /\ \A a \in Attempt : pc[a] \in Final
    /\ \A r \in Runner : at[r] \in Ended
    /\ tools = MaxBuilds
    /\ UNCHANGED evidenceVars

EvidenceNext ==
    \/ \E a \in Attempt : AttemptLooks(a) \/ AttemptPublishes(a)
    \/ Fault
    \/ InputsWritten
    \/ NothingLeft

EvidenceInit ==
    /\ Init
    /\ Idle
    /\ looks = [a \in Attempt |-> 0]
    /\ seen = [a \in Attempt |-> NotRead]
    /\ identities = [a \in Attempt |-> Nothing]
    /\ loaded = [a \in Attempt |-> Nothing]
    /\ current = [a \in Attempt |-> FALSE]

\* Attempts are scheduled until they end; runs may stop at any time.
EvidenceFairness ==
    \A a \in Attempt : WF_evidenceVars(AttemptLooks(a) \/ AttemptPublishes(a))

EvidenceSpec == EvidenceInit /\ [][EvidenceNext]_evidenceVars /\ EvidenceFairness

-----------------------------------------------------------------------------
\* What an attempt publishes was whole and was there: the report it assembled is
\* completed, the manifest vouches for that report and for what it measured, the
\* identities it puts in the bundle are those of the documents it read, and at
\* one time after it had seen its outputs to be absent all of them were in
\* place together, although it reads them one after the other, each identity in
\* two parts, while runs replace them (the comment at "Re-read mutable
\* dependencies before publication").
EvidenceWasInPlace ==
    \A a \in Attempt :
        pc[a] \in {"stage_manifest", "link_manifest", "unlink_manifest", "sync_manifest",
                  "link_bundle", "unlink_bundle", "sync_bundle", "verify", "done"} =>
            /\ DocumentsAgree(a)
            /\ \A name \in {"report", "manifest"} :
                  identities[a][name] = Identity(loaded[a][name])
            /\ current[a]
=============================================================================
