--------------------------- MODULE EvidencePublish --------------------------
(***************************************************************************)
(* How finalize() publishes an evidence bundle and its artifact manifest   *)
(* (benchmark/tools/csv2bench/evidence.py, with stage_json, publish_staged *)
(* and discard_staged of atomic.py).  Several invocations, started at any  *)
(* time with the same or with different paths, run concurrently on one     *)
(* file system; any of them can be killed, any file-system call can fail,  *)
(* and the machine can lose power.                                         *)
(* Paths are any two distinct ones: one invocation may publish its bundle  *)
(* where another wants its manifest.                                       *)
(*                                                                         *)
(* A directory entry is visible at once and durable after the directory is *)
(* synced, or whenever the kernel happens to write it back.  What a file   *)
(* holds is durable before it is linked: stage_json syncs it.  This is the *)
(* POSIX build of publish_staged, the one that syncs directories.          *)
(*                                                                         *)
(* The directory of a path may not be there: stage_json makes it, with the *)
(* ones above.  Its own entry is in another directory, which nothing       *)
(* syncs: until it is written back a power loss takes the directory with   *)
(* all that is in it.                                                      *)
(***************************************************************************)
CONSTANTS
    Attempt,          \* the invocations of finalize()
    Output,           \* bundle paths they may be given
    Manifest,         \* manifest paths they may be given
    Directory,        \* the directories that these are in
    home,             \* the directory of each path
    Nobody            \* no attempt, where PairPublication needs one

Path == Output \cup Manifest

ASSUME NobodyAssumption == Nobody \notin Attempt
ASSUME HomeAssumption == home \in [Path -> Directory]

VARIABLES
    output, manifest,    \* the arguments of each attempt
    established,         \* the directories that are there to stay from the beginning
    faults,              \* whether calls fail, processes die and power is lost
    pc,                  \* where each attempt is
    staged,              \* the temporary files, by attempt and content
    names,               \* what the final paths name
    disk,                \* what of that is written back, in each directory
    made,                \* the directories that there are
    kept                 \* those of them that a power loss would leave

given == <<output, manifest, established, faults>>
directoryVars == <<made, kept>>
vars == <<given, pc, staged, names, disk, directoryVars>>

NoFile == [kind |-> "none"]

Bundle(a) == [kind |-> "bundle", of |-> a]
ManifestOf(a) == [kind |-> "manifest", of |-> a]

Final == {"done", "failed", "killed"}

Init ==
    /\ output \in [Attempt -> Output]
    /\ manifest \in [Attempt -> Manifest]
    /\ \A a \in Attempt : output[a] # manifest[a]    \* "paths must be distinct"
    /\ faults \in BOOLEAN
    /\ pc = [a \in Attempt |-> "check"]
    /\ staged = {}
    /\ names = [p \in Path |-> NoFile]
    /\ disk = names
    /\ made \in SUBSET Directory
    /\ kept \in SUBSET made
    /\ established = kept

-----------------------------------------------------------------------------
Go(a, from, to) == pc[a] = from /\ pc' = [pc EXCEPT ![a] = to]

\* "output already exists": refused before anything is staged.
CheckAbsent(a) ==
    /\ \/ /\ names[output[a]] = NoFile
          /\ names[manifest[a]] = NoFile
          /\ Go(a, "check", "stage_bundle")
       \/ /\ \/ names[output[a]] # NoFile
             \/ names[manifest[a]] # NoFile
          /\ Go(a, "check", "failed")
    /\ UNCHANGED <<given, staged, names, disk, directoryVars>>

\* What the attempt stages next is to be published there.
Destination(a) ==
    CASE pc[a] = "stage_bundle"   -> {output[a]}
      [] pc[a] = "stage_manifest" -> {manifest[a]}
      [] OTHER                    -> {}

\* path.parent.mkdir(parents=True, exist_ok=True), before the stage is made.
MakeDirectory(a) ==
    /\ \E path \in Destination(a) :
          /\ home[path] \notin made
          /\ made' = made \cup {home[path]}
    /\ UNCHANGED <<given, pc, staged, names, disk, kept>>

StageBundle(a) ==
    /\ home[output[a]] \in made
    /\ Go(a, "stage_bundle", "stage_manifest")
    /\ staged' = staged \cup {<<a, "bundle">>}
    /\ UNCHANGED <<given, names, disk, directoryVars>>

StageManifest(a) ==
    /\ home[manifest[a]] \in made
    /\ Go(a, "stage_manifest", "link_manifest")
    /\ staged' = staged \cup {<<a, "manifest">>}
    /\ UNCHANGED <<given, names, disk, directoryVars>>

\* Mutated: backs off when the staging files of another attempt are there.
LinkManifestAlone(a) ==
    /\ \/ /\ staged \subseteq {a} \X {"bundle", "manifest"}
          /\ names[manifest[a]] = NoFile
          /\ Go(a, "link_manifest", "unlink_manifest")
          /\ names' = [names EXCEPT ![manifest[a]] = ManifestOf(a)]
       \/ /\ \/ names[manifest[a]] # NoFile
             \/ ~ staged \subseteq {a} \X {"bundle", "manifest"}
          /\ Go(a, "link_manifest", "cleanup")
          /\ UNCHANGED names
    /\ UNCHANGED <<given, staged, disk, directoryVars>>

\* os.link: creates the name or, when it exists, raises and changes nothing.
LinkManifest(a) ==
    /\ \/ /\ names[manifest[a]] = NoFile
          /\ Go(a, "link_manifest", "unlink_manifest")
          /\ names' = [names EXCEPT ![manifest[a]] = ManifestOf(a)]
       \/ /\ names[manifest[a]] # NoFile
          /\ Go(a, "link_manifest", "cleanup")
          /\ UNCHANGED names
    /\ UNCHANGED <<given, staged, disk, directoryVars>>

UnlinkManifest(a) ==
    /\ Go(a, "unlink_manifest", "sync_manifest")
    /\ staged' = staged \ {<<a, "manifest">>}
    /\ UNCHANGED <<given, names, disk, directoryVars>>

\* Mutated: the directory is not synced.
SkipManifestSync(a) ==
    /\ Go(a, "sync_manifest", "link_bundle")
    /\ UNCHANGED <<given, staged, names, disk, directoryVars>>

\* fsync of the manifest's directory.
SyncManifest(a) ==
    /\ Go(a, "sync_manifest", "link_bundle")
    /\ disk' = [disk EXCEPT ![manifest[a]] = names[manifest[a]]]
    /\ UNCHANGED <<given, staged, names, directoryVars>>

\* Mutated: os.replace, as for the reports.
ReplaceBundle(a) ==
    /\ Go(a, "link_bundle", "unlink_bundle")
    /\ names' = [names EXCEPT ![output[a]] = Bundle(a)]
    /\ UNCHANGED <<given, staged, disk, directoryVars>>

LinkBundle(a) ==
    /\ \/ /\ names[output[a]] = NoFile
          /\ Go(a, "link_bundle", "unlink_bundle")
          /\ names' = [names EXCEPT ![output[a]] = Bundle(a)]
       \/ /\ names[output[a]] # NoFile
          /\ Go(a, "link_bundle", "cleanup")
          /\ UNCHANGED names
    /\ UNCHANGED <<given, staged, disk, directoryVars>>

UnlinkBundle(a) ==
    /\ Go(a, "unlink_bundle", "sync_bundle")
    /\ staged' = staged \ {<<a, "bundle">>}
    /\ UNCHANGED <<given, names, disk, directoryVars>>

\* Mutated: the directory is not synced.
SkipBundleSync(a) ==
    /\ Go(a, "sync_bundle", "verify")
    /\ UNCHANGED <<given, staged, names, disk, directoryVars>>

\* fsync of the bundle's directory.
SyncBundle(a) ==
    /\ Go(a, "sync_bundle", "verify")
    /\ disk' = [disk EXCEPT ![output[a]] = names[output[a]]]
    /\ UNCHANGED <<given, staged, names, directoryVars>>

\* verify_unchanged(report_identity): the path still holds this bundle.
VerifyPublished(a) ==
    /\ \/ names[output[a]] = Bundle(a) /\ Go(a, "verify", "done")
       \/ names[output[a]] # Bundle(a) /\ Go(a, "verify", "cleanup")
    /\ UNCHANGED <<given, staged, names, disk, directoryVars>>

\* Mutated: only the inner "finally" clause discards.
CleanupManifestOnly(a) ==
    /\ Go(a, "cleanup", "failed")
    /\ staged' = staged \ {<<a, "manifest">>}
    /\ UNCHANGED <<given, names, disk, directoryVars>>

\* Discards what is left of the attempt's own staging files.
Cleanup(a) ==
    /\ Go(a, "cleanup", "failed")
    /\ staged' = staged \ {<<a, "bundle">>, <<a, "manifest">>}
    /\ UNCHANGED <<given, names, disk, directoryVars>>

Step(a) ==
    \/ CheckAbsent(a)
    \/ MakeDirectory(a) \/ StageBundle(a) \/ StageManifest(a)
    \/ LinkManifest(a) \/ UnlinkManifest(a) \/ SyncManifest(a)
    \/ LinkBundle(a) \/ UnlinkBundle(a) \/ SyncBundle(a)
    \/ VerifyPublished(a) \/ Cleanup(a)

-----------------------------------------------------------------------------
(* What can go wrong around an attempt.                                    *)

\* A call raises, whether or not others went through before it: disk full, no
\* hard links, a failing sync, a lost temporary file.
CallFails(a) ==
    /\ faults
    /\ pc[a] \notin Final \cup {"check", "cleanup"}
    /\ pc' = [pc EXCEPT ![a] = "cleanup"]
    /\ UNCHANGED <<given, staged, names, disk, directoryVars>>

Kill(a) ==
    /\ faults
    /\ pc[a] \notin Final
    /\ pc' = [pc EXCEPT ![a] = "killed"]
    /\ UNCHANGED <<given, staged, names, disk, directoryVars>>

WriteBack(p) ==
    /\ faults
    /\ disk[p] # names[p]
    /\ disk' = [disk EXCEPT ![p] = names[p]]
    /\ UNCHANGED <<given, pc, staged, names, directoryVars>>

\* The entry of a directory, with those of the ones made above it.
WriteBackDirectory(d) ==
    /\ faults
    /\ d \in made \ kept
    /\ kept' = kept \cup {d}
    /\ UNCHANGED <<given, pc, staged, names, disk, made>>

\* What the paths would name after a power loss.
Surviving == [p \in Path |-> IF home[p] \in kept THEN disk[p] ELSE NoFile]

PowerLoss ==
    /\ faults
    /\ pc' = [a \in Attempt |-> IF pc[a] \in Final \cup {"check"} THEN pc[a] ELSE "killed"]
    /\ names' = Surviving
    /\ disk' = Surviving
    /\ made' = kept
    /\ UNCHANGED <<given, staged, kept>>

AllEnded == (\A a \in Attempt : pc[a] \in Final) /\ UNCHANGED vars

Next ==
    \/ \E a \in Attempt : Step(a) \/ CallFails(a) \/ Kill(a)
    \/ \E p \in Path : WriteBack(p)
    \/ \E d \in Directory : WriteBackDirectory(d)
    \/ PowerLoss
    \/ AllEnded

\* Each attempt is a process the system keeps scheduling until it ends.
Spec == Init /\ [][Next]_vars /\ \A a \in Attempt : WF_vars(Step(a))

-----------------------------------------------------------------------------
\* The two are lost together at most: they are in one directory, as they are by
\* default, or the manifest's was there before.
StaysWith(a) == home[manifest[a]] \in established \cup {home[output[a]]}

Paired(files) ==
    \A o \in Output :
        files[o].kind = "bundle" =>
            \E a \in Attempt :
                /\ output[a] = o
                /\ files[o] = Bundle(a)
                /\ StaysWith(a) => files[manifest[a]] = ManifestOf(a)

\* A bundle is never seen without the manifest of the same attempt, while
\* attempts compete and die and also after a power loss, unless the manifest was
\* put into a new directory that is not the bundle's: the manifest is the
\* prerequisite (finalize(), the comment before stage_json(output_manifest)).
BundleHasItsManifest == Paired(names) /\ Paired(Surviving)

Survives(a) ==
    /\ Surviving[output[a]] = Bundle(a)
    /\ Surviving[manifest[a]] = ManifestOf(a)

\* finalize() returns only when both files survive a power loss, if their
\* directories were there before.  Of a directory that stage_json has made this would
\* be false: nothing syncs the one above it (atomic.py:25, 60-66).
SuccessIsDurable ==
    \A a \in Attempt :
        pc[a] = "done" /\ {home[output[a]], home[manifest[a]]} \subseteq established =>
            Survives(a)

\* An attempt that raises has removed all its staging files, wherever it
\* failed: publish_staged, the finally clause and the handler overlap.
FailureLeavesNoStage ==
    \A a \in Attempt : pc[a] \in {"done", "failed"} =>
        staged \cap ({a} \X {"bundle", "manifest"}) = {}

\* The attempt whose bundle is at each path, with its manifest.
Published ==
    [o \in Output |->
        IF \E a \in Attempt : names[o] = Bundle(a) /\ names[manifest[a]] = ManifestOf(a)
        THEN names[o].of ELSE Nobody]

\* The pair of files behaves as one that is published at a stroke, and is lost
\* once reported only with a directory that nobody has written back.
Pair == INSTANCE PairPublication WITH
    published <- Published,
    reported <- {a \in Attempt : pc[a] = "done"},
    settled <- {a \in Attempt : {home[output[a]], home[manifest[a]]} \subseteq kept}
PairSpec == Pair!Spec

\* Attempts that compete for the same paths never all lose, when nothing fails
\* and no path is wanted both as a bundle and as a manifest.
SomeoneSucceeds ==
    <>(\/ faults
       \/ \E a, b \in Attempt : output[a] = manifest[b]
       \/ \E a \in Attempt : pc[a] = "done")
=============================================================================
