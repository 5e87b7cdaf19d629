-------------------------- MODULE SourcePackaging ---------------------------
(***************************************************************************)
(* The target package_source (cmake/Csv2SourcePackaging.cmake and the      *)
(* script it configures): copies the source tree, without what work leaves *)
(* in it, to a stage of its own, archives the copy twice, and renames both *)
(* archives into the output directory.  Runs for one output directory are  *)
(* serialized by a lock, which ends with its process; the source may be    *)
(* edited all the while.                                                   *)
(*                                                                         *)
(* A path is its name with the kind of directory it is in and the kind of  *)
(* file it is: "plain", the kind of work product, or one of three that are *)
(* nobody's work: a "link", an "unsafe name" (with a colon, a backslash or *)
(* a control character) and a "bare suffix" (a name that is nothing but    *)
(* the suffix of a backup or of the writer's output).                      *)
(***************************************************************************)
EXTENDS Naturals, Sequences, SequencesExt, FiniteSetsExt

CONSTANTS
    Packagers,       \* the runs of the script
    Nonces,          \* the names of stages
    Trees,           \* the source trees, by their paths, that there may be at first
    InitialPairs,    \* the archives that may already be in the output directory
    MaxEdits         \* bound on the edits of the source

Formats == {"gz", "xz"}
None == "none"

ASSUME PackagersAssumption == None \notin Packagers \cup Nonces

Files == UNION Trees

\* A file of the source tree lies inside it.
ASSUME FilesAssumption == \A file \in Files : file.in # "outside"

\* Whatever lies there, an archive is a sequence of members.
ASSUME InitialPairsAssumption ==
    \A pair \in InitialPairs :
        /\ DOMAIN pair = Formats
        /\ \A f \in Formats : pair[f] \in Seq(Range(pair[f]))

Package == "csv2-1"

VARIABLES
    source,          \* the version of each file in the source tree
    edits,
    packager,        \* where each run is
    nonce,           \* its stage
    lock,            \* the run that holds .csv2-source-package.lock
    stage,           \* the files of each stage
    archive,         \* the archives in the output directory
    published        \* the run that renamed each of them there

treeVars == <<source, edits>>
packagingVars == <<packager, nonce, lock, stage, archive, published>>

PackagingInit ==
    /\ \E files \in Trees : source = [file \in files |-> 1]
    /\ edits = 0
    /\ packager = [p \in Packagers |-> "idle"]
    /\ nonce = [p \in Packagers |-> None]
    /\ lock = None
    /\ stage = <<>>
    /\ archive \in InitialPairs
    /\ published = [f \in Formats |-> None]

-----------------------------------------------------------------------------
\* Mutated form: the rule for compiled files misses one of their suffixes.
ExcludedLess(path) ==
    \/ path.in \in {"work directory", "generated", "git", "pycache"}
    \/ path.is \in {"generated", "git", "work file", "writer output", "backup", "work directory"}

\* The rules of file(COPY): directories of work and of tools, files of these, and
\* files that are merely called like a work directory.  None is about links or the
\* characters of a name, and a suffix has to have a name before it.
Excluded(path) ==
    \/ path.in \in {"work directory", "generated", "git", "pycache"}
    \/ path.is \in {"generated", "git", "work file", "suffix of work", "writer output", "backup",
                    "work directory"}

Copied == {file \in DOMAIN source : ~ Excluded(file)}

\* Copied as a link and archived as one.
KindOf(file) == IF file.is = "link" THEN "link" ELSE "file"

\* The members of an archive, which tar makes of a directory.
Members(files) ==
    SetToSeq({ [root |-> Package, path |-> file, kind |-> KindOf(file), version |-> files[file]] :
                 file \in DOMAIN files })

Running(p) == packager[p] \in {"copy", "gz", "xz", "clean"}

Without(name) == [n \in DOMAIN stage \ {name} |-> stage[n]]

\* A file gets another version, or goes.
EditSource ==
    /\ edits < MaxEdits
    /\ edits' = edits + 1
    /\ \E file \in Copied :
          \/ source' = [source EXCEPT ![file] = 2]
          \/ source' = [f \in DOMAIN source \ {file} |-> source[f]]

\* Mutated form: the lock is not taken into account.
AcquireAnyway(p) ==
    /\ packager[p] = "idle"
    /\ \E name \in Nonces \ DOMAIN stage :
          /\ nonce' = [nonce EXCEPT ![p] = name]
          /\ stage' = [n \in DOMAIN stage \cup {name} |-> IF n = name THEN <<>> ELSE stage[n]]
    /\ lock' = p
    /\ packager' = [packager EXCEPT ![p] = "copy"]
    /\ UNCHANGED <<archive, published>>

\* The lock, a stage that is not there yet, and the worker.
Acquire(p) ==
    /\ packager[p] = "idle"
    /\ lock = None
    /\ \E name \in Nonces \ DOMAIN stage :
          /\ nonce' = [nonce EXCEPT ![p] = name]
          /\ stage' = [n \in DOMAIN stage \cup {name} |-> IF n = name THEN <<>> ELSE stage[n]]
    /\ lock' = p
    /\ packager' = [packager EXCEPT ![p] = "copy"]
    /\ UNCHANGED <<archive, published>>

\* The lock is held for too long, or the stage is there, of a run that crashed.
GiveUp(p) ==
    /\ packager[p] = "idle"
    /\ lock # None \/ DOMAIN stage # {}
    /\ packager' = [packager EXCEPT ![p] = "failed"]
    /\ UNCHANGED <<nonce, lock, stage, archive, published>>

\* file(COPY), one file after the other.
CopyFile(p) ==
    /\ packager[p] = "copy"
    /\ \E file \in Copied \ DOMAIN stage[nonce[p]] :
          stage' = [stage EXCEPT ![nonce[p]] =
                      [f \in DOMAIN @ \cup {file} |-> IF f = file THEN source[f] ELSE @[f]]]
    /\ UNCHANGED <<packager, nonce, lock, archive, published>>

\* The worker makes both archives of its copy.
FinishWorker(p) ==
    /\ packager[p] = "copy"
    /\ Copied \subseteq DOMAIN stage[nonce[p]]
    /\ packager' = [packager EXCEPT ![p] = "gz"]
    /\ UNCHANGED <<nonce, lock, stage, archive, published>>

Rename(p, format, then) ==
    /\ packager[p] = format
    /\ archive' = [archive EXCEPT ![format] = Members(stage[nonce[p]])]
    /\ published' = [published EXCEPT ![format] = p]
    /\ packager' = [packager EXCEPT ![p] = then]
    /\ UNCHANGED <<nonce, lock, stage>>

Publish(p) == Rename(p, "gz", "xz") \/ Rename(p, "xz", "clean")

Released(p) == IF lock = p THEN None ELSE lock

Clean(p) ==
    /\ packager[p] = "clean"
    /\ stage' = Without(nonce[p])
    /\ lock' = Released(p)
    /\ packager' = [packager EXCEPT ![p] = "done"]
    /\ UNCHANGED <<nonce, archive, published>>

\* Mutated form: a rename that fails leaves the stage.
FailKeepingStage(p) ==
    /\ packager[p] \in {"copy", "gz", "xz"}
    /\ IF packager[p] = "copy" THEN stage' = Without(nonce[p]) ELSE UNCHANGED stage
    /\ lock' = Released(p)
    /\ packager' = [packager EXCEPT ![p] = "failed"]
    /\ UNCHANGED <<nonce, archive, published>>

\* The worker or a rename fails: FATAL_ERROR once the stage is removed.
Fail(p) ==
    /\ packager[p] \in {"copy", "gz", "xz"}
    /\ stage' = Without(nonce[p])
    /\ lock' = Released(p)
    /\ packager' = [packager EXCEPT ![p] = "failed"]
    /\ UNCHANGED <<nonce, archive, published>>

\* The process is killed: the lock goes with it, the stage stays.
Crash(p) ==
    /\ Running(p)
    /\ lock' = Released(p)
    /\ packager' = [packager EXCEPT ![p] = "crashed"]
    /\ UNCHANGED <<nonce, stage, archive, published>>

Packaging(p) ==
    \/ Acquire(p) \/ GiveUp(p) \/ CopyFile(p) \/ FinishWorker(p) \/ Publish(p) \/ Clean(p)
    \/ Fail(p) \/ Crash(p)

-----------------------------------------------------------------------------
\* The two archives in the output directory are of one run, of one copy of the
\* source, whenever nobody is renaming them, unless the run that put the first
\* there broke off between the two (file(LOCK), the loop over the formats).
PairOfOneRun ==
    published["gz"] # published["xz"] =>
        published["gz"] # None /\ packager[published["gz"]] \in {"xz", "failed", "crashed"}

\* A run that ended on its own, however, leaves no stage behind.
NoStageLeft ==
    \A name \in DOMAIN stage : \E p \in Packagers :
        nonce[p] = name /\ packager[p] \notin {"done", "failed"}
=============================================================================
