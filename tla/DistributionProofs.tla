------------------------- MODULE DistributionProofs -------------------------
(***************************************************************************)
(* What is distributed.  For any number of runs of package_source, of      *)
(* stages, of files and of verifications, and whatever archives lie in the *)
(* output directory at first: the pair there is of one run, a run that     *)
(* ends on its own leaves no stage, and what verify_source_archives.py     *)
(* accepts is whole.  And for any headers, sources and include paths: the  *)
(* single header has each text that it needs, that of a header once, and a *)
(* compiler reads the same of it as of the headers.                        *)
(***************************************************************************)
EXTENDS SourceArchives, SingleHeader, FiniteSetTheorems, SequenceTheorems,
        WellFoundedInduction, TLAPS

-----------------------------------------------------------------------------
(* Packaging.                                                              *)

\* Where a run of package_source may be.
PackagerStates ==
    {"idle", "copy", "gz", "xz", "clean", "done", "failed", "crashed"}

\* The types of the packaging variables, as far as the proofs need them.
PackagingTypeOK ==
    /\ packager \in [Packagers -> PackagerStates]
    /\ nonce \in [Packagers -> Nonces \cup {None}]
    /\ lock \in Packagers \cup {None}
    /\ DOMAIN stage \subseteq Nonces
    /\ DOMAIN archive = Formats
    /\ published \in [Formats -> Packagers \cup {None}]

\* The lock is held by the one run that is between taking and leaving it.
LockIsHeld == \A p \in Packagers : Running(p) <=> lock = p

\* A run has no stage before it begins, and its own while it goes on.
StagesAreOwn ==
    \A p \in Packagers :
        /\ packager[p] = "idle" => nonce[p] = None
        /\ Running(p) => nonce[p] \in DOMAIN stage

\* A run renames the archives once each, the first one first.
RenamedInOrder ==
    \A p \in Packagers :
        /\ packager[p] \in {"idle", "copy", "gz"} => \A f \in Formats : published[f] # p
        /\ packager[p] = "xz" => published["gz"] = p /\ published["xz"] # p

\* The inductive invariant of packaging.
PackagingInv ==
    /\ PackagingTypeOK /\ LockIsHeld /\ StagesAreOwn /\ RenamedInOrder
    /\ PairOfOneRun /\ NoStageLeft

\* Packaging begins with no lock and no stage.
LEMMA PackagingInvInit == PackagingInit => PackagingInv
<1> SUFFICES ASSUME PackagingInit PROVE PackagingInv
    OBVIOUS
<1> USE PackagersAssumption, InitialPairsAssumption DEF PackagingInit
<1>1. PackagingTypeOK
    BY DEF PackagingTypeOK, PackagerStates, Formats
<1>2. LockIsHeld /\ StagesAreOwn /\ RenamedInOrder
    BY DEF LockIsHeld, StagesAreOwn, RenamedInOrder, Running, Formats
<1>3. PairOfOneRun /\ NoStageLeft
    BY DEF PairOfOneRun, NoStageLeft, Formats
<1> QED
    BY <1>1, <1>2, <1>3 DEF PackagingInv

\* While one run goes on no other does.
LEMMA OneRunning ==
    ASSUME PackagingInv, NEW p \in Packagers, Running(p), NEW q \in Packagers, q # p
    PROVE  ~ Running(q)
BY DEF PackagingInv, LockIsHeld

\* Taking the lock and a stage that is not there yet.
LEMMA AcquireStep ==
    ASSUME PackagingInv, NEW p \in Packagers, Acquire(p)
    PROVE  PackagingInv'
<1> USE PackagersAssumption
<1>1. PICK name \in Nonces \ DOMAIN stage :
          /\ nonce' = [nonce EXCEPT ![p] = name]
          /\ DOMAIN stage' = DOMAIN stage \cup {name}
    BY DEF Acquire
<1>2. /\ packager[p] = "idle" /\ packager' = [packager EXCEPT ![p] = "copy"]
      /\ lock = None /\ lock' = p /\ UNCHANGED <<archive, published>>
    BY DEF Acquire
<1>3. PackagingTypeOK'
    BY <1>1, <1>2 DEF PackagingInv, PackagingTypeOK, PackagerStates
<1>4. LockIsHeld'
    BY <1>2 DEF PackagingInv, PackagingTypeOK, LockIsHeld, Running
<1>5. StagesAreOwn'
    BY <1>1, <1>2 DEF PackagingInv, PackagingTypeOK, StagesAreOwn, Running
<1>6. RenamedInOrder'
    BY <1>2 DEF PackagingInv, PackagingTypeOK, RenamedInOrder
<1>7. PairOfOneRun'
    BY <1>2 DEF PackagingInv, PackagingTypeOK, PairOfOneRun, Formats
<1>8. NoStageLeft'
    <2> SUFFICES ASSUME NEW n \in DOMAIN stage'
                 PROVE  \E q \in Packagers : nonce'[q] = n /\ packager'[q] \notin {"done", "failed"}
        BY DEF NoStageLeft
    <2>1. CASE n = name
        BY <1>1, <1>2, <2>1 DEF PackagingInv, PackagingTypeOK
    <2>2. CASE n # name
        <3>1. n \in DOMAIN stage /\ n \in Nonces
            BY <1>1, <2>2 DEF PackagingInv, PackagingTypeOK
        <3>2. PICK q \in Packagers : nonce[q] = n /\ packager[q] \notin {"done", "failed"}
            BY <3>1 DEF PackagingInv, NoStageLeft
        <3>3. q # p
            BY <1>2, <3>1, <3>2 DEF PackagingInv, StagesAreOwn
        <3> QED
            BY <1>1, <1>2, <3>2, <3>3 DEF PackagingInv, PackagingTypeOK
    <2> QED
        BY <2>1, <2>2
<1> QED
    BY <1>3, <1>4, <1>5, <1>6, <1>7, <1>8 DEF PackagingInv

\* Giving up without either.
LEMMA GiveUpStep ==
    ASSUME PackagingInv, NEW p \in Packagers, GiveUp(p)
    PROVE  PackagingInv'
<1> USE PackagersAssumption
<1>1. /\ packager[p] = "idle" /\ packager' = [packager EXCEPT ![p] = "failed"]
      /\ UNCHANGED <<nonce, lock, stage, archive, published>>
    BY DEF GiveUp
<1>2. PackagingTypeOK'
    BY <1>1 DEF PackagingInv, PackagingTypeOK, PackagerStates
<1>3. LockIsHeld' /\ StagesAreOwn' /\ RenamedInOrder'
    BY <1>1 DEF PackagingInv, PackagingTypeOK, LockIsHeld, StagesAreOwn, RenamedInOrder, Running
<1>4. PairOfOneRun'
    BY <1>1 DEF PackagingInv, PackagingTypeOK, PairOfOneRun, Formats
<1>5. NoStageLeft'
    <2> SUFFICES ASSUME NEW n \in DOMAIN stage
                 PROVE  \E q \in Packagers : nonce[q] = n /\ packager'[q] \notin {"done", "failed"}
        BY <1>1 DEF NoStageLeft
    <2>1. n \in Nonces
        BY DEF PackagingInv, PackagingTypeOK
    <2>2. PICK q \in Packagers : nonce[q] = n /\ packager[q] \notin {"done", "failed"}
        BY DEF PackagingInv, NoStageLeft
    <2>3. q # p
        BY <1>1, <2>1, <2>2 DEF PackagingInv, StagesAreOwn
    <2> QED
        BY <1>1, <2>2, <2>3 DEF PackagingInv, PackagingTypeOK
<1> QED
    BY <1>2, <1>3, <1>4, <1>5 DEF PackagingInv

\* Copying one file.
LEMMA CopyFileStep ==
    ASSUME PackagingInv, NEW p \in Packagers, CopyFile(p)
    PROVE  PackagingInv'
<1>1. DOMAIN stage' = DOMAIN stage /\ UNCHANGED <<packager, nonce, lock, archive, published>>
    BY DEF CopyFile
<1>2. PackagingTypeOK' /\ LockIsHeld' /\ StagesAreOwn' /\ RenamedInOrder'
    BY <1>1 DEF PackagingInv, PackagingTypeOK, LockIsHeld, StagesAreOwn, RenamedInOrder, Running
<1>3. PairOfOneRun' /\ NoStageLeft'
    BY <1>1 DEF PackagingInv, PairOfOneRun, NoStageLeft
<1> QED
    BY <1>2, <1>3 DEF PackagingInv

\* Both archives are made.
LEMMA FinishWorkerStep ==
    ASSUME PackagingInv, NEW p \in Packagers, FinishWorker(p)
    PROVE  PackagingInv'
<1>1. /\ packager[p] = "copy" /\ packager' = [packager EXCEPT ![p] = "gz"]
      /\ UNCHANGED <<nonce, lock, stage, archive, published>>
    BY DEF FinishWorker
<1>2. PackagingTypeOK'
    BY <1>1 DEF PackagingInv, PackagingTypeOK, PackagerStates
<1>3. LockIsHeld' /\ StagesAreOwn' /\ RenamedInOrder'
    BY <1>1 DEF PackagingInv, PackagingTypeOK, LockIsHeld, StagesAreOwn, RenamedInOrder, Running
<1>4. PairOfOneRun'
    BY <1>1 DEF PackagingInv, PackagingTypeOK, PairOfOneRun, Formats
<1>5. NoStageLeft'
    BY <1>1 DEF PackagingInv, PackagingTypeOK, NoStageLeft
<1> QED
    BY <1>2, <1>3, <1>4, <1>5 DEF PackagingInv

\* Renaming an archive into the output directory.
LEMMA PublishStep ==
    ASSUME PackagingInv, NEW p \in Packagers, Publish(p)
    PROVE  PackagingInv'
<1>1. PICK format \in Formats, then \in {"xz", "clean"} :
          /\ Rename(p, format, then)
          /\ then = IF format = "gz" THEN "xz" ELSE "clean"
    BY DEF Publish, Formats
<1>2. /\ packager[p] = format /\ packager' = [packager EXCEPT ![p] = then]
      /\ published' = [published EXCEPT ![format] = p]
      /\ DOMAIN archive' = DOMAIN archive /\ UNCHANGED <<nonce, lock, stage>>
    BY <1>1 DEF Rename
<1>3. \A q \in Packagers \ {p} : ~ Running(q)
    BY <1>2, OneRunning DEF Running, Formats
<1>4. PackagingTypeOK'
    BY <1>2 DEF PackagingInv, PackagingTypeOK, PackagerStates
<1>5. LockIsHeld' /\ StagesAreOwn'
    BY <1>2 DEF PackagingInv, PackagingTypeOK, LockIsHeld, StagesAreOwn, Running, Formats
<1>6. RenamedInOrder'
    <2> SUFFICES ASSUME NEW q \in Packagers
                 PROVE  /\ packager'[q] \in {"idle", "copy", "gz"} =>
                              \A f \in Formats : published'[f] # q
                        /\ packager'[q] = "xz" => published'["gz"] = q /\ published'["xz"] # q
        BY DEF RenamedInOrder
    <2>1. CASE q = p
        BY <1>1, <1>2, <2>1 DEF PackagingInv, PackagingTypeOK, RenamedInOrder, Formats
    <2>2. CASE q # p
        BY <1>2, <1>3, <2>2 DEF PackagingInv, PackagingTypeOK, RenamedInOrder, Formats, Running
    <2> QED
        BY <2>1, <2>2
<1>7. PairOfOneRun'
    <2>1. CASE format = "gz"
        <3>1. published'["gz"] = p /\ packager'[p] = "xz" /\ p # None
            BY <1>1, <1>2, <2>1, PackagersAssumption DEF PackagingInv, PackagingTypeOK, Formats
        <3> QED
            BY <3>1 DEF PairOfOneRun
    <2>2. CASE format = "xz"
        <3>1. published'["gz"] = p /\ published'["xz"] = p
            BY <1>2, <2>2 DEF PackagingInv, PackagingTypeOK, RenamedInOrder, Formats
        <3> QED
            BY <3>1 DEF PairOfOneRun
    <2> QED
        BY <2>1, <2>2 DEF Formats
<1>8. NoStageLeft'
    BY <1>2 DEF PackagingInv, PackagingTypeOK, NoStageLeft
<1> QED
    BY <1>4, <1>5, <1>6, <1>7, <1>8 DEF PackagingInv

\* A run ends, and the lock with it: its stage stays when it is killed.
LEMMA EndStep ==
    ASSUME PackagingInv, NEW p \in Packagers, Running(p),
           NEW end \in {"done", "failed", "crashed"},
           end = "done" => packager[p] = "clean",
           packager' = [packager EXCEPT ![p] = end],
           lock' = Released(p), UNCHANGED <<nonce, archive, published>>,
           DOMAIN stage' = IF end = "crashed" THEN DOMAIN stage ELSE DOMAIN stage \ {nonce[p]}
    PROVE  PackagingInv'
<1> USE PackagersAssumption
<1>1. lock = p /\ lock' = None
    BY DEF PackagingInv, LockIsHeld, Released
<1>2. PackagingTypeOK'
    BY <1>1 DEF PackagingInv, PackagingTypeOK, PackagerStates
<1>3. LockIsHeld'
    BY <1>1 DEF PackagingInv, PackagingTypeOK, LockIsHeld, Running
<1>4. \A q \in Packagers \ {p} : ~ Running(q)
    BY OneRunning
<1>5. StagesAreOwn'
    <2> SUFFICES ASSUME NEW q \in Packagers
                 PROVE  /\ packager'[q] = "idle" => nonce'[q] = None
                        /\ ~ Running(q)'
        BY DEF StagesAreOwn
    <2> QED
        BY <1>4 DEF PackagingInv, PackagingTypeOK, StagesAreOwn, Running
<1>6. RenamedInOrder'
    BY DEF PackagingInv, PackagingTypeOK, RenamedInOrder
<1>7. PairOfOneRun'
    <2>1. CASE end = "done"
        <3>1. published["gz"] # published["xz"] => published["gz"] # p
            BY <2>1 DEF PackagingInv, PairOfOneRun
        <3> QED
            BY <3>1 DEF PackagingInv, PackagingTypeOK, PairOfOneRun, Formats
    <2>2. CASE end # "done"
        BY <2>2 DEF PackagingInv, PackagingTypeOK, PairOfOneRun, Formats
    <2> QED
        BY <2>1, <2>2
<1>8. NoStageLeft'
    <2> SUFFICES ASSUME NEW n \in DOMAIN stage'
                 PROVE  \E q \in Packagers : nonce'[q] = n /\ packager'[q] \notin {"done", "failed"}
        BY DEF NoStageLeft
    <2>1. PICK q \in Packagers : nonce[q] = n /\ packager[q] \notin {"done", "failed"}
        BY DEF PackagingInv, NoStageLeft
    <2>2. q = p => end = "crashed"
        BY <2>1
    <2> QED
        BY <2>1, <2>2 DEF PackagingInv, PackagingTypeOK
<1> QED
    BY <1>2, <1>3, <1>5, <1>6, <1>7, <1>8 DEF PackagingInv

\* Every step of a run keeps the invariant.
LEMMA PackagingStep ==
    ASSUME PackagingInv, NEW p \in Packagers, Packaging(p)
    PROVE  PackagingInv'
<1>1. CASE Acquire(p)
    BY <1>1, AcquireStep
<1>2. CASE GiveUp(p)
    BY <1>2, GiveUpStep
<1>3. CASE CopyFile(p)
    BY <1>3, CopyFileStep
<1>4. CASE FinishWorker(p)
    BY <1>4, FinishWorkerStep
<1>5. CASE Publish(p)
    BY <1>5, PublishStep
<1>6. CASE Clean(p)
    <2>1. /\ packager[p] = "clean" /\ packager' = [packager EXCEPT ![p] = "done"]
          /\ lock' = Released(p) /\ UNCHANGED <<nonce, archive, published>>
          /\ DOMAIN stage' = DOMAIN stage \ {nonce[p]}
        BY <1>6 DEF Clean, Without
    <2>2. Running(p)
        BY <2>1 DEF Running
    <2> QED
        BY <2>1, <2>2, EndStep
<1>7. CASE Fail(p)
    <2>1. /\ packager[p] \in {"copy", "gz", "xz"} /\ packager' = [packager EXCEPT ![p] = "failed"]
          /\ lock' = Released(p) /\ UNCHANGED <<nonce, archive, published>>
          /\ DOMAIN stage' = DOMAIN stage \ {nonce[p]}
        BY <1>7 DEF Fail, Without
    <2>2. Running(p)
        BY <2>1 DEF Running
    <2> QED
        BY <2>1, <2>2, EndStep
<1>8. CASE Crash(p)
    <2>1. /\ Running(p) /\ packager' = [packager EXCEPT ![p] = "crashed"]
          /\ lock' = Released(p) /\ UNCHANGED <<nonce, archive, published>>
          /\ DOMAIN stage' = DOMAIN stage
        BY <1>8 DEF Crash
    <2> QED
        BY <2>1, EndStep
<1> QED
    BY <1>1, <1>2, <1>3, <1>4, <1>5, <1>6, <1>7, <1>8 DEF Packaging

\* Nobody else touches the output directory, the lock or a stage.
LEMMA PackagingStays ==
    ASSUME PackagingInv, UNCHANGED packagingVars
    PROVE  PackagingInv'
BY DEF PackagingInv, packagingVars, PackagingTypeOK, LockIsHeld, StagesAreOwn, RenamedInOrder,
       PairOfOneRun, NoStageLeft, Running

\* So does every step of the system.
LEMMA PackagingNext == PackagingInv /\ [Next]_vars => PackagingInv'
<1> SUFFICES ASSUME PackagingInv, [Next]_vars PROVE PackagingInv'
    OBVIOUS
<1>1. CASE EditBeside \/ StartBeside \/ VerifyBeside \/ UNCHANGED vars
    BY <1>1, PackagingStays DEF EditBeside, StartBeside, VerifyBeside, vars
<1>2. ASSUME NEW p \in Packagers, PackagingBeside(p)
      PROVE  PackagingInv'
    BY <1>2, PackagingStep DEF PackagingBeside
<1> QED
    BY <1>1, <1>2 DEF Next

\* The invariant of packaging.
LEMMA PackagingInvariant == Spec => []PackagingInv
BY PackagingInvInit, PackagingNext, PTL DEF Spec, Init

\* The two archives in the output directory are of one run of package_source, unless the
\* run that renamed the first is at the second or broke off there: for any number of runs
\* that fail or are killed anywhere.
THEOREM PairIsOfOneRun == Spec => []PairOfOneRun
<1>1. PackagingInv => PairOfOneRun
    BY DEF PackagingInv
<1> QED
    BY PackagingInvariant, <1>1, PTL

\* A stage that is there belongs to a run that goes on or was killed, and every run that
\* ended on its own has removed its own.
THEOREM EndedRunsLeaveNoStage == Spec => []NoStageLeft
<1>1. PackagingInv => NoStageLeft
    BY DEF PackagingInv
<1> QED
    BY PackagingInvariant, <1>1, PTL

-----------------------------------------------------------------------------
(* What lies in the output directory are sequences of members.             *)

IsList(list) == list \in Seq(Range(list))

\* A copy has finitely many files, and an archive is a sequence.
ArchivesAreLists ==
    /\ \A n \in DOMAIN stage : IsFiniteSet(DOMAIN stage[n])
    /\ \A f \in Formats : IsList(archive[f])

\* A finite set can be put in order.
LEMMA SetToSeqIsList ==
    ASSUME NEW S, IsFiniteSet(S)
    PROVE  IsList(SetToSeq(S))
<1> DEFINE f == SetToSeq(S)
<1>1. Cardinality(S) \in Nat /\ ExistsBijection(1 .. Cardinality(S), S)
    BY FS_CardinalityType
<1>2. PICK g \in [1 .. Cardinality(S) -> S] : IsInjective(g)
    BY <1>1 DEF ExistsBijection, Bijection, Injection, IsInjective
<1>3. f \in [1 .. Cardinality(S) -> S]
    BY <1>2 DEF SetToSeq
<1> HIDE DEF f
<1>4. f \in [1 .. Cardinality(S) -> Range(f)]
    BY <1>3 DEF Range
<1>5. f \in Seq(Range(f))
    BY <1>1, <1>4, SeqDef
<1> QED
    BY <1>5 DEF IsList, f

\* So it is at the start.
LEMMA ListsAtFirst == Init => ArchivesAreLists
<1> SUFFICES ASSUME Init PROVE ArchivesAreLists
    OBVIOUS
<1>1. \A f \in Formats : IsList(archive[f])
    BY InitialPairsAssumption DEF Init, PackagingInit, IsList
<1>2. DOMAIN stage = {}
    BY DEF Init, PackagingInit
<1> QED
    BY <1>1, <1>2 DEF ArchivesAreLists

\* And after every step.
LEMMA ListsStep == PackagingInv /\ ArchivesAreLists /\ [Next]_vars => ArchivesAreLists'
<1> SUFFICES ASSUME PackagingInv, ArchivesAreLists, [Next]_vars PROVE ArchivesAreLists'
    OBVIOUS
<1>1. CASE UNCHANGED <<stage, archive>>
    BY <1>1 DEF ArchivesAreLists
<1>2. ASSUME NEW p \in Packagers, Packaging(p)
      PROVE  ArchivesAreLists'
    <2>1. CASE Acquire(p)
        <3>1. archive' = archive
            BY <2>1 DEF Acquire
        <3>2. PICK name : stage' = [n \in DOMAIN stage \cup {name} |->
                                      IF n = name THEN <<>> ELSE stage[n]]
            BY <2>1 DEF Acquire
        <3>3. IsFiniteSet({}) /\ DOMAIN <<>> = {}
            BY FS_EmptySet
        <3>4. \A n \in DOMAIN stage' : IsFiniteSet(DOMAIN stage'[n])
            BY <3>2, <3>3 DEF ArchivesAreLists
        <3> QED
            BY <3>1, <3>4 DEF ArchivesAreLists
    <2>2. CASE CopyFile(p)
        <3>1. archive' = archive /\ packager[p] = "copy"
            BY <2>2 DEF CopyFile
        <3>2. PICK file : stage' = [stage EXCEPT ![nonce[p]] =
                      [f \in DOMAIN @ \cup {file} |-> IF f = file THEN source[f] ELSE @[f]]]
            BY <2>2 DEF CopyFile
        <3>3. nonce[p] \in DOMAIN stage
            BY <3>1 DEF PackagingInv, StagesAreOwn, Running
        <3>4. DOMAIN stage'[nonce[p]] = DOMAIN stage[nonce[p]] \cup {file}
            BY <3>2, <3>3
        <3>5. IsFiniteSet(DOMAIN stage'[nonce[p]])
            BY <3>3, <3>4, FS_AddElement DEF ArchivesAreLists
        <3>6. \A n \in DOMAIN stage' : IsFiniteSet(DOMAIN stage'[n])
            BY <3>2, <3>5 DEF ArchivesAreLists
        <3> QED
            BY <3>1, <3>6 DEF ArchivesAreLists
    <2>3. CASE Publish(p)
        <3>1. PICK format \in Formats :
                  /\ archive' = [archive EXCEPT ![format] = Members(stage[nonce[p]])]
                  /\ packager[p] = format /\ stage' = stage
            BY <2>3 DEF Publish, Rename, Formats
        <3>2. nonce[p] \in DOMAIN stage
            BY <3>1 DEF PackagingInv, StagesAreOwn, Running, Formats
        <3> DEFINE files == stage[nonce[p]]
                   member(file) == [root |-> Package, path |-> file, kind |-> KindOf(file),
                                    version |-> files[file]]
        <3>3. IsFiniteSet(DOMAIN files)
            BY <3>2 DEF ArchivesAreLists
        <3>4. IsFiniteSet({member(file) : file \in DOMAIN files})
            <4> DEFINE S == DOMAIN files
                       T == {member(file) : file \in S}
                       g == [file \in S |-> member(file)]
            <4> HIDE DEF files
            <4>1. g \in [S -> T] /\ \A m \in T : \E file \in S : g[file] = m
                OBVIOUS
            <4>2. g \in Surjection(S, T)
                BY <4>1 DEF Surjection
            <4> QED
                BY <3>3, <4>2, FS_Surjection
        <3>5. IsList(Members(files))
            BY <3>4, SetToSeqIsList DEF Members
        <3> HIDE DEF files
        <3>6. \A f \in Formats : IsList(archive'[f])
            BY <3>1, <3>5 DEF ArchivesAreLists, PackagingInv, PackagingTypeOK, files
        <3> QED
            BY <3>1, <3>6 DEF ArchivesAreLists
    <2>4. CASE Clean(p) \/ Fail(p)
        <3>1. archive' = archive /\ stage' = Without(nonce[p])
            BY <2>4 DEF Clean, Fail
        <3> QED
            BY <3>1 DEF ArchivesAreLists, Without
    <2>5. CASE GiveUp(p) \/ FinishWorker(p) \/ Crash(p)
        BY <1>1, <2>5 DEF GiveUp, FinishWorker, Crash
    <2> QED
        BY <1>2, <2>1, <2>2, <2>3, <2>4, <2>5 DEF Packaging
<1>3. CASE EditBeside \/ StartBeside \/ VerifyBeside \/ UNCHANGED vars
    BY <1>1, <1>3 DEF EditBeside, StartBeside, VerifyBeside, vars, packagingVars
<1> QED
    BY <1>2, <1>3 DEF Next, PackagingBeside

-----------------------------------------------------------------------------
(* Verification.                                                           *)

\* Where a run of the verification may be.
VerifyStates == {"idle", "read", "expand", "write", "accepted", "rejected", "failed"}

\* The loops over the two archives end past the second.
VerifyTypeOK ==
    /\ verify \in VerifyStates
    /\ at \in 1 .. 3
    /\ verify = "write" => at # 3
    /\ verify = "accepted" => at = 3

\* The loop over the archives has passed this one.
Passed(f) == at = 3 \/ (at = 2 /\ f = "gz")

\* The archive that is there is the one that was compared.
Verified(f) ==
    /\ HasInventory(archive[f])
    /\ Inventory(archive[f]) = reference
    /\ HasContract(reference.files)

\* The archives read so far, less those renamed meanwhile, are the reference.
ReadInv ==
    verify = "read" =>
        /\ reference = NoReference <=> at = 1
        /\ \A f \in Formats \ republished : Passed(f) => Verified(f)

\* Both archives have been compared, and the run has not broken off.
Expanding == verify \in {"expand", "write", "accepted"}

\* Afterwards all of them are, and those expanded so far are expanded whole.
ExpandInv ==
    Expanding =>
        \A f \in Formats \ republished :
            /\ Verified(f)
            /\ Passed(f) => f \in DOMAIN tree /\ tree[f] = reference.files

\* The first n members of an archive are written, the others are to be.
Written(f, n) ==
    /\ members = SubSeq(archive[f], n + 1, Len(archive[f]))
    /\ tree[f] = [path \in {archive[f][k].path : k \in 1 .. n} |-> reference.files[path]]

\* Of the archive being expanded some first members are written.
WriteInv ==
    verify = "write" /\ Format \notin republished =>
        /\ Format \in DOMAIN tree
        /\ \E n \in 0 .. Len(archive[Format]) : Written(Format, n)

\* The inductive invariant of the verification.
VerifyInv == VerifyTypeOK /\ ReadInv /\ ExpandInv /\ WriteInv

\* At first no archive has been read.
LEMMA VerifyInvInit == Init => VerifyInv
BY DEF Init, VerifyInv, VerifyTypeOK, VerifyStates, ReadInv, ExpandInv, Expanding, WriteInv

\* What the comparison finds is an inventory, and no empty one.
LEMMA InventoryIsFound ==
    ASSUME NEW list, HasInventory(list)
    PROVE  /\ Inventory(list) # NoReference
           /\ Inventory(list).files =
                [path \in Paths(list) |-> Inventory(list).files[path]]
<1>1. Inventory(list).root # None /\ NoReference.root = None
    BY DEF HasInventory, Inventory, NoReference, None
<1> QED
    BY <1>1 DEF Inventory

\* A member is found in the inventory with its own version.
LEMMA MemberIsFound ==
    ASSUME NEW list, HasInventory(list), NEW k \in DOMAIN list
    PROVE  /\ list[k].path \in Paths(list)
           /\ Inventory(list).files[list[k].path] = list[k].version
<1> DEFINE m == CHOOSE m \in Range(list) : m.path = list[k].path
<1>1. list[k] \in Range(list)
    BY DEF Range
<1>2. list[k].path \in Paths(list)
    BY <1>1 DEF Paths
<1>3. m \in Range(list) /\ m.path = list[k].path
    BY <1>1
<1> HIDE DEF m
<1>4. PICK j \in DOMAIN list : m = list[j]
    BY <1>3 DEF Range
<1>5. j = k
    BY <1>3, <1>4 DEF HasInventory, HasOnePath
<1>6. m.version = list[k].version
    BY <1>4, <1>5
<1> QED
    BY <1>2, <1>6 DEF Inventory, m

\* The loops take the archives in this order.
LEMMA FormatsInOrder ==
    /\ archives[1] = "gz" /\ archives[2] = "xz" /\ Len(archives) = 2
    /\ Formats = {"gz", "xz"}
BY DEF archives, Formats

\* What happens beside the verification leaves it alone; an archive it renames
\* is known to be republished.
LEMMA BesideStep ==
    ASSUME VerifyInv, UNCHANGED verifyVars, republished \subseteq republished',
           \A f \in Formats \ republished' : archive'[f] = archive[f]
    PROVE  VerifyInv'
<1> USE DEF verifyVars
<1>1. VerifyTypeOK'
    BY DEF VerifyInv, VerifyTypeOK
<1>3. \A f \in Formats \ republished' : Verified(f) => Verified(f)'
    BY DEF Verified, HasContract, Inventory, HasInventory
<1>4. \A f : Passed(f)' <=> Passed(f)
    BY DEF Passed
<1>5. ReadInv'
    BY <1>3, <1>4 DEF VerifyInv, ReadInv
<1>6. ExpandInv'
    BY <1>3, <1>4 DEF VerifyInv, ExpandInv, Expanding
<1>7. WriteInv'
    <2> SUFFICES ASSUME verify = "write", Format \notin republished'
                 PROVE  WriteInv'
        BY DEF WriteInv, Format
    <2>1. PICK f \in Formats : f = Format
        BY FormatsInOrder DEF VerifyInv, VerifyTypeOK, Format
    <2>2. archive'[f] = archive[f] /\ Format' = f
        BY <2>1 DEF Format
    <2>3. \A n : Written(f, n) => Written(f, n)'
        <3>1. SUFFICES ASSUME NEW n, Written(f, n) PROVE Written(f, n)'
            OBVIOUS
        <3>2. /\ members' = SubSeq(archive'[f], n + 1, Len(archive'[f]))
              /\ tree' = tree /\ reference' = reference
            BY <2>2, <3>1 DEF Written
        <3>3. tree'[f] = [path \in {archive'[f][k].path : k \in 1 .. n} |-> reference'.files[path]]
            BY <2>2, <3>1, <3>2 DEF Written
        <3> QED
            BY <3>2, <3>3 DEF Written
    <2>4. f \in DOMAIN tree /\ \E n \in 0 .. Len(archive[f]) : Written(f, n)
        BY <2>1 DEF VerifyInv, WriteInv
    <2>5. f \in DOMAIN tree' /\ \E n \in 0 .. Len(archive'[f]) : Written(f, n)'
        BY <2>2, <2>3, <2>4
    <2> QED
        BY <2>2, <2>5 DEF WriteInv
<1> QED
    BY <1>1, <1>5, <1>6, <1>7 DEF VerifyInv

\* A new run has compared nothing, and nothing has been renamed since it began.
LEMMA StartStep ==
    ASSUME VerifyInv, StartBeside
    PROVE  VerifyInv'
<1>1. /\ verify' \in {"read", "rejected"} /\ at' = 1
      /\ reference' = NoReference
    BY DEF StartBeside, StartVerification
<1>2. VerifyTypeOK'
    BY <1>1 DEF VerifyTypeOK, VerifyStates
<1>3. ReadInv' /\ ExpandInv' /\ WriteInv'
    BY <1>1 DEF ReadInv, ExpandInv, WriteInv, Expanding, Passed
<1> QED
    BY <1>2, <1>3 DEF VerifyInv

\* A rejected or failed run promises nothing.
LEMMA BreakOff ==
    ASSUME VerifyInv, verify' \in {"rejected", "failed"}, at' = at
    PROVE  VerifyInv'
BY DEF VerifyInv, VerifyTypeOK, VerifyStates, ReadInv, ExpandInv, WriteInv, Expanding

\* Comparing one archive with the contract and the reference.
LEMMA ReadStep ==
    ASSUME VerifyInv, ReadArchive, UNCHANGED <<archive, republished>>
    PROVE  VerifyInv'
<1>1. CASE HasInventory(List) /\ IsEquivalent
    <2>1. /\ verify = "read" /\ verify' = "read" /\ at \in 1 .. 2 /\ at' = at + 1
          /\ reference' = IF reference = NoReference THEN Inventory(List) ELSE reference
          /\ contract' = contract /\ archive' = archive /\ republished' = republished
        BY <1>1, FormatsInOrder DEF ReadArchive, VerifyInv, VerifyTypeOK
    <2>2. PICK list : list = List
        OBVIOUS
    <2>3. HasInventory(list) /\ HasContract(Inventory(list).files)
        BY <1>1, <2>2 DEF IsEquivalent
    <2>4. reference' = Inventory(list)
        BY <1>1, <2>1, <2>2 DEF IsEquivalent
    <2>5. reference' # NoReference
        BY <2>3, <2>4, InventoryIsFound
    <2>6. \A f \in Formats : archive[f] = list => Verified(f)'
        <3>1. SUFFICES ASSUME NEW f \in Formats, archive[f] = list PROVE Verified(f)'
            OBVIOUS
        <3>2. archive'[f] = list
            BY <2>1, <3>1
        <3>3. HasInventory(archive'[f]) /\ Inventory(archive'[f]) = reference'
            BY <2>3, <2>4, <3>2
        <3>4. PICK files : files = reference'.files
            OBVIOUS
        <3>5. HasContract(files)
            BY <2>3, <2>4, <3>4
        <3>6. HasContract(files)'
            BY <2>1, <3>5 DEF HasContract
        <3> QED
            BY <3>3, <3>4, <3>6 DEF Verified, HasContract
    <2>7. VerifyTypeOK'
        BY <2>1 DEF VerifyTypeOK, VerifyStates
    <2>8. ASSUME NEW f \in Formats \ republished, Passed(f)'
          PROVE  Verified(f)'
        <3>1. CASE archive[f] = list
            BY <2>6, <3>1
        <3>2. CASE archive[f] # list
            <4>1. f # archives[at]
                BY <2>2, <3>2 DEF List
            <4>2. f = "gz" /\ at = 2
                BY <2>1, <2>8, <4>1, FormatsInOrder DEF Passed
            <4>3. Verified(f) /\ reference # NoReference
                BY <2>1, <4>2 DEF VerifyInv, ReadInv, Passed
            <4>4. reference' = reference
                BY <2>1, <4>3
            <4> QED
                BY <2>1, <4>3, <4>4 DEF Verified, HasInventory, HasContract, Inventory
        <3> QED
            BY <3>1, <3>2
    <2>9. ReadInv'
        <3>1. at' # 1
            BY <2>1
        <3> QED
            BY <2>1, <2>5, <2>8, <3>1 DEF ReadInv
    <2>10. ExpandInv' /\ WriteInv'
        BY <2>1 DEF ExpandInv, Expanding, WriteInv
    <2> QED
        BY <2>7, <2>9, <2>10 DEF VerifyInv
<1>2. CASE ~ (HasInventory(List) /\ IsEquivalent)
    BY <1>2, BreakOff DEF ReadArchive, Reject
<1> QED
    BY <1>1, <1>2

\* Both archives have been compared.
LEMMA StartExpandingStep ==
    ASSUME VerifyInv, StartExpanding, UNCHANGED <<archive, republished>>
    PROVE  VerifyInv'
<1>1. /\ verify = "read" /\ at = 3 /\ verify' = "expand" /\ at' = 1
      /\ UNCHANGED <<contract, reference, archive, republished>>
    BY FormatsInOrder DEF StartExpanding, VerifyInv, VerifyTypeOK
<1>2. \A f \in Formats \ republished : Verified(f)
    BY <1>1 DEF VerifyInv, ReadInv, Passed
<1>3. \A f : Verified(f) => Verified(f)'
    BY <1>1 DEF Verified, HasInventory, HasContract, Inventory
<1>4. ExpandInv'
    BY <1>1, <1>2, <1>3 DEF ExpandInv, Passed
<1>5. VerifyTypeOK' /\ ReadInv' /\ WriteInv'
    BY <1>1 DEF VerifyTypeOK, VerifyStates, ReadInv, WriteInv
<1> QED
    BY <1>4, <1>5 DEF VerifyInv

\* What is verified stays so while the archives are expanded.
LEMMA VerifiedStays ==
    ASSUME UNCHANGED <<archive, reference, contract>>, NEW f, Verified(f)
    PROVE  Verified(f)'
BY DEF Verified, HasInventory, HasContract, Inventory

\* Opening an archive again writes nothing yet, into a tree that was not there.
LEMMA OpenAgainStep ==
    ASSUME VerifyInv, ArchivesAreLists, OpenAgain, UNCHANGED <<archive, republished>>
    PROVE  VerifyInv'
<1>1. CASE Format \notin DOMAIN tree /\ CanExpand(List)
    <2>1. /\ verify = "expand" /\ verify' = "write" /\ at \in 1 .. 2 /\ at' = at
          /\ UNCHANGED <<contract, reference, archive, republished>>
          /\ members' = List
        BY <1>1, FormatsInOrder DEF OpenAgain, VerifyInv, VerifyTypeOK
    <2>2. PICK f \in Formats : f = Format /\ f = archives[at]
        BY <2>1, FormatsInOrder DEF Format
    <2>3. tree' = [g \in DOMAIN tree \cup {f} |-> IF g = f THEN <<>> ELSE tree[g]]
        BY <1>1, <2>2 DEF OpenAgain
    <2>4. Format' = f /\ f \notin DOMAIN tree /\ members' = archive[f]
        BY <1>1, <2>1, <2>2 DEF Format, List
    <2>5. VerifyTypeOK' /\ ReadInv'
        BY <2>1 DEF VerifyTypeOK, VerifyStates, ReadInv
    <2>6. ExpandInv'
        <3>1. SUFFICES ASSUME NEW g \in Formats \ republished
                       PROVE  /\ Verified(g)'
                              /\ Passed(g)' => g \in DOMAIN tree' /\ tree'[g] = reference'.files
            BY <2>1 DEF ExpandInv
        <3>2. /\ Verified(g)
              /\ Passed(g) => g \in DOMAIN tree /\ tree[g] = reference.files
            BY <2>1 DEF VerifyInv, ExpandInv, Expanding
        <3>3. Verified(g)'
            BY <2>1, <3>2, VerifiedStays
        <3> QED
            BY <2>1, <2>3, <2>4, <3>2, <3>3 DEF Passed
    <2>7. WriteInv'
        <3>1. archive[f] \in Seq(Range(archive[f]))
            BY DEF ArchivesAreLists, IsList
        <3>2. PICK n \in Nat : n = Len(archive[f])
            BY <3>1
        <3>3. SubSeq(archive[f], 1, n) = archive[f]
            BY <3>1, <3>2, SubSeqProperties
        <3>4. tree'[f] = [path \in {archive[f][k].path : k \in 1 .. 0} |-> reference.files[path]]
            <4>1. {archive[f][k].path : k \in 1 .. 0} = {}
                OBVIOUS
            <4>2. tree'[f] = <<>>
                BY <2>3
            <4> QED
                BY <4>1, <4>2
        <3>5. members' = SubSeq(archive[f], 0 + 1, Len(archive[f]))
            BY <2>4, <3>2, <3>3
        <3>6. Written(f, 0)'
            BY <2>1, <3>4, <3>5 DEF Written
        <3>7. 0 \in 0 .. Len(archive'[f]) /\ f \in DOMAIN tree'
            BY <2>1, <2>3, <3>2
        <3> QED
            BY <2>4, <3>6, <3>7 DEF WriteInv
    <2> QED
        BY <2>5, <2>6, <2>7 DEF VerifyInv
<1>2. CASE ~ (Format \notin DOMAIN tree /\ CanExpand(List))
    BY <1>2, BreakOff DEF OpenAgain, Reject
<1> QED
    BY <1>1, <1>2

\* Taking the first member of what is left of an archive leaves what is left.
LEMMA RestOfList ==
    ASSUME NEW S, NEW list \in Seq(S), NEW m \in 1 .. Len(list)
    PROVE  /\ Head(SubSeq(list, m, Len(list))) = list[m]
           /\ Tail(SubSeq(list, m, Len(list))) = SubSeq(list, m + 1, Len(list))
<1> DEFINE rest == SubSeq(list, m, Len(list))
           left == SubSeq(list, m + 1, Len(list))
<1>1. /\ rest \in Seq(S) /\ Len(rest) = Len(list) - m + 1
      /\ \A k \in 1 .. Len(rest) : rest[k] = list[m + k - 1]
    BY SubSeqProperties
<1>2. /\ left \in Seq(S) /\ Len(left) = Len(list) - m
      /\ \A k \in 1 .. Len(left) : left[k] = list[m + k]
    BY SubSeqProperties
<1> HIDE DEF rest, left
<1>3. Len(list) \in Nat /\ Len(rest) >= 1 /\ rest # <<>>
    BY <1>1
<1>4. /\ Head(rest) = rest[1] /\ Tail(rest) \in Seq(S) /\ Len(Tail(rest)) = Len(rest) - 1
      /\ \A k \in 1 .. Len(Tail(rest)) : Tail(rest)[k] = rest[k + 1]
    BY <1>1, <1>3, HeadTailProperties
<1>5. Head(rest) = list[m]
    BY <1>1, <1>3, <1>4
<1>6. Tail(rest) = left
    <2>1. Len(Tail(rest)) = Len(left)
        <3>1. PICK a \in Nat, b \in Int : a = Len(list) /\ b = m
            BY <1>3
        <3>2. Len(rest) = a - b + 1 /\ Len(left) = a - b /\ Len(Tail(rest)) = Len(rest) - 1
            BY <1>1, <1>2, <1>4, <3>1
        <3> QED
            BY <3>1, <3>2
    <2>2. ASSUME NEW k \in 1 .. Len(left)
          PROVE  Tail(rest)[k] = left[k]
        <3>1. Tail(rest)[k] = rest[k + 1] /\ left[k] = list[m + k]
            BY <1>2, <1>4, <2>1
        <3>2. k + 1 \in 1 .. Len(rest) /\ m + (k + 1) - 1 = m + k
            BY <1>1, <1>2
        <3> QED
            BY <1>1, <3>1, <3>2
    <2> QED
        BY <1>2, <1>4, <2>1, <2>2, SeqEqual
<1> QED
    BY <1>5, <1>6 DEF rest, left

\* Writing one member writes the file that was compared, if nobody has renamed the archive.
LEMMA WriteStep ==
    ASSUME VerifyInv, ArchivesAreLists, WriteMember, UNCHANGED <<archive, republished>>
    PROVE  VerifyInv'
<1>1. /\ verify = "write" /\ verify' = "write" /\ at \in 1 .. 2 /\ at' = at
      /\ UNCHANGED <<contract, reference, archive, republished>>
      /\ members # <<>> /\ members' = Tail(members)
    BY DEF WriteMember, VerifyInv, VerifyTypeOK
<1>2. PICK f \in Formats : f = Format /\ f = archives[at]
    BY <1>1, FormatsInOrder DEF Format
<1>3. Format' = f /\ Format = f
    BY <1>1, <1>2 DEF Format
<1>4. PICK path : path = Head(members).path
    OBVIOUS
<1>5. tree' = [tree EXCEPT ![f] =
                 [g \in DOMAIN @ \cup {path} |->
                    IF g = path THEN Head(members).version ELSE @[g]]]
    BY <1>2, <1>4 DEF WriteMember
<1>6. VerifyTypeOK' /\ ReadInv'
    BY <1>1 DEF VerifyInv, VerifyTypeOK, VerifyStates, ReadInv
<1>7. ~ Passed(f) /\ ~ Passed(f)'
    BY <1>1, <1>2, FormatsInOrder DEF Passed
<1>8. ExpandInv'
    <2>1. SUFFICES ASSUME NEW g \in Formats \ republished
                   PROVE  /\ Verified(g)'
                          /\ Passed(g)' => g \in DOMAIN tree' /\ tree'[g] = reference'.files
        BY <1>1 DEF ExpandInv
    <2>2. /\ Verified(g)
          /\ Passed(g) => g \in DOMAIN tree /\ tree[g] = reference.files
        BY <1>1 DEF VerifyInv, ExpandInv, Expanding
    <2>3. Verified(g)'
        BY <1>1, <2>2, VerifiedStays
    <2>4. CASE g = f
        BY <1>7, <2>3, <2>4
    <2>5. CASE g # f
        BY <1>1, <1>5, <2>2, <2>3, <2>5 DEF Passed
    <2> QED
        BY <2>4, <2>5
<1>9. WriteInv'
    <2>1. SUFFICES ASSUME f \notin republished
                   PROVE  f \in DOMAIN tree' /\ \E n \in 0 .. Len(archive'[f]) : Written(f, n)'
        BY <1>1, <1>3 DEF WriteInv
    <2>2. PICK list : list = archive[f] /\ list \in Seq(Range(list))
        BY DEF ArchivesAreLists, IsList
    <2>3. PICK n \in 0 .. Len(list) : Written(f, n)
        BY <1>1, <1>3, <2>1, <2>2 DEF VerifyInv, WriteInv
    <2>4. f \in DOMAIN tree
        BY <1>1, <1>3, <2>1 DEF VerifyInv, WriteInv
    <2>5. Verified(f)
        BY <1>1, <2>1 DEF VerifyInv, ExpandInv, Expanding
    <2>6. Len(list) \in Nat /\ DOMAIN list = 1 .. Len(list)
        BY <2>2
    <2>7. members = SubSeq(list, n + 1, Len(list))
        BY <2>2, <2>3 DEF Written
    <2>8. PICK m \in 1 .. Len(list) : m = n + 1
        <3>1. n # Len(list)
            <4>1. SUFFICES ASSUME n = Len(list) PROVE members = <<>>
                BY <1>1
            <4>2. n + 1 \in Int /\ Len(list) \in Int /\ Len(list) < n + 1
                BY <2>6, <4>1
            <4> QED
                BY <2>7, <4>2, SubSeqEmpty
        <3>2. n + 1 \in 1 .. Len(list)
            <4>1. n \in Nat /\ n <= Len(list)
                BY <2>6
            <4>2. PICK a \in Nat : a = Len(list)
                BY <2>6
            <4>3. PICK b \in Nat : b = n
                BY <4>1
            <4>4. b <= a /\ b # a
                BY <3>1, <4>1, <4>2, <4>3
            <4>5. b + 1 \in 1 .. a
                BY <4>4
            <4> QED
                BY <4>2, <4>3, <4>5
        <3> QED
            BY <3>2
    <2>9. Head(members) = list[m] /\ Tail(members) = SubSeq(list, m + 1, Len(list))
        BY <2>2, <2>6, <2>7, <2>8, RestOfList
    <2>10. tree[f] = [p \in {list[k].path : k \in 1 .. n} |-> reference.files[p]]
        BY <2>2, <2>3 DEF Written
    <2>11. reference.files[path] = list[m].version /\ path = list[m].path
        <3>1. HasInventory(list) /\ Inventory(list) = reference /\ m \in DOMAIN list
            BY <2>2, <2>5, <2>6 DEF Verified
        <3> QED
            BY <1>4, <2>9, <3>1, MemberIsFound
    <2>12. tree'[f] = [g \in DOMAIN tree[f] \cup {path} |->
                         IF g = path THEN Head(members).version ELSE tree[f][g]]
        BY <1>5, <2>4
    <2> DEFINE paths(k) == {list[j].path : j \in 1 .. k}
    <2>13. paths(m) = paths(n) \cup {path}
        <3>1. \A j : j \in 1 .. m <=> j \in 1 .. n \/ j = m
            BY <2>6, <2>8
        <3> QED
            BY <2>11, <3>1
    <2>14. tree'[f] = [p \in paths(m) |-> reference.files[p]]
        <3>1. DOMAIN tree[f] = paths(n) /\ tree[f] = [p \in paths(n) |-> reference.files[p]]
            BY <2>10
        <3>2. tree'[f] = [g \in paths(m) |->
                            IF g = path THEN Head(members).version ELSE tree[f][g]]
            BY <2>12, <2>13, <3>1
        <3>3. Head(members).version = reference.files[path]
            BY <2>9, <2>11
        <3> HIDE DEF paths
        <3>4. \A g \in paths(m) : g # path => g \in paths(n) /\ tree[f][g] = reference.files[g]
            BY <2>13, <3>1
        <3>5. \A g \in paths(m) : tree'[f][g] = reference.files[g]
            BY <3>2, <3>3, <3>4
        <3> QED
            BY <3>2, <3>5
    <2>15. Written(f, m)'
        BY <1>1, <2>2, <2>9, <2>14 DEF Written
    <2>16. f \in DOMAIN tree' /\ m \in 0 .. Len(archive'[f])
        BY <1>1, <1>5, <2>2, <2>4, <2>6
    <2> QED
        BY <2>15, <2>16
<1> QED
    BY <1>6, <1>8, <1>9 DEF VerifyInv

\* When all members are written the tree is whole.
LEMMA FinishStep ==
    ASSUME VerifyInv, ArchivesAreLists, FinishArchive, UNCHANGED <<archive, republished>>
    PROVE  VerifyInv'
<1>1. /\ verify = "write" /\ verify' = "expand" /\ at \in 1 .. 2 /\ at' = at + 1
      /\ UNCHANGED <<contract, reference, archive, republished, tree>>
      /\ members = <<>>
    BY DEF FinishArchive, VerifyInv, VerifyTypeOK
<1>2. PICK f \in Formats : f = Format /\ f = archives[at]
    BY <1>1, FormatsInOrder DEF Format
<1>3. VerifyTypeOK' /\ ReadInv' /\ WriteInv'
    BY <1>1 DEF VerifyTypeOK, VerifyStates, ReadInv, WriteInv
<1>4. f \notin republished => f \in DOMAIN tree /\ tree[f] = reference.files
    <2> SUFFICES ASSUME f \notin republished PROVE f \in DOMAIN tree /\ tree[f] = reference.files
        OBVIOUS
    <2>1. PICK list : list = archive[f] /\ list \in Seq(Range(list))
        BY DEF ArchivesAreLists, IsList
    <2>2. PICK n \in 0 .. Len(list) : Written(f, n)
        BY <1>1, <1>2, <2>1 DEF VerifyInv, WriteInv
    <2>3. f \in DOMAIN tree
        BY <1>1, <1>2 DEF VerifyInv, WriteInv
    <2>4. Len(list) \in Nat /\ DOMAIN list = 1 .. Len(list)
        BY <2>1
    <2>5. members = SubSeq(list, n + 1, Len(list))
        BY <2>1, <2>2 DEF Written
    <2>6. n = Len(list)
        <3>1. SUFFICES ASSUME n # Len(list) PROVE FALSE
            OBVIOUS
        <3>2. n \in Nat /\ n <= Len(list)
            BY <2>4
        <3>3. PICK a \in Nat : a = Len(list)
            BY <2>4
        <3>4. PICK b \in Nat : b = n
            BY <3>2
        <3>5. b <= a /\ b # a
            BY <3>1, <3>2, <3>3, <3>4
        <3>6. \A k \in b + 1 .. a : list[k] \in Range(list)
            BY <2>4, <3>3 DEF Range
        <3>7. Len(SubSeq(list, b + 1, a)) = a - (b + 1) + 1
            BY <3>5, <3>6, SubSeqProperties
        <3>8. Len(SubSeq(list, b + 1, a)) = 0
            BY <1>1, <2>5, <3>3, <3>4
        <3> QED
            BY <3>5, <3>7, <3>8
    <2>7. tree[f] = [p \in {list[k].path : k \in 1 .. n} |-> reference.files[p]]
        BY <2>1, <2>2 DEF Written
    <2>8. {list[k].path : k \in 1 .. n} = Paths(list)
        BY <2>4, <2>6 DEF Paths, Range
    <2>9. HasInventory(list) /\ Inventory(list) = reference
        BY <1>1, <2>1 DEF VerifyInv, ExpandInv, Expanding, Verified
    <2>10. reference.files = [p \in Paths(list) |-> reference.files[p]]
        BY <2>9, InventoryIsFound
    <2> QED
        BY <2>3, <2>7, <2>8, <2>10
<1>5. ExpandInv'
    <2>1. SUFFICES ASSUME NEW g \in Formats \ republished
                   PROVE  /\ Verified(g)'
                          /\ Passed(g)' => g \in DOMAIN tree' /\ tree'[g] = reference'.files
        BY <1>1 DEF ExpandInv
    <2>2. /\ Verified(g)
          /\ Passed(g) => g \in DOMAIN tree /\ tree[g] = reference.files
        BY <1>1 DEF VerifyInv, ExpandInv, Expanding
    <2>3. Verified(g)'
        BY <1>1, <2>2, VerifiedStays
    <2>4. Passed(g)' => Passed(g) \/ g = f
        BY <1>1, <1>2, FormatsInOrder DEF Passed
    <2> QED
        BY <1>1, <1>4, <2>2, <2>3, <2>4
<1> QED
    BY <1>3, <1>5 DEF VerifyInv

\* Both trees are.
LEMMA AcceptStep ==
    ASSUME VerifyInv, Accept, UNCHANGED <<archive, republished>>
    PROVE  VerifyInv'
<1>1. /\ verify = "expand" /\ verify' = "accepted" /\ at = 3 /\ at' = at
      /\ UNCHANGED <<contract, reference, archive, republished, tree>>
    BY FormatsInOrder DEF Accept, VerifyInv, VerifyTypeOK
<1>2. VerifyTypeOK' /\ ReadInv' /\ WriteInv'
    BY <1>1 DEF VerifyTypeOK, VerifyStates, ReadInv, WriteInv
<1>3. ExpandInv'
    <2>1. SUFFICES ASSUME NEW g \in Formats \ republished
                   PROVE  Verified(g)' /\ g \in DOMAIN tree' /\ tree'[g] = reference'.files
        BY <1>1 DEF ExpandInv
    <2>2. Verified(g) /\ g \in DOMAIN tree /\ tree[g] = reference.files
        BY <1>1 DEF VerifyInv, ExpandInv, Expanding, Passed
    <2>3. Verified(g)'
        BY <1>1, <2>2, VerifiedStays
    <2> QED
        BY <1>1, <2>2, <2>3
<1> QED
    BY <1>2, <1>3 DEF VerifyInv

\* Every step of the system keeps the invariant of the verification.
LEMMA VerifyNext ==
    PackagingInv /\ ArchivesAreLists /\ VerifyInv /\ [Next]_vars => VerifyInv'
<1> SUFFICES ASSUME PackagingInv, ArchivesAreLists, VerifyInv, [Next]_vars PROVE VerifyInv'
    OBVIOUS
<1>1. CASE EditBeside \/ UNCHANGED vars
    <2>1. UNCHANGED <<verifyVars, archive, republished>>
        BY <1>1 DEF EditBeside, vars, packagingVars, historyVars
    <2> QED
        BY <2>1, BesideStep
<1>2. ASSUME NEW p \in Packagers, PackagingBeside(p)
      PROVE  VerifyInv'
    <2>1. /\ UNCHANGED verifyVars
          /\ republished' = republished \cup {f \in Formats : published'[f] = p /\ published[f] # p}
        BY <1>2 DEF PackagingBeside
    <2>2. CASE Publish(p)
        <3>1. PICK format \in Formats :
                  /\ packager[p] = format
                  /\ archive' = [archive EXCEPT ![format] = Members(stage[nonce[p]])]
                  /\ published' = [published EXCEPT ![format] = p]
            BY <2>2 DEF Publish, Rename, Formats
        <3>2. published[format] # p /\ published'[format] = p
            BY <3>1 DEF PackagingInv, RenamedInOrder, PackagingTypeOK, Formats
        <3>3. format \in republished'
            BY <2>1, <3>2
        <3>4. \A f \in Formats \ republished' : archive'[f] = archive[f]
            BY <3>1, <3>3 DEF PackagingInv, PackagingTypeOK
        <3> QED
            BY <2>1, <3>4, BesideStep
    <2>3. CASE ~ Publish(p)
        <3>1. archive' = archive
            BY <1>2, <2>3 DEF PackagingBeside, Packaging, Acquire, GiveUp, CopyFile, FinishWorker,
                              Clean, Fail, Crash
        <3> QED
            BY <2>1, <3>1, BesideStep
    <2> QED
        BY <2>2, <2>3
<1>3. CASE StartBeside
    BY <1>3, StartStep
<1>4. CASE VerifyBeside
    <2>1. Verify /\ UNCHANGED <<archive, republished>>
        BY <1>4 DEF VerifyBeside, packagingVars, historyVars
    <2>2. CASE VerificationFails
        BY <2>2, BreakOff DEF VerificationFails
    <2> QED
        BY <2>1, <2>2, ReadStep, StartExpandingStep, OpenAgainStep, WriteStep, FinishStep,
           AcceptStep
        DEF Verify
<1> QED
    BY <1>1, <1>2, <1>3, <1>4 DEF Next

\* The invariants of packaging and of the verification.
LEMMA VerifyInvariant == Spec => [](PackagingInv /\ ArchivesAreLists /\ VerifyInv)
<1>1. Init => PackagingInv
    BY PackagingInvInit DEF Init
<1> QED
    BY <1>1, ListsAtFirst, VerifyInvInit, PackagingNext, ListsStep, VerifyNext, PTL DEF Spec

\* When verify_source_archives.py accepts, each archive that nobody has renamed since the
\* run began is expanded whole: the inventory that was compared, with the files of the
\* contract as they were read and none that is forbidden, whatever was left there before
\* and whatever runs and edits go on beside it.
THEOREM WhatIsAcceptedIsWhole == Spec => []AcceptedIsWhole
<1>1. VerifyInv => AcceptedIsWhole
    <2> SUFFICES ASSUME VerifyInv, verify = "accepted", NEW f \in Formats \ republished
                 PROVE  /\ tree[f] = reference.files
                        /\ HasContract(tree[f])
                        /\ \A path \in DOMAIN tree[f] :
                              IsSafe(path) /\ ~ ForbiddenSourceMember(path)
                        /\ Paths(archive[f]) = DOMAIN tree[f]
        BY DEF AcceptedIsWhole
    <2>1. Verified(f) /\ tree[f] = reference.files
        BY DEF VerifyInv, VerifyTypeOK, ExpandInv, Expanding, Passed
    <2>2. HasInventory(archive[f]) /\ HasContract(tree[f])
        BY <2>1 DEF Verified
    <2>3. DOMAIN tree[f] = Paths(archive[f])
        BY <2>1, <2>2, InventoryIsFound DEF Verified
    <2>4. \A path \in Paths(archive[f]) : IsSafe(path) /\ ~ ForbiddenSourceMember(path)
        BY <2>2 DEF Paths, HasInventory
    <2> QED
        BY <2>1, <2>2, <2>3, <2>4
<1> QED
    BY VerifyInvariant, <1>1, PTL

-----------------------------------------------------------------------------
(* The first verification of a pair that was made of the source as it is.  *)

\* What a copy of the source holds that no edit has overtaken.
SourceFiles == [file \in Copied |-> source[file]]

SourceIsInside == DOMAIN source \subseteq Files

\* The rules of the two scripts agree on the source.
NoneRefused == \A file \in DOMAIN source : ~ CopiedButRefused(file)

\* A run of package_source that began after the last edit copies the source as it is.
CopiesAreCurrent ==
    \A p \in untouched :
        /\ packager[p] = "copy" =>
              /\ DOMAIN stage[nonce[p]] \subseteq Copied
              /\ stage[nonce[p]] = [file \in DOMAIN stage[nonce[p]] |-> source[file]]
        /\ packager[p] \in {"gz", "xz"} => stage[nonce[p]] = SourceFiles
        /\ packager[p] = "xz" => archive["gz"] = Members(SourceFiles)

\* The pair that was made of the source as it is.
PairIsCurrent ==
    current => IsFiniteSet(Copied) /\ \A f \in Formats : archive[f] = Members(SourceFiles)

\* It has been there since the run began, which read its contract from that source.
SteadyIsCurrent ==
    steady => current /\ contract = [path \in Contract \cap DOMAIN source |-> source[path]]

\* The first run finds only what it has expanded itself.
FirstTree ==
    runs <= 1 =>
        /\ verify \in {"idle", "read"} => DOMAIN tree = {}
        /\ verify = "expand" => DOMAIN tree \subseteq {archives[k] : k \in 1 .. at - 1}
        /\ verify = "write" => DOMAIN tree \subseteq {archives[k] : k \in 1 .. at}

RunsCounted == runs \in Nat /\ (runs = 0 => verify = "idle")

\* It goes on with the inventory of that source.
FirstRunGoesOn ==
    runs = 1 /\ steady /\ Contract \subseteq DOMAIN source /\ NoneRefused =>
        /\ verify # "rejected"
        /\ verify \in {"read", "expand", "write"} /\ reference # NoReference =>
              reference = Inventory(Members(SourceFiles))
        /\ verify \in {"expand", "write"} => reference # NoReference

\* Of what packaging and edits do, and of what the verification does.
PairInv ==
    SourceIsInside /\ untouched \subseteq Packagers /\ CopiesAreCurrent /\ PairIsCurrent

FirstInv == SteadyIsCurrent /\ FirstTree /\ RunsCounted /\ FirstRunGoesOn

\* The members of a copy are in its archive once each, and nothing else is.
LEMMA MembersOfCopy ==
    ASSUME NEW files, IsFiniteSet(DOMAIN files)
    PROVE  /\ DOMAIN Members(files) = 1 .. Len(Members(files)) /\ Len(Members(files)) \in Nat
           /\ \A path \in DOMAIN files : \E member \in Range(Members(files)) : member.path = path
           /\ \A member \in Range(Members(files)) :
                 /\ member.path \in DOMAIN files
                 /\ member = [root |-> Package, path |-> member.path,
                              kind |-> KindOf(member.path), version |-> files[member.path]]
           /\ HasOnePath(Members(files))
<1> DEFINE Made(file) == [root |-> Package, path |-> file, kind |-> KindOf(file),
                          version |-> files[file]]
           D == DOMAIN files
           S == {Made(file) : file \in D}
           g == [file \in D |-> Made(file)]
           list == Members(files)
<1>1. IsFiniteSet(S)
    <2>1. g \in Surjection(D, S)
        BY DEF Surjection
    <2> QED
        BY <2>1, FS_Surjection
<1>2. Cardinality(S) \in Nat /\ ExistsBijection(1 .. Cardinality(S), S)
    BY <1>1, FS_CardinalityType
<1>3. \E f \in [1 .. Cardinality(S) -> S] : IsInjective(f)
    BY <1>2 DEF ExistsBijection, Bijection, Injection, IsInjective
<1>4. list = SetToSeq(S)
    BY DEF Members
<1>5. list \in [1 .. Cardinality(S) -> S] /\ IsInjective(list)
    BY <1>3, <1>4 DEF SetToSeq
<1>6. list \in Injection(1 .. Cardinality(S), S)
    BY <1>5 DEF Injection, IsInjective
<1>7. IsFiniteSet(1 .. Cardinality(S)) /\ Cardinality(1 .. Cardinality(S)) = Cardinality(S)
    BY <1>2, FS_Interval
<1> HIDE DEF list
<1>8. \A m \in S : \E k \in 1 .. Cardinality(S) : list[k] = m
    <2>1. list \in Surjection(1 .. Cardinality(S), S)
        BY <1>1, <1>6, <1>7, FS_Injection
    <2> QED
        BY <2>1 DEF Surjection
<1>9. Len(list) \in Nat /\ DOMAIN list = 1 .. Len(list)
    <2>1. list \in Seq(S)
        BY <1>2, <1>5, SeqDef
    <2> QED
        BY <2>1
<1>10. \A member \in S : member.path \in D /\ member = Made(member.path)
    OBVIOUS
<1>11. \A path \in D : Made(path) \in S /\ Made(path).path = path
    OBVIOUS
<1> HIDE DEF S, D
<1>12. Range(list) = S
    BY <1>5, <1>8 DEF Range
<1>13. HasOnePath(list)
    <2> SUFFICES ASSUME NEW j \in DOMAIN list, NEW k \in DOMAIN list, list[j].path = list[k].path
                 PROVE  j = k
        BY DEF HasOnePath
    <2>1. list[j] \in S /\ list[k] \in S
        BY <1>5
    <2>2. list[j] = list[k]
        BY <2>1, <1>10
    <2> QED
        BY <2>2, <1>5 DEF IsInjective
<1> QED
    BY <1>9, <1>10, <1>11, <1>12, <1>13 DEF D, list

\* The inventory of a copy is the copy, when nothing in it is refused.
LEMMA InventoryOfCopy ==
    ASSUME NEW files, IsFiniteSet(DOMAIN files), DOMAIN files # {},
           \A path \in DOMAIN files :
               IsSafe(path) /\ ~ ForbiddenSourceMember(path) /\ KindOf(path) = "file"
    PROVE  /\ HasInventory(Members(files))
           /\ Inventory(Members(files)).root = Package
           /\ DOMAIN Inventory(Members(files)).files = DOMAIN files
           /\ \A path \in DOMAIN files : Inventory(Members(files)).files[path] = files[path]
<1> DEFINE list == Members(files)
<1>1. /\ DOMAIN list = 1 .. Len(list) /\ Len(list) \in Nat
      /\ \A path \in DOMAIN files : \E member \in Range(list) : member.path = path
      /\ \A member \in Range(list) :
            /\ member.path \in DOMAIN files
            /\ member = [root |-> Package, path |-> member.path,
                         kind |-> KindOf(member.path), version |-> files[member.path]]
      /\ HasOnePath(list)
    BY MembersOfCopy
<1> HIDE DEF list
<1>2. Paths(list) = DOMAIN files
    BY <1>1 DEF Paths
<1>3. \A member \in Range(list) :
          /\ member.root = Package /\ member.kind = "file"
          /\ member.version = files[member.path]
    BY <1>1
<1>4. Range(list) # {}
    BY <1>1
<1>5. list # <<>> /\ list[1] \in Range(list)
    BY <1>1, <1>4 DEF Range
<1>6. list[1].root = Package
    BY <1>3, <1>5
<1>7. HasInventory(list)
    BY <1>1, <1>3, <1>5, <1>6 DEF HasInventory, Package
<1>8. \A path \in DOMAIN files : Inventory(list).files[path] = files[path]
    <2> SUFFICES ASSUME NEW path \in DOMAIN files PROVE Inventory(list).files[path] = files[path]
        OBVIOUS
    <2>1. PICK k \in DOMAIN list : list[k].path = path
        BY <1>1 DEF Range
    <2>2. Inventory(list).files[path] = list[k].version
        BY <1>7, <2>1, MemberIsFound
    <2>3. list[k] \in Range(list)
        BY DEF Range
    <2> QED
        BY <2>1, <2>2, <2>3, <1>3
<1>9. Inventory(list).root = Package /\ DOMAIN Inventory(list).files = DOMAIN files
    BY <1>2, <1>6 DEF Inventory
<1> QED
    BY <1>7, <1>8, <1>9 DEF list

\* So the archives of a copy of the source are equivalent to the contract: what
\* packaging leaves out includes what the verification forbids, but for the links, the
\* bare suffixes and the unsafe names.
LEMMA SourceIsEquivalent ==
    ASSUME SourceIsInside, IsFiniteSet(Copied), Contract \subseteq DOMAIN source,
           contract = [path \in Contract \cap DOMAIN source |-> source[path]], NoneRefused
    PROVE  /\ HasInventory(Members(SourceFiles))
           /\ HasContract(Inventory(Members(SourceFiles)).files)
           /\ Inventory(Members(SourceFiles)).root = Package
<1> DEFINE files == SourceFiles
<1>1. DOMAIN files = Copied /\ \A path \in Copied : files[path] = source[path]
    BY DEF SourceFiles
<1> HIDE DEF files
<1>2. Contract \subseteq Copied /\ Copied # {}
    BY ContractAssumption DEF Copied
<1>3. \A path \in Copied :
          IsSafe(path) /\ ~ ForbiddenSourceMember(path) /\ KindOf(path) = "file"
    <2> SUFFICES ASSUME NEW path \in Copied
                 PROVE  IsSafe(path) /\ ~ ForbiddenSourceMember(path) /\ KindOf(path) = "file"
        OBVIOUS
    <2>1. path.is \notin {"link", "bare suffix"} /\ "unsafe name" \notin {path.in, path.is}
        BY DEF NoneRefused, CopiedButRefused, Copied
    <2>2. IsSafe(path)
        BY <2>1, FilesAssumption DEF Copied, SourceIsInside, IsSafe
    <2>3. ~ Excluded(path)
        BY DEF Copied
    <2>4. path.is \in {"generated", "git", "work file", "suffix of work", "writer output",
                       "backup", "bare suffix"}
              => path.is \in {"generated", "git", "work file", "suffix of work",
                              "writer output", "backup", "work directory"}
        BY <2>1
    <2>5. ~ ForbiddenSourceMember(path)
        BY <2>3, <2>4 DEF Excluded, ForbiddenSourceMember
    <2> QED
        BY <2>1, <2>2, <2>5 DEF KindOf
<1>4. /\ HasInventory(Members(files)) /\ Inventory(Members(files)).root = Package
      /\ DOMAIN Inventory(Members(files)).files = Copied
      /\ \A path \in Copied : Inventory(Members(files)).files[path] = files[path]
    BY <1>1, <1>2, <1>3, InventoryOfCopy
<1>5. \A path \in DOMAIN contract : path \in Copied /\ contract[path] = source[path]
    BY <1>2
<1>6. HasContract(Inventory(Members(files)).files)
    BY <1>1, <1>4, <1>5 DEF HasContract
<1> QED
    BY <1>4, <1>6 DEF files

\* At first nothing is copied, verified or known to be current.
LEMMA FreshAtFirst == Init => PairInv /\ FirstInv
<1> SUFFICES ASSUME Init PROVE PairInv /\ FirstInv
    OBVIOUS
<1>1. DOMAIN source \in Trees /\ untouched = {} /\ current = FALSE /\ steady = FALSE
    BY DEF Init, PackagingInit
<1>2. verify = "idle" /\ runs = 0 /\ DOMAIN tree = {}
    BY DEF Init
<1> QED
    BY <1>1, <1>2 DEF PairInv, SourceIsInside, Files, CopiesAreCurrent, PairIsCurrent, FirstInv,
                      SteadyIsCurrent, FirstTree, RunsCounted, FirstRunGoesOn

\* An edit overtakes every copy and every pair.
LEMMA EditKeepsPair ==
    ASSUME PairInv, EditBeside
    PROVE  PairInv'
<1>1. untouched' = {} /\ current' = FALSE
    BY DEF EditBeside
<1>2. SourceIsInside'
    BY DEF EditBeside, EditSource, PairInv, SourceIsInside
<1> QED
    BY <1>1, <1>2 DEF PairInv, CopiesAreCurrent, PairIsCurrent

\* As long as the source and the archives stay, so does what they have in common.
LEMMA PairStays ==
    ASSUME PairInv, UNCHANGED <<source, archive, current>>, untouched' \subseteq Packagers,
           \A p \in untouched' :
               packager'[p] \in {"copy", "gz", "xz"} =>
                   p \in untouched /\ packager'[p] = packager[p] /\ nonce'[p] = nonce[p]
                   /\ stage'[nonce[p]] = stage[nonce[p]]
    PROVE  PairInv'
<1>1. Copied' = Copied /\ SourceFiles' = SourceFiles
    BY DEF Copied, SourceFiles
<1>2. SourceIsInside' /\ PairIsCurrent'
    BY <1>1 DEF PairInv, SourceIsInside, PairIsCurrent
<1>3. CopiesAreCurrent'
    BY <1>1 DEF PairInv, CopiesAreCurrent
<1> QED
    BY <1>2, <1>3 DEF PairInv

\* The steps of package_source: it copies the source as it is, or was at an edit.
LEMMA PackagingKeepsPair ==
    ASSUME PackagingInv, ArchivesAreLists, PairInv, NEW p \in Packagers, PackagingBeside(p)
    PROVE  PairInv'
<1> DEFINE n == nonce[p]
<1>1. /\ source' = source /\ Packaging(p)
      /\ untouched' = IF packager[p] = "idle" THEN untouched \cup {p} ELSE untouched
    BY DEF PackagingBeside, treeVars
<1>2. untouched' \subseteq Packagers /\ untouched \subseteq Packagers
    BY <1>1 DEF PairInv
<1>3. ~ Publish(p) => current' = current /\ archive' = archive
    <2> SUFFICES ASSUME ~ Publish(p) PROVE current' = current /\ archive' = archive
        OBVIOUS
    <2>1. UNCHANGED <<archive, published>>
        BY <1>1 DEF Packaging, Acquire, GiveUp, CopyFile, FinishWorker, Clean, Fail, Crash
    <2> QED
        BY <2>1 DEF PackagingBeside
<1>4. Copied' = Copied /\ SourceFiles' = SourceFiles /\ SourceIsInside'
    BY <1>1 DEF Copied, SourceFiles, PairInv, SourceIsInside
<1>5. Running(p) => \A q \in Packagers \ {p} : packager[q] \notin {"copy", "gz", "xz"}
    BY OneRunning DEF Running
<1>6. CASE Acquire(p)
    <2>1. PICK name :
              /\ nonce' = [nonce EXCEPT ![p] = name]
              /\ stage' = [m \in DOMAIN stage \cup {name} |-> IF m = name THEN <<>> ELSE stage[m]]
        BY <1>6 DEF Acquire
    <2>2. packager[p] = "idle" /\ packager' = [packager EXCEPT ![p] = "copy"] /\ lock = None
        BY <1>6 DEF Acquire
    <2>3. \A q \in Packagers : packager[q] \notin {"copy", "gz", "xz"}
        BY <2>2, PackagersAssumption DEF PackagingInv, LockIsHeld, Running
    <2>4. nonce'[p] = name /\ stage'[name] = <<>> /\ packager'[p] = "copy"
        BY <2>1, <2>2 DEF PackagingInv, PackagingTypeOK
    <2>5. \A q \in Packagers \ {p} : packager'[q] \notin {"copy", "gz", "xz"}
        BY <2>2, <2>3 DEF PackagingInv, PackagingTypeOK
    <2>6. DOMAIN <<>> = {} /\ <<>> = [file \in {} |-> source[file]]
        OBVIOUS
    <2>7. CopiesAreCurrent'
        BY <1>1, <1>2, <2>4, <2>5, <2>6 DEF CopiesAreCurrent
    <2>8. PairIsCurrent'
        BY <1>3, <1>4, <1>6, <2>2 DEF Publish, Rename, PairInv, PairIsCurrent
    <2> QED
        BY <1>2, <1>4, <2>7, <2>8 DEF PairInv
<1>7. CASE GiveUp(p) \/ Clean(p) \/ Fail(p) \/ Crash(p)
    <2>1. /\ packager' = [packager EXCEPT ![p] = packager'[p]] /\ nonce' = nonce
          /\ packager'[p] \notin {"copy", "gz", "xz"} /\ archive' = archive
          /\ stage' = stage \/ stage' = Without(n)
          /\ UNCHANGED published
        BY <1>7 DEF GiveUp, Clean, Fail, Crash, PackagingInv, PackagingTypeOK
    <2>2. current' = current
        BY <2>1 DEF PackagingBeside
    <2>3. ASSUME NEW q \in untouched', packager'[q] \in {"copy", "gz", "xz"}
          PROVE  q \in untouched /\ packager'[q] = packager[q] /\ stage'[nonce[q]] = stage[nonce[q]]
        <3>1. q # p
            BY <2>1, <2>3
        <3>2. packager'[q] = packager[q] /\ q \in untouched
            BY <1>1, <1>2, <2>1, <3>1 DEF PackagingInv, PackagingTypeOK
        <3>3. GiveUp(p)
            BY <1>2, <1>5, <1>7, <2>3, <3>1, <3>2 DEF Clean, Fail, Crash, Running
        <3> QED
            BY <3>2, <3>3 DEF GiveUp
    <2> QED
        BY <1>1, <1>2, <2>1, <2>2, <2>3, PairStays
<1>8. CASE CopyFile(p)
    <2>1. packager[p] = "copy" /\ UNCHANGED <<packager, nonce, archive, published>>
        BY <1>8 DEF CopyFile
    <2>2. PICK file \in Copied :
              stage' = [stage EXCEPT ![n] =
                          [f \in DOMAIN @ \cup {file} |-> IF f = file THEN source[f] ELSE @[f]]]
        BY <1>8 DEF CopyFile
    <2>3. n \in DOMAIN stage
        BY <2>1 DEF PackagingInv, StagesAreOwn, Running
    <2>4. stage'[n] = [f \in DOMAIN stage[n] \cup {file} |->
                          IF f = file THEN source[f] ELSE stage[n][f]]
        BY <2>2, <2>3
    <2>5. \A q \in Packagers : packager'[q] \in {"copy", "gz", "xz"} => q = p
        BY <1>5, <2>1 DEF Running
    <2>6. p \in untouched =>
              /\ DOMAIN stage'[n] \subseteq Copied
              /\ stage'[n] = [f \in DOMAIN stage'[n] |-> source[f]]
        <3> SUFFICES ASSUME p \in untouched
                     PROVE  /\ DOMAIN stage'[n] \subseteq Copied
                            /\ stage'[n] = [f \in DOMAIN stage'[n] |-> source[f]]
            OBVIOUS
        <3>1. /\ DOMAIN stage[n] \subseteq Copied
              /\ stage[n] = [f \in DOMAIN stage[n] |-> source[f]]
            BY <2>1 DEF PairInv, CopiesAreCurrent
        <3>2. \A f \in DOMAIN stage[n] : stage[n][f] = source[f]
            BY <3>1
        <3> QED
            BY <2>4, <3>1, <3>2
    <2>7. CopiesAreCurrent'
        BY <1>1, <1>2, <1>4, <2>1, <2>5, <2>6 DEF CopiesAreCurrent
    <2>8. PairIsCurrent'
        BY <1>4, <2>1 DEF PackagingBeside, PairInv, PairIsCurrent
    <2> QED
        BY <1>2, <1>4, <2>7, <2>8 DEF PairInv
<1>9. CASE FinishWorker(p)
    <2>1. /\ packager[p] = "copy" /\ packager' = [packager EXCEPT ![p] = "gz"]
          /\ Copied \subseteq DOMAIN stage[n]
          /\ UNCHANGED <<nonce, stage, archive, published>>
        BY <1>9 DEF FinishWorker
    <2>2. packager'[p] = "gz" /\ \A q \in Packagers \ {p} : packager'[q] = packager[q]
        BY <2>1 DEF PackagingInv, PackagingTypeOK
    <2>3. \A q \in Packagers : packager'[q] \in {"copy", "gz", "xz"} => q = p
        BY <1>5, <2>1, <2>2 DEF Running
    <2>4. p \in untouched => stage[n] = SourceFiles
        BY <2>1 DEF PairInv, CopiesAreCurrent, SourceFiles
    <2>5. CopiesAreCurrent'
        BY <1>1, <1>2, <1>4, <2>1, <2>2, <2>3, <2>4 DEF CopiesAreCurrent
    <2>6. PairIsCurrent'
        BY <1>4, <2>1 DEF PackagingBeside, PairInv, PairIsCurrent
    <2> QED
        BY <1>2, <1>4, <2>5, <2>6 DEF PairInv
<1>10. CASE Publish(p)
    <2>1. PICK format \in Formats, then \in {"xz", "clean"} :
              Rename(p, format, then) /\ then = IF format = "gz" THEN "xz" ELSE "clean"
        BY <1>10 DEF Publish, Formats
    <2>2. /\ packager[p] = format /\ packager' = [packager EXCEPT ![p] = then]
          /\ archive' = [archive EXCEPT ![format] = Members(stage[n])]
          /\ published' = [published EXCEPT ![format] = p] /\ UNCHANGED <<nonce, stage>>
        BY <2>1 DEF Rename
    <2>3. packager'[p] = then /\ \A q \in Packagers \ {p} : packager'[q] = packager[q]
        BY <2>2 DEF PackagingInv, PackagingTypeOK
    <2>4. \A q \in Packagers : packager'[q] \in {"copy", "gz", "xz"} => q = p
        BY <1>5, <2>2, <2>3 DEF Running, Formats
    <2>5. /\ archive'[format] = Members(stage[n])
          /\ \A f \in Formats \ {format} : archive'[f] = archive[f]
        BY <2>2 DEF PackagingInv, PackagingTypeOK
    <2>6. {f \in Formats : published'[f] = p /\ published[f] # p} = {format}
        BY <2>2 DEF PackagingInv, PackagingTypeOK, RenamedInOrder, Formats
    <2>7. untouched' = untouched
        BY <1>1, <2>2 DEF Formats
    <2>8. p \in untouched => stage[n] = SourceFiles
        BY <2>2 DEF PairInv, CopiesAreCurrent, Formats
    <2>9. CopiesAreCurrent'
        BY <1>2, <1>4, <2>1, <2>2, <2>3, <2>4, <2>5, <2>7, <2>8 DEF CopiesAreCurrent
    <2>10. PairIsCurrent'
        <3>1. CASE format = "gz"
            <4>1. current' = FALSE
                BY <2>6, <3>1 DEF PackagingBeside
            <4> QED
                BY <4>1 DEF PairIsCurrent
        <3>2. CASE format = "xz"
            <4>1. current' <=> p \in untouched
                BY <2>6, <3>2 DEF PackagingBeside
            <4> SUFFICES ASSUME p \in untouched
                         PROVE  /\ IsFiniteSet(Copied)
                                /\ \A f \in Formats : archive'[f] = Members(SourceFiles)
                BY <1>4, <4>1 DEF PairIsCurrent
            <4>2. archive["gz"] = Members(SourceFiles) /\ archive'["xz"] = Members(SourceFiles)
                BY <2>2, <2>5, <2>8, <3>2 DEF PairInv, CopiesAreCurrent
            <4>3. DOMAIN stage[n] = Copied /\ n \in DOMAIN stage
                BY <2>2, <2>8 DEF SourceFiles, PackagingInv, StagesAreOwn, Running, Formats
            <4> QED
                BY <2>5, <3>2, <4>2, <4>3 DEF ArchivesAreLists, Formats
        <3> QED
            BY <3>1, <3>2 DEF Formats
    <2> QED
        BY <1>2, <1>4, <2>7, <2>9, <2>10 DEF PairInv
<1> QED
    BY <1>1, <1>6, <1>7, <1>8, <1>9, <1>10 DEF Packaging

\* Every step of the system keeps what the pair and the source have in common.
LEMMA PairNext ==
    ASSUME PackagingInv, ArchivesAreLists, PairInv, [Next]_vars
    PROVE  PairInv'
<1>1. CASE StartBeside \/ VerifyBeside \/ UNCHANGED vars
    <2>1. UNCHANGED <<treeVars, packagingVars, current, untouched>>
        BY <1>1 DEF StartBeside, VerifyBeside, historyVars, vars
    <2> QED
        BY <2>1, PairStays DEF PairInv, treeVars, packagingVars
<1> QED
    BY <1>1, EditKeepsPair, PackagingKeepsPair DEF Next

\* What the first run has read so far stays right while nobody edits or renames.
LEMMA BesideKeepsFirst ==
    ASSUME FirstInv, UNCHANGED verifyVars,
           steady' => steady /\ current' = current /\ source' = source
    PROVE  FirstInv'
<1>1. FirstTree' /\ RunsCounted'
    BY DEF FirstInv, FirstTree, RunsCounted, verifyVars
<1>2. steady' => Copied' = Copied /\ SourceFiles' = SourceFiles /\ (NoneRefused' <=> NoneRefused)
    BY DEF Copied, SourceFiles, NoneRefused, CopiedButRefused
<1>3. SteadyIsCurrent'
    BY DEF FirstInv, SteadyIsCurrent, verifyVars
<1>4. FirstRunGoesOn'
    BY <1>2 DEF FirstInv, FirstRunGoesOn, verifyVars
<1> QED
    BY <1>1, <1>3, <1>4 DEF FirstInv

\* A run begins: the first one has nothing expanded before it.
LEMMA StartKeepsFirst ==
    ASSUME FirstInv, StartBeside
    PROVE  FirstInv'
<1>1. /\ runs' = runs + 1 /\ tree' = tree /\ source' = source /\ reference' = NoReference
      /\ verify' = IF Contract \subseteq DOMAIN source THEN "read" ELSE "rejected"
      /\ contract' = [path \in Contract \cap DOMAIN source |-> source[path]]
      /\ steady' = current /\ current' = current
    BY DEF StartBeside, StartVerification, treeVars
<1>2. runs \in Nat /\ (runs' <= 1 => DOMAIN tree = {})
    BY <1>1 DEF FirstInv, RunsCounted, FirstTree
<1>3. FirstTree' /\ RunsCounted'
    BY <1>1, <1>2 DEF FirstTree, RunsCounted
<1>4. SteadyIsCurrent'
    BY <1>1 DEF SteadyIsCurrent
<1>5. FirstRunGoesOn'
    BY <1>1 DEF FirstRunGoesOn
<1> QED
    BY <1>3, <1>4, <1>5 DEF FirstInv

\* The first run, when nothing is edited or renamed: what it finds is equivalent
\* to the contract, and is there to be expanded.
LEMMA FirstFinds ==
    ASSUME VerifyInv, PairInv, FirstInv, runs = 1, steady, Contract \subseteq DOMAIN source,
           NoneRefused, verify \in {"read", "expand"}, at \in 1 .. 2
    PROVE  /\ verify = "read" => HasInventory(List) /\ IsEquivalent
           /\ verify = "read" => Inventory(List) = Inventory(Members(SourceFiles))
           /\ verify = "expand" => Format \notin DOMAIN tree /\ CanExpand(List)
<1>1. /\ IsFiniteSet(Copied) /\ \A f \in Formats : archive[f] = Members(SourceFiles)
      /\ contract = [path \in Contract \cap DOMAIN source |-> source[path]]
    BY DEF PairInv, PairIsCurrent, FirstInv, SteadyIsCurrent
<1>2. List = Members(SourceFiles)
    BY <1>1, FormatsInOrder DEF List
<1>3. /\ HasInventory(List) /\ HasContract(Inventory(List).files)
      /\ Inventory(List).root = Package
    BY <1>1, <1>2, SourceIsEquivalent DEF PairInv
<1>4. reference # NoReference => reference = Inventory(List)
    BY <1>2 DEF FirstInv, FirstRunGoesOn
<1>5. CASE verify = "read"
    BY <1>2, <1>3, <1>4, <1>5 DEF IsEquivalent
<1>6. CASE verify = "expand"
    <2>1. reference.root = Package
        BY <1>3, <1>4, <1>6 DEF FirstInv, FirstRunGoesOn
    <2>2. IsFiniteSet(DOMAIN SourceFiles)
        BY <1>1 DEF SourceFiles
    <2>3. \A member \in Range(List) : member.root = Package /\ member.kind = "file"
        BY <1>2, <1>3, <2>2, MembersOfCopy DEF HasInventory
    <2>4. CanExpand(List)
        BY <1>3, <2>1, <2>3 DEF CanExpand, HasInventory
    <2>5. Format \notin DOMAIN tree
        BY <1>6, FormatsInOrder DEF FirstInv, FirstTree, Format
    <2> QED
        BY <1>6, <2>4, <2>5
<1> QED
    BY <1>5, <1>6

\* The steps of a run.
LEMMA VerifyKeepsFirst ==
    ASSUME VerifyInv, PairInv, FirstInv, VerifyBeside
    PROVE  FirstInv'
<1>1. /\ Verify /\ UNCHANGED <<source, archive, steady, current>>
      /\ runs' = runs /\ contract' = contract
    BY DEF VerifyBeside, treeVars, packagingVars, historyVars, Verify, ReadArchive, Reject,
           StartExpanding, OpenAgain, WriteMember, FinishArchive, VerificationFails, Accept
<1>2. verify \in {"read", "expand", "write"}
    BY <1>1 DEF Verify, ReadArchive, StartExpanding, OpenAgain, WriteMember, FinishArchive,
                VerificationFails, Accept
<1>3. RunsCounted' /\ SteadyIsCurrent'
    BY <1>1, <1>2 DEF FirstInv, RunsCounted, SteadyIsCurrent
<1>4. SourceFiles' = SourceFiles /\ (NoneRefused' <=> NoneRefused)
    BY <1>1 DEF SourceFiles, Copied, NoneRefused, CopiedButRefused
<1>5. at \in 1 .. 3
    BY DEF VerifyInv, VerifyTypeOK
<1>6. FirstTree'
    <2> SUFFICES ASSUME runs <= 1
                 PROVE  /\ verify' \in {"idle", "read"} => DOMAIN tree' = {}
                        /\ verify' = "expand" =>
                              DOMAIN tree' \subseteq {archives[k] : k \in 1 .. at' - 1}
                        /\ verify' = "write" =>
                              DOMAIN tree' \subseteq {archives[k] : k \in 1 .. at'}
        BY <1>1 DEF FirstTree
    <2>1. CASE ReadArchive \/ StartExpanding \/ VerificationFails \/ Accept
        BY <2>1 DEF ReadArchive, Reject, StartExpanding, VerificationFails, Accept, FirstInv,
                    FirstTree
    <2>2. CASE OpenAgain
        <3>1. /\ verify = "expand" /\ verify' \in {"write", "rejected"}
              /\ verify' = "write" => at' = at /\ DOMAIN tree' = DOMAIN tree \cup {archives[at]}
            BY <2>2 DEF OpenAgain, Reject, Format
        <3>2. DOMAIN tree \subseteq {archives[k] : k \in 1 .. at - 1}
            BY <3>1 DEF FirstInv, FirstTree
        <3> QED
            BY <1>5, <3>1, <3>2
    <2>3. CASE WriteMember
        <3>1. verify = "write" /\ verify' = "write" /\ at' = at /\ DOMAIN tree' = DOMAIN tree
            BY <2>3 DEF WriteMember
        <3> QED
            BY <3>1 DEF FirstInv, FirstTree
    <2>4. CASE FinishArchive
        <3>1. verify = "write" /\ verify' = "expand" /\ at' = at + 1 /\ tree' = tree
            BY <2>4 DEF FinishArchive
        <3> QED
            BY <1>5, <3>1 DEF FirstInv, FirstTree
    <2> QED
        BY <1>1, <2>1, <2>2, <2>3, <2>4 DEF Verify
<1>7. FirstRunGoesOn'
    <2> SUFFICES ASSUME runs = 1, steady, Contract \subseteq DOMAIN source, NoneRefused
                 PROVE  /\ verify' # "rejected"
                        /\ verify' \in {"read", "expand", "write"} /\ reference' # NoReference =>
                              reference' = Inventory(Members(SourceFiles))
                        /\ verify' \in {"expand", "write"} => reference' # NoReference
        BY <1>1, <1>4 DEF FirstRunGoesOn
    <2>1. /\ reference # NoReference => reference = Inventory(Members(SourceFiles))
          /\ verify \in {"expand", "write"} => reference # NoReference
        BY <1>2 DEF FirstInv, FirstRunGoesOn
    <2>2. CASE ReadArchive
        <3>1. at \in 1 .. 2 /\ verify = "read"
            BY <1>5, <2>2, FormatsInOrder DEF ReadArchive
        <3>2. /\ HasInventory(List) /\ IsEquivalent
              /\ Inventory(List) = Inventory(Members(SourceFiles))
            BY <3>1, FirstFinds
        <3> QED
            BY <2>1, <2>2, <3>1, <3>2 DEF ReadArchive
    <2>3. CASE StartExpanding
        <3>1. reference # NoReference
            BY <2>3, FormatsInOrder DEF StartExpanding, VerifyInv, ReadInv
        <3> QED
            BY <2>1, <2>3, <3>1 DEF StartExpanding
    <2>4. CASE OpenAgain
        <3>1. at \in 1 .. 2 /\ verify = "expand"
            BY <1>5, <2>4, FormatsInOrder DEF OpenAgain
        <3>2. Format \notin DOMAIN tree /\ CanExpand(List)
            BY <3>1, FirstFinds
        <3> QED
            BY <2>1, <2>4, <3>1, <3>2 DEF OpenAgain
    <2>5. CASE WriteMember \/ FinishArchive \/ VerificationFails \/ Accept
        BY <2>1, <2>5 DEF WriteMember, FinishArchive, VerificationFails, Accept
    <2> QED
        BY <1>1, <2>2, <2>3, <2>4, <2>5 DEF Verify
<1> QED
    BY <1>3, <1>6, <1>7 DEF FirstInv

\* Every step of the system.
LEMMA FirstNext ==
    ASSUME VerifyInv, PairInv, FirstInv, [Next]_vars
    PROVE  FirstInv'
<1>1. CASE EditBeside
    BY <1>1, BesideKeepsFirst DEF EditBeside
<1>2. ASSUME NEW p \in Packagers, PackagingBeside(p)
      PROVE  FirstInv'
    <2>1. UNCHANGED verifyVars /\ source' = source
        BY <1>2 DEF PackagingBeside, treeVars
    <2>2. steady' => steady /\ current' = current
        BY <1>2 DEF PackagingBeside
    <2> QED
        BY <2>1, <2>2, BesideKeepsFirst
<1>3. CASE UNCHANGED vars
    BY <1>3, BesideKeepsFirst DEF vars, treeVars, historyVars
<1> QED
    BY <1>1, <1>2, <1>3, StartKeepsFirst, VerifyKeepsFirst DEF Next

\* The first verification of a pair that a run of package_source made of the source as it
\* is does not reject it, whatever other runs did before and whatever work products lie in
\* the source, as long as nobody edits the source or renames an archive meanwhile: unless
\* the source has a link, a bare suffix or an unsafe name, which the rules of the one
\* script let pass and those of the other do not.
THEOREM FreshPairsPass == Spec => []FreshPairIsAccepted
<1>1. FirstInv => FreshPairIsAccepted
    <2> SUFFICES ASSUME FirstInv, verify = "rejected", steady, Contract \subseteq DOMAIN source,
                        NoneRefused
                 PROVE  runs > 1
        BY DEF FreshPairIsAccepted, NoneRefused
    <2>1. runs \in Nat /\ runs # 0
        BY DEF FirstInv, RunsCounted
    <2>2. runs # 1
        BY DEF FirstInv, FirstRunGoesOn
    <2> QED
        BY <2>1, <2>2
<1>2. PackagingInv /\ ArchivesAreLists /\ PairInv /\ [Next]_vars => PairInv'
    BY PairNext
<1>3. VerifyInv /\ PairInv /\ FirstInv /\ [Next]_vars => FirstInv'
    BY FirstNext
<1> QED
    BY VerifyInvariant, FreshAtFirst, <1>1, <1>2, <1>3, PTL DEF Spec

-----------------------------------------------------------------------------
(* The single header.                                                      *)

\* The state that generate() keeps has its types.
AmalgamationTypeOK ==
    /\ DOMAIN directives \subseteq FilePaths \ {<<>>}
    /\ \A file \in DOMAIN directives : directives[file] \in Seq(Directives)
    /\ sources \in Seq(FilePaths \ {<<>>})
    /\ processed \in 0 .. Len(sources)
    /\ stack \in Seq([file : DOMAIN directives, at : Nat \ {0}, when : BOOLEAN])
    /\ \A k \in DOMAIN stack : stack[k].at <= Len(directives[stack[k].file]) + 1
    /\ included_files \in Seq(DOMAIN directives)
    /\ amalgamation \in Seq([text : (DOMAIN directives) \X Nat, when : BOOLEAN])
    /\ generate \in {"sources", "written", "raised"}

\* The first n directives of a file lead to files that are included.
Followed(file, n) ==
    \A k \in 1 .. n : Includes(file, directives[file][k]) \subseteq Range(included_files)

\* Text of the file has been put out.
IsPutOut(file) == \E k \in DOMAIN amalgamation : amalgamation[k].text[1] = file

\* Units in progress are of different files, which are included, and have followed
\* the directives before the one they are at.
UnitsInProgress ==
    /\ \A j, k \in DOMAIN stack : stack[j].file = stack[k].file => j = k
    /\ \A k \in DOMAIN stack :
          /\ stack[k].file \in Range(included_files)
          /\ Followed(stack[k].file, stack[k].at - 1)

\* An included file that is not in progress is complete.
FilesComplete ==
    \A file \in Range(included_files) :
        \/ \E k \in DOMAIN stack : stack[k].file = file
        \/ Followed(file, Len(directives[file])) /\ IsPutOut(file)

\* The sources that were processed are included, and what is included is needed.
NeededFiles ==
    /\ \A k \in 1 .. processed : sources[k] \in Range(included_files)
    /\ Range(included_files) \subseteq Reached(sources)
    /\ generate = "written" => stack = <<>> /\ processed = Len(sources)

IsSource(file) == file \in Range(sources)

\* No text of a header is there twice, nor that which its unit has yet to put out.
TextsAreOnce ==
    /\ \A k \in DOMAIN amalgamation : amalgamation[k].text[1] \in Range(included_files)
    /\ \A j, k \in DOMAIN amalgamation :
          amalgamation[j].text = amalgamation[k].text =>
              j = k \/ IsSource(amalgamation[j].text[1])
    /\ \A j \in DOMAIN amalgamation : \A k \in DOMAIN stack :
          amalgamation[j].text[1] = stack[k].file =>
              amalgamation[j].text[2] < stack[k].at \/ IsSource(stack[k].file)

\* The inductive invariant of generate().
AmalgamationInv ==
    /\ AmalgamationTypeOK /\ UnitsInProgress /\ FilesComplete
    /\ NeededFiles /\ TextsAreOnce

\* generate() begins with nothing included.
LEMMA AmalgamationInvInit == AmalgamationInit => AmalgamationInv
<1> SUFFICES ASSUME AmalgamationInit PROVE AmalgamationInv
    OBVIOUS
<1> USE DEF AmalgamationInit
<1>1. AmalgamationTypeOK
    BY ProjectsAssumption DEF AmalgamationTypeOK
<1>2. Range(included_files) = {}
    BY DEF Range
<1>3. UnitsInProgress /\ FilesComplete /\ NeededFiles /\ TextsAreOnce
    BY <1>2 DEF UnitsInProgress, FilesComplete, NeededFiles, TextsAreOnce
<1> QED
    BY <1>1, <1>3 DEF AmalgamationInv

\* A set of positions that is not empty has a first one.
LEMMA FirstExists ==
    ASSUME NEW S \in SUBSET Nat, S # {}
    PROVE  \E m \in S : \A k \in S : m <= k
<1>1. \E m \in S : \A k \in S : ~ (<<k, m>> \in OpToRel(<, Nat))
    BY NatLessThanWellFounded, WFMin
<1>2. \A m, k \in S : ~ (<<k, m>> \in OpToRel(<, Nat)) => m <= k
    BY DEF OpToRel
<1> QED
    BY <1>1, <1>2

\* What find_included_file finds is what a compiler reads.
LEMMA FoundIsIncluded ==
    ASSUME AmalgamationTypeOK,
           NEW file \in DOMAIN directives, NEW directive \in Directives
    PROVE  /\ Included(directive, file) = <<>> => Includes(file, directive) = {}
           /\ Included(directive, file) # <<>> =>
                 /\ Included(directive, file) \in DOMAIN directives
                 /\ Includes(file, directive) = {Included(directive, file)}
<1> DEFINE beside == Front(file) \o directive.path
           Below(k) == include_paths[k] \o directive.path
           found == {k \in DOMAIN include_paths : Below(k) \in DOMAIN directives}
           dirs == SearchDirs(directive, file)
           existing == {k \in DOMAIN dirs : dirs[k] \o directive.path \in DOMAIN directives}
<1>1. /\ directive.quoted \in BOOLEAN /\ directive.comment \in BOOLEAN
      /\ include_paths \in Seq(FilePaths)
      /\ Front(file) \in FilePaths
    <2>1. file \in Seq(STRING) /\ Len(file) \in Nat \ {0}
        BY DEF AmalgamationTypeOK, FilePaths
    <2>2. Front(file) \in Seq(STRING)
        BY <2>1 DEF Front
    <2> QED
        BY <2>2, IncludePathsAssumption DEF Directives, FilePaths
<1>2. CASE directive.comment
    BY <1>1, <1>2 DEF Included, Includes
<1>3. CASE ~ directive.comment
    <2>1. /\ dirs \in Seq(FilePaths)
          /\ existing \subseteq Nat
        BY <1>1 DEF SearchDirs
    <2>2. /\ Included(directive, file) = FindIncludedFile(directive, file)
          /\ FindIncludedFile(directive, file) =
                IF existing = {} THEN <<>> ELSE dirs[Min(existing)] \o directive.path
        <3> DEFINE paths == [k \in DOMAIN dirs |-> dirs[k] \o directive.path]
                   Ex == {k \in DOMAIN paths : paths[k] \in DOMAIN directives}
        <3>1. FindIncludedFile(directive, file) = IF Ex = {} THEN <<>> ELSE paths[Min(Ex)]
            BY DEF FindIncludedFile
        <3>2. Ex = existing
            OBVIOUS
        <3>3. existing # {} => Min(existing) \in existing
            BY <2>1, FirstExists DEF Min
        <3> QED
            BY <1>1, <1>3, <3>1, <3>2, <3>3 DEF Included
    <2>3. existing # {} =>
             /\ Min(existing) \in existing
             /\ \A k \in existing : Min(existing) <= k
        BY <2>1, FirstExists DEF Min
    <2>4. <<>> \notin DOMAIN directives
        BY DEF AmalgamationTypeOK
    <2>5. CASE directive.quoted /\ beside \in DOMAIN directives
        <3>1. Includes(file, directive) = {beside}
            BY <1>3, <2>5 DEF Includes
        <3>2. /\ 1 \in DOMAIN dirs /\ dirs[1] = Front(file)
              /\ \A k \in DOMAIN dirs : k >= 1
            BY <1>1, <2>5 DEF SearchDirs
        <3>3. 1 \in existing
            BY <2>5, <3>2
        <3>4. Min(existing) = 1
            <4>1. Min(existing) \in Nat /\ Min(existing) >= 1 /\ Min(existing) <= 1
                BY <2>1, <2>3, <3>2, <3>3
            <4> QED
                BY <4>1
        <3> QED
            BY <2>2, <2>4, <2>5, <3>1, <3>2, <3>3, <3>4
    <2>6. CASE ~ (directive.quoted /\ beside \in DOMAIN directives)
        <3>1. Includes(file, directive) =
                 {Below(k) : k \in {first \in found : \A j \in found : first <= j}}
            BY <1>3, <2>6 DEF Includes
        <3>2. PICK shift \in {0, 1} :
                 /\ DOMAIN dirs = 1 .. Len(include_paths) + shift
                 /\ \A k \in DOMAIN include_paths : dirs[k + shift] = include_paths[k]
                 /\ shift = 1 => dirs[1] = Front(file) /\ directive.quoted
            <4>1. CASE directive.quoted
                <5>1. /\ DOMAIN dirs = 1 .. Len(include_paths) + 1
                      /\ \A k \in DOMAIN include_paths : dirs[k + 1] = include_paths[k]
                      /\ dirs[1] = Front(file)
                    BY <1>1, <4>1 DEF SearchDirs
                <5> QED
                    BY <4>1, <5>1
            <4>2. CASE ~ directive.quoted
                <5>1. dirs = include_paths
                    BY <1>1, <4>2 DEF SearchDirs
                <5> QED
                    BY <1>1, <5>1
            <4> QED
                BY <4>1, <4>2
        <3>3. DOMAIN include_paths = 1 .. Len(include_paths) /\ Len(include_paths) \in Nat
            BY <1>1
        <3>4. \A k \in existing : k - shift \in found
            BY <2>6, <3>2, <3>3
        <3>5. \A k \in found : k + shift \in existing
            BY <3>2, <3>3
        <3>6. CASE existing = {}
            BY <2>2, <3>1, <3>5, <3>6
        <3>7. CASE existing # {}
            <4> DEFINE least == Min(existing)
            <4>0. PICK first \in existing : first = least /\ \A k \in existing : first <= k
                BY <2>3, <3>7
            <4>1. /\ first - shift \in found
                  /\ \A j \in found : first - shift <= j
                <5>1. found \subseteq Nat /\ first \in Nat /\ shift \in Nat
                    BY <2>1, <3>3
                <5> HIDE DEF found, existing
                <5>2. \A j \in found : first <= j + shift
                    BY <3>5, <4>0
                <5> QED
                    BY <3>4, <5>1, <5>2
            <4>2. {k \in found : \A j \in found : k <= j} = {first - shift}
                BY <3>3, <4>1
            <4>3. dirs[first] \o directive.path = Below(first - shift)
                <5>1. first - shift \in DOMAIN include_paths /\ first \in Nat
                    BY <2>1, <4>1
                <5>2. dirs[first - shift + shift] = include_paths[first - shift]
                    BY <3>2, <5>1
                <5>3. first - shift + shift = first
                    BY <5>1
                <5> QED
                    BY <5>2, <5>3
            <4> QED
                BY <2>2, <2>4, <3>1, <3>7, <4>0, <4>2, <4>3
        <3> QED
            BY <3>6, <3>7
    <2> QED
        BY <2>5, <2>6
<1> QED
    BY <1>1, <1>2, <1>3

\* Where the headers are the same, so is what they lead to.
LEMMA SameIncludes ==
    ASSUME UNCHANGED <<directives, sources>>
    PROVE  /\ \A file, directive : Includes(file, directive)' = Includes(file, directive)
           /\ Reached(sources)' = Reached(sources)
<1>1. \A file, directive : Includes(file, directive)' = Includes(file, directive)
    BY DEF Includes
<1> QED
    BY <1>1 DEF Reached, IsClosed

\* What was followed stays so.
LEMMA FollowedStays ==
    ASSUME UNCHANGED <<directives, sources>>,
           Range(included_files) \subseteq Range(included_files)'
    PROVE  \A file, n : Followed(file, n) => Followed(file, n)'
BY SameIncludes DEF Followed

\* The files that are reached are those that must be.
LEMMA ReachedIsClosed ==
    ASSUME AmalgamationTypeOK, NEW files
    PROVE  /\ Range(files) \cap DOMAIN directives \subseteq Reached(files)
           /\ \A file \in Reached(files) : \A directive \in Range(directives[file]) :
                 Includes(file, directive) \subseteq Reached(files)
<1>1. Range(files) \cap DOMAIN directives \subseteq Reached(files)
    BY DEF Reached
<1>2. ASSUME NEW file \in Reached(files), NEW directive \in Range(directives[file]),
             NEW header \in Includes(file, directive)
      PROVE  header \in Reached(files)
    <2>1. file \in DOMAIN directives /\ directive \in Directives
        BY <1>2 DEF Reached, AmalgamationTypeOK, Range
    <2>2. header \in DOMAIN directives
        BY <1>2, <2>1, FoundIsIncluded
    <2>3. ASSUME NEW all \in SUBSET DOMAIN directives,
                 Range(files) \subseteq all, IsClosed(all)
          PROVE  header \in all
        <3>1. file \in all
            BY <1>2, <2>3 DEF Reached
        <3> QED
            BY <1>2, <2>3, <3>1 DEF IsClosed
    <2> QED
        BY <2>2, <2>3 DEF Reached
<1> QED
    BY <1>1, <1>2

\* Including a file adds it, and nothing else.
LEMMA NowIncludedIs ==
    ASSUME AmalgamationTypeOK, NEW file \in DOMAIN directives
    PROVE  /\ NowIncluded(file) \in Seq(DOMAIN directives)
           /\ Range(NowIncluded(file)) = Range(included_files) \cup {file}
<1>1. /\ included_files \in Seq(DOMAIN directives)
      /\ NowIncluded(file) = Append(included_files, file)
    BY DEF AmalgamationTypeOK, NowIncluded
<1>2. /\ Len(NowIncluded(file)) = Len(included_files) + 1
      /\ NowIncluded(file)[Len(included_files) + 1] = file
      /\ \A k \in 1 .. Len(included_files) : NowIncluded(file)[k] = included_files[k]
    BY <1>1
<1> QED
    BY <1>1, <1>2 DEF Range

\* A unit of a file, at one of its directives or at the end.
Units == [file : DOMAIN directives, at : Nat \ {0}, when : BOOLEAN]

\* The innermost unit is the last one.
LEMMA TopIs ==
    ASSUME AmalgamationInv, stack # <<>>
    PROVE  /\ Len(stack) \in DOMAIN stack
           /\ Top = stack[Len(stack)]
           /\ Top \in Units
           /\ Top.file \in Range(included_files)
           /\ Top.at <= Len(directives[Top.file]) + 1
<1>1. stack \in Seq(Units) /\ Len(stack) \in DOMAIN stack
    BY DEF AmalgamationInv, AmalgamationTypeOK, Units
<1>2. Top = stack[Len(stack)]
    BY DEF Top, Last
<1> QED
    BY <1>1, <1>2 DEF AmalgamationInv, AmalgamationTypeOK, UnitsInProgress

\* The directive it is at is one of its file.
LEMMA DirectiveIs ==
    ASSUME AmalgamationInv, HasDirective
    PROVE  /\ Top.file \in DOMAIN directives
           /\ Directive \in Directives
           /\ Directive \in Range(directives[Top.file])
<1>1. /\ Top \in Units /\ Top.at <= Len(directives[Top.file])
    BY TopIs DEF HasDirective
<1>2. directives[Top.file] \in Seq(Directives) /\ Top.at \in DOMAIN directives[Top.file]
    BY <1>1 DEF AmalgamationInv, AmalgamationTypeOK, Units
<1> QED
    BY <1>1, <1>2 DEF Directive, Range, Units

\* Putting out the text that is due keeps every text of a header a single one.
LEMMA ChunkStep ==
    ASSUME AmalgamationInv, stack # <<>>,
           amalgamation' = Append(amalgamation, Chunk),
           UNCHANGED <<directives, sources>>,
           Range(included_files) \subseteq Range(included_files)'
    PROVE  /\ amalgamation' \in Seq([text : (DOMAIN directives) \X Nat, when : BOOLEAN])
           /\ \A k \in DOMAIN amalgamation' :
                 amalgamation'[k].text[1] \in Range(included_files)'
           /\ \A j, k \in DOMAIN amalgamation' :
                 amalgamation'[j].text = amalgamation'[k].text =>
                     j = k \/ IsSource(amalgamation'[j].text[1])
           /\ \A j \in DOMAIN amalgamation' :
                 \/ j \in DOMAIN amalgamation /\ amalgamation'[j] = amalgamation[j]
                 \/ amalgamation'[j].text = <<Top.file, Top.at>>
           /\ \A file : IsPutOut(file) => IsPutOut(file)'
           /\ \E k \in DOMAIN amalgamation' : amalgamation'[k].text[1] = Top.file
<1> DEFINE T == [text : (DOMAIN directives) \X Nat, when : BOOLEAN]
           n == Len(amalgamation)
<1>1. /\ Top = stack[Len(stack)] /\ Len(stack) \in DOMAIN stack
      /\ Top \in Units /\ Top.file \in Range(included_files)
    BY TopIs
<1>2. /\ Chunk \in T
      /\ Chunk.text = <<Top.file, Top.at>>
      /\ Chunk.text[1] = Top.file /\ Chunk.text[2] = Top.at
    BY <1>1 DEF Chunk, Units
<1>3. amalgamation \in Seq(T)
    BY DEF AmalgamationInv, AmalgamationTypeOK
<1>4. /\ amalgamation' \in Seq(T)
      /\ DOMAIN amalgamation' = 1 .. n + 1 /\ DOMAIN amalgamation = 1 .. n
      /\ n \in Nat
      /\ amalgamation'[n + 1] = Chunk
      /\ \A k \in 1 .. n : amalgamation'[k] = amalgamation[k]
    BY <1>2, <1>3
<1>5. \A k \in 1 .. n :
         /\ amalgamation[k].text[1] \in Range(included_files)
         /\ amalgamation[k].text = <<Top.file, Top.at>> => IsSource(Top.file)
    <2> TAKE k \in 1 .. n
    <2>1. amalgamation[k].text[1] \in Range(included_files)
        BY <1>4 DEF AmalgamationInv, TextsAreOnce
    <2>2. ASSUME amalgamation[k].text = <<Top.file, Top.at>> PROVE IsSource(Top.file)
        <3>1. /\ amalgamation[k].text[1] = stack[Len(stack)].file
              /\ amalgamation[k].text[2] = stack[Len(stack)].at
              /\ stack[Len(stack)].at \in Nat
            BY <1>1, <2>2 DEF Units
        <3>2. \/ amalgamation[k].text[2] < stack[Len(stack)].at
              \/ IsSource(stack[Len(stack)].file)
            BY <1>1, <1>4, <3>1 DEF AmalgamationInv, TextsAreOnce
        <3> QED
            BY <1>1, <3>1, <3>2
    <2> QED
        BY <2>1, <2>2
<1>6. ASSUME NEW j \in 1 .. n + 1, NEW k \in 1 .. n + 1,
             amalgamation'[j].text = amalgamation'[k].text
      PROVE  j = k \/ IsSource(amalgamation'[j].text[1])
    <2>1. CASE j \in 1 .. n /\ k \in 1 .. n
        BY <1>4, <1>6, <2>1 DEF AmalgamationInv, TextsAreOnce
    <2>2. CASE j = n + 1 \/ k = n + 1
        BY <1>2, <1>4, <1>5, <1>6, <2>2
    <2> QED
        BY <1>4, <2>1, <2>2
<1>7. \A k \in 1 .. n + 1 : amalgamation'[k].text[1] \in Range(included_files)'
    BY <1>1, <1>2, <1>4, <1>5
<1>8. \A file : IsPutOut(file) => IsPutOut(file)'
    BY <1>4 DEF IsPutOut
<1>9. \E k \in DOMAIN amalgamation' : amalgamation'[k].text[1] = Top.file
    <2>1. n + 1 \in DOMAIN amalgamation'
        BY <1>4
    <2>2. amalgamation'[n + 1].text[1] = Top.file
        BY <1>2, <1>4
    <2> QED
        BY <2>1, <2>2
<1>10. \A j \in DOMAIN amalgamation' :
          \/ j \in DOMAIN amalgamation /\ amalgamation'[j] = amalgamation[j]
          \/ amalgamation'[j].text = <<Top.file, Top.at>>
    <2> TAKE j \in DOMAIN amalgamation'
    <2>1. j \in 1 .. n \/ j = n + 1
        BY <1>4
    <2> QED
        BY <1>2, <1>4, <2>1
<1> HIDE DEF T, n
<1>11. \A j, k \in DOMAIN amalgamation' :
         amalgamation'[j].text = amalgamation'[k].text =>
             j = k \/ IsSource(amalgamation'[j].text[1])
    BY <1>4, <1>6
<1>12. \A k \in DOMAIN amalgamation' :
         amalgamation'[k].text[1] \in Range(included_files)'
    BY <1>4, <1>7
<1>13. amalgamation' \in Seq([text : (DOMAIN directives) \X Nat, when : BOOLEAN])
    BY <1>4 DEF T
<1> QED
    BY <1>8, <1>9, <1>10, <1>11, <1>12, <1>13

\* Going on to the next directive, once what this one includes is included.
LEMMA AdvancedUnits ==
    ASSUME AmalgamationInv, HasDirective,
           amalgamation' = Append(amalgamation, Chunk),
           UNCHANGED <<directives, sources>>,
           Range(included_files) \subseteq Range(included_files)',
           Includes(Top.file, Directive) \subseteq Range(included_files)',
           NEW units, units = Advanced
    PROVE  /\ units \in Seq(Units) /\ Len(units) = Len(stack) /\ Len(units) > 0
           /\ \A k \in DOMAIN units :
                 /\ units[k].file = stack[k].file
                 /\ units[k].at <= Len(directives[units[k].file]) + 1
                 /\ units[k].file \in Range(included_files)
                 /\ Followed(units[k].file, units[k].at - 1)'
           /\ \A j, k \in DOMAIN units : units[j].file = units[k].file => j = k
           /\ \A j \in DOMAIN amalgamation' : \A k \in DOMAIN units :
                 amalgamation'[j].text[1] = units[k].file =>
                     amalgamation'[j].text[2] < units[k].at \/ IsSource(units[k].file)
<1> DEFINE n == Len(stack)
<1>1. /\ stack # <<>>
      /\ Top.at <= Len(directives[Top.file])
    BY DEF HasDirective
<1>2. /\ Top = stack[n] /\ n \in DOMAIN stack
      /\ Top \in Units
    BY <1>1, TopIs
<1>3. stack \in Seq(Units) /\ DOMAIN stack = 1 .. n /\ n \in Nat \ {0}
    BY <1>2 DEF AmalgamationInv, AmalgamationTypeOK, Units
<1>4. units = [stack EXCEPT ![n].at = @ + 1]
    BY DEF Advanced
<1>5. /\ units \in Seq(Units) /\ Len(units) = n /\ DOMAIN units = 1 .. n
      /\ \A k \in 1 .. n - 1 : units[k] = stack[k]
      /\ units[n].file = stack[n].file /\ units[n].at = stack[n].at + 1
    <2>1. [stack[n] EXCEPT !.at = @ + 1] \in Units
        BY <1>2, <1>3 DEF Units
    <2>2. units = [stack EXCEPT ![n] = [stack[n] EXCEPT !.at = @ + 1]]
        BY <1>4
    <2>3. units \in Seq(Units) /\ Len(units) = n
        BY <1>3, <2>1, <2>2
    <2>4. /\ \A k \in 1 .. n - 1 : units[k] = stack[k]
          /\ units[n] = [stack[n] EXCEPT !.at = @ + 1]
        BY <1>3, <2>2
    <2>5. stack[n] \in Units
        BY <1>3
    <2> QED
        BY <2>3, <2>4, <2>5 DEF Units
<1>6. \A k \in 1 .. n :
         /\ stack[k] \in Units
         /\ stack[k].at <= Len(directives[stack[k].file]) + 1
         /\ stack[k].file \in Range(included_files)
         /\ Followed(stack[k].file, stack[k].at - 1)
    <2> TAKE k \in 1 .. n
    <2>1. k \in DOMAIN stack /\ stack[k] \in Units
        BY <1>3
    <2> QED
        BY <2>1 DEF AmalgamationInv, AmalgamationTypeOK, UnitsInProgress
<1>7. \A j, k \in 1 .. n : stack[j].file = stack[k].file => j = k
    BY <1>3 DEF AmalgamationInv, UnitsInProgress
<1>8. \A k \in 1 .. n :
         /\ units[k].file = stack[k].file
         /\ k # n => units[k].at = stack[k].at
    <2> TAKE k \in 1 .. n
    <2>1. k = n \/ k \in 1 .. n - 1
        <3> HIDE DEF n
        <3> QED
            BY <1>3
    <2> QED
        BY <1>5, <2>1
<1>9. ASSUME NEW k \in 1 .. n
      PROVE  /\ units[k].at <= Len(directives[units[k].file]) + 1
             /\ Followed(units[k].file, units[k].at - 1)'
    <2>1. CASE k # n
        BY <1>6, <1>8, <2>1, FollowedStays
    <2>2. CASE k = n
        <3>1. PICK file, here :
                 /\ file = units[k].file /\ here = units[k].at - 1
                 /\ file = Top.file /\ here = Top.at /\ here \in Nat \ {0}
            BY <1>2, <1>5, <2>2 DEF Units
        <3>2. Followed(file, here - 1)'
            <4>1. Followed(file, here - 1)
                BY <1>2, <1>3, <1>6, <3>1
            <4> QED
                BY <4>1, FollowedStays
        <3>3. Includes(file, directives[file][here]) \subseteq Range(included_files)'
            BY <3>1 DEF Directive
        <3>4. Followed(file, here)'
            <4>1. \A k_1 \in 1 .. here : k_1 \in 1 .. here - 1 \/ k_1 = here
                BY <3>1
            <4> QED
                BY <3>2, <3>3, <4>1, SameIncludes DEF Followed
        <3>5. Len(directives[file]) \in Nat
            BY <1>2, <3>1 DEF AmalgamationInv, AmalgamationTypeOK, Units
        <3>6. units[k].at <= Len(directives[units[k].file]) + 1
            BY <1>1, <1>2, <1>5, <2>2, <3>1, <3>5 DEF Units
        <3> QED
            BY <3>1, <3>4, <3>6
    <2> QED
        BY <2>1, <2>2
<1>10. ASSUME NEW j \in DOMAIN amalgamation', NEW k \in 1 .. n,
              amalgamation'[j].text[1] = units[k].file
       PROVE  amalgamation'[j].text[2] < units[k].at \/ IsSource(units[k].file)
    <2>1. CASE j \in DOMAIN amalgamation /\ amalgamation'[j] = amalgamation[j]
        <3>1. \/ amalgamation[j].text[2] < stack[k].at
              \/ IsSource(stack[k].file)
            BY <1>3, <1>8, <1>10, <2>1 DEF AmalgamationInv, TextsAreOnce
        <3>2. /\ amalgamation[j].text[2] \in Nat
              /\ stack[k].at \in Nat
            <4>1. amalgamation[j] \in [text : (DOMAIN directives) \X Nat, when : BOOLEAN]
                <5> DEFINE T == [text : (DOMAIN directives) \X Nat, when : BOOLEAN]
                <5>1. amalgamation \in Seq(T)
                    BY DEF AmalgamationInv, AmalgamationTypeOK
                <5> HIDE DEF T
                <5>2. amalgamation[j] \in T
                    BY <2>1, <5>1
                <5> QED
                    BY <5>2 DEF T
            <4> QED
                BY <1>6, <4>1 DEF Units
        <3> QED
            BY <1>5, <1>8, <2>1, <3>1, <3>2
    <2>2. CASE amalgamation'[j].text = <<Top.file, Top.at>>
        <3>1. amalgamation'[j].text[1] = stack[n].file /\ amalgamation'[j].text[2] = stack[n].at
            BY <1>2, <2>2
        <3>2. k = n
            <4>1. stack[k].file = stack[n].file
                BY <1>8, <1>10, <3>1
            <4> QED
                BY <1>2, <1>3, <1>7, <4>1
        <3>3. stack[n].at \in Nat
            BY <1>2 DEF Units
        <3> QED
            BY <1>5, <3>1, <3>2, <3>3
    <2> QED
        BY <1>1, <2>1, <2>2, ChunkStep
<1> HIDE DEF n
<1>11. Len(units) > 0
    BY <1>3, <1>5
<1>12. \A j, k \in DOMAIN units : units[j].file = units[k].file => j = k
    BY <1>5, <1>7, <1>8
<1>13. \A k \in DOMAIN units :
         /\ units[k].file = stack[k].file
         /\ units[k].at <= Len(directives[units[k].file]) + 1
         /\ units[k].file \in Range(included_files)
         /\ Followed(units[k].file, units[k].at - 1)'
    BY <1>5, <1>6, <1>8, <1>9
<1>14. \A j \in DOMAIN amalgamation' : \A k \in DOMAIN units :
         amalgamation'[j].text[1] = units[k].file =>
             amalgamation'[j].text[2] < units[k].at \/ IsSource(units[k].file)
    BY <1>5, <1>10
<1> QED
    BY <1>5, <1>11, <1>12, <1>13, <1>14 DEF n

\* A source begins with nothing in progress, whether it is there already or not.
LEMMA ProcessSourceStep == AmalgamationInv /\ ProcessSource => AmalgamationInv'
<1> SUFFICES ASSUME AmalgamationInv, ProcessSource PROVE AmalgamationInv'
    OBVIOUS
<1> DEFINE unit == [file |-> Source, at |-> 1, when |-> FALSE]
<1>1. /\ stack = <<>> /\ processed < Len(sources) /\ generate = "sources"
      /\ Source \in DOMAIN directives /\ Source = sources[processed + 1]
      /\ processed' = processed + 1
      /\ stack' = Append(<<>>, unit)
      /\ included_files' = NowIncluded(Source)
      /\ UNCHANGED <<directives, sources, amalgamation, generate>>
    BY DEF ProcessSource, HasSource, OpenUnit, Source
<1>2. AmalgamationTypeOK
    BY DEF AmalgamationInv
<1>3. /\ included_files' \in Seq(DOMAIN directives)
      /\ Range(included_files)' = Range(included_files) \cup {Source}
    BY <1>1, <1>2, NowIncludedIs
<1>4. /\ DOMAIN stack' = {1} /\ stack'[1] = unit
      /\ stack' \in Seq(Units)
    BY <1>1 DEF Units
<1>5. /\ sources \in Seq(FilePaths \ {<<>>}) /\ processed \in 0 .. Len(sources)
      /\ processed + 1 \in DOMAIN sources
      /\ Len(sources) \in Nat
    BY <1>1 DEF AmalgamationInv, AmalgamationTypeOK
<1>6. \A file, n : Followed(file, n) => Followed(file, n)'
    BY <1>1, <1>3, FollowedStays
<1>7. AmalgamationTypeOK'
    <2>1. Len(directives[Source]) \in Nat
        BY <1>1, <1>2 DEF AmalgamationTypeOK
    <2>2. \A k \in DOMAIN stack' : stack'[k].at <= Len(directives[stack'[k].file]) + 1
        BY <1>4, <2>1
    <2> QED
        BY <1>1, <1>2, <1>3, <1>4, <1>5, <2>2 DEF AmalgamationTypeOK, Units
<1>8. UnitsInProgress'
    <2>1. \A file : Followed(file, 0)'
        BY DEF Followed
    <2>2. stack'[1].file = Source /\ stack'[1].at - 1 = 0
        BY <1>4
    <2> QED
        BY <1>3, <1>4, <2>1, <2>2 DEF UnitsInProgress
<1>9. FilesComplete'
    <2> SUFFICES ASSUME NEW file \in Range(included_files)', file # Source
                 PROVE  /\ Followed(file, Len(directives[file]))'
                        /\ IsPutOut(file)'
        BY <1>1, <1>4 DEF FilesComplete
    <2>1. Followed(file, Len(directives[file])) /\ IsPutOut(file)
        BY <1>1, <1>3 DEF AmalgamationInv, FilesComplete
    <2> QED
        BY <1>1, <1>6, <2>1 DEF IsPutOut
<1>10. NeededFiles'
    <2>1. Source \in Reached(sources)
        BY <1>1, <1>2, <1>5, ReachedIsClosed DEF Range
    <2>2. Reached(sources)' = Reached(sources)
        BY <1>1, SameIncludes
    <2>3. \A k \in 1 .. processed + 1 : sources[k] \in Range(included_files)'
        <3>1. \A k \in 1 .. processed + 1 : k \in 1 .. processed \/ k = processed + 1
            BY <1>5
        <3> QED
            BY <1>1, <1>3, <3>1 DEF AmalgamationInv, NeededFiles
    <2> QED
        BY <1>1, <1>3, <2>1, <2>2, <2>3 DEF AmalgamationInv, NeededFiles
<1>11. TextsAreOnce'
    <2>1. IsSource(Source)
        BY <1>1, <1>5 DEF IsSource, Range
    <2>2. stack'[1].file = Source
        BY <1>4
    <2> QED
        BY <1>1, <1>3, <1>4, <2>1, <2>2 DEF AmalgamationInv, TextsAreOnce, IsSource
<1> QED
    BY <1>7, <1>8, <1>9, <1>10, <1>11 DEF AmalgamationInv

\* A directive that includes nothing new is passed.
LEMMA PassDirectiveStep == AmalgamationInv /\ PassDirective => AmalgamationInv'
<1> SUFFICES ASSUME AmalgamationInv, PassDirective PROVE AmalgamationInv'
    OBVIOUS
<1>1. /\ HasDirective /\ stack # <<>>
      /\ Included(Directive, Top.file) \in {<<>>} \cup Range(included_files)
      /\ amalgamation' = Append(amalgamation, Chunk)
      /\ UNCHANGED <<directives, sources, processed, included_files, generate>>
      /\ Range(included_files)' = Range(included_files)
    BY DEF PassDirective, HasDirective
<1>2. AmalgamationTypeOK
    BY DEF AmalgamationInv
<1>3. Includes(Top.file, Directive) \subseteq Range(included_files)
    BY <1>1, <1>2, DirectiveIs, FoundIsIncluded
<1>4. PICK units : units = Advanced
    OBVIOUS
<1>5. stack' = units
    BY <1>4 DEF PassDirective
<1>6. /\ units \in Seq(Units) /\ Len(units) = Len(stack) /\ Len(units) > 0
      /\ \A k \in DOMAIN units :
            /\ units[k].file = stack[k].file
            /\ units[k].at <= Len(directives[units[k].file]) + 1
            /\ units[k].file \in Range(included_files)
            /\ Followed(units[k].file, units[k].at - 1)'
      /\ \A j, k \in DOMAIN units : units[j].file = units[k].file => j = k
      /\ \A j \in DOMAIN amalgamation' : \A k \in DOMAIN units :
            amalgamation'[j].text[1] = units[k].file =>
                amalgamation'[j].text[2] < units[k].at \/ IsSource(units[k].file)
    BY <1>1, <1>3, <1>4, AdvancedUnits
<1>7. DOMAIN units = DOMAIN stack
    BY <1>2, <1>6 DEF AmalgamationTypeOK
<1>8. AmalgamationTypeOK'
    BY <1>1, <1>2, <1>5, <1>6, ChunkStep DEF AmalgamationTypeOK, Units
<1>9. UnitsInProgress'
    BY <1>1, <1>5, <1>6 DEF UnitsInProgress
<1>10. FilesComplete'
    BY <1>1, <1>5, <1>6, <1>7, ChunkStep, FollowedStays DEF AmalgamationInv, FilesComplete
<1>11. NeededFiles'
    BY <1>1, SameIncludes DEF AmalgamationInv, NeededFiles
<1>12. TextsAreOnce'
    BY <1>1, <1>5, <1>6, ChunkStep DEF TextsAreOnce, IsSource
<1> QED
    BY <1>8, <1>9, <1>10, <1>11, <1>12 DEF AmalgamationInv

\* A header that is expanded is in progress from then on, and was not before.
LEMMA ExpandDirectiveStep == AmalgamationInv /\ ExpandDirective => AmalgamationInv'
<1> SUFFICES ASSUME AmalgamationInv, ExpandDirective PROVE AmalgamationInv'
    OBVIOUS
<1> DEFINE header == Included(Directive, Top.file)
           unit == [file |-> header, at |-> 1, when |-> Top.when \/ Directive.when]
<1>1. /\ HasDirective /\ stack # <<>>
      /\ header # <<>> /\ header \notin Range(included_files)
      /\ amalgamation' = Append(amalgamation, Chunk)
      /\ included_files' = NowIncluded(header)
      /\ UNCHANGED <<directives, sources, processed, generate>>
    BY DEF ExpandDirective, HasDirective, OpenUnit
<1>2. AmalgamationTypeOK
    BY DEF AmalgamationInv
<1>3. /\ header \in DOMAIN directives
      /\ Includes(Top.file, Directive) = {header}
    BY <1>1, <1>2, DirectiveIs, FoundIsIncluded
<1>4. /\ included_files' \in Seq(DOMAIN directives)
      /\ Range(included_files)' = Range(included_files) \cup {header}
    BY <1>1, <1>2, <1>3, NowIncludedIs
<1>5. PICK units : units = Advanced
    OBVIOUS
<1>6. stack' = Append(units, unit)
    BY <1>5 DEF ExpandDirective, OpenUnit
<1>7. /\ units \in Seq(Units) /\ Len(units) = Len(stack) /\ Len(units) > 0
      /\ \A k \in DOMAIN units :
            /\ units[k].file = stack[k].file
            /\ units[k].at <= Len(directives[units[k].file]) + 1
            /\ units[k].file \in Range(included_files)
            /\ Followed(units[k].file, units[k].at - 1)'
      /\ \A j, k \in DOMAIN units : units[j].file = units[k].file => j = k
      /\ \A j \in DOMAIN amalgamation' : \A k \in DOMAIN units :
            amalgamation'[j].text[1] = units[k].file =>
                amalgamation'[j].text[2] < units[k].at \/ IsSource(units[k].file)
    BY <1>1, <1>3, <1>4, <1>5, AdvancedUnits
<1>8. DOMAIN units = DOMAIN stack /\ DOMAIN stack = 1 .. Len(units) /\ Len(units) \in Nat
    BY <1>2, <1>7 DEF AmalgamationTypeOK
<1>9. PICK last : last = unit
    OBVIOUS
<1>10. last \in Units /\ last.file = header /\ last.at = 1
    BY <1>1, <1>3, <1>9, TopIs, DirectiveIs DEF Units, Directives
<1>11. /\ stack' \in Seq(Units)
       /\ DOMAIN stack' = 1 .. Len(units) + 1
       /\ \A k \in DOMAIN units : stack'[k] = units[k]
       /\ stack'[Len(units) + 1] = last
       /\ \A k \in DOMAIN stack' : k \in DOMAIN units \/ k = Len(units) + 1
    BY <1>6, <1>7, <1>8, <1>9, <1>10
<1> HIDE DEF unit, header
<1>12. \A k \in DOMAIN units : units[k].file # last.file
    BY <1>1, <1>7, <1>10
<1>13. AmalgamationTypeOK'
    <2>1. Len(directives[header]) \in Nat
        BY <1>2, <1>3 DEF AmalgamationTypeOK
    <2>2. \A k \in DOMAIN stack' : stack'[k].at <= Len(directives[stack'[k].file]) + 1
        <3> TAKE k \in DOMAIN stack'
        <3>1. CASE k \in DOMAIN units
            BY <1>7, <1>11, <3>1
        <3>2. CASE k = Len(units) + 1
            BY <1>10, <1>11, <2>1, <3>2
        <3> QED
            BY <1>11, <3>1, <3>2
    <2>3. stack' \in Seq([file : DOMAIN directives, at : Nat \ {0}, when : BOOLEAN])
        BY <1>11 DEF Units
    <2>4. amalgamation' \in Seq([text : (DOMAIN directives) \X Nat, when : BOOLEAN])
        BY <1>1, <1>4, ChunkStep
    <2> QED
        BY <1>1, <1>2, <1>4, <2>2, <2>3, <2>4 DEF AmalgamationTypeOK
<1>14. UnitsInProgress'
    <2>1. \A file : Followed(file, 0)'
        BY DEF Followed
    <2>2. \A j, k \in DOMAIN stack' : stack'[j].file = stack'[k].file => j = k
        BY <1>7, <1>11, <1>12
    <2>3. ASSUME NEW k \in DOMAIN stack'
          PROVE  /\ stack'[k].file \in Range(included_files)'
                 /\ Followed(stack[k].file, stack[k].at - 1)'
        <3>1. CASE k \in DOMAIN units
            BY <1>4, <1>7, <1>11, <3>1
        <3>2. CASE k = Len(units) + 1
            <4>1. stack'[k].file = header /\ stack'[k].at - 1 = 0
                BY <1>10, <1>11, <3>2
            <4> QED
                BY <1>4, <2>1, <4>1
        <3> QED
            BY <1>11, <3>1, <3>2
    <2> QED
        BY <2>2, <2>3 DEF UnitsInProgress
<1>15. FilesComplete'
    <2> SUFFICES ASSUME NEW file \in Range(included_files)',
                        ~ \E k \in DOMAIN stack' : stack'[k].file = file
                 PROVE  /\ Followed(file, Len(directives[file]))'
                        /\ IsPutOut(file)'
        BY DEF FilesComplete
    <2>1. file # header
        BY <1>8, <1>10, <1>11
    <2>2. ~ \E k \in DOMAIN stack : stack[k].file = file
        BY <1>7, <1>8, <1>11
    <2>3. Followed(file, Len(directives[file])) /\ IsPutOut(file)
        BY <1>4, <2>1, <2>2 DEF AmalgamationInv, FilesComplete
    <2> QED
        BY <1>1, <1>4, <2>3, ChunkStep, FollowedStays
<1>16. NeededFiles'
    <2>1. header \in Reached(sources)
        <3>1. Top.file \in Reached(sources)
            BY <1>1, TopIs DEF AmalgamationInv, NeededFiles
        <3> QED
            BY <1>1, <1>2, <1>3, <3>1, DirectiveIs, ReachedIsClosed
    <2>2. Reached(sources)' = Reached(sources)
        BY <1>1, SameIncludes
    <2>3. generate # "written"
        BY <1>1 DEF AmalgamationInv, NeededFiles
    <2> QED
        BY <1>1, <1>4, <2>1, <2>2, <2>3 DEF AmalgamationInv, NeededFiles
<1>17. TextsAreOnce'
    <2>1. ASSUME NEW j \in DOMAIN amalgamation', NEW k \in DOMAIN stack',
                 amalgamation'[j].text[1] = stack'[k].file
          PROVE  amalgamation'[j].text[2] < stack'[k].at \/ IsSource(stack'[k].file)
        <3>1. CASE k \in DOMAIN units
            BY <1>7, <1>11, <2>1, <3>1
        <3>2. CASE k = Len(units) + 1
            <4>1. amalgamation'[j].text[1] = header
                BY <1>10, <1>11, <2>1, <3>2
            <4>2. \/ j \in DOMAIN amalgamation /\ amalgamation'[j] = amalgamation[j]
                  \/ amalgamation'[j].text = <<Top.file, Top.at>>
                BY <1>1, <1>4, ChunkStep
            <4>3. amalgamation'[j].text[1] \in Range(included_files)
                BY <1>1, <4>2, TopIs DEF AmalgamationInv, TextsAreOnce
            <4> QED
                BY <1>1, <4>1, <4>3
        <3> QED
            BY <1>11, <3>1, <3>2
    <2>2. /\ \A k \in DOMAIN amalgamation' :
                amalgamation'[k].text[1] \in Range(included_files)'
          /\ \A j, k \in DOMAIN amalgamation' :
                amalgamation'[j].text = amalgamation'[k].text =>
                    j = k \/ IsSource(amalgamation'[j].text[1])
        BY <1>1, <1>4, ChunkStep
    <2> QED
        BY <1>1, <2>1, <2>2 DEF TextsAreOnce, IsSource
<1> QED
    BY <1>13, <1>14, <1>15, <1>16, <1>17 DEF AmalgamationInv

\* A unit ends when it has followed all its directives and put out its last text.
LEMMA EndUnitStep == AmalgamationInv /\ EndUnit => AmalgamationInv'
<1> SUFFICES ASSUME AmalgamationInv, EndUnit PROVE AmalgamationInv'
    OBVIOUS
<1> DEFINE n == Len(stack)
<1>1. /\ stack # <<>> /\ ~ HasDirective
      /\ amalgamation' = Append(amalgamation, Chunk)
      /\ stack' = Front(stack)
      /\ UNCHANGED <<directives, sources, processed, included_files, generate>>
      /\ Range(included_files)' = Range(included_files)
    BY DEF EndUnit
<1>2. AmalgamationTypeOK
    BY DEF AmalgamationInv
<1>3. /\ Top = stack[n] /\ n \in DOMAIN stack
      /\ Top \in Units
      /\ Top.at <= Len(directives[Top.file]) + 1
    BY <1>1, TopIs
<1>4. /\ stack \in Seq(Units) /\ DOMAIN stack = 1 .. n /\ n \in Nat \ {0}
    BY <1>2, <1>3 DEF AmalgamationTypeOK, Units
<1>5. /\ stack' \in Seq(Units) /\ DOMAIN stack' = 1 .. n - 1
      /\ \A k \in 1 .. n - 1 : stack'[k] = stack[k]
    BY <1>1, <1>4 DEF Front
<1>6. Top.at = Len(directives[Top.file]) + 1
    <2>1. Len(directives[Top.file]) \in Nat /\ Top.at \in Nat
        BY <1>2, <1>3 DEF AmalgamationTypeOK, Units
    <2> QED
        BY <1>1, <1>3, <2>1 DEF HasDirective
<1>7. \A file, m : Followed(file, m) => Followed(file, m)'
    BY <1>1, FollowedStays
<1>8. \A k \in 1 .. n - 1 :
         /\ k \in DOMAIN stack /\ k # n
         /\ stack[k].file # Top.file
    <2> TAKE k \in 1 .. n - 1
    <2>1. k \in 1 .. n /\ k # n
        <3> HIDE DEF n
        <3> QED
            BY <1>4
    <2>2. stack[k].file = stack[n].file => k = n
        BY <1>3, <1>4, <2>1 DEF AmalgamationInv, UnitsInProgress
    <2> QED
        BY <1>3, <1>4, <2>1, <2>2
<1>9. AmalgamationTypeOK'
    <2>1. stack' \in Seq([file : DOMAIN directives, at : Nat \ {0}, when : BOOLEAN])
        BY <1>5 DEF Units
    <2>2. amalgamation' \in Seq([text : (DOMAIN directives) \X Nat, when : BOOLEAN])
        BY <1>1, ChunkStep
    <2>3. \A k \in DOMAIN stack' : stack'[k].at <= Len(directives[stack'[k].file]) + 1
        BY <1>2, <1>5, <1>8 DEF AmalgamationTypeOK
    <2> QED
        BY <1>1, <1>2, <2>1, <2>2, <2>3 DEF AmalgamationTypeOK
<1>10. UnitsInProgress'
    <2>1. \A j, k \in DOMAIN stack' : stack'[j].file = stack'[k].file => j = k
        BY <1>5, <1>8 DEF AmalgamationInv, UnitsInProgress
    <2>2. ASSUME NEW k \in DOMAIN stack'
          PROVE  /\ stack'[k].file \in Range(included_files)'
                 /\ Followed(stack[k].file, stack[k].at - 1)'
        <3>1. /\ stack'[k] = stack[k]
              /\ stack[k].file \in Range(included_files)
              /\ Followed(stack[k].file, stack[k].at - 1)
            BY <1>5, <1>8 DEF AmalgamationInv, UnitsInProgress
        <3>2. PICK file, m : file = stack[k].file /\ m = stack[k].at - 1
            OBVIOUS
        <3>3. Followed(file, m)'
            BY <1>7, <3>1, <3>2
        <3> QED
            BY <1>1, <3>1, <3>2, <3>3
    <2> QED
        BY <2>1, <2>2 DEF UnitsInProgress
<1>11. FilesComplete'
    <2> SUFFICES ASSUME NEW file \in Range(included_files)',
                        ~ \E k \in DOMAIN stack' : stack'[k].file = file
                 PROVE  /\ Followed(file, Len(directives[file]))'
                        /\ IsPutOut(file)'
        BY DEF FilesComplete
    <2>1. CASE file = Top.file
        <3>1. Followed(file, Len(directives[file]))
            <4>1. Followed(Top.file, Top.at - 1)
                BY <1>3 DEF AmalgamationInv, UnitsInProgress
            <4>2. Top.at - 1 = Len(directives[file])
                BY <1>2, <1>3, <1>6, <2>1 DEF AmalgamationTypeOK, Units
            <4> QED
                BY <2>1, <4>1, <4>2
        <3>2. IsPutOut(file)'
            BY <1>1, <2>1, ChunkStep DEF IsPutOut
        <3> QED
            BY <1>1, <1>7, <3>1, <3>2
    <2>2. CASE file # Top.file
        <3>1. ~ \E k \in DOMAIN stack : stack[k].file = file
            <4>1. \A k \in 1 .. n : k \in 1 .. n - 1 \/ k = n
                <5> HIDE DEF n
                <5> QED
                    BY <1>4
            <4> QED
                BY <1>3, <1>4, <1>5, <2>2, <4>1
        <3>2. Followed(file, Len(directives[file])) /\ IsPutOut(file)
            BY <1>1, <3>1 DEF AmalgamationInv, FilesComplete
        <3> QED
            BY <1>1, <1>7, <3>2, ChunkStep
    <2> QED
        BY <2>1, <2>2
<1>12. NeededFiles'
    BY <1>1, SameIncludes DEF AmalgamationInv, NeededFiles
<1>13. TextsAreOnce'
    <2>1. ASSUME NEW j \in DOMAIN amalgamation', NEW k \in DOMAIN stack',
                 amalgamation'[j].text[1] = stack'[k].file
          PROVE  amalgamation'[j].text[2] < stack'[k].at \/ IsSource(stack'[k].file)
        <3>1. stack'[k] = stack[k] /\ k \in DOMAIN stack /\ stack[k].file # Top.file
            BY <1>5, <1>8
        <3>2. j \in DOMAIN amalgamation /\ amalgamation'[j] = amalgamation[j]
            BY <1>1, <2>1, <3>1, ChunkStep
        <3> QED
            BY <2>1, <3>1, <3>2 DEF AmalgamationInv, TextsAreOnce
    <2>2. /\ \A k \in DOMAIN amalgamation' :
                amalgamation'[k].text[1] \in Range(included_files)'
          /\ \A j, k \in DOMAIN amalgamation' :
                amalgamation'[j].text = amalgamation'[k].text =>
                    j = k \/ IsSource(amalgamation'[j].text[1])
        BY <1>1, ChunkStep
    <2> QED
        BY <1>1, <2>1, <2>2 DEF TextsAreOnce, IsSource
<1> QED
    BY <1>9, <1>10, <1>11, <1>12, <1>13 DEF AmalgamationInv

\* Every step keeps the invariant; the others change only where generate() is.
LEMMA AmalgamationInvNext ==
    AmalgamationInv /\ [AmalgamationNext]_amalgamationVars => AmalgamationInv'
<1> SUFFICES ASSUME AmalgamationInv, [AmalgamationNext]_amalgamationVars
             PROVE  AmalgamationInv'
    OBVIOUS
<1>1. ASSUME UNCHANGED <<directives, sources, processed, stack, included_files, amalgamation>>,
             generate' \in {"sources", "written", "raised"},
             generate' = "written" => stack = <<>> /\ processed = Len(sources)
      PROVE  AmalgamationInv'
    <2>1. AmalgamationTypeOK'
        BY <1>1 DEF AmalgamationInv, AmalgamationTypeOK
    <2>2. UnitsInProgress' /\ FilesComplete'
        BY <1>1, SameIncludes DEF AmalgamationInv, UnitsInProgress, FilesComplete, Followed, IsPutOut
    <2>3. NeededFiles' /\ TextsAreOnce'
        BY <1>1, SameIncludes DEF AmalgamationInv, NeededFiles, TextsAreOnce, IsSource
    <2> QED
        BY <2>1, <2>2, <2>3 DEF AmalgamationInv
<1>2. CASE SourceNotFound
    BY <1>1, <1>2 DEF SourceNotFound
<1>3. CASE WriteTarget
    BY <1>1, <1>3 DEF WriteTarget
<1>4. CASE Ended \/ UNCHANGED amalgamationVars
    BY <1>1, <1>4 DEF Ended, amalgamationVars, AmalgamationInv, AmalgamationTypeOK, NeededFiles
<1> QED
    BY <1>2, <1>3, <1>4, ProcessSourceStep, PassDirectiveStep, ExpandDirectiveStep, EndUnitStep
    DEF AmalgamationNext

\* When the target is written nothing is in progress and every source was processed:
\* what is included has the sources and is closed, so that it is all that is reached.
THEOREM EveryHeaderIsThereOnce == AmalgamationSpec => []EveryHeaderOnce
<1>1. AmalgamationSpec => []AmalgamationInv
    BY AmalgamationInvInit, AmalgamationInvNext, PTL DEF AmalgamationSpec
<1>2. ASSUME AmalgamationInv PROVE EveryHeaderOnce
    <2> SUFFICES ASSUME generate = "written"
                 PROVE  /\ {chunk.text[1] : chunk \in Range(amalgamation)} = Reached(sources)
                        /\ \A j, k \in DOMAIN amalgamation :
                              amalgamation[j].text = amalgamation[k].text =>
                                  j = k \/ amalgamation[j].text[1] \in Range(sources)
        BY DEF EveryHeaderOnce
    <2> DEFINE included == Range(included_files)
    <2>1. /\ stack = <<>> /\ processed = Len(sources)
          /\ included \subseteq Reached(sources)
          /\ \A k \in 1 .. processed : sources[k] \in included
        BY <1>2 DEF AmalgamationInv, NeededFiles
    <2>2. /\ included \subseteq DOMAIN directives
          /\ sources \in Seq(FilePaths \ {<<>>})
          /\ \A file \in DOMAIN directives : directives[file] \in Seq(Directives)
        BY <1>2 DEF AmalgamationInv, AmalgamationTypeOK, Range
    <2>3. \A file \in included : Followed(file, Len(directives[file])) /\ IsPutOut(file)
        BY <1>2, <2>1 DEF AmalgamationInv, FilesComplete
    <2>4. IsClosed(included)
        <3> SUFFICES ASSUME NEW file \in included, NEW directive \in Range(directives[file])
                     PROVE  Includes(file, directive) \subseteq included
            BY DEF IsClosed
        <3>1. directives[file] \in Seq(Directives)
            BY <2>2
        <3>2. PICK k \in 1 .. Len(directives[file]) : directive = directives[file][k]
            BY <3>1 DEF Range
        <3> QED
            BY <2>3, <3>2 DEF Followed
    <2>5. Range(sources) \subseteq included
        BY <2>1, <2>2 DEF Range
    <2>6. Reached(sources) = included
        <3> HIDE DEF included
        <3> QED
            BY <2>1, <2>2, <2>4, <2>5 DEF Reached
    <2>7. {chunk.text[1] : chunk \in Range(amalgamation)} = included
        <3>1. \A k \in DOMAIN amalgamation : amalgamation[k].text[1] \in included
            BY <1>2 DEF AmalgamationInv, TextsAreOnce
        <3> QED
            BY <2>3, <3>1 DEF IsPutOut, Range
    <2> QED
        BY <1>2, <2>6, <2>7 DEF AmalgamationInv, TextsAreOnce, IsSource
<1> QED
    BY <1>1, <1>2, PTL

-----------------------------------------------------------------------------
(* What a compiler makes of the single header.                             *)

\* The texts of the first n chunks and of fewer, each made of the one before.
AreTexts(of, chunks, holds, n) ==
    of = [k \in 0 .. n |->
             IF k = 0 THEN <<>>
             ELSE IF chunks[k].when => holds THEN Append(of[k - 1], chunks[k].text)
             ELSE of[k - 1]]

\* There are such texts, however many chunks there are.
LEMMA TextsExist ==
    ASSUME NEW chunks, NEW holds
    PROVE  \A n \in Nat : \E of : AreTexts(of, chunks, holds, n)
<1> DEFINE Failing == {n \in Nat : ~ \E of : AreTexts(of, chunks, holds, n)}
<1>1. 0 \notin Failing
    <2> DEFINE one == [k \in 0 .. 0 |-> <<>>]
    <2>1. \A k \in 0 .. 0 : k = 0
        OBVIOUS
    <2>2. one = [k \in 0 .. 0 |->
                    IF k = 0 THEN <<>>
                    ELSE IF chunks[k].when => holds THEN Append(one[k - 1], chunks[k].text)
                    ELSE one[k - 1]]
        BY <2>1, Zenon
    <2>3. AreTexts(one, chunks, holds, 0)
        BY <2>2, Zenon DEF AreTexts
    <2> QED
        BY <2>3
<1>2. ASSUME NEW n \in Nat, n \notin Failing
      PROVE  n + 1 \notin Failing
    <2>1. PICK of : AreTexts(of, chunks, holds, n)
        BY <1>2
    <2>2. PICK next : next = IF chunks[n + 1].when => holds
                             THEN Append(of[n], chunks[n + 1].text) ELSE of[n]
        OBVIOUS
    <2> DEFINE all == [k \in 0 .. n + 1 |-> IF k = n + 1 THEN next ELSE of[k]]
    <2>3. ASSUME NEW k \in 0 .. n + 1
          PROVE  all[k] = IF k = 0 THEN <<>>
                          ELSE IF chunks[k].when => holds THEN Append(all[k - 1], chunks[k].text)
                          ELSE all[k - 1]
        <3>1. k # 0 => all[k - 1] = of[k - 1]
            <4>1. ASSUME k # 0 PROVE k - 1 \in 0 .. n + 1 /\ k - 1 # n + 1
                BY <4>1
            <4> QED
                BY <4>1
        <3>2. CASE k = n + 1
            <4>1. k # 0 /\ k - 1 = n /\ all[k] = next
                BY <3>2
            <4> HIDE DEF all
            <4> QED
                BY <2>2, <3>1, <3>2, <4>1
        <3>3. CASE k # n + 1
            <4>1. k \in 0 .. n /\ all[k] = of[k]
                BY <3>3
            <4>2. of[k] = IF k = 0 THEN <<>>
                          ELSE IF chunks[k].when => holds THEN Append(of[k - 1], chunks[k].text)
                          ELSE of[k - 1]
                BY <2>1, <4>1, Zenon DEF AreTexts
            <4> HIDE DEF all
            <4> QED
                BY <3>1, <4>1, <4>2, Zenon
        <3> QED
            BY <3>2, <3>3
    <2>4. all = [k \in 0 .. n + 1 |-> all[k]]
        OBVIOUS
    <2> HIDE DEF all
    <2>5. AreTexts(all, chunks, holds, n + 1)
        <3>1. [k \in 0 .. n + 1 |-> all[k]]
                = [k \in 0 .. n + 1 |->
                      IF k = 0 THEN <<>>
                      ELSE IF chunks[k].when => holds THEN Append(all[k - 1], chunks[k].text)
                      ELSE all[k - 1]]
            BY <2>3, Zenon
        <3> QED
            BY <2>4, <3>1, Zenon DEF AreTexts
    <2> QED
        BY <2>5
<1>3. Failing \subseteq Nat
    OBVIOUS
<1>4. Failing = {}
    <2> HIDE DEF Failing
    <2> SUFFICES ASSUME Failing # {} PROVE FALSE
        OBVIOUS
    <2>1. PICK n \in Failing : \A k \in Failing : n <= k
        BY <1>3, FirstExists
    <2>2. n - 1 \in Nat /\ ~ n <= n - 1
        BY <1>1, <1>3, <2>1
    <2>3. n - 1 \notin Failing
        BY <2>1, <2>2
    <2>4. n - 1 + 1 = n
        BY <1>3, <2>1
    <2> QED
        BY <1>2, <2>1, <2>2, <2>3, <2>4
<1> QED
    BY <1>4

\* Chunks that begin alike have the same texts as far as they do.
LEMMA TextsAreUnique ==
    ASSUME NEW holds, NEW n \in Nat,
           NEW chunks, NEW of, AreTexts(of, chunks, holds, n),
           NEW others, NEW more, NEW m \in Nat, n <= m, AreTexts(more, others, holds, m),
           \A k \in 1 .. n : others[k] = chunks[k]
    PROVE  \A k \in 0 .. n : more[k] = of[k]
<1> DEFINE Failing == {k \in 0 .. n : more[k] # of[k]}
<1>1. \A k \in 0 .. n :
         /\ of[k] = IF k = 0 THEN <<>>
                    ELSE IF chunks[k].when => holds THEN Append(of[k - 1], chunks[k].text)
                    ELSE of[k - 1]
         /\ more[k] = IF k = 0 THEN <<>>
                      ELSE IF others[k].when => holds THEN Append(more[k - 1], others[k].text)
                      ELSE more[k - 1]
    <2> TAKE k \in 0 .. n
    <2>1. k \in 0 .. m
        OBVIOUS
    <2> QED
        BY <2>1, Zenon DEF AreTexts
<1>2. SUFFICES ASSUME Failing # {} PROVE FALSE
    OBVIOUS
<1>3. PICK k \in Failing : \A j \in Failing : k <= j
    <2>1. Failing \in SUBSET Nat
        OBVIOUS
    <2> HIDE DEF Failing
    <2> QED
        BY <1>2, <2>1, FirstExists
<1>4. k \in 0 .. n /\ more[k] # of[k]
    OBVIOUS
<1>5. k # 0
    BY <1>1, <1>4
<1>6. k - 1 \in 0 .. n /\ k \in 1 .. n /\ ~ k <= k - 1
    BY <1>4, <1>5
<1>7. more[k - 1] = of[k - 1]
    BY <1>3, <1>6
<1> QED
    BY <1>1, <1>4, <1>5, <1>6, <1>7

\* A chunk more is a text more, unless the condition excludes it.
LEMMA TextOfAppend ==
    ASSUME NEW S, NEW chunks \in Seq(S), NEW chunk \in S, NEW holds
    PROVE  TextOf(Append(chunks, chunk), holds) =
              IF chunk.when => holds THEN Append(TextOf(chunks, holds), chunk.text)
              ELSE TextOf(chunks, holds)
<1> DEFINE all == Append(chunks, chunk)
           n == Len(chunks)
           Texts(some) == CHOOSE of : AreTexts(of, some, holds, Len(some))
<1>1. \A some : TextOf(some, holds) = Texts(some)[Len(some)]
    BY Zenon DEF TextOf, AreTexts
<1>2. /\ n \in Nat /\ Len(all) = n + 1
      /\ all[n + 1] = chunk
      /\ \A k \in 1 .. n : all[k] = chunks[k]
    OBVIOUS
<1> HIDE DEF all
<1>3. AreTexts(Texts(chunks), chunks, holds, n) /\ AreTexts(Texts(all), all, holds, n + 1)
    <2>1. \A some : Len(some) \in Nat => AreTexts(Texts(some), some, holds, Len(some))
        BY TextsExist, Zenon
    <2>2. n + 1 \in Nat
        BY <1>2
    <2> QED
        BY <1>2, <2>1, <2>2, Zenon
<1> HIDE DEF Texts
<1>4. PICK of, more : of = Texts(chunks) /\ more = Texts(all)
    OBVIOUS
<1>5. AreTexts(of, chunks, holds, n) /\ AreTexts(more, all, holds, n + 1)
    BY <1>3, <1>4
<1>6. more[n] = of[n]
    <2>1. n + 1 \in Nat /\ n <= n + 1 /\ n \in 0 .. n
        BY <1>2
    <2> HIDE DEF n
    <2>2. PICK m : m = n + 1
        OBVIOUS
    <2>3. /\ n \in Nat /\ m \in Nat /\ n <= m
          /\ AreTexts(of, chunks, holds, n) /\ AreTexts(more, all, holds, m)
          /\ \A k \in 1 .. n : all[k] = chunks[k]
        BY <1>2, <1>5, <2>1, <2>2
    <2>4. \A k \in 0 .. n : more[k] = of[k]
        BY <2>3, TextsAreUnique
    <2> QED
        BY <2>1, <2>4
<1>7. more[n + 1] = IF chunk.when => holds THEN Append(more[n], chunk.text) ELSE more[n]
    <2>1. PICK last : last = n + 1
        OBVIOUS
    <2>2. last \in 0 .. last /\ last # 0 /\ last - 1 = n
        BY <1>2, <2>1
    <2> HIDE DEF n
    <2>3. AreTexts(more, all, holds, last)
        BY <1>5, <2>1
    <2>4. more[last] = IF last = 0 THEN <<>>
                       ELSE IF all[last].when => holds THEN Append(more[last - 1], all[last].text)
                       ELSE more[last - 1]
        BY <2>2, <2>3, Zenon DEF AreTexts
    <2> QED
        BY <1>2, <2>1, <2>2, <2>4, Zenon
<1>8. TextOf(all, holds) = more[n + 1] /\ TextOf(chunks, holds) = of[n]
    BY <1>1, <1>2, <1>4, Zenon
<1> QED
    BY <1>6, <1>7, <1>8, Zenon DEF all

\* No chunk is no text.
LEMMA TextOfNothing ==
    ASSUME NEW holds
    PROVE  TextOf(<<>>, holds) = <<>>
<1> DEFINE Texts == CHOOSE of : AreTexts(of, <<>>, holds, 0)
<1>1. Len(<<>>) = 0
    OBVIOUS
<1>2. TextOf(<<>>, holds) = Texts[0]
    BY <1>1, Zenon DEF TextOf, AreTexts
<1>3. AreTexts(Texts, <<>>, holds, 0)
    <2>1. \E of : AreTexts(of, <<>>, holds, 0)
        BY TextsExist
    <2> QED
        BY <2>1, Zenon
<1> HIDE DEF Texts
<1>4. PICK of : of = Texts
    OBVIOUS
<1>5. of[0] = <<>>
    <2>1. 0 \in 0 .. 0
        OBVIOUS
    <2>2. AreTexts(of, <<>>, holds, 0)
        BY <1>3, <1>4
    <2> QED
        BY <2>1, <2>2, Zenon DEF AreTexts
<1> QED
    BY <1>2, <1>4, <1>5

\* The files of units and where they are.
FilesOf(units) == [k \in DOMAIN units |-> [file |-> units[k].file, at |-> units[k].at]]

\* They follow the units.
LEMMA FilesOfUnits ==
    ASSUME NEW units \in Seq(Units)
    PROVE  /\ FilesOf(units) \in Seq([file : DOMAIN directives, at : Nat \ {0}])
           /\ Len(FilesOf(units)) = Len(units)
           /\ FilesOf(units) = <<>> <=> units = <<>>
           /\ units # <<>> =>
                 /\ Last(FilesOf(units)).file = Last(units).file
                 /\ Last(FilesOf(units)).at = Last(units).at
                 /\ FilesOf(Front(units)) = Front(FilesOf(units))
                 /\ FilesOf([units EXCEPT ![Len(units)].at = @ + 1]) =
                       [FilesOf(units) EXCEPT ![Len(FilesOf(units))].at = @ + 1]
           /\ \A unit \in Units :
                 FilesOf(Append(units, unit)) =
                     Append(FilesOf(units), [file |-> unit.file, at |-> unit.at])
<1> DEFINE n == Len(units)
           Part(unit) == [file |-> unit.file, at |-> unit.at]
           Parts == [file : DOMAIN directives, at : Nat \ {0}]
<1>1. n \in Nat /\ DOMAIN units = 1 .. n /\ \A k \in 1 .. n : units[k] \in Units
    OBVIOUS
<1>2. FilesOf(units) = [k \in 1 .. n |-> Part(units[k])]
    BY <1>1 DEF FilesOf
<1>3. \A k \in 1 .. n : Part(units[k]) \in Parts
    BY <1>1 DEF Units
<1>4. FilesOf(units) \in Seq(Parts) /\ Len(FilesOf(units)) = n
    <2> HIDE DEF Part, Parts, n
    <2> QED
        BY <1>1, <1>2, <1>3
<1>5. FilesOf(units) = <<>> <=> units = <<>>
    BY <1>1, <1>4
<1>6. ASSUME units # <<>>
      PROVE  /\ Last(FilesOf(units)) = Part(Last(units))
             /\ FilesOf(Front(units)) = Front(FilesOf(units))
             /\ FilesOf([units EXCEPT ![Len(units)].at = @ + 1]) =
                   [FilesOf(units) EXCEPT ![Len(FilesOf(units))].at = @ + 1]
    <2>1. n \in 1 .. n
        BY <1>1, <1>6
    <2>2. Last(FilesOf(units)) = Part(Last(units))
        BY <1>2, <1>4, <2>1 DEF Last
    <2>3. FilesOf(Front(units)) = Front(FilesOf(units))
        <3>1. Front(units) = [k \in 1 .. n - 1 |-> units[k]]
            BY DEF Front
        <3>2. Front(FilesOf(units)) = [k \in 1 .. n - 1 |-> FilesOf(units)[k]]
            BY <1>4 DEF Front
        <3>3. \A k \in 1 .. n - 1 : k \in 1 .. n
            BY <1>1
        <3>4. FilesOf(Front(units)) = [k \in 1 .. n - 1 |-> Part(units[k])]
            BY <3>1 DEF FilesOf
        <3> HIDE DEF Part, n
        <3> QED
            BY <1>2, <3>2, <3>3, <3>4
    <2>4. FilesOf([units EXCEPT ![n].at = @ + 1]) = [FilesOf(units) EXCEPT ![n].at = @ + 1]
        <3> DEFINE next == [units EXCEPT ![n].at = @ + 1]
        <3>1. /\ DOMAIN next = 1 .. n
              /\ \A k \in 1 .. n : k # n => next[k] = units[k]
              /\ next[n] = [units[n] EXCEPT !.at = @ + 1]
            BY <1>1, <2>1
        <3>2. next[n].file = units[n].file /\ next[n].at = units[n].at + 1
            <4>1. units[n] \in Units
                BY <1>1, <2>1
            <4> HIDE DEF n, next
            <4> QED
                BY <3>1, <4>1 DEF Units
        <3> HIDE DEF next
        <3>3. FilesOf(next) = [k \in 1 .. n |-> Part(next[k])]
            BY <3>1 DEF FilesOf
        <3>4. [FilesOf(units) EXCEPT ![n].at = @ + 1] =
                 [k \in 1 .. n |-> IF k = n THEN [Part(units[n]) EXCEPT !.at = @ + 1] ELSE Part(units[k])]
            BY <1>2, <2>1
        <3>5. [Part(units[n]) EXCEPT !.at = @ + 1] = Part(next[n])
            BY <3>2
        <3>6. \A k \in 1 .. n : k # n => Part(next[k]) = Part(units[k])
            BY <3>1
        <3> HIDE DEF Part, n
        <3>7. FilesOf(next) = [FilesOf(units) EXCEPT ![n].at = @ + 1]
            BY <3>3, <3>4, <3>5, <3>6
        <3> QED
            BY <3>7 DEF next
    <2> QED
        BY <1>4, <2>2, <2>3, <2>4
<1>7. ASSUME NEW unit \in Units
      PROVE  FilesOf(Append(units, unit)) = Append(FilesOf(units), Part(unit))
    <2>1. /\ DOMAIN Append(units, unit) = 1 .. n + 1
          /\ Append(units, unit)[n + 1] = unit
          /\ \A k \in 1 .. n : Append(units, unit)[k] = units[k]
        BY <1>1
    <2>2. FilesOf(Append(units, unit)) = [k \in 1 .. n + 1 |-> Part(Append(units, unit)[k])]
        BY <2>1 DEF FilesOf
    <2>3. Part(unit) \in Parts
        BY DEF Units
    <2>4. PICK files, part : files = FilesOf(units) /\ part = Part(unit)
        OBVIOUS
    <2>5. /\ DOMAIN Append(files, part) = 1 .. n + 1
          /\ Append(files, part) = [k \in DOMAIN Append(files, part) |-> Append(files, part)[k]]
          /\ Append(files, part)[n + 1] = part
          /\ \A k \in 1 .. n : Append(files, part)[k] = files[k]
        <3> HIDE DEF Part, Parts, n
        <3>1. files \in Seq(Parts) /\ Len(files) = n /\ part \in Parts
            BY <1>4, <2>3, <2>4
        <3>2. Append(files, part) \in Seq(Parts) /\ Len(Append(files, part)) = n + 1
            BY <3>1
        <3>3. PICK all : all = Append(files, part)
            OBVIOUS
        <3>4. all \in Seq(Parts) /\ Len(all) = n + 1
            BY <3>2, <3>3
        <3>5. DOMAIN all = 1 .. n + 1 /\ all = [k \in DOMAIN all |-> all[k]]
            BY <3>4, LenProperties
        <3>6. Append(files, part)[n + 1] = part
            BY <3>1
        <3>7. \A k \in 1 .. n : Append(files, part)[k] = files[k]
            BY <1>1, <3>1
        <3> QED
            BY <3>3, <3>5, <3>6, <3>7
    <2>6. \A k \in 1 .. n + 1 : k = n + 1 \/ k \in 1 .. n
        BY <1>1
    <2> HIDE DEF Part, n
    <2>7. \A k \in 1 .. n + 1 : Append(files, part)[k] = Part(Append(units, unit)[k])
        BY <1>2, <2>1, <2>4, <2>5, <2>6
    <2> QED
        BY <2>2, <2>4, <2>5, <2>7
<1>8. units # <<>> =>
         /\ Last(FilesOf(units)).file = Last(units).file
         /\ Last(FilesOf(units)).at = Last(units).at
    BY <1>6
<1> HIDE DEF Part, n
<1> QED
    BY <1>4, <1>5, <1>6, <1>7, <1>8 DEF Part, n

\* What a compiler has read is of the units in progress or of text that was put out.
UnitFiles(holds) == {unit.file : unit \in {u \in Range(stack) : u.when => holds}}
TextFiles(holds) == {chunk.text[1] : chunk \in {c \in Range(amalgamation) : c.when => holds}}

LEMMA ReadFilesAre ==
    ASSUME NEW holds
    PROVE  /\ ReadFiles(holds) = UnitFiles(holds) \cup TextFiles(holds)
           /\ ReadFiles(holds)' = UnitFiles(holds)' \cup TextFiles(holds)'
BY DEF ReadFiles, UnitFiles, TextFiles

\* Going on to the next directive changes nothing else of a unit.
LEMMA AdvancedIs ==
    ASSUME AmalgamationInv, stack # <<>>, NEW units, units = Advanced
    PROVE  /\ units \in Seq(Units) /\ Len(units) = Len(stack) /\ units # <<>>
           /\ \A k \in 1 .. Len(stack) :
                 units[k].file = stack[k].file /\ units[k].when = stack[k].when
           /\ \A k \in 1 .. Len(stack) - 1 : units[k] = stack[k]
           /\ FilesOf(units) = [FilesOf(stack) EXCEPT ![Len(FilesOf(stack))].at = @ + 1]
<1> DEFINE n == Len(stack)
<1>1. /\ stack \in Seq(Units) /\ DOMAIN stack = 1 .. n /\ n \in Nat \ {0}
      /\ stack[n] \in Units
    BY TopIs DEF AmalgamationInv, AmalgamationTypeOK, Units
<1>2. units = [stack EXCEPT ![n].at = @ + 1]
    BY DEF Advanced
<1>3. [stack[n] EXCEPT !.at = @ + 1] \in Units
    BY <1>1 DEF Units
<1>4. units = [stack EXCEPT ![n] = [stack[n] EXCEPT !.at = @ + 1]]
    BY <1>2
<1>5. units \in Seq(Units) /\ Len(units) = n
    BY <1>1, <1>3, <1>4
<1>6. /\ \A k \in 1 .. n - 1 : units[k] = stack[k]
      /\ units[n] = [stack[n] EXCEPT !.at = @ + 1]
    BY <1>1, <1>4
<1>7. units[n].file = stack[n].file /\ units[n].when = stack[n].when
    BY <1>1, <1>6 DEF Units
<1>8. FilesOf(units) = [FilesOf(stack) EXCEPT ![Len(FilesOf(stack))].at = @ + 1]
    BY <1>1, <1>2, FilesOfUnits
<1> HIDE DEF n
<1>9. \A k \in 1 .. n : k \in 1 .. n - 1 \/ k = n
    BY <1>1
<1>10. \A k \in 1 .. n : units[k].file = stack[k].file /\ units[k].when = stack[k].when
    BY <1>6, <1>7, <1>9
<1>11. units # <<>>
    BY <1>1, <1>5
<1> QED
    BY <1>5, <1>6, <1>8, <1>10, <1>11 DEF n

\* The chunk that is put out is of the innermost unit.
LEMMA ChunkIs ==
    ASSUME AmalgamationInv, stack # <<>>, amalgamation' = Append(amalgamation, Chunk),
           NEW holds \in BOOLEAN
    PROVE  /\ TextFiles(holds)' =
                 IF Top.when => holds THEN TextFiles(holds) \cup {Top.file} ELSE TextFiles(holds)
           /\ TextOf(amalgamation, holds)' =
                 IF Top.when => holds
                 THEN Append(TextOf(amalgamation, holds), <<Top.file, Top.at>>)
                 ELSE TextOf(amalgamation, holds)
<1> DEFINE T == [text : (DOMAIN directives) \X Nat, when : BOOLEAN]
           n == Len(amalgamation)
<1>1. Top \in Units
    BY TopIs
<1>2. /\ Chunk \in T
      /\ Chunk.text = <<Top.file, Top.at>> /\ Chunk.text[1] = Top.file
      /\ Chunk.when = Top.when
    BY <1>1 DEF Chunk, Units
<1>3. amalgamation \in Seq(T)
    BY DEF AmalgamationInv, AmalgamationTypeOK
<1>4. /\ DOMAIN amalgamation' = 1 .. n + 1 /\ DOMAIN amalgamation = 1 .. n
      /\ n \in Nat
      /\ amalgamation'[n + 1] = Chunk
      /\ \A k \in 1 .. n : amalgamation'[k] = amalgamation[k]
    BY <1>2, <1>3
<1> HIDE DEF T
<1>5. TextOf(amalgamation, holds)' =
         IF Chunk.when => holds THEN Append(TextOf(amalgamation, holds), Chunk.text)
         ELSE TextOf(amalgamation, holds)
    <2>1. TextOf(Append(amalgamation, Chunk), holds) =
             IF Chunk.when => holds THEN Append(TextOf(amalgamation, holds), Chunk.text)
             ELSE TextOf(amalgamation, holds)
        BY <1>2, <1>3, TextOfAppend
    <2>2. TextOf(amalgamation, holds)' = TextOf(amalgamation', holds)
        BY DEF TextOf
    <2> QED
        BY <2>1, <2>2
<1>6. Range(amalgamation)' = Range(amalgamation) \cup {Chunk}
    <2> HIDE DEF n
    <2>1. \A k \in 1 .. n + 1 : k \in 1 .. n \/ k = n + 1
        BY <1>4
    <2>2. n + 1 \in 1 .. n + 1 /\ \A k \in 1 .. n : k \in 1 .. n + 1
        BY <1>4
    <2>3. \A chunk : chunk \in Range(amalgamation)' <=> chunk \in Range(amalgamation) \/ chunk = Chunk
        BY <1>4, <2>1, <2>2 DEF Range
    <2> QED
        BY <2>3
<1>7. TextFiles(holds)' =
         IF Top.when => holds THEN TextFiles(holds) \cup {Top.file} ELSE TextFiles(holds)
    <2>1. \A file : file \in TextFiles(holds) <=>
             \E chunk \in Range(amalgamation) : (chunk.when => holds) /\ file = chunk.text[1]
        BY DEF TextFiles
    <2>2. \A file : file \in TextFiles(holds)' <=>
             \E chunk \in Range(amalgamation)' : (chunk.when => holds) /\ file = chunk.text[1]
        BY DEF TextFiles
    <2>3. \A file : file \in TextFiles(holds)' <=>
             file \in TextFiles(holds) \/ ((Top.when => holds) /\ file = Top.file)
        BY <1>2, <1>6, <2>1, <2>2
    <2> QED
        BY <2>3
<1> QED
    BY <1>2, <1>5, <1>7

\* Passing a directive, and the end of a unit, begin nothing.
LEMMA NothingBegins ==
    ASSUME AmalgamationInv, PassDirective \/ EndUnit, NEW holds \in BOOLEAN
    PROVE  ReadFiles(holds)' = ReadFiles(holds)
<1> DEFINE n == Len(stack)
<1>1. stack # <<>> /\ amalgamation' = Append(amalgamation, Chunk)
    BY DEF PassDirective, EndUnit, HasDirective
<1>2. /\ stack \in Seq(Units) /\ DOMAIN stack = 1 .. n /\ n \in Nat \ {0}
      /\ Top = stack[n]
    BY <1>1, TopIs DEF AmalgamationInv, AmalgamationTypeOK, Units
<1>3. TextFiles(holds)' =
         IF Top.when => holds THEN TextFiles(holds) \cup {Top.file} ELSE TextFiles(holds)
    BY <1>1, ChunkIs
<1>4. \A file : file \in UnitFiles(holds) <=>
         \E k \in 1 .. n : (stack[k].when => holds) /\ file = stack[k].file
    BY <1>2 DEF UnitFiles, Range
<1>5. \A file : file \in UnitFiles(holds)' <=>
         \E k \in DOMAIN stack' : (stack'[k].when => holds) /\ file = stack'[k].file
    BY DEF UnitFiles, Range
<1>6. CASE PassDirective
    <2>1. PICK units : units = Advanced
        OBVIOUS
    <2>2. stack' = units
        BY <1>6, <2>1 DEF PassDirective
    <2>3. /\ units \in Seq(Units) /\ Len(units) = n
          /\ \A k \in 1 .. n : units[k].file = stack[k].file /\ units[k].when = stack[k].when
        BY <1>1, <2>1, AdvancedIs
    <2>4. DOMAIN units = 1 .. n
        BY <2>3
    <2>5. n \in 1 .. n
        BY <1>2
    <2> HIDE DEF n
    <2>6. UnitFiles(holds)' = UnitFiles(holds)
        <3>1. \A file : file \in UnitFiles(holds)' <=> file \in UnitFiles(holds)
            BY <1>4, <1>5, <2>2, <2>3, <2>4
        <3> QED
            BY <3>1
    <2>7. (Top.when => holds) => Top.file \in UnitFiles(holds)
        BY <1>2, <1>4, <2>5
    <2> QED
        BY <1>3, <2>6, <2>7, ReadFilesAre
<1>7. CASE EndUnit
    <2>1. stack' = Front(stack)
        BY <1>7 DEF EndUnit
    <2>2. /\ DOMAIN stack' = 1 .. n - 1
          /\ \A k \in 1 .. n - 1 : stack'[k] = stack[k]
        BY <1>2, <2>1 DEF Front
    <2> HIDE DEF n
    <2>3. \A k \in 1 .. n : k \in 1 .. n - 1 \/ k = n
        BY <1>2
    <2>4. n \in 1 .. n /\ \A k \in 1 .. n - 1 : k \in 1 .. n
        BY <1>2
    <2>5. \A file : file \in UnitFiles(holds) <=>
             file \in UnitFiles(holds)' \/ ((Top.when => holds) /\ file = Top.file)
        BY <1>2, <1>4, <1>5, <2>2, <2>3, <2>4
    <2> QED
        BY <1>3, <2>5, ReadFilesAre
<1> QED
    BY <1>6, <1>7

\* A directive that is expanded begins the header, under the condition where the
\* directive or the unit is; there is one header that it can be.
LEMMA HeaderBegins ==
    ASSUME AmalgamationInv, ExpandDirective
    PROVE  \E header \in DOMAIN directives, unit \in Units, units \in Seq(Units) :
              /\ Includes(Top.file, Directive) = {header}
              /\ header \notin Range(included_files)
              /\ Range(included_files)' = Range(included_files) \cup {header}
              /\ unit.file = header /\ unit.at = 1 /\ unit.when = (Top.when \/ Directive.when)
              /\ units = Advanced
              /\ stack' = Append(units, unit)
              /\ \A holds \in BOOLEAN :
                    ReadFiles(holds)' = IF unit.when => holds THEN ReadFiles(holds) \cup {header}
                                        ELSE ReadFiles(holds)
<1> DEFINE n == Len(stack)
<1>1. /\ HasDirective /\ stack # <<>>
      /\ Included(Directive, Top.file) \notin {<<>>} \cup Range(included_files)
      /\ amalgamation' = Append(amalgamation, Chunk)
    BY DEF ExpandDirective, HasDirective
<1>2. PICK header : header = Included(Directive, Top.file)
    OBVIOUS
<1>3. /\ header \in DOMAIN directives
      /\ Includes(Top.file, Directive) = {header}
      /\ header \notin Range(included_files)
    BY <1>1, <1>2, DirectiveIs, FoundIsIncluded DEF AmalgamationInv
<1>4. PICK units : units = Advanced
    OBVIOUS
<1>5. PICK unit : unit = [file |-> header, at |-> 1, when |-> Top.when \/ Directive.when]
    OBVIOUS
<1>6. /\ unit \in Units
      /\ unit.file = header /\ unit.at = 1 /\ unit.when = (Top.when \/ Directive.when)
    BY <1>1, <1>3, <1>5, TopIs, DirectiveIs DEF Units, Directives
<1>7. /\ stack' = Append(units, unit)
      /\ included_files' = NowIncluded(header)
    BY <1>2, <1>4, <1>5 DEF ExpandDirective, OpenUnit
<1>8. Range(included_files)' = Range(included_files) \cup {header}
    BY <1>3, <1>7, NowIncludedIs DEF AmalgamationInv
<1>9. /\ stack \in Seq(Units) /\ DOMAIN stack = 1 .. n /\ n \in Nat \ {0}
      /\ Top = stack[n]
    BY <1>1, TopIs DEF AmalgamationInv, AmalgamationTypeOK, Units
<1>10. /\ units \in Seq(Units) /\ Len(units) = n
       /\ \A k \in 1 .. n : units[k].file = stack[k].file /\ units[k].when = stack[k].when
    BY <1>1, <1>4, AdvancedIs
<1>11. ASSUME NEW holds \in BOOLEAN
       PROVE  ReadFiles(holds)' = IF unit.when => holds THEN ReadFiles(holds) \cup {header}
                                  ELSE ReadFiles(holds)
    <2>1. /\ DOMAIN stack' = 1 .. n + 1
          /\ \A k \in 1 .. n : stack'[k] = units[k]
          /\ stack'[n + 1] = unit
        BY <1>6, <1>7, <1>9, <1>10
    <2>2. \A file : file \in UnitFiles(holds) <=>
             \E k \in 1 .. n : (stack[k].when => holds) /\ file = stack[k].file
        BY <1>9 DEF UnitFiles, Range
    <2>3. \A file : file \in UnitFiles(holds)' <=>
             \E k \in 1 .. n + 1 : (stack'[k].when => holds) /\ file = stack'[k].file
        BY <2>1 DEF UnitFiles, Range
    <2>4. TextFiles(holds)' =
             IF Top.when => holds THEN TextFiles(holds) \cup {Top.file} ELSE TextFiles(holds)
        BY <1>1, ChunkIs
    <2> HIDE DEF n
    <2>5. \A k \in 1 .. n + 1 : k \in 1 .. n \/ k = n + 1
        BY <1>9
    <2>6. n \in 1 .. n /\ n + 1 \in 1 .. n + 1 /\ \A k \in 1 .. n : k \in 1 .. n + 1
        BY <1>9
    <2>7. \A file : file \in UnitFiles(holds)' <=>
             file \in UnitFiles(holds) \/ ((unit.when => holds) /\ file = header)
        BY <1>6, <1>10, <2>1, <2>2, <2>3, <2>5, <2>6
    <2>8. (Top.when => holds) => Top.file \in UnitFiles(holds)
        BY <1>9, <2>2, <2>6
    <2>9. ReadFiles(holds)' = UnitFiles(holds)' \cup TextFiles(holds)
        BY <2>4, <2>7, <2>8, ReadFilesAre
    <2> QED
        BY <2>7, <2>9, ReadFilesAre
<1> QED
    BY <1>3, <1>4, <1>6, <1>7, <1>8, <1>10, <1>11

\* A source begins with nothing in progress, under no condition.
LEMMA SourceBegins ==
    ASSUME AmalgamationInv, ProcessSource
    PROVE  \E unit \in Units :
              /\ unit.file = Source /\ unit.at = 1 /\ unit.when = FALSE
              /\ stack = <<>> /\ stack' = Append(<<>>, unit)
              /\ Range(included_files)' = Range(included_files) \cup {Source}
              /\ \A holds \in BOOLEAN : ReadFiles(holds)' = ReadFiles(holds) \cup {Source}
<1>1. /\ stack = <<>> /\ Source \in DOMAIN directives
      /\ included_files' = NowIncluded(Source)
      /\ amalgamation' = amalgamation
    BY DEF ProcessSource, HasSource, OpenUnit
<1>2. PICK unit : unit = [file |-> Source, at |-> 1, when |-> FALSE]
    OBVIOUS
<1>3. /\ unit \in Units
      /\ unit.file = Source /\ unit.at = 1 /\ unit.when = FALSE
    BY <1>1, <1>2 DEF Units
<1>4. stack' = Append(<<>>, unit)
    BY <1>2 DEF ProcessSource, OpenUnit
<1>5. Range(included_files)' = Range(included_files) \cup {Source}
    BY <1>1, NowIncludedIs DEF AmalgamationInv
<1>6. ASSUME NEW holds \in BOOLEAN
      PROVE  ReadFiles(holds)' = ReadFiles(holds) \cup {Source}
    <2>1. DOMAIN stack' = {1} /\ stack'[1] = unit
        BY <1>4
    <2>2. Range(stack') = {unit} /\ Range(stack) = {}
        BY <1>1, <2>1 DEF Range
    <2>3. UnitFiles(holds) = {} /\ UnitFiles(holds)' = {Source}
        BY <1>3, <2>2 DEF UnitFiles
    <2>4. TextFiles(holds)' = TextFiles(holds)
        BY <1>1 DEF TextFiles
    <2> QED
        BY <2>3, <2>4, ReadFilesAre
<1> QED
    BY <1>1, <1>3, <1>4, <1>5, <1>6

\* No header includes the file but under a condition.
OnlyUnderCondition(file) ==
    \A other \in DOMAIN directives : \A directive \in Range(directives[other]) :
        file \in Includes(other, directive) => directive.when

\* A unit under the condition is the innermost one, and begins no other: what it
\* includes is there.
ConditionIsInnermost ==
    \A k \in DOMAIN stack :
        stack[k].when =>
            k = Len(stack) /\ Followed(stack[k].file, Len(directives[stack[k].file]))

\* A file that is there under the condition only is included under it only.
ExcludedFiles ==
    \A file \in Range(included_files) :
        file \in ReadFiles(FALSE) \/ OnlyUnderCondition(file)

\* What is included is reached from a source that was processed.
FilesOfSources ==
    \A file \in Range(included_files) :
        \E j \in 1 .. processed : file \in Reached(<<sources[j]>>)

\* The inductive invariant of the places that are left of the headers.
PlacementInv ==
    /\ AmalgamationInv
    /\ ConditionIsInnermost /\ ExcludedFiles /\ FilesOfSources

\* What depends on the headers alone does not change.
LEMMA HeadersStay ==
    ASSUME UNCHANGED <<directives, sources>>
    PROVE  /\ \A file : OnlyUnderCondition(file)' <=> OnlyUnderCondition(file)
           /\ \A j : Reached(<<sources[j]>>)' = Reached(<<sources[j]>>)
           /\ Disciplined' <=> Disciplined
<1>1. \A file, directive : Includes(file, directive)' = Includes(file, directive)
    BY SameIncludes
<1>2. \A files : Reached(files)' = Reached(files)
    BY <1>1 DEF Reached, IsClosed
<1>3. \A file : OnlyUnderCondition(file)' <=> OnlyUnderCondition(file)
    BY <1>1 DEF OnlyUnderCondition
<1>4. \A j : Reached(<<sources[j]>>)' = Reached(<<sources[j]>>)
    BY <1>1 DEF Reached, IsClosed
<1>5. Disciplined' <=> Disciplined
    BY <1>1, <1>4 DEF Disciplined
<1> QED
    BY <1>3, <1>4, <1>5

\* With nothing new read, what was placed stays so.
LEMMA NothingNewIsPlaced ==
    ASSUME PlacementInv, UNCHANGED <<directives, sources, processed>>,
           Range(included_files)' = Range(included_files), ReadFiles(FALSE)' = ReadFiles(FALSE)
    PROVE  ExcludedFiles' /\ FilesOfSources'
BY HeadersStay DEF PlacementInv, ExcludedFiles, FilesOfSources

\* A source is new: no earlier one leads to it.
LEMMA SourceIsNew ==
    ASSUME PlacementInv, Disciplined, HasSource
    PROVE  Source \notin Range(included_files)
<1>1. processed \in 0 .. Len(sources) /\ processed < Len(sources) /\ Len(sources) \in Nat
      /\ DOMAIN sources = 1 .. Len(sources)
    BY DEF HasSource, PlacementInv, AmalgamationInv, AmalgamationTypeOK
<1>2. \A j \in 1 .. processed : j \in DOMAIN sources /\ processed + 1 \in DOMAIN sources /\ j < processed + 1
    BY <1>1
<1>3. \A j \in 1 .. processed : Source \notin Reached(<<sources[j]>>)
    BY <1>2 DEF Disciplined, Source
<1> QED
    BY <1>3 DEF PlacementInv, FilesOfSources

\* What is expanded is expanded in a unit that is under no condition; where the
\* directive is, what the header includes is there and only such directives include it.
LEMMA ExpandedPlace ==
    ASSUME PlacementInv, Disciplined, HasDirective,
           NEW header, Includes(Top.file, Directive) = {header}, header \notin Range(included_files)
    PROVE  /\ ~ Top.when /\ \A k \in DOMAIN stack : ~ stack[k].when
           /\ Directive.when =>
                 /\ OnlyUnderCondition(header)
                 /\ Followed(header, Len(directives[header]))
<1>1. /\ AmalgamationInv
      /\ Top.file \in DOMAIN directives
      /\ directives[Top.file] \in Seq(Directives)
      /\ Top.at \in 1 .. Len(directives[Top.file])
      /\ Top.at - 1 \in Nat
      /\ Top = stack[Len(stack)] /\ Len(stack) \in DOMAIN stack
    <2>1. AmalgamationInv /\ stack # <<>> /\ Top.at <= Len(directives[Top.file])
        BY DEF PlacementInv, HasDirective
    <2>2. Top \in Units /\ Top = stack[Len(stack)] /\ Len(stack) \in DOMAIN stack
        BY <2>1, TopIs
    <2>3. Top.file \in DOMAIN directives /\ Top.at \in Nat \ {0}
        BY <2>2 DEF Units
    <2>4. directives[Top.file] \in Seq(Directives)
        BY <2>1, <2>3 DEF AmalgamationInv, AmalgamationTypeOK
    <2> QED
        BY <2>1, <2>2, <2>3, <2>4
<1>2. ~ Top.when
    <2> SUFFICES ASSUME Top.when PROVE FALSE
        OBVIOUS
    <2>1. Followed(Top.file, Len(directives[Top.file]))
        BY <1>1 DEF PlacementInv, ConditionIsInnermost
    <2>2. Includes(Top.file, Directive) \subseteq Range(included_files)
        BY <1>1, <2>1 DEF Followed, Directive
    <2> QED
        BY <2>2
<1>3. \A k \in DOMAIN stack : ~ stack[k].when
    BY <1>1, <1>2 DEF PlacementInv, ConditionIsInnermost
<1>4. ASSUME Directive.when
      PROVE  OnlyUnderCondition(header) /\ Followed(header, Len(directives[header]))
    <2> DEFINE here == Top.at
               file == Top.file
    <2>1. /\ file \in DOMAIN directives /\ here \in DOMAIN directives[file]
          /\ directives[file][here].when /\ header \in Includes(file, directives[file][here])
        BY <1>1, <1>4 DEF Directive
    <2>2. /\ \A other \in DOMAIN directives : \A d \in Range(directives[other]) :
                header \in Includes(other, d) => d.when
          /\ \A d \in Range(directives[header]) : \A inner \in Includes(header, d) :
                \E above \in 1 .. here - 1 :
                    inner \in Includes(file, directives[file][above]) /\ ~ directives[file][above].when
        <3> HIDE DEF here, file
        <3> QED
            BY <2>1 DEF Disciplined
    <2>3. Followed(file, here - 1)
        BY <1>1 DEF AmalgamationInv, UnitsInProgress
    <2>4. \A above \in 1 .. here - 1 :
             Includes(file, directives[file][above]) \subseteq Range(included_files)
        BY <2>3, Zenon DEF Followed
    <2>5. header \in DOMAIN directives
        BY <1>1, DirectiveIs, FoundIsIncluded DEF AmalgamationInv
    <2>6. \A k \in 1 .. Len(directives[header]) : directives[header][k] \in Range(directives[header])
        <3>1. directives[header] \in Seq(Directives)
            BY <1>1, <2>5 DEF AmalgamationInv, AmalgamationTypeOK
        <3> QED
            BY <3>1 DEF Range
    <2>7. Followed(header, Len(directives[header]))
        <3> HIDE DEF here, file
        <3> QED
            BY <2>2, <2>4, <2>6 DEF Followed
    <2> QED
        BY <2>2, <2>7, Zenon DEF OnlyUnderCondition
<1> QED
    BY <1>2, <1>3, <1>4

\* Nothing is placed at first.
LEMMA PlacementInvInit == AmalgamationInit => PlacementInv
<1> SUFFICES ASSUME AmalgamationInit PROVE PlacementInv
    OBVIOUS
<1>1. Range(included_files) = {} /\ DOMAIN stack = {}
    BY DEF AmalgamationInit, Range
<1> QED
    BY <1>1, AmalgamationInvInit
    DEF PlacementInv, ConditionIsInnermost, ExcludedFiles, FilesOfSources

\* A new source is placed under no condition.
LEMMA SourcePlacement ==
    PlacementInv /\ Disciplined /\ ProcessSource => PlacementInv'
<1> SUFFICES ASSUME PlacementInv, Disciplined, ProcessSource PROVE PlacementInv'
    OBVIOUS
<1>1. AmalgamationInv /\ HasSource /\ Source \in DOMAIN directives
      /\ processed' = processed + 1 /\ UNCHANGED <<directives, sources>>
    BY DEF PlacementInv, ProcessSource
<1>2. PICK unit \in Units :
         /\ unit.file = Source /\ unit.at = 1 /\ unit.when = FALSE
         /\ stack = <<>> /\ stack' = Append(<<>>, unit)
         /\ Range(included_files)' = Range(included_files) \cup {Source}
         /\ \A holds \in BOOLEAN : ReadFiles(holds)' = ReadFiles(holds) \cup {Source}
    BY <1>1, SourceBegins
<1>3. ConditionIsInnermost'
    <2>1. DOMAIN stack' = {1} /\ stack'[1] = unit
        BY <1>2
    <2> QED
        BY <1>2, <2>1 DEF ConditionIsInnermost
<1>4. ExcludedFiles'
    BY <1>1, <1>2, HeadersStay DEF PlacementInv, ExcludedFiles
<1>5. FilesOfSources'
    <2>1. processed \in Nat
        BY <1>1 DEF AmalgamationInv, AmalgamationTypeOK
    <2>2. \A j \in 1 .. processed : j \in 1 .. processed + 1
        BY <2>1
    <2>3. processed + 1 \in 1 .. processed + 1
        BY <2>1
    <2>4. Source \in Reached(<<sources[processed + 1]>>)
        <3>1. Source \in Range(<<sources[processed + 1]>>)
            BY DEF Range, Source
        <3> QED
            BY <1>1, <3>1, ReachedIsClosed DEF AmalgamationInv
    <2>5. \A j : Reached(<<sources[j]>>)' = Reached(<<sources[j]>>)
        BY <1>1, HeadersStay
    <2>6. ASSUME NEW file \in Range(included_files)'
          PROVE  \E j \in 1 .. processed + 1 : file \in Reached(<<sources[j]>>)
        <3>1. CASE file = Source
            BY <2>3, <2>4, <3>1
        <3>2. CASE file \in Range(included_files)
            BY <2>2, <3>2 DEF PlacementInv, FilesOfSources
        <3> QED
            BY <1>2, <2>6, <3>1, <3>2
    <2> QED
        BY <1>1, <2>5, <2>6 DEF FilesOfSources
<1> QED
    BY <1>1, <1>3, <1>4, <1>5, ProcessSourceStep DEF PlacementInv

\* Passing a directive places nothing.
LEMMA PassPlacement ==
    PlacementInv /\ PassDirective => PlacementInv'
<1> SUFFICES ASSUME PlacementInv, PassDirective PROVE PlacementInv'
    OBVIOUS
<1>1. /\ AmalgamationInv /\ stack # <<>>
      /\ UNCHANGED <<directives, sources, processed>>
      /\ Range(included_files)' = Range(included_files)
    BY DEF PlacementInv, PassDirective, HasDirective
<1>2. PICK units : units = Advanced
    OBVIOUS
<1>3. stack' = units
    BY <1>2 DEF PassDirective
<1>4. /\ units \in Seq(Units) /\ Len(units) = Len(stack)
      /\ \A k \in 1 .. Len(stack) :
            units[k].file = stack[k].file /\ units[k].when = stack[k].when
    BY <1>1, <1>2, AdvancedIs
<1>5. DOMAIN units = 1 .. Len(stack) /\ DOMAIN stack = 1 .. Len(stack)
    BY <1>1, <1>4 DEF AmalgamationInv, AmalgamationTypeOK
<1>6. \A file, n : Followed(file, n) => Followed(file, n)'
    BY <1>1, FollowedStays
<1>7. ConditionIsInnermost'
    <2> SUFFICES ASSUME NEW k \in 1 .. Len(stack), units[k].when
                 PROVE  /\ k = Len(units)
                        /\ Followed(stack[k].file, Len(directives[stack[k].file]))'
        BY <1>3, <1>5 DEF ConditionIsInnermost
    <2>1. k = Len(stack) /\ Followed(stack[k].file, Len(directives[stack[k].file]))
        BY <1>4, <1>5 DEF PlacementInv, ConditionIsInnermost
    <2>2. PICK file, n : file = stack[k].file /\ n = Len(directives[stack[k].file])
        OBVIOUS
    <2>3. Followed(file, n)'
        BY <1>6, <2>1, <2>2
    <2>4. stack'[k].file = file /\ Len(directives[stack[k].file])' = n
        BY <1>1, <1>3, <1>4, <2>2
    <2> QED
        BY <1>4, <2>1, <2>3, <2>4
<1> QED
    BY <1>1, <1>7, NothingBegins, NothingNewIsPlaced, PassDirectiveStep DEF PlacementInv

\* When a unit ends, what is left of the stack is under no condition.
LEMMA EndPlacement ==
    PlacementInv /\ EndUnit => PlacementInv'
<1> SUFFICES ASSUME PlacementInv, EndUnit PROVE PlacementInv'
    OBVIOUS
<1>1. /\ AmalgamationInv /\ stack # <<>> /\ stack' = Front(stack)
      /\ UNCHANGED <<directives, sources, processed>>
      /\ Range(included_files)' = Range(included_files)
    BY DEF PlacementInv, EndUnit
<1>2. /\ DOMAIN stack = 1 .. Len(stack) /\ Len(stack) \in Nat
      /\ DOMAIN stack' = 1 .. Len(stack) - 1
      /\ \A k \in 1 .. Len(stack) - 1 : stack'[k] = stack[k]
    BY <1>1 DEF AmalgamationInv, AmalgamationTypeOK, Front
<1>3. \A k \in 1 .. Len(stack) - 1 : k \in 1 .. Len(stack) /\ k # Len(stack)
    <2>1. \A n \in Nat : \A k \in 1 .. n - 1 : k \in 1 .. n /\ k # n
        OBVIOUS
    <2> QED
        BY <1>2, <2>1
<1>4. \A k \in DOMAIN stack' : ~ stack'[k].when
    BY <1>2, <1>3 DEF PlacementInv, ConditionIsInnermost
<1>5. ConditionIsInnermost'
    BY <1>4 DEF ConditionIsInnermost
<1> QED
    BY <1>1, <1>5, NothingBegins, NothingNewIsPlaced, EndUnitStep DEF PlacementInv

\* A header is placed where it is needed.
LEMMA HeaderPlacement ==
    PlacementInv /\ Disciplined /\ ExpandDirective => PlacementInv'
<1> SUFFICES ASSUME PlacementInv, Disciplined, ExpandDirective PROVE PlacementInv'
    OBVIOUS
<1>1. /\ AmalgamationInv /\ HasDirective /\ stack # <<>>
      /\ UNCHANGED <<directives, sources, processed>>
    BY DEF PlacementInv, ExpandDirective, HasDirective
<1>2. PICK header \in DOMAIN directives, unit \in Units, units \in Seq(Units) :
         /\ Includes(Top.file, Directive) = {header}
         /\ header \notin Range(included_files)
         /\ Range(included_files)' = Range(included_files) \cup {header}
         /\ unit.file = header /\ unit.at = 1 /\ unit.when = (Top.when \/ Directive.when)
         /\ units = Advanced
         /\ stack' = Append(units, unit)
         /\ \A holds \in BOOLEAN :
               ReadFiles(holds)' = IF unit.when => holds THEN ReadFiles(holds) \cup {header}
                                   ELSE ReadFiles(holds)
    BY <1>1, HeaderBegins
<1>3. /\ ~ Top.when /\ \A k \in DOMAIN stack : ~ stack[k].when
      /\ Directive.when =>
            /\ OnlyUnderCondition(header)
            /\ Followed(header, Len(directives[header]))
    BY <1>1, <1>2, ExpandedPlace
<1>4. ConditionIsInnermost'
    <2>1. /\ Len(units) = Len(stack)
          /\ \A k \in 1 .. Len(stack) : units[k].when = stack[k].when
        BY <1>1, <1>2, AdvancedIs
    <2>2. /\ DOMAIN stack = 1 .. Len(stack) /\ Len(stack) \in Nat
          /\ DOMAIN stack' = 1 .. Len(stack) + 1 /\ Len(stack') = Len(stack) + 1
          /\ \A k \in 1 .. Len(stack) : stack'[k] = units[k]
          /\ stack'[Len(stack) + 1] = unit
        BY <1>1, <1>2, <2>1 DEF AmalgamationInv, AmalgamationTypeOK
    <2>3. \A k \in 1 .. Len(stack) : ~ stack'[k].when
        BY <1>3, <2>1, <2>2
    <2>4. Directive.when => Followed(header, Len(directives[header]))'
        <3>1. PICK n : n = Len(directives[header])
            OBVIOUS
        <3>2. Directive.when => Followed(header, n)'
            BY <1>1, <1>2, <1>3, <3>1, FollowedStays
        <3>3. Len(directives[header])' = n
            BY <1>1, <3>1
        <3> QED
            BY <3>2, <3>3
    <2>5. \A k \in 1 .. Len(stack) + 1 : k \in 1 .. Len(stack) \/ k = Len(stack) + 1
        BY <2>2
    <2>6. ASSUME NEW k \in DOMAIN stack', stack'[k].when
          PROVE  k = Len(stack') /\ Followed(stack[k].file, Len(directives[stack[k].file]))'
        <3>1. k = Len(stack) + 1 /\ stack'[k] = unit
            BY <2>2, <2>3, <2>5, <2>6
        <3>2. Directive.when /\ stack'[k].file = header
            BY <1>2, <1>3, <2>6, <3>1
        <3> QED
            BY <2>2, <2>4, <3>1, <3>2
    <2> QED
        BY <2>6 DEF ConditionIsInnermost
<1>5. ExcludedFiles'
    <2>1. Directive.when => OnlyUnderCondition(header)
        BY <1>3
    <2>2. /\ ReadFiles(FALSE) \subseteq ReadFiles(FALSE)'
          /\ ~ Directive.when => header \in ReadFiles(FALSE)'
        BY <1>2, <1>3
    <2> QED
        BY <1>1, <1>2, <2>1, <2>2, HeadersStay DEF PlacementInv, ExcludedFiles
<1>6. FilesOfSources'
    <2>1. PICK j \in 1 .. processed : Top.file \in Reached(<<sources[j]>>)
        BY <1>1, TopIs DEF PlacementInv, FilesOfSources
    <2>2. header \in Reached(<<sources[j]>>)
        BY <1>1, <1>2, <2>1, DirectiveIs, ReachedIsClosed DEF AmalgamationInv
    <2> QED
        BY <1>1, <1>2, <2>1, <2>2, HeadersStay DEF PlacementInv, FilesOfSources
<1> QED
    BY <1>1, <1>4, <1>5, <1>6, ExpandDirectiveStep DEF PlacementInv

\* Every step keeps the places, when the headers are written as csv2's are.
LEMMA PlacementInvNext ==
    PlacementInv /\ Disciplined /\ [AmalgamationNext]_amalgamationVars => PlacementInv' /\ Disciplined'
<1> SUFFICES ASSUME PlacementInv, Disciplined, [AmalgamationNext]_amalgamationVars
             PROVE  PlacementInv' /\ Disciplined'
    OBVIOUS
<1>1. UNCHANGED <<directives, sources>>
    BY DEF AmalgamationNext, amalgamationVars, ProcessSource, SourceNotFound, PassDirective,
           ExpandDirective, EndUnit, WriteTarget, Ended
<1>2. Disciplined'
    BY <1>1, HeadersStay
<1>3. AmalgamationInv'
    BY AmalgamationInvNext DEF PlacementInv
<1>4. CASE SourceNotFound \/ WriteTarget \/ Ended \/ UNCHANGED amalgamationVars
    <2>1. UNCHANGED <<directives, sources, processed, stack, included_files, amalgamation>>
        BY <1>4 DEF SourceNotFound, WriteTarget, Ended, amalgamationVars
    <2>2. ReadFiles(FALSE)' = ReadFiles(FALSE) /\ Range(included_files)' = Range(included_files)
        BY <2>1 DEF ReadFiles
    <2>3. ConditionIsInnermost'
        BY <2>1, SameIncludes DEF PlacementInv, ConditionIsInnermost, Followed
    <2>4. ExcludedFiles' /\ FilesOfSources'
        BY <2>1, <2>2, NothingNewIsPlaced
    <2> QED
        BY <1>2, <1>3, <2>3, <2>4 DEF PlacementInv
<1> QED
    BY <1>2, <1>4, SourcePlacement, PassPlacement, EndPlacement, HeaderPlacement
    DEF AmalgamationNext

\* What is open of units: not the innermost one where the condition excludes it.
OpenOf(units, holds) ==
    FilesOf(IF units # <<>> /\ Last(units).when /\ ~ holds THEN Front(units) ELSE units)

\* A compiler comes to the next source, which it has not read.
ComesToSource(holds) ==
    /\ OpenFiles(holds) = <<>> /\ processed < Len(sources)
    /\ sources[processed + 1] \in DOMAIN directives
    /\ sources[processed + 1] \notin ReadFiles(holds)
    /\ processed' = processed + 1
    /\ OpenFiles(holds)' = Append(<<>>, [file |-> sources[processed + 1], at |-> 1])
    /\ ReadFiles(holds)' = ReadFiles(holds) \cup {sources[processed + 1]}
    /\ UNCHANGED <<directives, sources, TextOf(amalgamation, holds)>>

Reading(holds) == Last(OpenFiles(holds))
ReadingDirective(holds) == directives[Reading(holds).file][Reading(holds).at]
AtDirective(holds) ==
    OpenFiles(holds) # <<>> /\ Reading(holds).at <= Len(directives[Reading(holds).file])
ReadOn(holds) == [OpenFiles(holds) EXCEPT ![Len(OpenFiles(holds))].at = @ + 1]
OpenedHere(holds) ==
    IF ReadingDirective(holds).when => holds
    THEN Includes(Reading(holds).file, ReadingDirective(holds)) \ ReadFiles(holds) ELSE {}

\* It reads text, and opens a header, passes a directive or ends a file.
ReadsText(holds) ==
    /\ TextOf(amalgamation, holds)' =
          Append(TextOf(amalgamation, holds), <<Reading(holds).file, Reading(holds).at>>)
    /\ UNCHANGED <<directives, sources, processed>>
    /\ \/ /\ AtDirective(holds)
          /\ \E header \in OpenedHere(holds) :
                /\ OpenFiles(holds)' = Append(ReadOn(holds), [file |-> header, at |-> 1])
                /\ ReadFiles(holds)' = ReadFiles(holds) \cup {header}
       \/ /\ AtDirective(holds) /\ OpenedHere(holds) = {}
          /\ OpenFiles(holds)' = ReadOn(holds)
          /\ UNCHANGED ReadFiles(holds)
       \/ /\ OpenFiles(holds) # <<>> /\ ~ AtDirective(holds)
          /\ OpenFiles(holds)' = Front(OpenFiles(holds))
          /\ UNCHANGED ReadFiles(holds)

\* It does nothing: what generate() does is not of what it reads.
StaysThere(holds) ==
    UNCHANGED <<directives, sources, processed,
                OpenFiles(holds), ReadFiles(holds), TextOf(amalgamation, holds)>>

CompilerStep(holds) == ComesToSource(holds) \/ ReadsText(holds) \/ StaysThere(holds)

\* These are the steps of a compiler where the condition holds.
LEMMA TakenStep ==
    ASSUME CompilerStep(TRUE) PROVE [Taken!Next]_(Taken!vars)
<1>1. CASE ComesToSource(TRUE)
    BY <1>1 DEF ComesToSource, Taken!Next, Taken!ReadSource, Taken!OpenFile
<1>2. CASE ReadsText(TRUE)
    <2>1. /\ Taken!Reading = Reading(TRUE) /\ Taken!Directive = ReadingDirective(TRUE)
          /\ Taken!AtDirective <=> AtDirective(TRUE)
          /\ Taken!Advanced = ReadOn(TRUE)
        BY DEF Taken!Reading, Taken!Directive, Taken!AtDirective, Taken!Advanced, Taken!Last,
               Reading, ReadingDirective, AtDirective, ReadOn, Last
    <2>2. Taken!Opened = OpenedHere(TRUE)
        <3>1. \A file, directive : Taken!Includes(file, directive) = Includes(file, directive)
            BY Zenon DEF Taken!Includes, Taken!Front, Includes, Front
        <3> QED
            BY <2>1, <3>1 DEF Taken!Opened, OpenedHere
    <2>3. Taken!ReadText
        BY <1>2, <2>1 DEF ReadsText, Taken!ReadText
    <2>4. CASE /\ AtDirective(TRUE)
               /\ \E header \in OpenedHere(TRUE) :
                     /\ OpenFiles(TRUE)' = Append(ReadOn(TRUE), [file |-> header, at |-> 1])
                     /\ ReadFiles(TRUE)' = ReadFiles(TRUE) \cup {header}
        BY <1>2, <2>1, <2>2, <2>3, <2>4
        DEF ReadsText, Taken!Next, Taken!OpenHeader, Taken!OpenFile
    <2>5. CASE /\ AtDirective(TRUE) /\ OpenedHere(TRUE) = {}
               /\ OpenFiles(TRUE)' = ReadOn(TRUE)
               /\ UNCHANGED ReadFiles(TRUE)
        BY <1>2, <2>1, <2>2, <2>3, <2>5 DEF ReadsText, Taken!Next, Taken!PassDirective
    <2>6. CASE /\ OpenFiles(TRUE) # <<>> /\ ~ AtDirective(TRUE)
               /\ OpenFiles(TRUE)' = Front(OpenFiles(TRUE))
               /\ UNCHANGED ReadFiles(TRUE)
        BY <1>2, <2>1, <2>3, <2>6 DEF ReadsText, Taken!Next, Taken!EndFile, Taken!Front, Front
    <2> QED
        BY <1>2, <2>4, <2>5, <2>6 DEF ReadsText
<1>3. CASE StaysThere(TRUE)
    BY <1>3 DEF StaysThere, Taken!vars
<1> QED
    BY <1>1, <1>2, <1>3 DEF CompilerStep

\* And where it does not.
LEMMA SkippedStep ==
    ASSUME CompilerStep(FALSE) PROVE [Skipped!Next]_(Skipped!vars)
<1>1. CASE ComesToSource(FALSE)
    BY <1>1 DEF ComesToSource, Skipped!Next, Skipped!ReadSource, Skipped!OpenFile
<1>2. CASE ReadsText(FALSE)
    <2>1. /\ Skipped!Reading = Reading(FALSE) /\ Skipped!Directive = ReadingDirective(FALSE)
          /\ Skipped!AtDirective <=> AtDirective(FALSE)
          /\ Skipped!Advanced = ReadOn(FALSE)
        BY DEF Skipped!Reading, Skipped!Directive, Skipped!AtDirective, Skipped!Advanced, Skipped!Last,
               Reading, ReadingDirective, AtDirective, ReadOn, Last
    <2>2. Skipped!Opened = OpenedHere(FALSE)
        <3>1. \A file, directive : Skipped!Includes(file, directive) = Includes(file, directive)
            BY Zenon DEF Skipped!Includes, Skipped!Front, Includes, Front
        <3> QED
            BY <2>1, <3>1 DEF Skipped!Opened, OpenedHere
    <2>3. Skipped!ReadText
        BY <1>2, <2>1 DEF ReadsText, Skipped!ReadText
    <2>4. CASE /\ AtDirective(FALSE)
               /\ \E header \in OpenedHere(FALSE) :
                     /\ OpenFiles(FALSE)' = Append(ReadOn(FALSE), [file |-> header, at |-> 1])
                     /\ ReadFiles(FALSE)' = ReadFiles(FALSE) \cup {header}
        BY <1>2, <2>1, <2>2, <2>3, <2>4
        DEF ReadsText, Skipped!Next, Skipped!OpenHeader, Skipped!OpenFile
    <2>5. CASE /\ AtDirective(FALSE) /\ OpenedHere(FALSE) = {}
               /\ OpenFiles(FALSE)' = ReadOn(FALSE)
               /\ UNCHANGED ReadFiles(FALSE)
        BY <1>2, <2>1, <2>2, <2>3, <2>5 DEF ReadsText, Skipped!Next, Skipped!PassDirective
    <2>6. CASE /\ OpenFiles(FALSE) # <<>> /\ ~ AtDirective(FALSE)
               /\ OpenFiles(FALSE)' = Front(OpenFiles(FALSE))
               /\ UNCHANGED ReadFiles(FALSE)
        BY <1>2, <2>1, <2>3, <2>6 DEF ReadsText, Skipped!Next, Skipped!EndFile, Skipped!Front, Front
    <2> QED
        BY <1>2, <2>4, <2>5, <2>6 DEF ReadsText
<1>3. CASE StaysThere(FALSE)
    BY <1>3 DEF StaysThere, Skipped!vars
<1> QED
    BY <1>1, <1>2, <1>3 DEF CompilerStep

\* What a compiler has open is what is open of the stack.
LEMMA OpenFilesAre ==
    ASSUME NEW holds
    PROVE  OpenFiles(holds) = OpenOf(stack, holds) /\ OpenFiles(holds)' = OpenOf(stack', holds)
BY Zenon DEF OpenFiles, OpenOf, FilesOf, Top

\* Where no condition excludes the innermost unit, the compiler is where generate() is.
LEMMA WhereGenerateIs ==
    ASSUME AmalgamationInv, stack # <<>>, NEW holds \in BOOLEAN, Top.when => holds
    PROVE  /\ OpenFiles(holds) = FilesOf(stack) /\ OpenFiles(holds) # <<>>
           /\ Reading(holds).file = Top.file /\ Reading(holds).at = Top.at
           /\ ReadingDirective(holds) = Directive
           /\ AtDirective(holds) <=> HasDirective
           /\ ReadOn(holds) = FilesOf(Advanced)
<1>1. stack \in Seq(Units)
    BY DEF AmalgamationInv, AmalgamationTypeOK, Units
<1>2. OpenFiles(holds) = FilesOf(stack)
    BY OpenFilesAre DEF OpenOf, Top
<1>3. /\ OpenFiles(holds) # <<>>
      /\ Last(FilesOf(stack)).file = Top.file /\ Last(FilesOf(stack)).at = Top.at
    BY <1>1, <1>2, FilesOfUnits DEF Top
<1>4. Reading(holds).file = Top.file /\ Reading(holds).at = Top.at
    BY <1>2, <1>3 DEF Reading
<1>5. /\ ReadingDirective(holds) = Directive
      /\ AtDirective(holds) <=> HasDirective
    BY <1>3, <1>4 DEF ReadingDirective, Directive, AtDirective, HasDirective
<1>6. ReadOn(holds) = FilesOf(Advanced)
    BY <1>2, AdvancedIs DEF ReadOn
<1> QED
    BY <1>2, <1>3, <1>4, <1>5, <1>6

\* A compiler has not read a file that is not there, and one that is there it has
\* read, unless only directives under the condition that excludes it include it.
LEMMA ReadAndIncluded ==
    ASSUME PlacementInv, NEW holds \in BOOLEAN
    PROVE  /\ ReadFiles(holds) \subseteq Range(included_files)
           /\ \A file \in Range(included_files) :
                 file \in ReadFiles(holds) \/ (~ holds /\ OnlyUnderCondition(file))
<1>1. AmalgamationInv
    BY DEF PlacementInv
<1>2. ReadFiles(holds) \subseteq Range(included_files)
    <2>1. UnitFiles(holds) \subseteq Range(included_files)
        BY <1>1 DEF AmalgamationInv, UnitsInProgress, UnitFiles, Range
    <2>2. TextFiles(holds) \subseteq Range(included_files)
        BY <1>1 DEF AmalgamationInv, TextsAreOnce, TextFiles, Range
    <2> QED
        BY <2>1, <2>2, ReadFilesAre
<1>3. CASE holds
    <2> SUFFICES ASSUME NEW file \in Range(included_files) PROVE file \in ReadFiles(holds)
        BY <1>2
    <2>1. CASE \E k \in DOMAIN stack : stack[k].file = file
        <3>1. file \in UnitFiles(holds)
            BY <1>3, <2>1 DEF UnitFiles, Range
        <3> QED
            BY <3>1, ReadFilesAre
    <2>2. CASE IsPutOut(file)
        <3>1. file \in TextFiles(holds)
            BY <1>3, <2>2 DEF IsPutOut, TextFiles, Range
        <3> QED
            BY <3>1, ReadFilesAre
    <2> QED
        BY <1>1, <2>1, <2>2 DEF AmalgamationInv, FilesComplete
<1>4. CASE ~ holds
    BY <1>2, <1>4 DEF PlacementInv, ExcludedFiles
<1> QED
    BY <1>2, <1>3, <1>4

\* A new source is the next that a compiler comes to.
LEMMA SourceIsRead ==
    ASSUME PlacementInv, Disciplined, ProcessSource, NEW holds \in BOOLEAN
    PROVE  ComesToSource(holds)
<1>1. /\ AmalgamationInv /\ HasSource /\ Source = sources[processed + 1]
      /\ processed < Len(sources) /\ processed' = processed + 1
      /\ Source \in DOMAIN directives
      /\ UNCHANGED <<directives, sources, amalgamation>>
    BY DEF PlacementInv, ProcessSource, HasSource, Source
<1>2. PICK unit \in Units :
         /\ unit.file = Source /\ unit.at = 1 /\ unit.when = FALSE
         /\ stack = <<>> /\ stack' = Append(<<>>, unit)
         /\ Range(included_files)' = Range(included_files) \cup {Source}
         /\ ReadFiles(holds)' = ReadFiles(holds) \cup {Source}
    BY <1>1, SourceBegins
<1>3. /\ <<>> \in Seq(Units)
      /\ FilesOf(<<>>) = <<>>
      /\ FilesOf(Append(<<>>, unit)) = Append(<<>>, [file |-> Source, at |-> 1])
    <2>1. <<>> \in Seq(Units) /\ FilesOf(<<>>) = <<>>
        <3>1. <<>> \in Seq(Units)
            OBVIOUS
        <3> QED
            BY <3>1, FilesOfUnits
    <2>2. FilesOf(Append(<<>>, unit)) = Append(FilesOf(<<>>), [file |-> unit.file, at |-> unit.at])
        BY <2>1, FilesOfUnits
    <2> QED
        BY <1>2, <2>1, <2>2
<1>4. OpenFiles(holds) = <<>>
    BY <1>2, <1>3, OpenFilesAre DEF OpenOf
<1>5. OpenFiles(holds)' = Append(<<>>, [file |-> Source, at |-> 1])
    <2>1. Last(Append(<<>>, unit)) = unit
        BY DEF Last
    <2> QED
        BY <1>2, <1>3, <2>1, OpenFilesAre DEF OpenOf
<1>6. Source \notin ReadFiles(holds)
    BY <1>1, SourceIsNew, ReadAndIncluded
<1>7. UNCHANGED TextOf(amalgamation, holds)
    BY <1>1 DEF TextOf
<1> QED
    BY <1>1, <1>4, <1>2, <1>5, <1>6, <1>7 DEF ComesToSource

\* A directive that is passed is passed by a compiler, which has read what it
\* includes, or is in text that the condition excludes.
LEMMA PassIsRead ==
    ASSUME PlacementInv, PassDirective, NEW holds \in BOOLEAN
    PROVE  ReadsText(holds) \/ StaysThere(holds)
<1>1. /\ AmalgamationInv /\ HasDirective /\ stack # <<>>
      /\ amalgamation' = Append(amalgamation, Chunk)
      /\ UNCHANGED <<directives, sources, processed>>
      /\ Includes(Top.file, Directive) \subseteq Range(included_files)
      /\ Top.file \in DOMAIN directives
      /\ Directive \in Range(directives[Top.file])
    <2>1. AmalgamationInv /\ HasDirective
        BY DEF PlacementInv, PassDirective
    <2>2. Included(Directive, Top.file) \in {<<>>} \cup Range(included_files)
        BY DEF PassDirective
    <2> QED
        BY <2>1, <2>2, DirectiveIs, FoundIsIncluded
        DEF PassDirective, HasDirective, AmalgamationInv
<1>2. PICK units : units = Advanced
    OBVIOUS
<1>3. /\ units \in Seq(Units) /\ units # <<>> /\ Len(units) = Len(stack)
      /\ \A k \in 1 .. Len(stack) :
            units[k].file = stack[k].file /\ units[k].when = stack[k].when
      /\ \A k \in 1 .. Len(stack) - 1 : units[k] = stack[k]
    BY <1>1, <1>2, AdvancedIs
<1>4. stack' = units
    BY <1>2 DEF PassDirective
<1>5. /\ Len(stack) \in Nat \ {0} /\ stack \in Seq(Units)
      /\ Top = stack[Len(stack)]
    BY <1>1, TopIs DEF AmalgamationInv, AmalgamationTypeOK, Units
<1>6. Last(units).when = Top.when
    <2>1. Len(stack) \in 1 .. Len(stack)
        BY <1>5
    <2> QED
        BY <1>3, <1>5, <2>1 DEF Last
<1>7. ReadFiles(holds)' = ReadFiles(holds)
    BY <1>1, NothingBegins
<1>8. TextOf(amalgamation, holds)' =
         IF Top.when => holds
         THEN Append(TextOf(amalgamation, holds), <<Top.file, Top.at>>)
         ELSE TextOf(amalgamation, holds)
    BY <1>1, ChunkIs
<1>9. CASE Top.when => holds
    <2>1. /\ Reading(holds).file = Top.file /\ Reading(holds).at = Top.at
          /\ ReadingDirective(holds) = Directive
          /\ AtDirective(holds) /\ ReadOn(holds) = FilesOf(units)
        BY <1>1, <1>2, <1>9, WhereGenerateIs
    <2>2. OpenedHere(holds) = {}
        <3> SUFFICES ASSUME NEW header \in Includes(Top.file, Directive) \ ReadFiles(holds),
                            Directive.when => holds
                     PROVE  FALSE
            BY <2>1 DEF OpenedHere
        <3>1. ~ holds /\ OnlyUnderCondition(header)
            BY <1>1, ReadAndIncluded
        <3>2. Directive.when
            BY <1>1, <3>1 DEF OnlyUnderCondition
        <3> QED
            BY <3>1, <3>2
    <2>3. OpenFiles(holds)' = ReadOn(holds)
        BY <1>3, <1>4, <1>6, <1>9, <2>1, OpenFilesAre DEF OpenOf
    <2> QED
        BY <1>1, <1>7, <1>8, <1>9, <2>1, <2>2, <2>3 DEF ReadsText
<1>10. CASE ~ (Top.when => holds)
    <2>1. Front(units) = Front(stack)
        BY <1>3 DEF Front
    <2>2. OpenFiles(holds)' = OpenFiles(holds)
        BY <1>1, <1>3, <1>4, <1>6, <1>10, <2>1, OpenFilesAre DEF OpenOf, Top
    <2> QED
        BY <1>1, <1>7, <1>8, <1>10, <2>2 DEF StaysThere
<1> QED
    BY <1>9, <1>10

\* Where a unit ends a compiler ends the file, or goes on behind what is excluded.
LEMMA EndIsRead ==
    ASSUME PlacementInv, EndUnit, NEW holds \in BOOLEAN
    PROVE  ReadsText(holds) \/ StaysThere(holds)
<1>1. /\ AmalgamationInv /\ ~ HasDirective /\ stack # <<>>
      /\ amalgamation' = Append(amalgamation, Chunk)
      /\ stack' = Front(stack)
      /\ UNCHANGED <<directives, sources, processed>>
    BY DEF PlacementInv, EndUnit
<1>2. /\ Len(stack) \in Nat \ {0} /\ stack \in Seq(Units) /\ DOMAIN stack = 1 .. Len(stack)
      /\ Top = stack[Len(stack)]
    BY <1>1, TopIs DEF AmalgamationInv, AmalgamationTypeOK, Units
<1>3. ReadFiles(holds)' = ReadFiles(holds)
    BY <1>1, NothingBegins
<1>4. TextOf(amalgamation, holds)' =
         IF Top.when => holds
         THEN Append(TextOf(amalgamation, holds), <<Top.file, Top.at>>)
         ELSE TextOf(amalgamation, holds)
    BY <1>1, ChunkIs
<1>5. OpenFiles(holds)' = FilesOf(Front(stack))
    <2> SUFFICES ASSUME stack' # <<>> PROVE ~ Last(stack').when
        BY <1>1, OpenFilesAre DEF OpenOf
    <2>1. PICK n : n = Len(stack) /\ n \in Nat \ {0}
        BY <1>2
    <2>2. stack' = [k \in 1 .. n - 1 |-> stack[k]]
        BY <1>1, <2>1 DEF Front
    <2>3. Len(stack') = n - 1
        BY <2>1, <2>2
    <2>4. n - 1 # 0
        BY <1>2, <2>1, <2>2
    <2>5. n - 1 \in 1 .. n /\ n - 1 \in 1 .. n - 1 /\ n - 1 # n
        BY <2>1, <2>4
    <2>6. Last(stack') = stack[n - 1]
        BY <2>2, <2>3, <2>5 DEF Last
    <2> QED
        BY <1>2, <2>1, <2>5, <2>6 DEF PlacementInv, ConditionIsInnermost
<1>6. CASE Top.when => holds
    <2>1. /\ OpenFiles(holds) = FilesOf(stack) /\ OpenFiles(holds) # <<>>
          /\ Reading(holds).file = Top.file /\ Reading(holds).at = Top.at
          /\ ~ AtDirective(holds)
        BY <1>1, <1>6, WhereGenerateIs
    <2>2. OpenFiles(holds)' = Front(OpenFiles(holds))
        BY <1>1, <1>2, <1>5, <2>1, FilesOfUnits
    <2> QED
        BY <1>1, <1>3, <1>4, <1>6, <2>1, <2>2 DEF ReadsText
<1>7. CASE ~ (Top.when => holds)
    <2>1. OpenFiles(holds) = FilesOf(Front(stack))
        BY <1>1, <1>7, OpenFilesAre DEF OpenOf, Top
    <2> QED
        BY <1>1, <1>3, <1>4, <1>5, <1>7, <2>1 DEF StaysThere
<1> QED
    BY <1>6, <1>7

\* Where a header is expanded a compiler opens it, or passes the directive that is
\* under the condition.
LEMMA HeaderIsRead ==
    ASSUME PlacementInv, Disciplined, ExpandDirective, NEW holds \in BOOLEAN
    PROVE  ReadsText(holds)
<1>1. /\ AmalgamationInv /\ HasDirective /\ stack # <<>>
      /\ amalgamation' = Append(amalgamation, Chunk)
      /\ UNCHANGED <<directives, sources, processed>>
    BY DEF PlacementInv, ExpandDirective, HasDirective
<1>2. PICK header \in DOMAIN directives, unit \in Units, units \in Seq(Units) :
         /\ Includes(Top.file, Directive) = {header}
         /\ header \notin Range(included_files)
         /\ unit.file = header /\ unit.at = 1 /\ unit.when = (Top.when \/ Directive.when)
         /\ units = Advanced
         /\ stack' = Append(units, unit)
         /\ ReadFiles(holds)' = IF unit.when => holds THEN ReadFiles(holds) \cup {header}
                                ELSE ReadFiles(holds)
    BY <1>1, HeaderBegins
<1>3. ~ Top.when
    BY <1>1, <1>2, ExpandedPlace
<1>4. TextOf(amalgamation, holds)' =
         Append(TextOf(amalgamation, holds), <<Top.file, Top.at>>)
    BY <1>1, <1>3, ChunkIs
<1>5. /\ Reading(holds).file = Top.file /\ Reading(holds).at = Top.at
      /\ ReadingDirective(holds) = Directive
      /\ AtDirective(holds) /\ ReadOn(holds) = FilesOf(units)
    BY <1>1, <1>2, <1>3, WhereGenerateIs
<1>6. /\ stack' # <<>> /\ Last(stack') = unit
      /\ Front(stack') = units
      /\ FilesOf(stack') = Append(FilesOf(units), [file |-> header, at |-> 1])
    <2>1. FilesOf(Append(units, unit)) = Append(FilesOf(units), [file |-> unit.file, at |-> unit.at])
        BY <1>2, FilesOfUnits
    <2>2. Append(units, unit) # <<>> /\ Last(Append(units, unit)) = unit
        BY <1>2 DEF Last
    <2>3. Front(Append(units, unit)) = units
        <3>1. /\ Len(Append(units, unit)) - 1 = Len(units)
              /\ \A k \in 1 .. Len(units) : Append(units, unit)[k] = units[k]
            BY <1>2
        <3>2. units = [k \in 1 .. Len(units) |-> units[k]]
            BY <1>2, LenProperties
        <3> QED
            BY <3>1, <3>2 DEF Front
    <2> QED
        BY <1>2, <2>1, <2>2, <2>3
<1>7. header \notin ReadFiles(holds)
    BY <1>2, ReadAndIncluded
<1>8. CASE Directive.when => holds
    <2>1. OpenedHere(holds) = {header}
        BY <1>2, <1>5, <1>7, <1>8 DEF OpenedHere
    <2>2. OpenFiles(holds)' = Append(ReadOn(holds), [file |-> header, at |-> 1])
        BY <1>2, <1>3, <1>5, <1>6, <1>8, OpenFilesAre DEF OpenOf
    <2>3. ReadFiles(holds)' = ReadFiles(holds) \cup {header}
        BY <1>2, <1>3, <1>8
    <2> QED
        BY <1>1, <1>4, <1>5, <2>1, <2>2, <2>3 DEF ReadsText
<1>9. CASE ~ (Directive.when => holds)
    <2>1. OpenedHere(holds) = {}
        BY <1>5, <1>9 DEF OpenedHere
    <2>2. OpenFiles(holds)' = ReadOn(holds)
        BY <1>2, <1>3, <1>5, <1>6, <1>9, OpenFilesAre DEF OpenOf
    <2>3. ReadFiles(holds)' = ReadFiles(holds)
        BY <1>2, <1>3, <1>9
    <2> QED
        BY <1>1, <1>4, <1>5, <2>1, <2>2, <2>3 DEF ReadsText
<1> QED
    BY <1>8, <1>9

\* Every step is one of the compiler, or none.
LEMMA EveryStepIsRead ==
    ASSUME PlacementInv, Disciplined, AmalgamationNext, NEW holds \in BOOLEAN
    PROVE  CompilerStep(holds)
<1>1. CASE SourceNotFound \/ WriteTarget \/ Ended
    <2>1. UNCHANGED <<directives, sources, processed, stack, included_files, amalgamation>>
        BY <1>1 DEF SourceNotFound, WriteTarget, Ended, amalgamationVars
    <2> QED
        BY <2>1 DEF CompilerStep, StaysThere, OpenFiles, ReadFiles, TextOf, Top
<1> QED
    BY <1>1, SourceIsRead, PassIsRead, EndIsRead, HeaderIsRead DEF AmalgamationNext, CompilerStep

\* Of no units nothing is open.
LEMMA NothingIsOpen ==
    \A units : units = <<>> => OpenOf(units, TRUE) = <<>> /\ OpenOf(units, FALSE) = <<>>
BY DEF OpenOf, FilesOf

\* When the file is written the compiler has read everything.
LEMMA WrittenIsAllRead ==
    ASSUME AmalgamationInv', generate' = "written"
    PROVE  Taken!HasEnded' /\ Skipped!HasEnded'
<1>1. stack' = <<>> /\ processed' = Len(sources')
    BY DEF AmalgamationInv, NeededFiles
<1>2. OpenFiles(TRUE)' = <<>> /\ OpenFiles(FALSE)' = <<>>
    BY <1>1, OpenFilesAre, NothingIsOpen
<1> QED
    BY <1>1, <1>2 DEF Taken!HasEnded, Skipped!HasEnded

\* The generated file implements the headers, for a compiler where the condition
\* holds as for one where it does not.  The invariant says that no condition is
\* around what is needed without it: a header under the condition begins no other.  That
\* the text of a header may come behind the comment its directive becomes rests on
\* #pragma once being its first line.
THEOREM TargetReadsAsTheHeaders == AmalgamationSpec => SameTranslation
<1>1. AmalgamationInit => Taken!Init /\ Skipped!Init
    <2> SUFFICES ASSUME AmalgamationInit PROVE Taken!Init /\ Skipped!Init
        OBVIOUS
    <2>1. stack = <<>> /\ amalgamation = <<>> /\ processed = 0
        BY DEF AmalgamationInit
    <2>2. OpenFiles(TRUE) = <<>> /\ OpenFiles(FALSE) = <<>>
        BY <2>1, OpenFilesAre, NothingIsOpen
    <2>3. ReadFiles(TRUE) = {} /\ ReadFiles(FALSE) = {}
        BY <2>1 DEF ReadFiles, Range
    <2>4. TextOf(amalgamation, TRUE) = <<>> /\ TextOf(amalgamation, FALSE) = <<>>
        BY <2>1, TextOfNothing
    <2> QED
        BY <2>1, <2>2, <2>3, <2>4 DEF Taken!Init, Skipped!Init
<1>2. (Disciplined => PlacementInv) /\ [AmalgamationNext]_amalgamationVars =>
          (Disciplined => PlacementInv)'
    <2>1. [AmalgamationNext]_amalgamationVars => UNCHANGED <<directives, sources>>
        BY DEF AmalgamationNext, amalgamationVars, ProcessSource, SourceNotFound, PassDirective,
               ExpandDirective, EndUnit, WriteTarget, Ended
    <2>2. [AmalgamationNext]_amalgamationVars => (Disciplined' <=> Disciplined)
        BY <2>1, HeadersStay
    <2> QED
        BY <2>2, PlacementInvNext
<1>3. ASSUME Disciplined => PlacementInv, AmalgamationInv, AmalgamationNext
      PROVE  SameStep \/ ~ Disciplined
    <2> SUFFICES ASSUME Disciplined PROVE SameStep
        OBVIOUS
    <2>1. CompilerStep(TRUE) /\ CompilerStep(FALSE)
        BY <1>3, EveryStepIsRead
    <2>2. generate' = "written" => Taken!HasEnded' /\ Skipped!HasEnded'
        BY <1>3, AmalgamationInvNext, WrittenIsAllRead
    <2> QED
        BY <2>1, <2>2, TakenStep, SkippedStep DEF SameStep
<1>4. (Disciplined => PlacementInv) /\ AmalgamationInv /\ [AmalgamationNext]_amalgamationVars
          => [SameStep \/ ~ Disciplined]_amalgamationVars
    BY <1>3
<1>5. AmalgamationInit => (Disciplined => PlacementInv)
    BY PlacementInvInit
<1>6. AmalgamationSpec => []AmalgamationInv
    BY AmalgamationInvInit, AmalgamationInvNext, PTL DEF AmalgamationSpec
<1> QED
    BY <1>1, <1>2, <1>4, <1>5, <1>6, PTL DEF AmalgamationSpec, SameTranslation
=============================================================================
