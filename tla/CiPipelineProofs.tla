-------------------------- MODULE CiPipelineProofs --------------------------
(***************************************************************************)
(* The CI workflow, for any platforms, any patch, any answers of git and   *)
(* ctest.  Three invariants are put together: that of the classification,  *)
(* which needs that the first rule to match a path selects every owner     *)
(* that reads it; that of the fuzz targets; and that of the jobs, which    *)
(* ties a job's result to what it had before it and what it did.  The gate *)
(* follows from them and from what the test inventory compares.            *)
(***************************************************************************)
EXTENDS CiPipeline, SequenceTheorems, WellFoundedInduction, TLAPS

-----------------------------------------------------------------------------
(* Paths, and the rules that select the owners.                            *)

\* A prefix of one component, or of two or three, in terms of the components.
Starts(s, a) == Len(s) >= 1 /\ s[1] = a
StartsTwo(s, a, b) == Len(s) >= 2 /\ s[1] = a /\ s[2] = b
StartsThree(s, a, b, c) == Len(s) >= 3 /\ s[1] = a /\ s[2] = b /\ s[3] = c

\* A prefix, component by component.
LEMMA PrefixIsPointwise ==
    ASSUME NEW d, Len(d) \in Nat, NEW s, Len(s) \in Nat
    PROVE  IsPrefix(d, s) <=> Len(d) <= Len(s) /\ \A k \in 1 .. Len(d) : d[k] = s[k]
<1>1. SUFFICES ASSUME Len(d) <= Len(s)
               PROVE  SubSeq(d, 1, Len(d)) = SubSeq(s, 1, Len(d)) <=>
                          \A k \in 1 .. Len(d) : d[k] = s[k]
  BY DEF IsPrefix
<1> DEFINE S == {d[k] : k \in 1 .. Len(d)} \cup {s[k] : k \in 1 .. Len(d)}
           e == SubSeq(d, 1, Len(d))
           t == SubSeq(s, 1, Len(d))
<1>2. /\ \A k \in 1 .. Len(d) : d[k] \in S
      /\ \A k \in 1 .. Len(d) : s[k] \in S
  OBVIOUS
<1> HIDE DEF S
<1>3. /\ e \in Seq(S) /\ Len(e) = Len(d) /\ \A k \in 1 .. Len(d) : e[k] = d[k]
  BY <1>2, SubSeqProperties
<1>4. /\ t \in Seq(S) /\ Len(t) = Len(d) /\ \A k \in 1 .. Len(d) : t[k] = s[k]
  BY <1>2, SubSeqProperties
<1>5. e = t <=> \A k \in 1 .. Len(d) : e[k] = t[k]
  BY <1>3, <1>4, SeqEqual
<1>6. QED
  BY <1>3, <1>4, <1>5

\* A prefix of one component,
LEMMA PrefixOfOne ==
    ASSUME NEW s, Len(s) \in Nat, NEW a
    PROVE  IsPrefix(<<a>>, s) <=> Starts(s, a)
<1> DEFINE d == <<a>>
<1>1. Len(d) = 1 /\ d[1] = a
  OBVIOUS
<1> HIDE DEF d
<1>2. 1 .. 1 = {1}
  OBVIOUS
<1>3. IsPrefix(d, s) <=> Len(d) <= Len(s) /\ \A k \in 1 .. Len(d) : d[k] = s[k]
  <2>1. Len(d) \in Nat
    BY <1>1
  <2>2. QED
    BY <2>1, PrefixIsPointwise, Zenon
<1>4. IsPrefix(d, s) <=> Len(s) >= 1 /\ \A k \in {1} : d[k] = s[k]
  BY <1>1, <1>2, <1>3
<1>5. QED
  BY <1>1, <1>4 DEF d, Starts

\* of two,
LEMMA PrefixOfTwo ==
    ASSUME NEW s, Len(s) \in Nat, NEW a, NEW b
    PROVE  IsPrefix(<<a, b>>, s) <=> StartsTwo(s, a, b)
<1> DEFINE d == <<a, b>>
<1>1. Len(d) = 2 /\ d[1] = a /\ d[2] = b
  OBVIOUS
<1> HIDE DEF d
<1>2. 1 .. 2 = {1, 2}
  OBVIOUS
<1>3. IsPrefix(d, s) <=> Len(d) <= Len(s) /\ \A k \in 1 .. Len(d) : d[k] = s[k]
  <2>1. Len(d) \in Nat
    BY <1>1
  <2>2. QED
    BY <2>1, PrefixIsPointwise, Zenon
<1>4. IsPrefix(d, s) <=> Len(s) >= 2 /\ \A k \in {1, 2} : d[k] = s[k]
  BY <1>1, <1>2, <1>3
<1>5. QED
  BY <1>1, <1>4 DEF d, StartsTwo

\* and of three.
LEMMA PrefixOfThree ==
    ASSUME NEW s, Len(s) \in Nat, NEW a, NEW b, NEW c
    PROVE  IsPrefix(<<a, b, c>>, s) <=> StartsThree(s, a, b, c)
<1> DEFINE d == <<a, b, c>>
<1>1. Len(d) = 3 /\ d[1] = a /\ d[2] = b /\ d[3] = c
  OBVIOUS
<1> HIDE DEF d
<1>2. 1 .. 3 = {1, 2, 3}
  OBVIOUS
<1>3. IsPrefix(d, s) <=> Len(d) <= Len(s) /\ \A k \in 1 .. Len(d) : d[k] = s[k]
  <2>1. Len(d) \in Nat
    BY <1>1
  <2>2. QED
    BY <2>1, PrefixIsPointwise, Zenon
<1>4. IsPrefix(d, s) <=> Len(s) >= 3 /\ \A k \in {1, 2, 3} : d[k] = s[k]
  BY <1>1, <1>2, <1>3
<1>5. QED
  BY <1>1, <1>4 DEF d, StartsThree

\* The components that the rules for fewer owners look at.
LEMMA RulesOverlap ==
    ASSUME NEW path, Len(path.at) \in Nat
    PROVE  /\ Under(path, OwnerRules[4].under) <=>
                \/ StartsTwo(path.at, "test", "CMakeLists.txt")
                \/ StartsTwo(path.at, "test", "fuzz")
                \/ StartsTwo(path.at, "test", "support")
                \/ StartsTwo(path.at, "test", "cmake")
           /\ Under(path, OwnerRules[5].under) <=> Starts(path.at, "test")
           /\ Under(path, OwnerRules[6].under) <=> Starts(path.at, "benchmark")
           /\ Under(path, OwnerRules[7].under) <=>
                StartsThree(path.at, "third_party", "verification", "catch2")
           /\ Under(path, OwnerRules[8].under) <=>
                StartsThree(path.at, "third_party", "verification", "google_benchmark")
           /\ Under(path, OwnerRules[10].under) <=> Starts(path.at, ".clang-format")
<1>1. /\ OwnerRules[4].under = { <<"test", "CMakeLists.txt">>, <<"test", "fuzz">>,
                                 <<"test", "support">>, <<"test", "cmake">> }
      /\ OwnerRules[5].under = { <<"test">> }
      /\ OwnerRules[6].under = { <<"benchmark">> }
      /\ OwnerRules[7].under = { <<"third_party", "verification", "catch2">> }
      /\ OwnerRules[8].under = { <<"third_party", "verification", "google_benchmark">> }
      /\ OwnerRules[10].under = { <<".clang-format">> }
  BY DEF OwnerRules
<1>4. Under(path, OwnerRules[4].under) <=>
                \/ StartsTwo(path.at, "test", "CMakeLists.txt")
                \/ StartsTwo(path.at, "test", "fuzz")
                \/ StartsTwo(path.at, "test", "support")
                \/ StartsTwo(path.at, "test", "cmake")
  <2>1. Under(path, OwnerRules[4].under) <=>
          \/ IsPrefix(<<"test", "CMakeLists.txt">>, path.at)
          \/ IsPrefix(<<"test", "fuzz">>, path.at)
          \/ IsPrefix(<<"test", "support">>, path.at)
          \/ IsPrefix(<<"test", "cmake">>, path.at)
    BY <1>1, Zenon DEF Under
  <2>2. QED
    BY <2>1, PrefixOfTwo, Zenon
<1>5. Under(path, OwnerRules[5].under) <=> Starts(path.at, "test")
  BY <1>1, PrefixOfOne, Zenon DEF Under
<1>6. Under(path, OwnerRules[6].under) <=> Starts(path.at, "benchmark")
  BY <1>1, PrefixOfOne, Zenon DEF Under
<1>7. Under(path, OwnerRules[7].under) <=>
        StartsThree(path.at, "third_party", "verification", "catch2")
  BY <1>1, PrefixOfThree, Zenon DEF Under
<1>8. Under(path, OwnerRules[8].under) <=>
        StartsThree(path.at, "third_party", "verification", "google_benchmark")
  BY <1>1, PrefixOfThree, Zenon DEF Under
<1>10. Under(path, OwnerRules[10].under) <=> Starts(path.at, ".clang-format")
  BY <1>1, PrefixOfOne, Zenon DEF Under
<1>11. QED
  BY <1>4, <1>5, <1>6, <1>7, <1>8, <1>10

\* The components that the inputs of the owners begin with.
LEMMA InputsOverlap ==
    ASSUME NEW path, Len(path.at) \in Nat
    PROVE  /\ Under(path, Library \cup BuildFiles) <=>
                \/ Starts(path.at, "include") \/ Starts(path.at, "single_include")
                \/ Starts(path.at, "cmake") \/ Starts(path.at, "CMakeLists.txt")
                \/ Starts(path.at, "csv2Config.cmake.in") \/ Starts(path.at, "csv2.pc.in")
           /\ Under(path, Benchmarks) <=>
                \/ Starts(path.at, "benchmark")
                \/ StartsThree(path.at, "third_party", "verification", "google_benchmark")
           /\ Under(path, Tests) <=>
                \/ Starts(path.at, "test")
                \/ StartsThree(path.at, "third_party", "verification", "catch2")
           /\ Under(path, FuzzTests) <=>
                \/ StartsTwo(path.at, "test", "CMakeLists.txt")
                \/ StartsTwo(path.at, "test", "cmake")
                \/ StartsTwo(path.at, "test", "support")
                \/ StartsTwo(path.at, "test", "fuzz")
           /\ Under(path, { <<".clang-format">> }) <=> Starts(path.at, ".clang-format")
<1>1. Under(path, Library \cup BuildFiles) <=>
                \/ IsPrefix(<<"include">>, path.at) \/ IsPrefix(<<"single_include">>, path.at)
                \/ IsPrefix(<<"cmake">>, path.at) \/ IsPrefix(<<"CMakeLists.txt">>, path.at)
                \/ IsPrefix(<<"csv2Config.cmake.in">>, path.at)
                \/ IsPrefix(<<"csv2.pc.in">>, path.at)
  BY Zenon DEF Under, Library, BuildFiles
<1>2. Under(path, Benchmarks) <=>
                \/ IsPrefix(<<"benchmark">>, path.at)
                \/ IsPrefix(<<"third_party", "verification", "google_benchmark">>, path.at)
  BY Zenon DEF Under, Benchmarks
<1>3. Under(path, Tests) <=>
                \/ IsPrefix(<<"test">>, path.at)
                \/ IsPrefix(<<"third_party", "verification", "catch2">>, path.at)
  BY Zenon DEF Under, Tests
<1>4. Under(path, FuzzTests) <=>
                \/ IsPrefix(<<"test", "CMakeLists.txt">>, path.at)
                \/ IsPrefix(<<"test", "cmake">>, path.at)
                \/ IsPrefix(<<"test", "support">>, path.at)
                \/ IsPrefix(<<"test", "fuzz">>, path.at)
  BY Zenon DEF Under, FuzzTests
<1>5. Under(path, { <<".clang-format">> }) <=> IsPrefix(<<".clang-format">>, path.at)
  BY Zenon DEF Under
<1>6. QED
  BY <1>1, <1>2, <1>3, <1>4, <1>5, PrefixOfOne, PrefixOfTwo, PrefixOfThree, Zenon

\* The first of the rules that match.
LEMMA FirstRule ==
    ASSUME NEW S \in SUBSET Nat, S # {}
    PROVE  Min(S) \in S /\ \A r \in S : Min(S) <= r
<1>1. \E m \in S : \A r \in S : ~ (<<r, m>> \in OpToRel(<, Nat))
  BY NatLessThanWellFounded, WFMin
<1>2. \A m, r \in S : ~ (<<r, m>> \in OpToRel(<, Nat)) => m <= r
  BY DEF OpToRel
<1>3. \E m \in S : \A r \in S : m <= r
  BY <1>1, <1>2
<1>4. QED
  BY <1>3, Zenon DEF Min

\* Rules select owners and nothing else.
LEMMA SelectsOwners ==
    ASSUME NEW path
    PROVE  SelectedBy(path) \in SUBSET Owners
<1> DEFINE matching == {r \in DOMAIN OwnerRules : Under(path, OwnerRules[r].under)}
<1>1. DOMAIN OwnerRules = 1 .. 10 /\ \A r \in 1 .. 10 : OwnerRules[r].owners \in SUBSET Owners
  BY DEF OwnerRules, Owners
<1>2. matching # {} => Min(matching) \in 1 .. 10
  BY <1>1, FirstRule
<1>3. SelectedBy(path) = IF matching = {} THEN Owners ELSE OwnerRules[Min(matching)].owners
  BY DEF SelectedBy
<1>4. QED
  BY <1>1, <1>2, <1>3

\* The directories that each owner reads.
LEMMA InputsOfOwner ==
    ASSUME NEW path, NEW owner \in Owners, Under(path, Inputs[owner])
    PROVE  /\ owner = "quick" => \/ Under(path, Library \cup BuildFiles) \/ Under(path, Tests)
                                 \/ Under(path, { <<".clang-format">> })
           /\ owner \in {"benchmark", "perf"} =>
                \/ Under(path, Library \cup BuildFiles) \/ Under(path, Benchmarks)
           /\ owner = "fuzz" =>
                \/ Under(path, Library \cup BuildFiles) \/ Under(path, Benchmarks)
                \/ Under(path, FuzzTests)
           /\ owner = "full" =>
                \/ Under(path, Library \cup BuildFiles) \/ Under(path, Benchmarks)
                \/ Under(path, Tests) \/ Under(path, { <<".clang-format">> })
<1>1. PICK d \in Inputs[owner] : IsPrefix(d, path.at)
  BY DEF Under
<1>2. \A directories : d \in directories => Under(path, directories)
  BY <1>1 DEF Under
<1>3. CASE owner = "quick"
  <2>1. d \in Library \cup BuildFiles \/ d \in Tests \/ d \in { <<".clang-format">> }
    BY <1>1, <1>3 DEF Inputs
  <2>2. QED
    BY <1>2, <1>3, <2>1
<1>4. CASE owner \in {"benchmark", "perf"}
  <2>1. d \in Library \cup BuildFiles \/ d \in Benchmarks
    BY <1>1, <1>4 DEF Inputs
  <2>2. QED
    BY <1>2, <1>4, <2>1
<1>5. CASE owner = "fuzz"
  <2>1. d \in Library \cup BuildFiles \/ d \in Benchmarks \/ d \in FuzzTests
    BY <1>1, <1>5 DEF Inputs
  <2>2. QED
    BY <1>2, <1>5, <2>1
<1>6. CASE owner = "full"
  <2>1. \/ d \in Library \cup BuildFiles \/ d \in Benchmarks \/ d \in Tests
        \/ d \in { <<".clang-format">> }
    BY <1>1, <1>6 DEF Inputs
  <2>2. QED
    BY <1>2, <1>6, <2>1
<1>7. QED
  BY <1>3, <1>4, <1>5, <1>6 DEF Owners

\* The rule that decides of a path selects every owner that reads it: a rule for
\* a directory that fewer owners need comes after the rules for what they read in it.
LEMMA ReadersAreSelected ==
    ASSUME NEW path, Len(path.at) \in Nat, NEW owner \in Owners, Under(path, Inputs[owner])
    PROVE  owner \in SelectedBy(path)
<1> DEFINE matching == {r \in DOMAIN OwnerRules : Under(path, OwnerRules[r].under)}
           first == Min(matching)
<1>1. DOMAIN OwnerRules = 1 .. 10
  BY DEF OwnerRules
<1>2. SelectedBy(path) = IF matching = {} THEN Owners ELSE OwnerRules[first].owners
  BY DEF SelectedBy
<1>3. SUFFICES ASSUME matching # {} PROVE owner \in OwnerRules[first].owners
  BY <1>2
<1>4. /\ first \in 1 .. 10 /\ Under(path, OwnerRules[first].under)
      /\ \A r \in 1 .. 10 : Under(path, OwnerRules[r].under) => first <= r
  <2>1. matching \in SUBSET Nat
    BY <1>1
  <2>2. first \in matching /\ \A r \in matching : first <= r
    BY <2>1, <1>3, FirstRule
  <2>3. QED
    BY <2>2, <1>1
<1> HIDE DEF first, matching
<1>5. /\ OwnerRules[1].owners = Owners /\ OwnerRules[2].owners = Owners
      /\ OwnerRules[3].owners = Owners /\ OwnerRules[9].owners = Owners
      /\ OwnerRules[4].owners = {"quick", "fuzz", "full"}
      /\ OwnerRules[5].owners = {"quick", "full"}
      /\ OwnerRules[6].owners = {"benchmark", "fuzz", "perf", "full"}
      /\ OwnerRules[7].owners = {"quick", "full"}
      /\ OwnerRules[8].owners = {"benchmark", "fuzz", "perf", "full"}
      /\ OwnerRules[10].owners = {"quick", "full"}
  BY DEF OwnerRules
<1>6. /\ owner = "quick" => \/ Under(path, Library \cup BuildFiles) \/ Under(path, Tests)
                            \/ Under(path, { <<".clang-format">> })
      /\ owner \in {"benchmark", "perf"} =>
            Under(path, Library \cup BuildFiles) \/ Under(path, Benchmarks)
      /\ owner = "fuzz" => \/ Under(path, Library \cup BuildFiles) \/ Under(path, Benchmarks)
                           \/ Under(path, FuzzTests)
      /\ owner = "full" => \/ Under(path, Library \cup BuildFiles) \/ Under(path, Benchmarks)
                           \/ Under(path, Tests) \/ Under(path, { <<".clang-format">> })
  BY InputsOfOwner
<1>7. CASE first \in {1, 2, 3, 9}
  BY <1>5, <1>7
<1>8. CASE first = 4
  BY <1>4, <1>5, <1>6, <1>8, RulesOverlap, InputsOverlap DEF Owners, Starts, StartsTwo, StartsThree
<1>9. CASE first = 5
  <2>1. ~ Under(path, OwnerRules[4].under)
    BY <1>4, <1>9
  <2>2. QED
    BY <2>1, <1>4, <1>5, <1>6, <1>9, RulesOverlap, InputsOverlap
       DEF Owners, Starts, StartsTwo, StartsThree
<1>10. CASE first = 6
  BY <1>4, <1>5, <1>6, <1>10, RulesOverlap, InputsOverlap DEF Owners, Starts, StartsTwo, StartsThree
<1>11. CASE first = 7
  BY <1>4, <1>5, <1>6, <1>11, RulesOverlap, InputsOverlap DEF Owners, Starts, StartsTwo, StartsThree
<1>12. CASE first = 8
  BY <1>4, <1>5, <1>6, <1>12, RulesOverlap, InputsOverlap DEF Owners, Starts, StartsTwo, StartsThree
<1>13. CASE first = 10
  BY <1>4, <1>5, <1>6, <1>13, RulesOverlap, InputsOverlap DEF Owners, Starts, StartsTwo, StartsThree
<1>14. QED
  BY <1>4, <1>7, <1>8, <1>9, <1>10, <1>11, <1>12, <1>13

\* No document that an owner reads is taken for documentation.
LEMMA ReadersReadNoDocumentation ==
    ASSUME NEW path, Len(path.at) \in Nat, NEW owner \in Owners, Reads(owner, path),
           path.suffix \in {"document", "image", "other"}
    PROVE  ~ Documentation(path)
<1>1. CASE \E d \in DataDirectories : Below(path, d)
  BY <1>1 DEF DataDirectories, ContentPathPrefixes, Documentation
<1>2. CASE path.suffix # "document"
  <2>1. SUFFICES ~ Below(path, <<"docs">>) /\ ~ Below(path, <<"img">>)
    BY <1>2 DEF Documentation
  <2>2. \/ Under(path, Library \cup BuildFiles) \/ Under(path, Tests) \/ Under(path, Benchmarks)
        \/ Under(path, FuzzTests) \/ Under(path, { <<".clang-format">> })
    BY InputsOfOwner DEF Reads, Owners
  <2>3. \E a \in {"include", "single_include", "cmake", "CMakeLists.txt", "csv2Config.cmake.in",
                "csv2.pc.in", "benchmark", "third_party", "test", ".clang-format"} :
            path.at[1] = a
    BY <2>2, InputsOverlap, Zenon DEF Starts, StartsTwo, StartsThree
  <2>4. QED
    BY <2>3, PrefixOfOne DEF Below, IsStrictPrefix, Starts
<1>3. QED
  BY <1>1, <1>2 DEF Reads

-----------------------------------------------------------------------------
(* The selection.                                                          *)

ClassifyTypeOK ==
    /\ event \in Events
    /\ changed \in Seq(Paths)
    /\ classify \in {"start", "loop", "done"}
    /\ next \in IF classify = "loop" THEN Nat \ {0} ELSE {1}
    /\ selected \in SUBSET Owners
    /\ plan \in IF classify = "done" THEN SUBSET Owners ELSE {NoPlan}

\* The loop has selected whatever reads one of the paths behind it.
PassedAreSelected ==
    classify = "loop" =>
        /\ changed # <<>>
        /\ \A k \in DOMAIN changed, owner \in Owners :
              k < next /\ Reads(owner, changed[k]) => owner \in selected

\* Where nothing changed everything is planned.
EmptyIsUnknown == classify = "done" /\ changed = <<>> => plan = RequiredPlan(Owners)

ClassifyInv == ClassifyTypeOK /\ PassedAreSelected /\ EmptyIsUnknown /\ PlanCoversPatch

\* Nothing is selected or planned at first.
LEMMA ClassifyInvInit == ClassifyInit => ClassifyInv
<1>1. SUFFICES ASSUME ClassifyInit PROVE ClassifyInv
  OBVIOUS
<1>2. changed \in Seq(Paths)
  BY MaxPathsAssumption, <1>1 DEF ClassifyInit, BoundedSeq, SeqOf
<1>3. QED
  BY <1>1, <1>2 DEF ClassifyInit, ClassifyInv, ClassifyTypeOK, PassedAreSelected, EmptyIsUnknown,
     PlanCoversPatch

\* What the classification may assume of a path of the patch.
LEMMA ChangedPath ==
    ASSUME ClassifyInv, NEW k \in DOMAIN changed
    PROVE  /\ Len(changed[k].at) \in Nat
           /\ changed[k].suffix \in {"document", "image", "other"}
<1>1. changed[k] \in Paths
  BY DEF ClassifyInv, ClassifyTypeOK
<1>2. QED
  BY <1>1, PathsAssumption

\* A plan of every owner covers any patch.
LEMMA EveryOwnerCovers ==
    ASSUME ClassifyInv, Emit(Owners)
    PROVE  ClassifyInv'
<1>1. plan' = RequiredPlan(Owners) /\ RequiredPlan(Owners)' = RequiredPlan(Owners)
  BY DEF Emit, RequiredPlan
<1>2. ClassifyTypeOK'
  BY DEF ClassifyInv, ClassifyTypeOK, Emit, RequiredPlan
<1>3. PassedAreSelected' /\ EmptyIsUnknown'
  BY <1>1 DEF Emit, PassedAreSelected, EmptyIsUnknown
<1>4. PlanCoversPatch'
  BY <1>1 DEF PlanCoversPatch
<1>5. QED
  BY <1>2, <1>3, <1>4 DEF ClassifyInv

\* One step of the loop, past the path it is at.
LEMMA LoopStep ==
    ASSUME ClassifyInv, classify = "loop", next <= Len(changed),
           next' = next + 1, UNCHANGED <<event, changed, classify, plan>>,
           selected' \in SUBSET Owners, selected \subseteq selected',
           \A owner \in Owners : Reads(owner, changed[next]) => owner \in selected'
    PROVE  ClassifyInv'
<1>1. ClassifyTypeOK'
  BY DEF ClassifyInv, ClassifyTypeOK
<1>2. PassedAreSelected'
  <2>1. SUFFICES ASSUME NEW k \in DOMAIN changed, NEW owner \in Owners, k < next + 1,
                        Reads(owner, changed[k])
                 PROVE  owner \in selected'
    BY DEF PassedAreSelected, ClassifyInv
  <2>2. k < next \/ k = next
    BY <2>1 DEF ClassifyInv, ClassifyTypeOK
  <2>3. QED
    BY <2>1, <2>2 DEF PassedAreSelected, ClassifyInv
<1>3. EmptyIsUnknown' /\ PlanCoversPatch'
  BY DEF EmptyIsUnknown, PlanCoversPatch, ClassifyInv, ClassifyTypeOK
<1>4. QED
  BY <1>1, <1>2, <1>3 DEF ClassifyInv

\* Every way through classify_paths, and a diff that git cannot give.
LEMMA ClassifyInvStep ==
    ASSUME ClassifyInv, ClassifyPaths \/ Unreadable
    PROVE  ClassifyInv'
<1>1. CASE Unreadable \/ NothingKnown \/ ReturnEveryOwner
  BY <1>1, EveryOwnerCovers DEF Unreadable, NothingKnown, ReturnEveryOwner
<1>2. CASE DocumentationOnly
  <2>1. \A k \in DOMAIN changed, owner \in Owners : ~ Reads(owner, changed[k])
    BY <1>2, ChangedPath, ReadersReadNoDocumentation DEF DocumentationOnly
  <2>2. ClassifyTypeOK' /\ PassedAreSelected' /\ EmptyIsUnknown'
    BY <1>2 DEF DocumentationOnly, Emit, RequiredPlan, ClassifyInv, ClassifyTypeOK,
       PassedAreSelected, EmptyIsUnknown
  <2>3. PlanCoversPatch'
    BY <1>2, <2>1 DEF DocumentationOnly, Emit, PlanCoversPatch
  <2>4. QED
    BY <2>2, <2>3 DEF ClassifyInv
<1>3. CASE EnterLoop
  <2>1. ClassifyTypeOK' /\ EmptyIsUnknown' /\ PlanCoversPatch'
    BY <1>3 DEF EnterLoop, ClassifyInv, ClassifyTypeOK, EmptyIsUnknown, PlanCoversPatch
  <2>2. PassedAreSelected'
    BY <1>3 DEF EnterLoop, ClassifyInv, ClassifyTypeOK, PassedAreSelected
  <2>3. QED
    BY <2>1, <2>2 DEF ClassifyInv
<1>4. CASE SkipDocument
  <2>1. next \in DOMAIN changed
    BY <1>4 DEF SkipDocument, ClassifyInv, ClassifyTypeOK
  <2>2. \A owner \in Owners : ~ Reads(owner, changed[next])
    BY <1>4, <2>1, ChangedPath, ReadersReadNoDocumentation DEF SkipDocument
  <2>3. QED
    BY <1>4, <2>2, LoopStep DEF SkipDocument, ClassifyInv, ClassifyTypeOK
<1>5. CASE SelectOwners
  <2>1. next \in DOMAIN changed
    BY <1>5 DEF SelectOwners, ClassifyInv, ClassifyTypeOK
  <2>2. \A owner \in Owners : Reads(owner, changed[next]) => owner \in SelectedBy(changed[next])
    BY <2>1, ChangedPath, ReadersAreSelected DEF Reads
  <2>3. SelectedBy(changed[next]) \in SUBSET Owners
    BY SelectsOwners
  <2>4. QED
    BY <1>5, <2>2, <2>3, LoopStep DEF SelectOwners, ClassifyInv, ClassifyTypeOK
<1>6. CASE EndLoop
  <2>1. \A k \in DOMAIN changed, owner \in Owners : Reads(owner, changed[k]) => owner \in selected
    BY <1>6 DEF EndLoop, ClassifyInv, ClassifyTypeOK, PassedAreSelected
  <2>2. ClassifyTypeOK' /\ PassedAreSelected' /\ EmptyIsUnknown'
    BY <1>6 DEF EndLoop, Emit, RequiredPlan, ClassifyInv, ClassifyTypeOK, PassedAreSelected,
       EmptyIsUnknown
  <2>3. PlanCoversPatch'
    BY <1>6, <2>1 DEF EndLoop, Emit, PlanCoversPatch, RequiredPlan
  <2>4. QED
    BY <2>2, <2>3 DEF ClassifyInv
<1>7. QED
  BY <1>1, <1>2, <1>3, <1>4, <1>5, <1>6 DEF ClassifyPaths

\* The classification has a state of its own.
LEMMA ClassifyInvStutter ==
    ASSUME ClassifyInv, UNCHANGED classifyVars
    PROVE  ClassifyInv'
BY DEF classifyVars, ClassifyInv, ClassifyTypeOK, PassedAreSelected, EmptyIsUnknown,
   PlanCoversPatch, RequiredPlan

\* classify_changes.py, for every patch: an owner that reads a file the patch
\* changes is in the plan (classify_paths, required_plan).
THEOREM PlanCoversEveryPatch == ClassifySpec => []PlanCoversPatch
<1>1. ClassifyInv /\ [ClassifyNext]_classifyVars => ClassifyInv'
  BY ClassifyInvStep, ClassifyInvStutter DEF ClassifyNext, Classified
<1>2. ClassifyInv => PlanCoversPatch
  BY DEF ClassifyInv
<1>3. QED
  BY <1>1, <1>2, ClassifyInvInit, PTL DEF ClassifySpec

-----------------------------------------------------------------------------
(* The selection is no larger than it has to be.                           *)

\* What owners have to themselves, by its first components.
LEMMA NotShared ==
    ASSUME NEW path, Len(path.at) \in Nat
    PROVE  Under(path, Benchmarks \cup Tests \cup { <<".clang-format">> }) <=>
                \/ Starts(path.at, "benchmark") \/ Starts(path.at, "test")
                \/ Starts(path.at, ".clang-format")
                \/ StartsThree(path.at, "third_party", "verification", "google_benchmark")
                \/ StartsThree(path.at, "third_party", "verification", "catch2")
<1>1. Under(path, Benchmarks \cup Tests \cup { <<".clang-format">> }) <=>
          \/ Under(path, Benchmarks) \/ Under(path, Tests) \/ Under(path, { <<".clang-format">> })
  BY Zenon DEF Under
<1>2. QED
  BY <1>1, InputsOverlap

\* The rules that select every owner are for paths that are nobody's own.
LEMMA RulesForAll ==
    ASSUME NEW path, Len(path.at) \in Nat
    PROVE  /\ Under(path, OwnerRules[1].under) =>
                \/ Starts(path.at, ".github") \/ Starts(path.at, "tools")
                \/ Starts(path.at, "cmake") \/ Starts(path.at, "CMakeLists.txt")
                \/ Starts(path.at, "csv2Config.cmake.in") \/ Starts(path.at, "csv2.pc.in")
           /\ Under(path, OwnerRules[2].under) =>
                Starts(path.at, "include") \/ Starts(path.at, "single_include")
           /\ Under(path, OwnerRules[3].under) => Shared(path)
           /\ Under(path, OwnerRules[9].under) =>
                Starts(path.at, "third_party") \/ Starts(path.at, "tools")
<1>1. /\ OwnerRules[1].under =
            { <<".github", "workflows">>, <<"tools", "ci">>, <<"cmake">>, <<"CMakeLists.txt">>,
              <<"csv2Config.cmake.in">>, <<"csv2.pc.in">> }
      /\ OwnerRules[2].under = { <<"include">>, <<"single_include">> }
      /\ OwnerRules[3].under = { <<"test", "fixtures">> }
      /\ OwnerRules[9].under = { <<"third_party", "verification">>, <<"tools", "vendor">> }
  BY DEF OwnerRules
<1>2. \A a, b : StartsTwo(path.at, a, b) => Starts(path.at, a)
  BY DEF StartsTwo, Starts
<1>3. Under(path, OwnerRules[1].under) =>
          \/ IsPrefix(<<".github", "workflows">>, path.at) \/ IsPrefix(<<"tools", "ci">>, path.at)
          \/ IsPrefix(<<"cmake">>, path.at) \/ IsPrefix(<<"CMakeLists.txt">>, path.at)
          \/ IsPrefix(<<"csv2Config.cmake.in">>, path.at) \/ IsPrefix(<<"csv2.pc.in">>, path.at)
  BY <1>1, Zenon DEF Under
<1>4. Under(path, OwnerRules[2].under) =>
          IsPrefix(<<"include">>, path.at) \/ IsPrefix(<<"single_include">>, path.at)
  BY <1>1, Zenon DEF Under
<1>5. Under(path, OwnerRules[9].under) =>
          \/ IsPrefix(<<"third_party", "verification">>, path.at)
          \/ IsPrefix(<<"tools", "vendor">>, path.at)
  BY <1>1, Zenon DEF Under
<1>6. Under(path, OwnerRules[3].under) => Shared(path)
  BY <1>1, Zenon DEF Shared
<1>7. QED
  BY <1>2, <1>3, <1>4, <1>5, <1>6, PrefixOfOne, PrefixOfTwo, Zenon

\* The rule that decides of a path selects those that have it among their
\* inputs, unless it concerns every owner.
LEMMA SelectedHaveInput ==
    ASSUME NEW path, Len(path.at) \in Nat, NEW owner \in SelectedBy(path)
    PROVE  Shared(path) \/ Under(path, Inputs[owner])
<1> DEFINE matching == {r \in DOMAIN OwnerRules : Under(path, OwnerRules[r].under)}
           first == Min(matching)
<1>1. DOMAIN OwnerRules = 1 .. 10
  BY DEF OwnerRules
<1>2. SelectedBy(path) = IF matching = {} THEN Owners ELSE OwnerRules[first].owners
  BY DEF SelectedBy
<1>3. /\ ~ Under(path, Benchmarks \cup Tests \cup { <<".clang-format">> }) => Shared(path)
      /\ \A D, E : D \subseteq E /\ Under(path, D) => Under(path, E)
  BY DEF Shared, Under
<1>4. CASE matching = {}
  <2>1. /\ ~ Under(path, OwnerRules[5].under) /\ ~ Under(path, OwnerRules[6].under)
        /\ ~ Under(path, OwnerRules[7].under) /\ ~ Under(path, OwnerRules[8].under)
        /\ ~ Under(path, OwnerRules[10].under)
    BY <1>1, <1>4
  <2>2. QED
    BY <2>1, <1>3, RulesOverlap, NotShared
<1>5. SUFFICES ASSUME matching # {} PROVE Shared(path) \/ Under(path, Inputs[owner])
  BY <1>4
<1>6. /\ first \in 1 .. 10 /\ Under(path, OwnerRules[first].under)
      /\ \A r \in 1 .. 10 : Under(path, OwnerRules[r].under) => first <= r
  <2>1. matching \in SUBSET Nat
    BY <1>1
  <2>2. first \in matching /\ \A r \in matching : first <= r
    BY <2>1, <1>5, FirstRule
  <2>3. QED
    BY <2>2, <1>1
<1>7. owner \in OwnerRules[first].owners
  BY <1>2, <1>5
<1> HIDE DEF first, matching
<1>8. CASE first \in {1, 2, 3}
  BY <1>3, <1>6, <1>8, RulesForAll, NotShared DEF Starts, StartsThree
<1>9. CASE first = 9
  <2>1. ~ Under(path, OwnerRules[7].under) /\ ~ Under(path, OwnerRules[8].under)
    BY <1>6, <1>9
  <2>2. QED
    BY <2>1, <1>3, <1>6, <1>9, RulesForAll, RulesOverlap, NotShared DEF Starts
<1>10. CASE first = 4
  <2>1. owner \in {"quick", "fuzz", "full"}
    BY <1>7, <1>10 DEF OwnerRules
  <2>2. Under(path, Tests) /\ Under(path, FuzzTests)
    BY <1>6, <1>10, RulesOverlap, InputsOverlap DEF Starts, StartsTwo
  <2>3. Tests \subseteq Inputs[owner] \/ FuzzTests \subseteq Inputs[owner]
    BY <2>1 DEF Inputs
  <2>4. QED
    BY <2>2, <2>3, <1>3
<1>11. CASE first \in {5, 7}
  <2>1. owner \in {"quick", "full"}
    BY <1>7, <1>11 DEF OwnerRules
  <2>2. Under(path, Tests)
    BY <1>6, <1>11, RulesOverlap, InputsOverlap
  <2>3. Tests \subseteq Inputs[owner]
    BY <2>1 DEF Inputs
  <2>4. QED
    BY <2>2, <2>3, <1>3
<1>12. CASE first \in {6, 8}
  <2>1. owner \in {"benchmark", "fuzz", "perf", "full"}
    BY <1>7, <1>12 DEF OwnerRules
  <2>2. Under(path, Benchmarks)
    BY <1>6, <1>12, RulesOverlap, InputsOverlap
  <2>3. Benchmarks \subseteq Inputs[owner]
    BY <2>1 DEF Inputs
  <2>4. QED
    BY <2>2, <2>3, <1>3
<1>13. CASE first = 10
  <2>1. owner \in {"quick", "full"}
    BY <1>7, <1>13 DEF OwnerRules
  <2>2. Under(path, { <<".clang-format">> })
    BY <1>6, <1>13, RulesOverlap, InputsOverlap
  <2>3. { <<".clang-format">> } \subseteq Inputs[owner]
    BY <2>1 DEF Inputs
  <2>4. QED
    BY <2>2, <2>3, <1>3
<1>14. QED
  BY <1>6, <1>8, <1>9, <1>10, <1>11, <1>12, <1>13

\* A path of the patch that gives an owner something to do.
Reason(path, owner) ==
    /\ path.suffix # "document" \/ Under(path, DataDirectories \cup Library)
    /\ Reads(owner, path) \/ Shared(path)

\* A path that is no documentation is such for whom it selects.
LEMMA SelectedHaveReason ==
    ASSUME NEW path, Len(path.at) \in Nat, ~ Documentation(path), NEW owner \in SelectedBy(path)
    PROVE  Reason(path, owner)
<1>1. path.suffix # "document" \/ \E d \in ContentPathPrefixes : Below(path, d)
  BY DEF Documentation
<1>2. ContentPathPrefixes = DataDirectories \cup Library
  BY DEF ContentPathPrefixes, DataDirectories, Library
<1>3. path.suffix # "document" \/ Under(path, DataDirectories \cup Library)
  BY <1>1, <1>2, Zenon DEF Below, Under, IsStrictPrefix
<1>4. CASE \E d \in Library : Below(path, d)
  <2>1. Starts(path.at, "include") \/ Starts(path.at, "single_include")
    BY <1>4, PrefixOfOne, Zenon DEF Library, Below, IsStrictPrefix
  <2>2. Shared(path)
    BY <2>1, NotShared DEF Shared, Starts, StartsThree
  <2>3. QED
    BY <2>2, <1>3 DEF Reason
<1>5. CASE path.suffix # "document" \/ \E d \in DataDirectories : Below(path, d)
  BY <1>3, <1>5, SelectedHaveInput DEF Reason, Reads
<1>6. QED
  BY <1>1, <1>2, <1>4, <1>5

\* Whatever the loop has selected has a reason among the paths of the patch.
SelectedForReason ==
    \A owner \in selected : \E k \in DOMAIN changed : Reason(changed[k], owner)

\* The path that the loop is at, where it selects, is the reason.
LEMMA AddsForReason ==
    ASSUME ClassifyInv, ReturnEveryOwner \/ SelectOwners
    PROVE  /\ next \in DOMAIN changed
           /\ \A owner \in SelectedBy(changed[next]) : Reason(changed[next], owner)
<1>1. next \in DOMAIN changed /\ ~ Documentation(changed[next])
  BY DEF ReturnEveryOwner, SelectOwners, ClassifyInv, ClassifyTypeOK
<1>2. QED
  BY <1>1, ChangedPath, SelectedHaveReason

\* Every step keeps the reasons.
LEMMA ReasonStep ==
    ASSUME ClassifyInv, SelectedForReason, [ClassifyNext]_classifyVars
    PROVE  SelectedForReason'
<1>1. CASE SelectOwners
  <2>1. \A owner \in selected' : owner \in selected \/ owner \in SelectedBy(changed[next])
    BY <1>1 DEF SelectOwners
  <2>2. QED
    BY <1>1, <2>1, AddsForReason DEF SelectOwners, SelectedForReason
<1>2. CASE SkipDocument \/ UNCHANGED classifyVars
  BY <1>2 DEF SkipDocument, classifyVars, SelectedForReason
<1>3. CASE EnterLoop
  BY <1>3 DEF EnterLoop, SelectedForReason
<1>4. CASE Unreadable \/ NothingKnown \/ DocumentationOnly \/ ReturnEveryOwner \/ EndLoop
  BY <1>4 DEF Unreadable, NothingKnown, DocumentationOnly, ReturnEveryOwner, EndLoop, Emit,
     SelectedForReason
<1>5. QED
  BY <1>1, <1>2, <1>3, <1>4 DEF ClassifyNext, ClassifyPaths, Classified

\* When the paths are looked at one by one, an owner is planned only for a path
\* that it reads or that concerns every owner, and never for a document alone
\* (classify_paths, required_plan).
THEOREM OnlyReadersArePlanned == ClassifySpec => OnlyReadersRun
<1>1. ClassifyInv /\ SelectedForReason /\ [ClassifyNext]_classifyVars =>
          ClassifyInv' /\ SelectedForReason'
  BY ClassifyInvStep, ClassifyInvStutter, ReasonStep DEF ClassifyNext, Classified
<1>2. ClassifyInit => SelectedForReason
  BY DEF ClassifyInit, SelectedForReason
<1>3. ASSUME ClassifyInv, SelectedForReason, [ClassifyNext]_classifyVars
      PROVE  [classify = "loop" /\ classify' = "done" =>
                \A owner \in plan' : \E k \in DOMAIN changed : Reason(changed[k], owner)
             ]_classifyVars
  <2>1. SUFFICES ASSUME ClassifyNext, classify = "loop", classify' = "done", NEW owner \in plan'
                 PROVE  \E k \in DOMAIN changed : Reason(changed[k], owner)
    BY <1>3
  <2>2. CASE ReturnEveryOwner
    <3>1. owner \in SelectedBy(changed[next])
      BY <2>1, <2>2 DEF ReturnEveryOwner, Emit, RequiredPlan
    <3>2. QED
      BY <2>2, <3>1, <1>3, AddsForReason
  <2>3. CASE EndLoop
    <3>1. owner \in selected
      BY <2>1, <2>3 DEF EndLoop, Emit, RequiredPlan
    <3>2. QED
      BY <2>1, <3>1, <1>3 DEF SelectedForReason
  <2>4. ~ SkipDocument /\ ~ SelectOwners
    BY <2>1 DEF SkipDocument, SelectOwners
  <2>5. ~ Unreadable /\ ~ NothingKnown /\ ~ DocumentationOnly /\ ~ EnterLoop /\ ~ Classified
    BY <2>1 DEF Unreadable, NothingKnown, DocumentationOnly, EnterLoop, Classified
  <2>6. QED
    BY <2>1, <2>2, <2>3, <2>4, <2>5 DEF ClassifyNext, ClassifyPaths
<1>4. ClassifyInv /\ SelectedForReason /\ [ClassifyNext]_classifyVars =>
        [classify = "loop" /\ classify' = "done" =>
           \A owner \in plan' : \E k \in DOMAIN changed :
              /\ changed[k].suffix # "document" \/ Under(changed[k], DataDirectories \cup Library)
              /\ Reads(owner, changed[k]) \/ Shared(changed[k])]_classifyVars
  BY <1>3 DEF Reason
<1>5. QED
  BY <1>1, <1>2, <1>4, ClassifyInvInit, PTL DEF ClassifySpec, OnlyReadersRun

-----------------------------------------------------------------------------
(* The tests behind the label.                                             *)

ManifestEntries == {line \in Range(TestManifest) : IsEntry(line)}
ManifestTests == {<<line[1], line[2]>> : line \in ManifestEntries}
TestsListed(listing) == {<<test.name, test.target>> : test \in Range(listing)}

\* Each test of a valid manifest runs the target beside it.
LEMMA ManifestBinds ==
    ASSUME TestManifestIsValid(TestManifest)
    PROVE  /\ DOMAIN TestsOf(TestManifest) = {line[1] : line \in ManifestEntries}
           /\ \A line \in ManifestEntries : TestsOf(TestManifest)[line[1]] = line[2]
<1>1. TestsOf(TestManifest) =
        [name \in {e[1] : e \in ManifestEntries} |->
            (CHOOSE e \in ManifestEntries : e[1] = name)[2]]
  BY DEF TestsOf, ManifestEntries
<1>2. \A e, f \in ManifestEntries : e[1] = f[1] => e = f
  <2>1. SUFFICES ASSUME NEW e \in ManifestEntries, NEW f \in ManifestEntries, e[1] = f[1]
                 PROVE  e = f
    OBVIOUS
  <2>2. PICK j \in DOMAIN TestManifest : TestManifest[j] = e
    BY DEF Range, ManifestEntries
  <2>3. PICK k \in DOMAIN TestManifest : TestManifest[k] = f
    BY DEF Range, ManifestEntries
  <2>4. QED
    BY <2>1, <2>2, <2>3 DEF TestManifestIsValid, ManifestEntries
<1>3. \A e \in ManifestEntries : (CHOOSE f \in ManifestEntries : f[1] = e[1]) = e
  BY <1>2
<1>4. QED
  BY <1>1, <1>3

\* Each test of a valid list runs the target that the list says.
LEMMA ListingBinds ==
    ASSUME NEW listing, DOMAIN listing = 1 .. Len(listing),
           EntriesAreValid(listing, SmokeLabel)
    PROVE  /\ DOMAIN ActualTests(listing) = {test.name : test \in Range(listing)}
           /\ \A test \in Range(listing) : ActualTests(listing)[test.name] = test.target
<1>1. DOMAIN ActualTests(listing) = {test.name : test \in Range(listing)}
  BY DEF ActualTests
<1>2. ASSUME NEW test \in Range(listing)
      PROVE  ActualTests(listing)[test.name] = test.target
  <2>1. PICK k \in DOMAIN listing : listing[k] = test
    BY DEF Range
  <2>2. {j \in DOMAIN listing : listing[j].name = test.name} = {k}
    BY <2>1 DEF EntriesAreValid
  <2>3. Max({k}) = k
    BY <2>1 DEF Max
  <2>4. ActualTests(listing)[test.name] =
          listing[Max({j \in DOMAIN listing : listing[j].name = test.name})].target
    BY DEF ActualTests
  <2>5. QED
    BY <2>1, <2>2, <2>3, <2>4
<1>3. QED
  BY <1>1, <1>2

\* A list that passes holds the tests of the manifest, each with its target.
LEMMA InventoryIsExact ==
    ASSUME NEW tests \in VerifiedTests
    PROVE  tests = ManifestTests
<1>1. PICK listing \in Listings, manifest \in TargetManifests :
         /\ InventoryVerified(listing, SmokeLabel, manifest, TestManifest)
         /\ tests = TestsListed(listing)
  BY DEF VerifiedTests, TestsListed
<1> DEFINE expected == TestsOf(TestManifest)
           actual == ActualTests(listing)
<1>2. /\ TestManifestIsValid(TestManifest) /\ listing # Garbled
      /\ EntriesAreValid(listing, SmokeLabel) /\ SameTests(expected, actual)
  BY <1>1 DEF InventoryVerified, VerifyInventory
<1>3. /\ DOMAIN expected = {line[1] : line \in ManifestEntries}
      /\ \A line \in ManifestEntries : expected[line[1]] = line[2]
  BY <1>2, ManifestBinds
<1>4. /\ DOMAIN actual = {test.name : test \in Range(listing)}
      /\ \A test \in Range(listing) : actual[test.name] = test.target
  BY <1>2, ListingBinds, ListingsAssumption
<1>5. DOMAIN expected = DOMAIN actual /\ \A name \in DOMAIN expected : expected[name] = actual[name]
  BY <1>2 DEF SameTests
<1> HIDE DEF expected, actual
<1>6. ASSUME NEW test \in Range(listing) PROVE <<test.name, test.target>> \in ManifestTests
  <2>1. PICK line \in ManifestEntries : line[1] = test.name
    BY <1>3, <1>4, <1>5
  <2>2. line[2] = test.target
    BY <1>3, <1>4, <1>5, <2>1
  <2>3. QED
    BY <2>1, <2>2 DEF ManifestTests
<1>7. ASSUME NEW line \in ManifestEntries
      PROVE  <<line[1], line[2]>> \in TestsListed(listing)
  <2>1. line[1] \in DOMAIN expected
    BY <1>3
  <2>2. PICK test \in Range(listing) : test.name = line[1]
    BY <1>4, <1>5, <2>1
  <2>3. test.target = line[2]
    BY <1>3, <1>4, <1>5, <2>1, <2>2
  <2>4. QED
    BY <2>2, <2>3 DEF TestsListed
<1>8. QED
  BY <1>1, <1>6, <1>7 DEF ManifestTests, TestsListed

-----------------------------------------------------------------------------
(* The fuzz targets.                                                       *)

FuzzTypeOK ==
    /\ fuzz \in {"idle", "reader", "writer", "success", "failure", "raised"}
    /\ status \in [Targets -> Statuses \cup {NotRun}]
    /\ artifact \in [Targets -> Statuses \cup {NotRun}]

\* The writer's target runs only when the reader's has run and left its status.
ReaderIsRecorded ==
    fuzz = "writer" => status["reader"] \in Statuses /\ artifact["reader"] = status["reader"]

FuzzInv == FuzzTypeOK /\ ReaderIsRecorded /\ BothTargetsRun

\* No target has run at first.
LEMMA FuzzInvInit == FuzzInit => FuzzInv
BY DEF FuzzInit, FuzzInv, FuzzTypeOK, ReaderIsRecorded, BothTargetsRun

\* Either target runs, or something keeps it from being recorded.
LEMMA FuzzInvStep ==
    ASSUME FuzzInv, RunFuzzTargets
    PROVE  FuzzInv'
<1>1. CASE InvalidArguments \/ RunPair
  BY <1>1 DEF InvalidArguments, Rejected, RunPair, FuzzInv, FuzzTypeOK, ReaderIsRecorded,
     BothTargetsRun
<1>2. CASE RunTarget("reader")
  BY <1>2 DEF RunTarget, FuzzInv, FuzzTypeOK, ReaderIsRecorded, BothTargetsRun, Targets
<1>3. CASE RunTarget("writer")
  <2>1. PICK s \in Statuses : /\ status' = [status EXCEPT !["writer"] = s]
                              /\ artifact' = [artifact EXCEPT !["writer"] = s]
    BY <1>3 DEF RunTarget
  <2>2. fuzz' = IF \E t \in Targets : status'[t] # "0" THEN "failure" ELSE "success"
    BY <1>3 DEF RunTarget, Verdict
  <2>3. \A t \in Targets : status'[t] \in Statuses /\ artifact'[t] = status'[t]
    BY <1>3, <2>1 DEF RunTarget, FuzzInv, FuzzTypeOK, ReaderIsRecorded, Targets
  <2>4. FuzzTypeOK'
    BY <2>1, <2>2 DEF FuzzInv, FuzzTypeOK
  <2>5. artifact' = status'
    BY <2>3, <2>4 DEF FuzzTypeOK
  <2>6. QED
    BY <2>2, <2>3, <2>4, <2>5 DEF FuzzInv, ReaderIsRecorded, BothTargetsRun, Statuses, NotRun
<1>4. ASSUME NEW target \in Targets, CannotRecord(target) PROVE FuzzInv'
  BY <1>4 DEF CannotRecord, FuzzInv, FuzzTypeOK, ReaderIsRecorded, BothTargetsRun, Targets
<1>5. QED
  BY <1>1, <1>2, <1>3, <1>4 DEF RunFuzzTargets, Targets

-----------------------------------------------------------------------------
(* The jobs.                                                               *)

\* The range that resolve_comparison.py puts out for the event.
EventRange ==
    [base |-> Comparison!ResolvedBase(base, FALSE), force_all |-> Comparison!ForceAll(base)]

EventTypeOK ==
    /\ base \in {Comparison!Base, Comparison!Zero, Comparison!NoBase}
    /\ is_root \in BOOLEAN
    /\ base = Comparison!NoBase <=> event = "workflow_dispatch"
    /\ base = Comparison!Zero => event = "push"
    /\ base # Comparison!Base => changed = <<>>

JobsTypeOK ==
    /\ result \in [Jobs -> {"waiting", "running"} \cup Ended]
    /\ result["gate"] \in {"waiting", "success", "failure"}
    /\ result["classify"] # "skipped"
    /\ compared \in [{"classify", "preflight"} -> {NotCompared, Requested}]
    /\ ran \in [Workers -> SUBSET Owners]
    /\ smoke \in [Platforms -> VerifiedTests \cup {{}}]

\* What a job that runs has had before it.
PriorsHold ==
    /\ result["classify"] \in {"running", "success"} => range = EventRange
    /\ result["classify"] = "success" => classify = "done"
    /\ result["preflight"] \in {"running", "success"} =>
          result["classify"] = "success" /\ compared["preflight"] = Requested
    /\ \A job \in Workers :
          result[job] \in {"running", "success"} => NeedsSucceeded(job) /\ Wanted(job)

\* A plan made without a look at the patch is that of every owner.
UnseenIsUnknown ==
    compared["classify"] = NotCompared /\ classify # "start" =>
        classify = "done" /\ plan = RequiredPlan(Owners)

\* Why a job may not have run.
Cause == \E job \in Jobs \ {"gate"} : result[job] \in {"failure", "cancelled"}

SkippedForReason ==
    \A job \in Workers \cup {"preflight"} :
        result[job] = "skipped" =>
            \/ Cause
            \/ job \in Workers /\ NeedsSucceeded(job) /\ ~ Wanted(job)

\* What a job that succeeded has done.
SuccessIsEarned ==
    /\ \A job \in Platforms :
          /\ result[job] = "success" => plan \cap {"quick", "benchmark"} \subseteq ran[job]
          /\ job = "linux" /\ "quick" \in ran[job] => smoke[job] \in VerifiedTests
    /\ result["fuzz"] = "success" => "fuzz" \in ran["fuzz"] /\ fuzz = "success"
    /\ \A job \in {"full", "perf"} : result[job] = "success" => job \in ran[job]

\* The gate decides from results that do not change any more.
GateIsLast ==
    /\ result["gate"] # "waiting" => \A job \in Jobs \ {"gate"} : result[job] \in Ended
    /\ result["gate"] = "success" => \A job \in GateJobs : JobIsFine(job)

PipelineInv ==
    /\ ClassifyInv /\ FuzzInv
    /\ EventTypeOK /\ JobsTypeOK /\ PriorsHold /\ UnseenIsUnknown
    /\ SkippedForReason /\ SuccessIsEarned /\ GateIsLast /\ GateFailsOnlyForCause

\* The names of the jobs are different.
LEMMA JobNames ==
    /\ {"classify", "preflight", "gate"} \cap Workers = {}
    /\ {"fuzz", "full", "perf"} \cap Platforms = {}
    /\ Workers \subseteq Jobs /\ {"classify", "preflight", "gate"} \subseteq Jobs
    /\ Platforms \subseteq Workers /\ {"fuzz", "full", "perf"} \subseteq Workers
BY PlatformsAssumption DEF Workers, Jobs

\* No job has begun at first.
LEMMA PipelineInvInit == Init => PipelineInv
<1> SUFFICES ASSUME Init PROVE PipelineInv
  OBVIOUS
<1>1. ClassifyInv /\ FuzzInv
  BY ClassifyInvInit, FuzzInvInit DEF Init
<1>2. EventTypeOK
  <2>1. event \in Events
    BY DEF Init, ClassifyInit
  <2>2. CASE event = "workflow_dispatch"
    BY <2>2 DEF Init, EventTypeOK, Comparison!Base, Comparison!NoBase, Comparison!Zero
  <2>3. CASE event = "push"
    BY <2>3 DEF Init, EventTypeOK, Comparison!Base, Comparison!NoBase, Comparison!Zero
  <2>4. CASE event \in {"pull_request", "merge_group"}
    BY <2>4 DEF Init, EventTypeOK, Comparison!Base, Comparison!NoBase, Comparison!Zero
  <2>5. QED
    BY <2>1, <2>2, <2>3, <2>4 DEF Events
<1>3. JobsTypeOK
  <2>1. /\ result \in [Jobs -> {"waiting", "running"} \cup Ended]
        /\ result["gate"] = "waiting" /\ result["classify"] = "waiting"
    BY JobNames DEF Init
  <2>2. compared \in [{"classify", "preflight"} -> {NotCompared, Requested}]
    BY DEF Init
  <2>3. ran \in [Workers -> SUBSET Owners] /\ smoke \in [Platforms -> VerifiedTests \cup {{}}]
    BY DEF Init
  <2>4. QED
    BY <2>1, <2>2, <2>3 DEF JobsTypeOK
<1>4. PriorsHold /\ UnseenIsUnknown /\ SkippedForReason
  BY JobNames DEF Init, ClassifyInit, PriorsHold, UnseenIsUnknown, SkippedForReason
<1>5. SuccessIsEarned /\ GateIsLast /\ GateFailsOnlyForCause
  BY JobNames DEF Init, SuccessIsEarned, GateIsLast, GateFailsOnlyForCause
<1>6. QED
  BY <1>1, <1>2, <1>3, <1>4, <1>5 DEF PipelineInv

-----------------------------------------------------------------------------
(* What a step changes.                                                    *)

\* The event is the same throughout.
LEMMA EventStays == Next => UNCHANGED <<event, changed, base, is_root>>
BY DEF Next, Progress, CancelRun, EndFromOutside, Decided, ResolveRange, Classify, FinishClassify,
   CheckWhitespace, FinishPreflight, Start, RunOther, Skip, RunQuick, RunBenchmark,
   FinishPlatform, RunFuzz, FinishFuzz, FailFuzz, EvaluateGate, vars, eventVars, classifyVars,
   NothingKnown, ClassifyPaths, Unreadable, DocumentationOnly, EnterLoop, SkipDocument,
   ReturnEveryOwner, SelectOwners, EndLoop, Emit

\* Only the classify job classifies,
LEMMA ClassifyStays == Next => Classify \/ UNCHANGED classifyVars
BY DEF Next, Progress, CancelRun, EndFromOutside, Decided, ResolveRange, FinishClassify,
   CheckWhitespace, FinishPreflight, Start, RunOther, Skip, RunQuick, RunBenchmark,
   FinishPlatform, RunFuzz, FinishFuzz, FailFuzz, EvaluateGate, vars

\* only the fuzz job runs fuzz targets,
LEMMA FuzzStays == Next => RunFuzz \/ UNCHANGED fuzzVars
BY DEF Next, Progress, CancelRun, EndFromOutside, Decided, ResolveRange, Classify, FinishClassify,
   CheckWhitespace, FinishPreflight, Start, RunOther, Skip, RunQuick, RunBenchmark,
   FinishPlatform, FinishFuzz, FailFuzz, EvaluateGate, vars

\* only the classify job puts out a range,
LEMMA RangeStays == Next => ResolveRange \/ UNCHANGED range
BY DEF Next, Progress, CancelRun, EndFromOutside, Decided, Classify, FinishClassify,
   CheckWhitespace, FinishPreflight, Start, RunOther, Skip, RunQuick, RunBenchmark,
   FinishPlatform, RunFuzz, FinishFuzz, FailFuzz, EvaluateGate, vars, jobVars

\* and only it and preflight compare.
LEMMA ComparedStays == Next => Classify \/ CheckWhitespace \/ UNCHANGED compared
BY DEF Next, Progress, CancelRun, EndFromOutside, Decided, ResolveRange, FinishClassify,
   FinishPreflight, Start, RunOther, Skip, RunQuick, RunBenchmark,
   FinishPlatform, RunFuzz, FinishFuzz, FailFuzz, EvaluateGate, vars, jobVars

\* The jobs of the owners alone do work.
LEMMA WorkStays ==
    Next => \/ UNCHANGED <<ran, smoke>>
            \/ \E job \in Workers : RunOther(job)
            \/ \E job \in Platforms : RunQuick(job) \/ RunBenchmark(job)
            \/ FinishFuzz
BY DEF Next, Progress, CancelRun, EndFromOutside, Decided, ResolveRange, Classify, FinishClassify,
   CheckWhitespace, FinishPreflight, Start, Skip,
   FinishPlatform, RunFuzz, FailFuzz, EvaluateGate, vars, jobVars

\* How one job's result changes.
JobMoves(job) ==
    \/ job = "classify" /\ (ResolveRange \/ FinishClassify)
    \/ job = "preflight" /\ (CheckWhitespace \/ FinishPreflight)
    \/ job \in Workers /\ (Start(job) \/ RunOther(job))
    \/ job \in Workers \cup {"preflight"} /\ Skip(job)
    \/ job \in Platforms /\ FinishPlatform(job)
    \/ job = "fuzz" /\ (FinishFuzz \/ FailFuzz)
    \/ job = "gate" /\ EvaluateGate
    \/ job # "gate" /\ result[job] = "waiting" /\ CancelRun
    \/ EndFromOutside(job)

\* A result changes in no other way.
LEMMA ResultsStay ==
    ASSUME JobsTypeOK, Next, NEW job \in Jobs
    PROVE  result'[job] = result[job] \/ JobMoves(job)
<1>1. result \in [Jobs -> {"waiting", "running"} \cup Ended]
  BY DEF JobsTypeOK
<1>2. CASE ResolveRange \/ FinishClassify
  BY <1>1, <1>2 DEF ResolveRange, FinishClassify, JobMoves
<1>3. CASE CheckWhitespace \/ FinishPreflight
  BY <1>1, <1>3 DEF CheckWhitespace, FinishPreflight, JobMoves
<1>4. ASSUME NEW j \in Workers, Start(j) \/ RunOther(j)
      PROVE  result'[job] = result[job] \/ JobMoves(job)
  BY <1>1, <1>4 DEF Start, RunOther, JobMoves
<1>5. ASSUME NEW j \in Workers \cup {"preflight"}, Skip(j)
      PROVE  result'[job] = result[job] \/ JobMoves(job)
  BY <1>1, <1>5 DEF Skip, JobMoves
<1>6. ASSUME NEW j \in Platforms, RunQuick(j) \/ RunBenchmark(j) \/ FinishPlatform(j)
      PROVE  result'[job] = result[job] \/ JobMoves(job)
  BY <1>1, <1>6 DEF RunQuick, RunBenchmark, FinishPlatform, JobMoves
<1>7. CASE FinishFuzz \/ FailFuzz
  BY <1>1, <1>7 DEF FinishFuzz, FailFuzz, JobMoves
<1>8. CASE EvaluateGate
  BY <1>1, <1>8 DEF EvaluateGate, JobMoves
<1>9. CASE CancelRun
  BY <1>1, <1>9 DEF CancelRun, JobMoves
<1>10. ASSUME NEW j \in Jobs, EndFromOutside(j)
       PROVE  result'[job] = result[job] \/ JobMoves(job)
  BY <1>1, <1>10 DEF EndFromOutside, JobMoves
<1>11. CASE Classify \/ RunFuzz \/ Decided
  BY <1>11 DEF Classify, RunFuzz, Decided, vars, jobVars
<1>12. QED
  BY <1>2, <1>3, <1>4, <1>5, <1>6, <1>7, <1>8, <1>9, <1>10, <1>11 DEF Next, Progress

\* A result changes only before it is there.
LEMMA EndedStays ==
    ASSUME JobsTypeOK, Next, NEW job \in Jobs, result[job] \in Ended
    PROVE  result'[job] = result[job]
<1>1. ~ JobMoves(job)
  BY DEF JobMoves, Ended, ResolveRange, FinishClassify, CheckWhitespace, FinishPreflight, Start,
     RunOther, Skip, FinishPlatform, FinishFuzz, FailFuzz, EvaluateGate, CancelRun, EndFromOutside
<1>2. QED
  BY <1>1, ResultsStay

-----------------------------------------------------------------------------
(* Each part of the invariant.                                             *)

\* What depends on the event alone.
LEMMA RequestStays ==
    ASSUME Next
    PROVE  /\ Requested' = Requested /\ EventRange' = EventRange
           /\ RequiredPlan(Owners)' = RequiredPlan(Owners)
BY EventStays DEF Requested, RequestedFrom, EventRange, RequiredPlan, Comparison!ResolvedBase,
   Comparison!FirstParent, Comparison!ForceAll, Comparison!Mode

\* The classify job compares what the event asks for, when it compares at all.
LEMMA ClassifyCompares ==
    ASSUME EventTypeOK, range = EventRange, ~ range.force_all
    PROVE  Comparison!Between(range.base, event \in {"pull_request", "merge_group"}) = Requested
<1>1. event # "workflow_dispatch" /\ base # Comparison!Zero
  BY DEF EventRange, Comparison!ForceAll, Comparison!Mode
<1>2. range.base = base
  BY <1>1 DEF EventRange, Comparison!ResolvedBase
<1>3. QED
  BY <1>1, <1>2 DEF Requested, RequestedFrom, Comparison!Between

\* The whitespace check resolves the range that it is given to the same range.
LEMMA PreflightCompares ==
    ASSUME EventTypeOK, range = EventRange
    PROVE  Comparison!DiffRange(Comparison!ResolvedBase(range.base, FALSE)) = Requested
<1>1. CASE event = "workflow_dispatch"
  <2>1. Comparison!ResolvedBase(range.base, FALSE) =
          IF is_root THEN Comparison!Zero ELSE Comparison!Parent
    BY <1>1, Zenon DEF Comparison!ResolvedBase, Comparison!FirstParent
  <2>2. RequestedFrom = IF is_root THEN Comparison!EmptyTree ELSE Comparison!Parent
    <3>1. base # Comparison!Zero
      BY <1>1 DEF EventTypeOK
    <3>2. QED
      BY <1>1, <3>1 DEF RequestedFrom
  <2>3. Comparison!Parent # Comparison!Zero
    BY DEF Comparison!Zero, Comparison!Parent
  <2>4. QED
    BY <2>1, <2>2, <2>3 DEF Comparison!DiffRange, Comparison!Between, Requested
<1>2. CASE event # "workflow_dispatch"
  BY <1>2 DEF EventRange, Comparison!ResolvedBase, Comparison!DiffRange, Comparison!Between,
     Requested, RequestedFrom
<1>3. QED
  BY <1>1, <1>2

\* The classification keeps its invariant in the workflow,
LEMMA ClassifyInvStays ==
    ASSUME PipelineInv, Next
    PROVE  ClassifyInv'
<1>1. CASE Classify
  <2>1. ClassifyPaths \/ Unreadable
    BY <1>1 DEF Classify, ClassifyPaths
  <2>2. QED
    BY <2>1, ClassifyInvStep DEF PipelineInv
<1>2. CASE UNCHANGED classifyVars
  BY <1>2, ClassifyInvStutter DEF PipelineInv
<1>3. QED
  BY <1>1, <1>2, ClassifyStays

\* and so do the fuzz targets.
LEMMA FuzzInvStays ==
    ASSUME PipelineInv, Next
    PROVE  FuzzInv'
<1>1. CASE RunFuzz
  BY <1>1, FuzzInvStep DEF RunFuzz, PipelineInv
<1>2. CASE UNCHANGED fuzzVars
  BY <1>2 DEF fuzzVars, PipelineInv, FuzzInv, FuzzTypeOK, ReaderIsRecorded, BothTargetsRun
<1>3. QED
  BY <1>1, <1>2, FuzzStays

\* Every job has one of the results there are.
LEMMA ResultIsTyped ==
    ASSUME JobsTypeOK, Next
    PROVE  result' \in [Jobs -> {"waiting", "running"} \cup Ended]
<1>1. result \in [Jobs -> {"waiting", "running"} \cup Ended]
  BY DEF JobsTypeOK
<1>2. CASE ResolveRange \/ FinishClassify \/ CheckWhitespace \/ FinishPreflight
  BY <1>1, <1>2 DEF ResolveRange, FinishClassify, CheckWhitespace, FinishPreflight, Ended
<1>3. ASSUME NEW j \in Jobs,
             Start(j) \/ RunOther(j) \/ Skip(j) \/ FinishPlatform(j) \/ EndFromOutside(j)
      PROVE  result' \in [Jobs -> {"waiting", "running"} \cup Ended]
  BY <1>1, <1>3 DEF Start, RunOther, Skip, FinishPlatform, EndFromOutside, Ended
<1>4. CASE FinishFuzz \/ FailFuzz \/ EvaluateGate
  BY <1>1, <1>4 DEF FinishFuzz, FailFuzz, EvaluateGate, Ended
<1>5. CASE CancelRun
  BY <1>1, <1>5 DEF CancelRun, Ended
<1>6. CASE Classify \/ RunFuzz \/ Decided \/ \E j \in Platforms : RunQuick(j) \/ RunBenchmark(j)
  BY <1>1, <1>6 DEF Classify, RunFuzz, Decided, RunQuick, RunBenchmark, vars, jobVars
<1>7. QED
  BY <1>2, <1>3, <1>4, <1>5, <1>6, JobNames DEF Next, Progress

\* What is compared is what the event asks for.
LEMMA ComparedIsTyped ==
    ASSUME PipelineInv, Next
    PROVE  compared' \in [{"classify", "preflight"} -> {NotCompared, Requested}]
<1>1. /\ compared \in [{"classify", "preflight"} -> {NotCompared, Requested}]
      /\ EventTypeOK
      /\ result["classify"] \in {"running", "success"} => range = EventRange
  BY DEF PipelineInv, JobsTypeOK, PriorsHold
<1>2. CASE Classify
  <2>1. CASE range.force_all
    BY <1>1, <1>2, <2>1 DEF Classify
  <2>2. CASE ~ range.force_all
    <3>1. compared' = [compared EXCEPT !["classify"] = Requested]
      BY <1>1, <1>2, <2>2, ClassifyCompares DEF Classify
    <3>2. QED
      BY <1>1, <3>1
  <2>3. QED
    BY <2>1, <2>2
<1>3. CASE CheckWhitespace
  <2>1. UNCHANGED compared \/ compared' = [compared EXCEPT !["preflight"] = Requested]
    BY <1>1, <1>3, PreflightCompares DEF CheckWhitespace, Comparison!CanResolve
  <2>2. QED
    BY <1>1, <2>1
<1>4. QED
  BY <1>1, <1>2, <1>3, ComparedStays

\* What jobs did, and the tests that passed the inventory.
LEMMA WorkIsTyped ==
    ASSUME PipelineInv, Next
    PROVE  /\ ran' \in [Workers -> SUBSET Owners]
           /\ smoke' \in [Platforms -> VerifiedTests \cup {{}}]
<1>1. /\ ran \in [Workers -> SUBSET Owners]
      /\ smoke \in [Platforms -> VerifiedTests \cup {{}}]
  BY DEF PipelineInv, JobsTypeOK
<1>2. ASSUME NEW job \in Workers, RunOther(job)
      PROVE  ran' \in [Workers -> SUBSET Owners] /\ UNCHANGED smoke
  BY <1>1, <1>2 DEF RunOther, Owners
<1>3. ASSUME NEW job \in Platforms, RunQuick(job)
      PROVE  /\ ran' \in [Workers -> SUBSET Owners]
             /\ smoke' \in [Platforms -> VerifiedTests \cup {{}}]
  <2>1. ran' \in [Workers -> SUBSET Owners]
    BY <1>1, <1>3, JobNames DEF RunQuick, Owners
  <2>2. smoke' \in [Platforms -> VerifiedTests \cup {{}}]
    BY <1>1, <1>3 DEF RunQuick
  <2>3. QED
    BY <2>1, <2>2
<1>4. ASSUME NEW job \in Platforms, RunBenchmark(job)
      PROVE  ran' \in [Workers -> SUBSET Owners] /\ UNCHANGED smoke
  BY <1>1, <1>4, JobNames DEF RunBenchmark, Owners
<1>5. CASE FinishFuzz
  BY <1>1, <1>5 DEF FinishFuzz, Owners
<1>6. QED
  BY <1>1, <1>2, <1>3, <1>4, <1>5, WorkStays

\* The gate never runs as a job does, and classify is never skipped.
LEMMA JobsTypeStays ==
    ASSUME PipelineInv, Next
    PROVE  JobsTypeOK'
<1>1. JobsTypeOK
  BY DEF PipelineInv
<1>2. result'["gate"] \in {"waiting", "success", "failure"}
  <2>1. result'["gate"] = result["gate"] \/ JobMoves("gate")
    BY <1>1, ResultsStay, JobNames
  <2>2. JobMoves("gate") => EvaluateGate
    BY <1>1, JobNames DEF JobMoves, EndFromOutside, JobsTypeOK
  <2>3. EvaluateGate => result'["gate"] \in {"success", "failure"}
    BY <1>1, JobNames DEF EvaluateGate, JobsTypeOK
  <2>4. QED
    BY <1>1, <2>1, <2>2, <2>3 DEF JobsTypeOK
<1>3. result'["classify"] # "skipped"
  <2>1. result'["classify"] = result["classify"] \/ JobMoves("classify")
    BY <1>1, ResultsStay, JobNames
  <2>2. JobMoves("classify") => result'["classify"] # "skipped"
    BY <1>1, JobNames DEF JobMoves, ResolveRange, FinishClassify, CancelRun, EndFromOutside,
       JobsTypeOK
  <2>3. QED
    BY <1>1, <2>1, <2>2 DEF JobsTypeOK
<1>4. QED
  BY <1>1, <1>2, <1>3, ResultIsTyped, ComparedIsTyped, WorkIsTyped, RequestStays DEF JobsTypeOK

\* Once classify has succeeded its outputs stay.
LEMMA OutputsStay ==
    ASSUME PipelineInv, Next, result["classify"] \notin {"waiting", "running"}
    PROVE  UNCHANGED <<classifyVars, range>>
BY ClassifyStays, RangeStays DEF Classify, ResolveRange

\* A job that has succeeded goes on having succeeded for those that need it.
LEMMA NeedsStay ==
    ASSUME PipelineInv, Next, NEW job \in Workers, NeedsSucceeded(job)
    PROVE  /\ NeedsSucceeded(job)' /\ Wanted(job)' = Wanted(job)
           /\ UNCHANGED <<classifyVars, range>>
<1>1. \A need \in Needs(job) : result[need] = "success" /\ need \in {"classify", "preflight"}
  BY DEF NeedsSucceeded, Needs
<1>2. \A need \in Needs(job) : result'[need] = "success"
  BY <1>1, EndedStays, JobNames DEF PipelineInv, Ended
<1>3. result["classify"] = "success"
  BY <1>1 DEF Needs
<1>4. UNCHANGED <<classifyVars, range>>
  BY <1>3, OutputsStay
<1>5. QED
  BY <1>2, <1>4 DEF NeedsSucceeded, Needs, Wanted, Planned, classifyVars

\* A job that runs goes on having had its needs before it.
LEMMA PriorsStay ==
    ASSUME PipelineInv, Next
    PROVE  PriorsHold'
<1>1. JobsTypeOK /\ PriorsHold /\ EventTypeOK
  BY DEF PipelineInv
<1>2. /\ result["classify"] = "success" =>
            result'["classify"] = "success" /\ UNCHANGED <<classifyVars, range>>
      /\ result["preflight"] = "success" => result'["preflight"] = "success"
  BY <1>1, EndedStays, OutputsStay, JobNames DEF Ended
<1>3. ASSUME result'["classify"] \in {"running", "success"}
      PROVE  range' = EventRange'
  <2>1. CASE result["classify"] \in {"running", "success"}
    BY <1>1, <2>1, RangeStays, RequestStays DEF PriorsHold, ResolveRange
  <2>2. CASE ResolveRange
    BY <1>1, <1>3, <2>2, RequestStays, JobNames
       DEF ResolveRange, Comparison!CanResolve, EventRange, JobsTypeOK
  <2>3. JobMoves("classify") => ResolveRange \/ result["classify"] \in {"running", "success"}
                                  \/ result'["classify"] = "cancelled"
    BY <1>1, JobNames DEF JobMoves, FinishClassify, EndFromOutside, CancelRun
  <2>4. QED
    BY <1>1, <1>3, <2>1, <2>2, <2>3, ResultsStay, JobNames
<1>4. ASSUME result'["classify"] = "success"
      PROVE  classify' = "done"
  <2>1. CASE result["classify"] = "success"
    BY <1>1, <1>2, <2>1 DEF PriorsHold, classifyVars
  <2>2. JobMoves("classify") => FinishClassify
    BY <1>1, <1>4, JobNames
       DEF JobMoves, ResolveRange, EndFromOutside, CancelRun, JobsTypeOK
  <2>3. CASE FinishClassify
    BY <2>3 DEF FinishClassify, classifyVars
  <2>4. QED
    BY <1>1, <1>4, <2>1, <2>2, <2>3, ResultsStay, JobNames
<1>5. ASSUME result'["preflight"] \in {"running", "success"}
      PROVE  result'["classify"] = "success" /\ compared'["preflight"] = Requested'
  <2>1. CASE result["preflight"] \in {"running", "success"}
    <3>1. result["classify"] = "success" /\ compared["preflight"] = Requested
      BY <1>1, <2>1 DEF PriorsHold
    <3>2. UNCHANGED compared
      BY <2>1, <3>1, ComparedStays DEF Classify, CheckWhitespace
    <3>3. QED
      BY <1>2, <3>1, <3>2, RequestStays
  <2>2. CASE CheckWhitespace
    <3>1. result["classify"] = "success" /\ range = EventRange
      BY <1>1, <2>2 DEF CheckWhitespace, PriorsHold
    <3>2. compared' = [compared EXCEPT !["preflight"] = Requested]
      BY <1>1, <1>5, <2>2, <3>1, PreflightCompares, JobNames
         DEF CheckWhitespace, Comparison!CanResolve, JobsTypeOK
    <3>3. QED
      BY <1>1, <1>2, <3>1, <3>2, RequestStays DEF JobsTypeOK
  <2>3. JobMoves("preflight") => \/ CheckWhitespace \/ result["preflight"] = "running"
                                 \/ result'["preflight"] \in {"skipped", "cancelled"}
    BY <1>1, JobNames DEF JobMoves, FinishPreflight, Skip, EndFromOutside, CancelRun, JobsTypeOK
  <2>4. QED
    BY <1>1, <1>5, <2>1, <2>2, <2>3, ResultsStay, JobNames
<1>6. ASSUME NEW job \in Workers, result'[job] \in {"running", "success"}
      PROVE  NeedsSucceeded(job)' /\ Wanted(job)'
  <2>1. JobMoves(job) => \/ Start(job) \/ result[job] = "running"
                         \/ result'[job] \in {"skipped", "cancelled"}
    BY <1>1, JobNames DEF JobMoves, RunOther, Skip, FinishPlatform, FinishFuzz, FailFuzz,
       EndFromOutside, CancelRun, JobsTypeOK
  <2>2. Start(job) \/ result[job] \in {"running", "success"}
    BY <1>1, <1>6, <2>1, ResultsStay, JobNames
  <2>3. NeedsSucceeded(job) /\ Wanted(job)
    BY <1>1, <2>2 DEF Start, PriorsHold
  <2>4. QED
    BY <2>3, NeedsStay
<1>7. QED
  BY <1>3, <1>4, <1>5, <1>6 DEF PriorsHold

\* The classify job does not look at the patch only when it plans everything.
LEMMA UnseenStays ==
    ASSUME PipelineInv, Next
    PROVE  UnseenIsUnknown'
<1>1. JobsTypeOK /\ PriorsHold /\ EventTypeOK /\ UnseenIsUnknown
  BY DEF PipelineInv
<1>2. CASE Classify
  <2>1. range = EventRange
    BY <1>1, <1>2 DEF Classify, PriorsHold
  <2>2. CASE range.force_all
    BY <1>2, <2>2, RequestStays DEF Classify, NothingKnown, Emit, UnseenIsUnknown, RequiredPlan
  <2>3. CASE ~ range.force_all
    <3>1. compared'["classify"] = Requested
      BY <1>1, <1>2, <2>1, <2>3, ClassifyCompares DEF Classify, JobsTypeOK
    <3>2. Requested # NotCompared
      BY DEF Requested, NotCompared, Comparison!Head
    <3>3. QED
      BY <3>1, <3>2, RequestStays DEF UnseenIsUnknown
  <2>4. QED
    BY <2>2, <2>3
<1>3. CASE UNCHANGED classifyVars
  <2>1. compared'["classify"] = compared["classify"] \/ Classify
    BY <1>1, ComparedStays DEF CheckWhitespace, JobsTypeOK
  <2>2. QED
    BY <1>1, <1>2, <1>3, <2>1, RequestStays DEF UnseenIsUnknown, classifyVars
<1>4. QED
  BY <1>2, <1>3, ClassifyStays

\* A job that failed or was cancelled stays so.
LEMMA CauseStays ==
    ASSUME PipelineInv, Next, Cause
    PROVE  Cause'
BY EndedStays DEF Cause, PipelineInv, Ended

\* A job is skipped for a cause, or because nobody wants it.
LEMMA SkippedStay ==
    ASSUME PipelineInv, Next
    PROVE  SkippedForReason'
<1>1. JobsTypeOK /\ PriorsHold /\ SkippedForReason
  BY DEF PipelineInv
<1>2. SUFFICES ASSUME NEW job \in Workers \cup {"preflight"}, result'[job] = "skipped"
               PROVE  \/ Cause'
                      \/ job \in Workers /\ NeedsSucceeded(job)' /\ ~ Wanted(job)'
  BY DEF SkippedForReason
<1>3. CASE result[job] = "skipped"
  <2>1. Cause \/ (job \in Workers /\ NeedsSucceeded(job) /\ ~ Wanted(job))
    BY <1>1, <1>3 DEF SkippedForReason
  <2>2. CASE Cause
    BY <2>2, CauseStays
  <2>3. CASE job \in Workers /\ NeedsSucceeded(job) /\ ~ Wanted(job)
    BY <2>3, NeedsStay
  <2>4. QED
    BY <2>1, <2>2, <2>3
<1>4. CASE Skip(job)
  <2>1. CASE NeedsSucceeded(job)
    BY <1>4, <2>1, NeedsStay DEF Skip
  <2>2. CASE ~ NeedsSucceeded(job)
    <3>1. PICK need \in {"classify", "preflight"} : result[need] \in Ended \ {"success"}
      BY <1>4, <2>2 DEF Skip, NeedsEnded, NeedsSucceeded, Needs
    <3>2. Cause
      BY <1>1, <3>1, JobNames DEF Cause, Ended, JobsTypeOK, SkippedForReason
    <3>3. QED
      BY <3>2, CauseStays
  <2>3. QED
    BY <2>1, <2>2
<1>5. JobMoves(job) => Skip(job)
  BY <1>1, <1>2, JobNames DEF JobMoves, CheckWhitespace, FinishPreflight, Start, RunOther,
     FinishPlatform, FinishFuzz, FailFuzz, CancelRun, EndFromOutside, JobsTypeOK
<1>6. result'[job] = result[job] \/ JobMoves(job)
  <2>1. job \in Jobs
    BY JobNames
  <2>2. QED
    BY <1>1, <2>1, ResultsStay
<1>7. result[job] = "skipped" \/ Skip(job)
  BY <1>2, <1>5, <1>6
<1>8. QED
  BY <1>3, <1>4, <1>7, Zenon

\* What the job of an owner had before it.
LEMMA WorkerWorks ==
    ASSUME PipelineInv, NEW job \in Workers, result[job] \in {"running", "success"}
    PROVE  result["classify"] = "success" /\ result["preflight"] = "success" /\ Wanted(job)
BY JobNames DEF PipelineInv, PriorsHold, NeedsSucceeded, Needs

\* The work of a job stays done until the job has ended, and after.
LEMMA EarnedStays ==
    ASSUME PipelineInv, Next
    PROVE  SuccessIsEarned'
<1>1. JobsTypeOK /\ SuccessIsEarned /\ ran \in [Workers -> SUBSET Owners]
      /\ smoke \in [Platforms -> VerifiedTests \cup {{}}]
  BY DEF PipelineInv, JobsTypeOK
\* Work is only added to a job that has not succeeded.
<1>2. \A job \in Workers : ran[job] \subseteq ran'[job] \/ job \in {"fuzz", "full", "perf"}
  BY <1>1, WorkStays, JobNames DEF RunOther, RunQuick, RunBenchmark, FinishFuzz
<1>3. ASSUME NEW job \in Platforms, result'[job] = "success"
      PROVE  plan' \cap {"quick", "benchmark"} \subseteq ran'[job]
  <2>1. JobMoves(job) => FinishPlatform(job)
    BY <1>1, <1>3, JobNames DEF JobMoves, Start, RunOther, Skip, CancelRun, EndFromOutside,
       JobsTypeOK
  <2>2. /\ result[job] \in {"running", "success"}
        /\ plan \cap {"quick", "benchmark"} \subseteq ran[job]
    BY <1>1, <1>3, <2>1, ResultsStay, JobNames DEF FinishPlatform, SuccessIsEarned
  <2>3. plan' = plan
    BY <2>2, WorkerWorks, OutputsStay, JobNames DEF classifyVars
  <2>4. QED
    BY <1>2, <2>2, <2>3, JobNames
<1>4. ASSUME NEW job \in Platforms, job = "linux", "quick" \in ran'[job]
      PROVE  smoke'[job] \in VerifiedTests
  <2>1. CASE RunQuick(job)
    BY <1>1, <1>4, <2>1 DEF RunQuick
  <2>2. CASE ~ RunQuick(job)
    <3>1. "quick" \in ran[job]
      BY <1>1, <1>4, <2>2, WorkStays, JobNames
         DEF RunOther, RunQuick, RunBenchmark, FinishFuzz
    <3>2. smoke'[job] = smoke[job]
      BY <1>1, <1>4, <2>2, WorkStays, JobNames DEF RunOther, RunQuick, RunBenchmark, FinishFuzz
    <3>3. QED
      BY <1>1, <1>4, <3>1, <3>2 DEF SuccessIsEarned
  <2>3. QED
    BY <2>1, <2>2
<1>5. ASSUME result'["fuzz"] = "success"
      PROVE  "fuzz" \in ran'["fuzz"] /\ fuzz' = "success"
  <2>1. JobMoves("fuzz") => FinishFuzz
    BY <1>1, <1>5, JobNames DEF JobMoves, Start, RunOther, Skip, FailFuzz, CancelRun,
       EndFromOutside, JobsTypeOK
  <2>2. CASE FinishFuzz
    BY <1>1, <2>2, JobNames DEF FinishFuzz, fuzzVars
  <2>3. CASE result["fuzz"] = "success"
    <3>1. UNCHANGED fuzzVars
      BY <2>3, FuzzStays DEF RunFuzz
    <3>2. ran'["fuzz"] = ran["fuzz"]
      BY <1>1, <2>3, WorkStays, JobNames DEF RunOther, RunQuick, RunBenchmark, FinishFuzz
    <3>3. QED
      BY <1>1, <2>3, <3>1, <3>2 DEF SuccessIsEarned, fuzzVars
  <2>4. QED
    BY <1>1, <1>5, <2>1, <2>2, <2>3, ResultsStay, JobNames
<1>6. ASSUME NEW job \in {"full", "perf"}, result'[job] = "success"
      PROVE  job \in ran'[job]
  <2>1. JobMoves(job) => RunOther(job)
    BY <1>1, <1>6, JobNames DEF JobMoves, Start, Skip, CancelRun, EndFromOutside, JobsTypeOK
  <2>2. CASE RunOther(job)
    BY <1>1, <2>2, JobNames DEF RunOther
  <2>3. CASE result[job] = "success"
    <3>1. ran'[job] = ran[job]
      BY <1>1, <2>3, WorkStays, JobNames DEF RunOther, RunQuick, RunBenchmark, FinishFuzz
    <3>2. QED
      BY <1>1, <2>3, <3>1 DEF SuccessIsEarned
  <2>4. QED
    BY <1>1, <1>6, <2>1, <2>2, <2>3, ResultsStay, JobNames
<1>7. QED
  BY <1>3, <1>4, <1>5, <1>6 DEF SuccessIsEarned

\* When every other job has ended nothing that the gate looked at changes.
LEMMA NothingAfterTheGate ==
    ASSUME PipelineInv, Next, \A job \in Jobs \ {"gate"} : result[job] \in Ended
    PROVE  /\ \A job \in Jobs \ {"gate"} : result'[job] = result[job]
           /\ plan' = plan
BY EndedStays, OutputsStay, JobNames DEF PipelineInv, Ended, classifyVars

\* When the gate has to have the success of a job.
Required(j) ==
    \/ j \in {"classify", "preflight"}
    \/ j \in Workers /\ Wanted(j)
    \/ j \in {"fuzz", "full", "perf"} /\ result["classify"] # "success"

FineFor(j) ==
    IF Required(j) THEN result[j] = "success" ELSE result[j] \in {"success", "skipped"}

\* An argument of the gate, by what it is made of.
LEMMA FineArgument ==
    ASSUME NEW name, NEW required \in BOOLEAN, NEW outcome
    PROVE  JobIsFine([name |-> name, required |-> required, result |-> outcome]) <=>
              IF required THEN outcome = "success" ELSE outcome \in {"success", "skipped"}
BY DEF JobIsFine

\* The gate looks at every other job.
LEMMA GateLooksAtAll == (\A a \in GateJobs : JobIsFine(a)) <=> \A j \in Jobs \ {"gate"} : FineFor(j)
<1> DEFINE Argument(j, required) == [name |-> j, required |-> required, result |-> result[j]]
           Unclassified(j) == result["classify"] # "success" \/ Planned(j)
<1>1. \A j \in {"classify", "preflight"} : JobIsFine(Argument(j, TRUE)) <=> FineFor(j)
  BY FineArgument DEF FineFor, Required
<1>2. \A p \in Platforms : JobIsFine(Argument(p, Wanted(p))) <=> FineFor(p)
  <2>1. \A p \in Platforms : Wanted(p) \in BOOLEAN
    BY Zenon DEF Wanted, Planned
  <2>2. \A p \in Platforms : Required(p) <=> Wanted(p)
    BY JobNames DEF Required
  <2>3. QED
    BY <2>1, <2>2, FineArgument, Zenon DEF FineFor
<1>3. \A j \in {"fuzz", "full", "perf"} : JobIsFine(Argument(j, Unclassified(j))) <=> FineFor(j)
  <2>1. \A j \in {"fuzz", "full", "perf"} : Unclassified(j) \in BOOLEAN
    BY Zenon DEF Planned
  <2>2. \A j \in {"fuzz", "full", "perf"} : Required(j) <=> Unclassified(j)
    BY JobNames DEF Required, Wanted
  <2>3. QED
    BY <2>1, <2>2, FineArgument, Zenon DEF FineFor
<1>4. Jobs \ {"gate"} = {"classify", "preflight"} \cup Platforms \cup {"fuzz", "full", "perf"}
  BY JobNames DEF Jobs, Workers
<1>5. GateJobs = {Argument("classify", TRUE), Argument("preflight", TRUE)}
                   \cup {Argument(p, Wanted(p)) : p \in Platforms}
                   \cup {Argument(j, Unclassified(j)) : j \in {"fuzz", "full", "perf"}}
  BY Zenon DEF GateJobs
<1> HIDE DEF Argument, Unclassified
<1>6. QED
  BY <1>1, <1>2, <1>3, <1>4, <1>5

\* The gate decides once, from results that stay as they are.
LEMMA GateStays ==
    ASSUME PipelineInv, Next
    PROVE  GateIsLast' /\ GateFailsOnlyForCause'
<1>1. /\ JobsTypeOK /\ SkippedForReason /\ GateIsLast /\ GateFailsOnlyForCause
      /\ result' \in [Jobs -> {"waiting", "running"} \cup Ended]
  BY ResultIsTyped DEF PipelineInv
<1>2. CASE result["gate"] # "waiting"
  <2>1. \A job \in Jobs \ {"gate"} : result[job] \in Ended
    BY <1>1, <1>2 DEF GateIsLast
  <2>2. result'["gate"] = result["gate"]
    BY <1>1, <1>2, EndedStays, JobNames DEF JobsTypeOK, Ended
  <2>3. \A job \in Jobs : result'[job] = result[job]
    BY <2>1, <2>2, NothingAfterTheGate
  <2>4. plan' = plan
    BY <2>1, NothingAfterTheGate
  <2>5. GateJobs' = GateJobs
    BY <2>3, <2>4, JobNames DEF GateJobs, Wanted, Planned
  <2>6. GateIsLast'
    BY <1>1, <2>1, <2>2, <2>3, <2>5 DEF GateIsLast, JobIsFine
  <2>7. GateFailsOnlyForCause'
    BY <1>1, <2>2, <2>3 DEF GateFailsOnlyForCause
  <2>8. QED
    BY <2>6, <2>7
<1>3. CASE EvaluateGate
  <2>1. \A job \in Jobs \ {"gate"} : result[job] \in Ended /\ result'[job] = result[job]
    BY <1>1, <1>3 DEF EvaluateGate, JobsTypeOK
  <2>2. GateJobs' = GateJobs
    BY <1>3, <2>1, JobNames DEF EvaluateGate, GateJobs, Wanted, Planned, classifyVars
  <2>3. result'["gate"] =
          IF \A job \in GateJobs : JobIsFine(job) THEN "success" ELSE "failure"
    BY <1>1, <1>3, JobNames DEF EvaluateGate, JobsTypeOK
  <2>4. GateIsLast'
    BY <2>1, <2>2, <2>3 DEF GateIsLast, JobIsFine
  <2>5. ASSUME NEW j \in Jobs \ {"gate"}, ~ FineFor(j) PROVE Cause
    <3>1. result[j] \in Ended /\ result[j] # "success"
      BY <2>1, <2>5 DEF FineFor
    <3>2. CASE result[j] \in {"failure", "cancelled"}
      BY <3>2 DEF Cause
    <3>3. CASE result[j] = "skipped"
      <4>1. Required(j)
        BY <2>5, <3>3 DEF FineFor
      <4>2. j # "classify"
        BY <1>1, <3>3 DEF JobsTypeOK
      <4>3. j \in Workers \cup {"preflight"}
        BY <4>2 DEF Jobs
      <4>4. Cause \/ (j \in Workers /\ NeedsSucceeded(j) /\ ~ Wanted(j))
        BY <1>1, <3>3, <4>3 DEF SkippedForReason
      <4>5. NeedsSucceeded(j) /\ j \in Workers => result["classify"] = "success"
        BY JobNames DEF NeedsSucceeded, Needs
      <4>6. QED
        BY <4>1, <4>2, <4>4, <4>5, JobNames DEF Required
    <3>4. QED
      BY <3>1, <3>2, <3>3 DEF Ended
  <2>6. GateFailsOnlyForCause'
    BY <2>1, <2>3, <2>5, GateLooksAtAll DEF GateFailsOnlyForCause, Cause
  <2>7. QED
    BY <2>4, <2>6
<1>4. CASE result["gate"] = "waiting" /\ ~ EvaluateGate
  <2>1. ~ JobMoves("gate")
    BY <1>1, <1>4, JobNames DEF JobMoves, EndFromOutside
  <2>2. result'["gate"] = "waiting"
    BY <1>1, <1>4, <2>1, ResultsStay, JobNames
  <2>3. QED
    BY <2>2 DEF GateIsLast, GateFailsOnlyForCause
<1>5. QED
  BY <1>2, <1>3, <1>4

\* No step of the workflow breaks the invariant.
LEMMA PipelineInvStep ==
    ASSUME PipelineInv, [Next]_vars
    PROVE  PipelineInv'
<1>1. CASE Next
  <2>1. EventTypeOK'
    BY <1>1, EventStays DEF PipelineInv, EventTypeOK
  <2>2. QED
    BY <1>1, <2>1, ClassifyInvStays, FuzzInvStays, JobsTypeStays, PriorsStay, UnseenStays,
       SkippedStay, EarnedStays, GateStays DEF PipelineInv
<1>2. CASE UNCHANGED vars
  <2>1. ClassifyInv' /\ FuzzInv'
    BY <1>2, ClassifyInvStutter DEF PipelineInv, vars, fuzzVars, FuzzInv, FuzzTypeOK,
       ReaderIsRecorded, BothTargetsRun
  <2>2. EventTypeOK' /\ JobsTypeOK' /\ PriorsHold'
    BY <1>2 DEF PipelineInv, vars, classifyVars, eventVars, jobVars, EventTypeOK, JobsTypeOK,
       PriorsHold, Requested, RequestedFrom, EventRange, Comparison!ResolvedBase,
       Comparison!FirstParent, Comparison!ForceAll, Comparison!Mode, NeedsSucceeded, Wanted,
       Planned
  <2>3. UnseenIsUnknown' /\ SkippedForReason'
    BY <1>2 DEF PipelineInv, vars, classifyVars, eventVars, jobVars, UnseenIsUnknown,
       RequiredPlan, SkippedForReason, Cause, NeedsSucceeded, Wanted, Planned
  <2>4. SuccessIsEarned' /\ GateIsLast' /\ GateFailsOnlyForCause'
    BY <1>2 DEF PipelineInv, vars, classifyVars, fuzzVars, jobVars, SuccessIsEarned, GateIsLast,
       GateFailsOnlyForCause, GateJobs, JobIsFine, Wanted, Planned
  <2>5. QED
    BY <2>1, <2>2, <2>3, <2>4 DEF PipelineInv
<1>3. QED
  BY <1>1, <1>2

-----------------------------------------------------------------------------
(* What the workflow promises.                                             *)

\* The invariant holds throughout the workflow.
THEOREM PipelineInvariant == Spec => []PipelineInv
BY PipelineInvInit, PipelineInvStep, PTL DEF Spec

\* The two fuzz targets of run_fuzz_targets.py: the pair has a verdict only when
\* both ran and left how they ended, whatever becomes of the job around them.
THEOREM BothFuzzTargetsRun == Spec => []BothTargetsRun
<1>1. PipelineInv => BothTargetsRun
  BY DEF PipelineInv, FuzzInv
<1>2. QED
  BY <1>1, PipelineInvariant, PTL

\* The classify and the preflight job never compare another range than the one the
\* event asks for, whatever their checkouts and the origin still have (resolve,
\* diff_range, main of check_patch_whitespace.py).
THEOREM JobsCompareTheRequest == Spec => []SameComparison
<1>1. PipelineInv => SameComparison
  <2> SUFFICES ASSUME PipelineInv PROVE SameComparison
    OBVIOUS
  <2>2. \A job \in DOMAIN compared : compared[job] \in {NotCompared, Requested}
    BY DEF PipelineInv, JobsTypeOK
  <2>3. result["preflight"] = "success" => compared["preflight"] = Requested
    BY DEF PipelineInv, PriorsHold
  <2>4. plan # NoPlan => classify # "start"
    BY DEF PipelineInv, ClassifyInv, ClassifyTypeOK
  <2>5. QED
    BY <2>2, <2>3, <2>4 DEF SameComparison, PipelineInv, UnseenIsUnknown
<1>2. QED
  BY <1>1, PipelineInvariant, PTL

\* The gate of evaluate_gate.py fails only when a job before it failed or was
\* cancelled, for any platforms and any plan.
THEOREM GateFailsForCause == Spec => []GateFailsOnlyForCause
<1>1. PipelineInv => GateFailsOnlyForCause
  BY DEF PipelineInv
<1>2. QED
  BY <1>1, PipelineInvariant, PTL

\* The owners that the patch needs are in the plan.
LEMMA NeededIsPlanned ==
    ASSUME PipelineInv, classify = "done", NEW owner \in Needed
    PROVE  owner \in plan /\ owner \in Owners
<1>1. owner \in RequiredPlan(Owners) /\ owner \in Owners
  BY DEF Needed, RequiredPlan
<1>2. CASE base # Comparison!Base
  BY <1>1, <1>2 DEF PipelineInv, EventTypeOK, ClassifyInv, EmptyIsUnknown
<1>3. CASE base = Comparison!Base
  <2>1. \E k \in DOMAIN changed : Reads(owner, changed[k])
    BY <1>3 DEF Needed
  <2>2. plan # NoPlan
    <3>1. plan \in SUBSET Owners
      BY DEF PipelineInv, ClassifyInv, ClassifyTypeOK
    <3>2. "none" \notin Owners
      BY DEF Owners
    <3>3. QED
      BY <3>1, <3>2 DEF NoPlan
  <2>3. QED
    BY <1>1, <2>1, <2>2 DEF PipelineInv, ClassifyInv, PlanCoversPatch
<1>4. QED
  BY <1>1, <1>2, <1>3

\* A gate that passes vouches for the patch: every owner that reads a file of it
\* ran and succeeded in each of its jobs, with the tests of the committed manifest
\* behind the label and both fuzz targets, for any set of platforms, any patch and
\* whatever ctest lists.
THEOREM GateVouches == Spec => []GatePassMeansVerified
<1>1. PipelineInv => GatePassMeansVerified
  <2>1. SUFFICES ASSUME PipelineInv, result["gate"] = "success"
                 PROVE  /\ result["classify"] = "success" /\ result["preflight"] = "success"
                        /\ \A owner \in Needed : \A job \in JobsOf(owner) :
                              result[job] = "success" /\ owner \in ran[job]
                        /\ "quick" \in Needed => \A job \in Platforms \cap {"linux"} :
                              smoke[job] = ManifestTests
                        /\ "fuzz" \in Needed => \A t \in Targets : status[t] = "0"
    BY DEF GatePassMeansVerified, ManifestTests, ManifestEntries
  <2>2. \A j \in Jobs \ {"gate"} : FineFor(j)
    BY <2>1, GateLooksAtAll DEF PipelineInv, GateIsLast
  <2>3. result["classify"] = "success" /\ result["preflight"] = "success"
    BY <2>2, JobNames DEF FineFor, Required
  <2>4. classify = "done"
    BY <2>1, <2>3 DEF PipelineInv, PriorsHold
  <2>5. ASSUME NEW owner \in Needed, NEW job \in JobsOf(owner)
        PROVE  result[job] = "success" /\ owner \in ran[job]
    <3>1. owner \in plan /\ owner \in Owners
      BY <2>1, <2>4, NeededIsPlanned
    <3>2. CASE owner \in {"quick", "benchmark"}
      <4>1. job \in Platforms /\ job \in Workers
        BY <3>2, JobNames DEF JobsOf
      <4>2. Required(job)
        BY <3>1, <3>2, <4>1 DEF Required, Wanted, Planned
      <4>3. result[job] = "success"
        BY <2>2, <4>1, <4>2, JobNames DEF FineFor
      <4>4. QED
        BY <2>1, <3>1, <3>2, <4>1, <4>3 DEF PipelineInv, SuccessIsEarned
    <3>3. CASE owner \in {"fuzz", "full", "perf"}
      <4>1. job = owner
        BY <3>3 DEF JobsOf
      <4>2. job \in Workers /\ Required(job)
        BY <3>1, <3>3, <4>1, JobNames DEF Required, Wanted, Planned
      <4>3. result[job] = "success"
        BY <2>2, <4>2, JobNames DEF FineFor
      <4>4. QED
        BY <2>1, <3>3, <4>1, <4>3 DEF PipelineInv, SuccessIsEarned
    <3>4. QED
      BY <3>1, <3>2, <3>3 DEF Owners
  <2>6. ASSUME "quick" \in Needed, NEW job \in Platforms \cap {"linux"}
        PROVE  smoke[job] = ManifestTests
    <3>1. "quick" \in ran[job]
      BY <2>5, <2>6 DEF JobsOf
    <3>2. smoke[job] \in VerifiedTests
      BY <2>1, <3>1 DEF PipelineInv, SuccessIsEarned
    <3>3. QED
      BY <3>2, InventoryIsExact
  <2>7. ASSUME "fuzz" \in Needed
        PROVE  \A t \in Targets : status[t] = "0"
    <3>1. result["fuzz"] = "success"
      BY <2>5, <2>7 DEF JobsOf
    <3>2. fuzz = "success"
      BY <2>1, <3>1 DEF PipelineInv, SuccessIsEarned
    <3>3. QED
      BY <2>1, <3>2 DEF PipelineInv, FuzzInv, BothTargetsRun
  <2>8. QED
    BY <2>3, <2>5, <2>6, <2>7
<1>2. QED
  BY <1>1, PipelineInvariant, PTL
=============================================================================
