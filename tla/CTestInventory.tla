--------------------------- MODULE CTestInventory ---------------------------
(***************************************************************************)
(* tools/ci/verify_ctest_inventory.py: whether the tests that CTest lists  *)
(* for a label are those of a committed manifest.  The script raises at    *)
(* the first thing wrong and main() turns that into exit status 1, so each *)
(* operator here says when its function returns at all.                    *)
(*                                                                         *)
(* A line of a manifest is the sequence of its fields, a comment one with  *)
(* the field "#".  A test of CTest's JSON has a name, the set of its       *)
(* labels and the target its command runs; a property or a command that    *)
(* the script cannot read is Garbled.                                      *)
(***************************************************************************)
EXTENDS Naturals, Sequences, SequencesExt, FiniteSetsExt

CONSTANTS
    Garbled,       \* a value of another form than the script expects
    Slashed        \* the target names with a slash or a backslash in them

-----------------------------------------------------------------------------
(* The manifests.                                                          *)

TargetManifestIsValid(lines) ==
    LET targets == SelectSeq(lines, LAMBDA line : line # <<>>)
    IN  /\ IsInjective(targets)
        /\ \A k \in DOMAIN targets : targets[k][1] \notin Slashed

\* read_target_manifest
TargetsOf(lines) == {line[1] : line \in Range(lines) \ {<<>>}}

IsEntry(line) == line # <<>> /\ line[1] # "#"

TestManifestIsValid(lines) ==
    LET entries == {k \in DOMAIN lines : IsEntry(lines[k])}
    IN  /\ \A k \in entries : Len(lines[k]) = 2 /\ lines[k][2] \notin Slashed
        /\ \A j, k \in entries : lines[j][1] = lines[k][1] => j = k

\* read_test_manifest: the target that each expected test runs.
TestsOf(lines) ==
    LET entries == {line \in Range(lines) : IsEntry(line)}
    IN  [name \in {e[1] : e \in entries} |-> (CHOOSE e \in entries : e[1] = name)[2]]

-----------------------------------------------------------------------------
(* The tests of the label.                                                 *)

\* labels_for and command_target
IsReadable(test) == test.labels # Garbled /\ test.target # Garbled

\* The loop of verify_inventory.
EntriesAreValid(tests, label) ==
    /\ \A k \in DOMAIN tests : IsReadable(tests[k]) /\ label \in tests[k].labels
    /\ \A j, k \in DOMAIN tests : tests[j].name = tests[k].name => j = k

\* actual_tests: of two tests with one name the later stays.
ActualTests(tests) ==
    [name \in {test.name : test \in Range(tests)} |->
        tests[Max({k \in DOMAIN tests : tests[k].name = name})].target]

\* Mutated form: that a test runs the target it should is not looked at.
SameNames(expected, actual) == DOMAIN expected = DOMAIN actual

SameTests(expected, actual) ==
    /\ \A name \in DOMAIN expected \cap DOMAIN actual : expected[name] = actual[name]
    /\ DOMAIN expected \subseteq DOMAIN actual
    /\ DOMAIN actual \subseteq DOMAIN expected

\* verify_inventory
VerifyInventory(tests, label, targets, expected) ==
    /\ targets # {}
    /\ DOMAIN expected # {}
    /\ Range(expected) = targets
    /\ EntriesAreValid(tests, label)
    /\ SameTests(expected, ActualTests(tests))

\* main(): the exit status is zero.  JSON says whether ctest gave a list at all.
InventoryVerified(json, label, targetLines, testLines) ==
    /\ TargetManifestIsValid(targetLines)
    /\ TestManifestIsValid(testLines)
    /\ json # Garbled
    /\ VerifyInventory(json, label, TargetsOf(targetLines), TestsOf(testLines))
=============================================================================
