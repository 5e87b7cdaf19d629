--------------------------- MODULE SourceArchives ---------------------------
(***************************************************************************)
(* tools/ci/verify_source_archives.py: compares both source archives with  *)
(* the contract, which is read from the source tree, and with one another, *)
(* then expands them.  It holds no lock: packaging (SourcePackaging) and   *)
(* edits of the tree go on beside it.  Each archive is opened twice.       *)
(*                                                                         *)
(* An archive is the sequence of its members, none when there is no such   *)
(* file; one that cannot be read holds something that is no file.  What is *)
(* expanded stays, and a later run finds it there.                         *)
(***************************************************************************)
EXTENDS SourcePackaging

CONSTANTS
    Contract,        \* REQUIRED_METADATA and the headers
    MaxRuns          \* bound on the runs of the script

\* The contract has files, none of a kind that packaging leaves out.  One may well be a
\* link: source_contract follows it.
ASSUME ContractAssumption == Contract # {} /\ \A path \in Contract : ~ Excluded(path)

NoReference == [root |-> None, files |-> <<>>]
archives == <<"gz", "xz">>

VARIABLES
    verify,          \* where verify_archives() is
    runs,
    contract,        \* the files that an archive has to have
    at,              \* the archive that its loops are at
    reference,       \* package root and inventory of the first one
    members,         \* what is left to be written of the archive being expanded
    tree,            \* what is expanded of each
    republished,     \* the archives that were renamed since this run began
    untouched,       \* the packagers whose copy no edit has overtaken
    current,         \* whether the pair was made of the source as it is
    steady           \* whether it has been so since this run began

verifyVars == <<verify, runs, contract, at, reference, members, tree>>
historyVars == <<republished, untouched, current, steady>>
vars == <<treeVars, packagingVars, verifyVars, historyVars>>

Init ==
    /\ PackagingInit
    /\ verify = "idle" /\ runs = 0
    /\ contract = <<>>
    /\ at = 1
    /\ reference = NoReference
    /\ members = <<>>
    /\ tree = <<>>
    /\ republished = {} /\ untouched = {}
    /\ current = FALSE /\ steady = FALSE

-----------------------------------------------------------------------------
\* safe_parts
IsSafe(path) == path.in \notin {"outside", "unsafe name"} /\ path.is # "unsafe name"

\* forbidden_source_member, of a file: here a suffix is one even with nothing before it.
ForbiddenSourceMember(path) ==
    \/ path.in \in {"work directory", "generated", "git"}
    \/ path.is \in {"generated", "git", "work file", "suffix of work", "writer output", "backup",
                    "bare suffix"}

Paths(list) == {member.path : member \in Range(list)}

HasOnePath(list) == \A j, k \in DOMAIN list : list[j].path = list[k].path => j = k

\* archive_inventory returns.
HasInventory(list) ==
    /\ list # <<>> /\ list[1].root \in {"csv2-0", "csv2-1"}
    /\ \A member \in Range(list) :
          /\ IsSafe(member.path)
          /\ member.root = list[1].root
          /\ ~ ForbiddenSourceMember(member.path)
          /\ member.kind = "file"
    /\ HasOnePath(list)

Inventory(list) ==
    [root |-> list[1].root,
     files |-> [path \in Paths(list) |-> (CHOOSE m \in Range(list) : m.path = path).version]]

HasContract(files) ==
    \A path \in DOMAIN contract : path \in DOMAIN files /\ files[path] = contract[path]

Reject == verify' = "rejected" /\ UNCHANGED <<runs, contract, at, reference, members, tree>>

\* source_contract
StartVerification ==
    /\ runs < MaxRuns
    /\ verify \in {"idle", "accepted", "rejected", "failed"}
    /\ runs' = runs + 1
    /\ verify' = IF Contract \subseteq DOMAIN source THEN "read" ELSE "rejected"
    /\ contract' = [path \in Contract \cap DOMAIN source |-> source[path]]
    /\ at' = 1
    /\ reference' = NoReference
    /\ members' = <<>>
    /\ UNCHANGED tree

List == archive[archives[at]]

\* Mutated form: that the archives agree with the contract is enough.
IsEquivalentToContract == HasContract(Inventory(List).files)

\* The comparisons of the loop over the archives.
IsEquivalent ==
    /\ HasContract(Inventory(List).files)
    /\ reference # NoReference => Inventory(List) = reference

ReadArchive ==
    /\ verify = "read"
    /\ at <= Len(archives)
    /\ IF HasInventory(List) /\ IsEquivalent
       THEN /\ reference' = IF reference = NoReference THEN Inventory(List) ELSE reference
            /\ at' = at + 1
            /\ UNCHANGED <<verify, runs, contract, members, tree>>
       ELSE Reject

StartExpanding ==
    /\ verify = "read"
    /\ at > Len(archives)
    /\ verify' = "expand"
    /\ at' = 1
    /\ UNCHANGED <<runs, contract, reference, members, tree>>

Format == archives[at]

\* extract_archive looks at what it opens again, less closely than before.
CanExpand(list) ==
    /\ \A member \in Range(list) :
          IsSafe(member.path) /\ member.root = reference.root /\ member.kind = "file"
    /\ HasOnePath(list)

\* Mutated form: what is already expanded is left as it is.
ExpandOrKeep ==
    /\ verify = "expand" /\ at <= Len(archives)
    /\ IF Format \in DOMAIN tree
       THEN at' = at + 1 /\ UNCHANGED <<verify, runs, contract, reference, members, tree>>
       ELSE IF CanExpand(List)
       THEN /\ verify' = "write"
            /\ members' = List
            /\ tree' = [f \in DOMAIN tree \cup {Format} |-> IF f = Format THEN <<>> ELSE tree[f]]
            /\ UNCHANGED <<runs, contract, at, reference>>
       ELSE Reject

OpenAgain ==
    /\ verify = "expand" /\ at <= Len(archives)
    /\ IF Format \notin DOMAIN tree /\ CanExpand(List)
       THEN /\ verify' = "write"
            /\ members' = List
            /\ tree' = [f \in DOMAIN tree \cup {Format} |-> IF f = Format THEN <<>> ELSE tree[f]]
            /\ UNCHANGED <<runs, contract, at, reference>>
       ELSE Reject

\* One member, of the archive as it was when it was opened.
WriteMember ==
    /\ verify = "write"
    /\ members # <<>>
    /\ LET path == Head(members).path
       IN  tree' = [tree EXCEPT ![Format] =
                      [f \in DOMAIN @ \cup {path} |-> IF f = path THEN Head(members).version ELSE @[f]]]
    /\ members' = Tail(members)
    /\ UNCHANGED <<verify, runs, contract, at, reference>>

FinishArchive ==
    /\ verify = "write"
    /\ members = <<>>
    /\ verify' = "expand"
    /\ at' = at + 1
    /\ UNCHANGED <<runs, contract, reference, members, tree>>

\* A file cannot be read or written, or the process ends.
VerificationFails ==
    /\ verify \in {"read", "expand", "write"}
    /\ verify' = "failed"
    /\ UNCHANGED <<runs, contract, at, reference, members, tree>>

Accept ==
    /\ verify = "expand"
    /\ at > Len(archives)
    /\ verify' = "accepted"
    /\ UNCHANGED <<runs, contract, at, reference, members, tree>>

Verify ==
    \/ ReadArchive \/ StartExpanding \/ OpenAgain \/ WriteMember \/ FinishArchive
    \/ VerificationFails \/ Accept

-----------------------------------------------------------------------------
(* All of it, with what has happened beside a run of the verification.     *)

\* A packager's pair is current when no edit came after it began to copy.
EditBeside ==
    /\ EditSource
    /\ current' = FALSE /\ steady' = FALSE
    /\ untouched' = {}
    /\ UNCHANGED <<packagingVars, verifyVars, republished>>

PackagingBeside(p) ==
    /\ Packaging(p)
    /\ LET renamed == {f \in Formats : published'[f] = p /\ published[f] # p}
       IN  /\ republished' = republished \cup renamed
           /\ current' = CASE renamed = {}   -> current
                           [] renamed = {"gz"} -> FALSE
                           [] OTHER          -> p \in untouched
           /\ steady' = (steady /\ renamed = {})
    /\ untouched' = IF packager[p] = "idle" THEN untouched \cup {p} ELSE untouched
    /\ UNCHANGED <<treeVars, verifyVars>>

StartBeside ==
    /\ StartVerification
    /\ republished' = {}
    /\ steady' = current
    /\ UNCHANGED <<treeVars, packagingVars, current, untouched>>

VerifyBeside == Verify /\ UNCHANGED <<treeVars, packagingVars, historyVars>>

Next == EditBeside \/ (\E p \in Packagers : PackagingBeside(p)) \/ StartBeside \/ VerifyBeside

Spec == Init /\ [][Next]_vars

-----------------------------------------------------------------------------
\* What is accepted is whole: each tree expanded from an archive that nobody has
\* renamed meanwhile is the inventory that was verified, with the contract's
\* files as they were read, none that is outside or forbidden, and the same for both;
\* nothing left by a run that failed half-way is taken for it.
AcceptedIsWhole ==
    verify = "accepted" =>
        \A f \in Formats \ republished :
            /\ tree[f] = reference.files
            /\ HasContract(tree[f])
            /\ \A path \in DOMAIN tree[f] : IsSafe(path) /\ ~ ForbiddenSourceMember(path)
            /\ Paths(archive[f]) = DOMAIN tree[f]

\* What is copied and then refused: where the rules of the two scripts differ.
CopiedButRefused(file) ==
    file \in Copied /\ (file.is \in {"link", "bare suffix"} \/ "unsafe name" \in {file.in, file.is})

\* The first verification of a complete pair that was made of the source as it is, with
\* every file of the contract, rejects it for one reason only: that the source has a link,
\* a file called ~ or -writer-output.csv and no more, or a name with a colon, a backslash
\* or a control character (verify_source_archives.py:89-103, 121-122, 193).  In everything
\* else, whatever work products lie in the source, the rules of the script that packages
\* (csv2-package-source.cmake.in:51-117) and of the one that verifies agree.
FreshPairIsAccepted ==
    verify = "rejected" /\ steady /\ Contract \subseteq DOMAIN source =>
        runs > 1 \/ \E file \in DOMAIN source : CopiedButRefused(file)
=============================================================================
