------------------------- MODULE ResolveComparison --------------------------
(***************************************************************************)
(* tools/ci/resolve_comparison.py: finds the commits that a CI event names *)
(* and the range between them.  The classify job calls it with the event's *)
(* base, check_patch_whitespace.py with the base that classify put out, in *)
(* another checkout: what one of them fetched the other does not have.     *)
(***************************************************************************)
\* The commits an event is about: the base it names, its head, and the first
\* parent of that; and what stands for none of them.
Base == "base"
Head == "head"
Parent == "parent"
Zero == "zero"                \* the object id of zeros
NoBase == "no base"           \* --base "", as in a manual dispatch
EmptyTree == "empty tree"

VARIABLES
    event,       \* --event
    is_root      \* whether head has no parent

(***************************************************************************)
(* A checkout is the commits it brought, and whether its history is cut    *)
(* off, which makes its boundary look like a root.  origin is what origin  *)
(* serves by id at the time.                                               *)
(***************************************************************************)

\* ensure_commit: the commits afterwards, without this one when it raises.
EnsureCommit(commits, origin, commit) ==
    IF commit \in commits THEN commits
    ELSE commits \cup ({commit} \cap origin)

\* git rev-list --parents -n 1 head
FirstParent(shallow) == IF is_root \/ shallow THEN Zero ELSE Parent

ResolvedBase(given, shallow) ==
    IF event = "workflow_dispatch" THEN FirstParent(shallow) ELSE given

Mode(given) ==
    CASE event = "workflow_dispatch"                 -> "manual-current-revision"
      [] event # "workflow_dispatch" /\ given = Zero -> "new-branch-snapshot"
      [] event # "workflow_dispatch" /\ given # Zero -> "event-range"

\* What main() puts out as force_all.
ForceAll(given) == Mode(given) # "event-range"

IsAcceptable(given) ==
    /\ event # "workflow_dispatch" => given # NoBase
    /\ event \in {"pull_request", "merge_group"} => given # Zero

\* What comes with head when it is there.
WithHistory(commits, shallow) ==
    IF Head \in commits /\ ~ is_root /\ ~ shallow THEN commits \cup {Parent} ELSE commits

HasBoth(commits, origin, given, shallow) ==
    LET withHead == WithHistory(EnsureCommit(commits, origin, Head), shallow)
        found == ResolvedBase(given, shallow)
    IN  /\ Head \in withHead
        /\ found = Zero \/ found \in EnsureCommit(withHead, origin, found)

\* Mutated form: a history that is cut off is taken as it is.
CanResolveShallow(commits, origin, given, shallow) ==
    IsAcceptable(given) /\ HasBoth(commits, origin, given, shallow)

\* resolve() returns; otherwise it raises and main() fails.
CanResolve(commits, origin, given, shallow) ==
    ~ shallow /\ IsAcceptable(given) /\ HasBoth(commits, origin, given, shallow)

\* What git diff compares; from the merge base when that is said.
Between(from, merge_base) ==
    [from |-> IF from = Zero THEN EmptyTree ELSE from, to |-> Head, merge_base |-> merge_base]

\* diff_range
DiffRange(from) == Between(from, event \in {"pull_request", "merge_group"})
=============================================================================
