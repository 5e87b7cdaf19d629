------------------------------ MODULE Headers ------------------------------
(***************************************************************************)
(* The headers under include/ and what they include.                       *)
(*                                                                         *)
(* A path is the sequence of its components.  A file is known by its       *)
(* include directives; the text before the k-th of them, and after the     *)
(* last, is the text <<file, k>>.  A directive may lie in a comment, or    *)
(* under a condition (#if), then what replaces it lies there as well.      *)
(***************************************************************************)
EXTENDS Naturals, Sequences, SequencesExt, FiniteSetsExt

CONSTANT
    include_paths    \* "include_paths"

\* A file is known by its path, and its directives name paths.
FilePaths == Seq(STRING)
Directives == [path : FilePaths, quoted : BOOLEAN, comment : BOOLEAN, when : BOOLEAN]

ASSUME IncludePathsAssumption == include_paths \in Seq(FilePaths)

VARIABLES
    directives,      \* the include directives of each file that there is
    sources          \* "sources" of the configuration

-----------------------------------------------------------------------------
(* What a compiler reads of the headers themselves, with -I include.       *)

Includes(file, directive) ==
    LET beside == Front(file) \o directive.path
        found == {k \in DOMAIN include_paths :
                     include_paths[k] \o directive.path \in DOMAIN directives}
    IN  CASE directive.comment -> {}
          [] ~ directive.comment /\ directive.quoted /\ beside \in DOMAIN directives -> {beside}
          [] OTHER -> {include_paths[k] \o directive.path :
                          k \in {first \in found : \A j \in found : first <= j}}

IsClosed(files) ==
    \A file \in files : \A directive \in Range(directives[file]) :
        Includes(file, directive) \subseteq files

\* The files that these lead to: those in every set that has them and is closed.
Reached(files) ==
    {file \in DOMAIN directives :
        \A all \in SUBSET DOMAIN directives :
            Range(files) \subseteq all /\ IsClosed(all) => file \in all}
=============================================================================
