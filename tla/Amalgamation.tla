---------------------------- MODULE Amalgamation ----------------------------
(***************************************************************************)
(* utils/amalgamate/amalgamate.py, which makes single_include/csv2/csv2.hpp*)
(* of the headers under include/: the sources in the order of the          *)
(* configuration, each header in the place of the first directive that     *)
(* includes it, the directives themselves as comments.                     *)
(***************************************************************************)
EXTENDS Headers

CONSTANT
    Projects         \* source trees with the sources of the configuration

\* No file has the empty path.
ASSUME ProjectsAssumption ==
    \A project \in Projects :
        /\ DOMAIN project.tree \subseteq FilePaths \ {<<>>}
        /\ \A file \in DOMAIN project.tree : project.tree[file] \in Seq(Directives)
        /\ project.sources \in Seq(FilePaths \ {<<>>})

VARIABLES
    processed,       \* how many of them have been processed
    stack,           \* the units being processed, the innermost last
    included_files,  \* the files of all units so far
    amalgamation,    \* the text so far, and that of the target when it is written
    generate         \* where generate() is

amalgamationVars == <<directives, sources, processed, stack, included_files, amalgamation, generate>>

AmalgamationInit ==
    /\ \E project \in Projects : directives = project.tree /\ sources = project.sources
    /\ processed = 0
    /\ stack = <<>>
    /\ included_files = <<>>
    /\ amalgamation = <<>>
    /\ generate = "sources"

-----------------------------------------------------------------------------
(* One unit: the file, the directive it has come to, and whether a         *)
(* condition holds it.                                                     *)

Top == Last(stack)
Directive == directives[Top.file][Top.at]
HasDirective == stack # <<>> /\ Top.at <= Len(directives[Top.file])

\* Mutated form: the directory of the including file comes last.
SearchDirsLast(directive, file) ==
    include_paths \o (IF directive.quoted THEN <<Front(file)>> ELSE <<>>)

SearchDirs(directive, file) ==
    (IF directive.quoted THEN <<Front(file)>> ELSE <<>>) \o include_paths

\* find_included_file: the first of these that is a file, or nothing.
FindIncludedFile(directive, file) ==
    LET paths == [k \in DOMAIN SearchDirs(directive, file) |->
                     SearchDirs(directive, file)[k] \o directive.path]
        existing == {k \in DOMAIN paths : paths[k] \in DOMAIN directives}
    IN  IF existing = {} THEN <<>> ELSE paths[Min(existing)]

\* What _process_includes collects; the others are left as they are.
Included(directive, file) ==
    IF directive.comment THEN <<>> ELSE FindIncludedFile(directive, file)

Chunk == [text |-> <<Top.file, Top.at>>, when |-> Top.when]

\* TranslationUnit.__init__ adds the file before it looks at the content.
NowIncluded(file) == Append(included_files, file)

OpenUnit(units, file, when) ==
    /\ stack' = Append(units, [file |-> file, at |-> 1, when |-> when])
    /\ included_files' = NowIncluded(file)

Advanced == [stack EXCEPT ![Len(stack)].at = @ + 1]

HasSource == stack = <<>> /\ processed < Len(sources) /\ generate = "sources"
Source == sources[processed + 1]

ProcessSource ==
    /\ HasSource
    /\ Source \in DOMAIN directives
    /\ processed' = processed + 1
    /\ OpenUnit(<<>>, Source, FALSE)
    /\ UNCHANGED <<directives, sources, amalgamation, generate>>

\* IOError: File not found.
SourceNotFound ==
    /\ HasSource
    /\ Source \notin DOMAIN directives
    /\ generate' = "raised"
    /\ UNCHANGED <<directives, sources, processed, stack, included_files, amalgamation>>

\* A system header, a directive in a comment, or a file that is there already.
PassDirective ==
    /\ HasDirective
    /\ Included(Directive, Top.file) \in {<<>>} \cup Range(included_files)
    /\ amalgamation' = Append(amalgamation, Chunk)
    /\ stack' = Advanced
    /\ UNCHANGED <<directives, sources, processed, included_files, generate>>

\* Mutated form: only a cycle keeps a file from being expanded.
ExpandUnlessOpen ==
    /\ HasDirective
    /\ Included(Directive, Top.file) \notin {<<>>} \cup {stack[k].file : k \in DOMAIN stack}
    /\ amalgamation' = Append(amalgamation, Chunk)
    /\ OpenUnit(Advanced, Included(Directive, Top.file), Top.when \/ Directive.when)
    /\ UNCHANGED <<directives, sources, processed, generate>>

ExpandDirective ==
    /\ HasDirective
    /\ Included(Directive, Top.file) \notin {<<>>} \cup Range(included_files)
    /\ amalgamation' = Append(amalgamation, Chunk)
    /\ OpenUnit(Advanced, Included(Directive, Top.file), Top.when \/ Directive.when)
    /\ UNCHANGED <<directives, sources, processed, generate>>

EndUnit ==
    /\ stack # <<>> /\ ~ HasDirective
    /\ amalgamation' = Append(amalgamation, Chunk)
    /\ stack' = Front(stack)
    /\ UNCHANGED <<directives, sources, processed, included_files, generate>>

\* The end of generate: the target is opened when its text is complete.
WriteTarget ==
    /\ stack = <<>> /\ processed = Len(sources) /\ generate = "sources"
    /\ generate' = "written"
    /\ UNCHANGED <<directives, sources, processed, stack, included_files, amalgamation>>

Ended == generate # "sources" /\ UNCHANGED amalgamationVars

AmalgamationNext ==
    \/ ProcessSource \/ SourceNotFound
    \/ PassDirective \/ ExpandDirective \/ EndUnit
    \/ WriteTarget \/ Ended

AmalgamationSpec == AmalgamationInit /\ [][AmalgamationNext]_amalgamationVars

-----------------------------------------------------------------------------
\* The generated file has the text of every file that the sources need, and that
\* of a header once, by however many spellings and in whatever cycles it is
\* included (included_files, normpath).
EveryHeaderOnce ==
    generate = "written" =>
        /\ {chunk.text[1] : chunk \in Range(amalgamation)} = Reached(sources)
        /\ \A j, k \in DOMAIN amalgamation :
              amalgamation[j].text = amalgamation[k].text =>
                  j = k \/ amalgamation[j].text[1] \in Range(sources)
=============================================================================
