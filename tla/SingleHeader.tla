---------------------------- MODULE SingleHeader ----------------------------
(***************************************************************************)
(* A compiler at the file that amalgamate.py generates, beside one at the  *)
(* headers themselves (Translation).                                       *)
(***************************************************************************)
EXTENDS Amalgamation

\* What it makes of chunks of text: those under the condition count when it holds.
TextOf(chunks, holds) ==
    LET of[k \in 0 .. Len(chunks)] ==
            IF k = 0 THEN <<>>
            ELSE IF chunks[k].when => holds THEN Append(of[k - 1], chunks[k].text)
            ELSE of[k - 1]
    IN  of[Len(chunks)]

\* The units that it has begun and not ended, and the files of all that it has begun.
\* One that the condition excludes is a stretch of the unit around it.
OpenFiles(holds) ==
    LET units == IF stack # <<>> /\ Top.when /\ ~ holds THEN Front(stack) ELSE stack
    IN  [k \in DOMAIN units |-> [file |-> units[k].file, at |-> units[k].at]]

ReadFiles(holds) ==
    {unit.file : unit \in {u \in Range(stack) : u.when => holds}}
    \cup {chunk.text[1] : chunk \in {c \in Range(amalgamation) : c.when => holds}}

Taken == INSTANCE Translation
    WITH holds <- TRUE, stack <- OpenFiles(TRUE), once <- ReadFiles(TRUE),
         text <- TextOf(amalgamation, TRUE)

Skipped == INSTANCE Translation
    WITH holds <- FALSE, stack <- OpenFiles(FALSE), once <- ReadFiles(FALSE),
         text <- TextOf(amalgamation, FALSE)

\* How the headers of csv2 are written: no source includes a later one, and what
\* is included under a condition is so everywhere, with all that it includes in
\* turn included above, under none (csv2/mio.hpp in csv2/reader.hpp).
Disciplined ==
    /\ \A j, k \in DOMAIN sources : j < k => sources[k] \notin Reached(<<sources[j]>>)
    /\ \A file \in DOMAIN directives : \A k \in DOMAIN directives[file] :
          directives[file][k].when => \A header \in Includes(file, directives[file][k]) :
              /\ \A other \in DOMAIN directives : \A d \in Range(directives[other]) :
                    header \in Includes(other, d) => d.when
              /\ \A d \in Range(directives[header]) : \A inner \in Includes(header, d) :
                    \E above \in 1 .. k - 1 :
                        inner \in Includes(file, directives[file][above]) /\ ~ directives[file][above].when

-----------------------------------------------------------------------------
\* A step of generate() is one of the compiler, or none, with the condition and
\* without it, and all headers have been read when the file is written.
SameStep ==
    /\ [Taken!Next]_(Taken!vars)
    /\ [Skipped!Next]_(Skipped!vars)
    /\ generate' = "written" => Taken!HasEnded' /\ Skipped!HasEnded'

\* A compiler makes the same text of the generated file as of the sources, under
\* the condition and without it, when the headers are written as csv2's are: the
\* one place that is left of a header comes before, and holds wherever, it is
\* needed (README: CI builds and tests both forms).
SameTranslation ==
    /\ Taken!Init /\ Skipped!Init
    /\ [][SameStep \/ ~ Disciplined]_amalgamationVars
=============================================================================
