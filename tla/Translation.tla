---------------------------- MODULE Translation ----------------------------
(***************************************************************************)
(* A compiler at the headers themselves, with #pragma once as the first    *)
(* line of each and -I include: what it has read after each directive,     *)
(* where the condition holds or does not.  This is what the single header  *)
(* promises.                                                               *)
(***************************************************************************)
EXTENDS Headers

CONSTANT
    holds            \* whether the condition of the directives holds

VARIABLES
    processed,       \* how many of the sources it has come to
    stack,           \* the files being read, the innermost last
    once,            \* the files that were opened
    text             \* what it has read

vars == <<directives, sources, processed, stack, once, text>>

Init ==
    /\ processed = 0
    /\ stack = <<>>
    /\ once = {}
    /\ text = <<>>

Reading == Last(stack)
Directive == directives[Reading.file][Reading.at]
AtDirective == stack # <<>> /\ Reading.at <= Len(directives[Reading.file])

OpenFile(files, file) ==
    /\ stack' = Append(files, [file |-> file, at |-> 1])
    /\ once' = once \cup {file}

ReadText == text' = Append(text, <<Reading.file, Reading.at>>)
Advanced == [stack EXCEPT ![Len(stack)].at = @ + 1]

\* What the directive opens: a header that was not read, when the condition holds.
Opened ==
    IF Directive.when => holds THEN Includes(Reading.file, Directive) \ once ELSE {}

ReadSource ==
    /\ stack = <<>> /\ processed < Len(sources)
    /\ sources[processed + 1] \in DOMAIN directives
    /\ processed' = processed + 1
    /\ IF sources[processed + 1] \in once
       THEN UNCHANGED <<stack, once>>
       ELSE OpenFile(<<>>, sources[processed + 1])
    /\ UNCHANGED <<directives, sources, text>>

OpenHeader ==
    /\ AtDirective
    /\ \E header \in Opened : OpenFile(Advanced, header)
    /\ ReadText
    /\ UNCHANGED <<directives, sources, processed>>

PassDirective ==
    /\ AtDirective
    /\ Opened = {}
    /\ stack' = Advanced
    /\ ReadText
    /\ UNCHANGED <<directives, sources, processed, once>>

EndFile ==
    /\ stack # <<>> /\ ~ AtDirective
    /\ stack' = Front(stack)
    /\ ReadText
    /\ UNCHANGED <<directives, sources, processed, once>>

Next == ReadSource \/ OpenHeader \/ PassDirective \/ EndFile

\* It has read every source to the end.
HasEnded == stack = <<>> /\ processed = Len(sources)
=============================================================================
