----------------------------- MODULE CsvGrammar -----------------------------
(***************************************************************************)
(* The language that csv2::Reader::validate accepts, as an automaton that  *)
(* reads the source once, byte by byte, counting rows and columns from     *)
(* one.  It defines what a valid source is and what the first error of an  *)
(* invalid one is; nothing in the code is organised like it.               *)
(***************************************************************************)
EXTENDS CsvBytes

\* The roles are those of four different bytes.
ASSUME GrammarAssumption == QuoteCharacter \notin {LF, CR, Delimiter}

Structural == {LF, CR, Delimiter, QuoteCharacter}

\* The bytes that may surround a quoted cell: a policy that trims structural
\* bytes does not hide them.
Blank(trimmed) == trimmed \ Structural

\* The states: before a cell's first byte that is not blank, in a bare cell, in
\* a quoted one, after a quote in it, after blanks that follow it, and after a
\* carriage return that a line feed must follow.
Delta(blank, state, byte) ==
    CASE state = "quoted" -> IF byte = QuoteCharacter THEN "quote" ELSE "quoted"
      [] state = "return" -> IF byte = LF THEN "start" ELSE "error"
      [] OTHER ->
            CASE byte \in {LF, Delimiter} -> "start"
              [] byte = CR -> "return"
              [] byte = QuoteCharacter ->
                    CASE state \in {"start", "quote"} -> "quoted"
                      [] OTHER -> "error"
              [] byte \in blank -> IF state = "quote" THEN "after" ELSE state
              [] OTHER -> IF state \in {"start", "bare"} THEN "bare" ELSE "error"

ErrorCode(state, byte) ==
    CASE state = "quoted" -> "unclosed_quote"
      [] state = "return" -> "bare_carriage_return"
      [] state = "bare" -> "unexpected_quote"
      [] state = "after" /\ byte = QuoteCharacter -> "invalid_doubled_quote"
      [] OTHER -> "characters_after_closing_quote"

Start == [state |-> "start", opened |-> 0, row |-> 1, column |-> 1, error |-> {}]

\* The error of a reading that stops at k, on byte: an open quote is reported
\* where it was opened, a carriage return where it is.
ErrorAt(reading, k, byte) ==
    [code        |-> ErrorCode(reading.state, byte),
     byte_offset |-> CASE reading.state = "quoted" -> reading.opened
                       [] reading.state = "return" -> k - 1
                       [] OTHER -> k,
     row         |-> reading.row,
     column      |-> reading.column]

Read(blank, reading, k, byte) ==
    LET next == Delta(blank, reading.state, byte)
    IN  CASE reading.error # {} -> reading
          [] reading.error = {} /\ next = "error" ->
                [reading EXCEPT !.error = {ErrorAt(reading, k, byte)}]
          [] OTHER ->
                [state  |-> next,
                 opened |-> IF reading.state = "start" /\ next = "quoted" THEN k ELSE reading.opened,
                 row    |-> IF next = "start" /\ byte = LF THEN reading.row + 1 ELSE reading.row,
                 column |-> CASE next = "start" /\ byte = LF -> 1
                              [] next = "start" /\ byte = Delimiter -> reading.column + 1
                              [] OTHER -> reading.column,
                 error  |-> {}]

\* The reading of a source, of which k bytes are read.
Reading(buffer, size, trimmed) ==
    LET reading[k \in 0 .. size] ==
            IF k = 0 THEN Start
            ELSE Read(Blank(trimmed), reading[k - 1], k - 1, buffer[k - 1])
    IN  reading

\* The errors of a source: none, or the first one. At its end a quote or a
\* carriage return may still be open.
Errors(buffer, size, trimmed) ==
    LET last == Reading(buffer, size, trimmed)[size]
    IN  IF last.error = {} /\ last.state \in {"quoted", "return"}
        THEN {ErrorAt(last, size, LF)}
        ELSE last.error
=============================================================================
