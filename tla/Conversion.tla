----------------------------- MODULE Conversion -----------------------------
(***************************************************************************)
(* A cell read as an integer: basic_cell::try_parse and what it calls when *)
(* the library has no std::from_chars (include/csv2/detail/conversion.hpp).*)
(* The integer type has Width bits, signed or not; its arithmetic is that  *)
(* of the unsigned type, which wraps around.                               *)
(***************************************************************************)
EXTENDS CellAccess

CONSTANTS
    Minus,          \* the sign
    Digit,          \* the bytes that are digits in some base, named by their value
    Width,          \* bits of the integer type: bound
    Bases           \* bases asked for

\* 2 ^ n, up to the width.
TwoTo ==
    LET power[n \in 0 .. Width] == IF n = 0 THEN 1 ELSE 2 * power[n - 1]
    IN  power

\* Every digit is a number of the type.
ASSUME ConversionAssumption ==
    /\ Width \in Nat \ {0}
    /\ Bases \subseteq Nat \ {0, 1}
    /\ Digit \subseteq 0 .. TwoTo[Width - 1] - 1
    /\ Digit \cup {Minus} \subseteq Byte
    /\ Minus \notin Digit

Wrapped(n) == n % TwoTo[Width]

Largest(signed) == IF signed THEN TwoTo[Width - 1] - 1 ELSE TwoTo[Width] - 1

Smallest(signed) == IF signed THEN - TwoTo[Width - 1] ELSE 0

IsDigit(byte, base) == byte \in Digit /\ byte < base

Failure(code, offset) == [code |-> code, byte_offset |-> offset, output |-> 0]
Converted(number) == [code |-> "none", byte_offset |-> 0, output |-> number]

\* Mutated form: the same limit on both sides of zero.
LargestOnly(negative, signed) == Largest(signed)

\* The largest magnitude: one more on the negative side.
Limit(negative, signed) == Wrapped(Largest(signed) + IF negative THEN 1 ELSE 0)

\* The loop over the digits between digits_begin and cursor.
Magnitude(digits_begin, cursor, limit, base) ==
    LET after[k \in digits_begin .. cursor] ==
            IF k = digits_begin THEN [magnitude |-> 0, overflow |-> FALSE]
            ELSE LET before == after[k - 1]
                     digit == buffer[k - 1]
                 IN  IF before.overflow \/ before.magnitude > Wrapped((limit - digit) \div base)
                     THEN [before EXCEPT !.overflow = TRUE]
                     ELSE [before EXCEPT !.magnitude = Wrapped(@ * base + digit)]
    IN  after[cursor]

\* Nothing, a sign alone, a plus sign and the sign of an unsigned number have no
\* digit where the digits should begin.
ParseIntegerFallback(first, last, signed, base) ==
    LET negative == signed /\ first < last /\ buffer[first] = Minus
        limit == Limit(negative, signed)
        digits_begin == IF negative THEN first + 1 ELSE first
        cursor == Min({k \in digits_begin .. last - 1 : ~ IsDigit(buffer[k], base)} \cup {last})
        result == Magnitude(digits_begin, cursor, limit, base)
    IN  CASE cursor = digits_begin -> Failure("invalid_argument", 0)
          [] cursor # digits_begin /\ result.overflow ->
                Failure("result_out_of_range", cursor - first)
          [] cursor # digits_begin /\ ~ result.overflow /\ cursor # last ->
                Failure("trailing_characters", cursor - first)
          [] cursor # digits_begin /\ ~ result.overflow /\ cursor = last ->
                Converted(IF ~ negative THEN result.magnitude
                          ELSE IF result.magnitude = limit THEN Smallest(signed)
                          ELSE - result.magnitude)

TryParse(cell, trimmed, signed, base) ==
    LET content == ContentBounds(cell, trimmed)
    IN  IF cell.escaped THEN Failure("invalid_argument", 0)
        ELSE ParseIntegerFallback(content.first, content.last, signed, base)

-----------------------------------------------------------------------------
\* What a text says: the value of its digits in the base, without a width.
Said(text, signed, base) ==
    LET sign == IF signed /\ text # <<>> /\ Head(text) = Minus THEN 1 ELSE 0
        digits == Max({n \in 0 .. Len(text) - sign :
                          \A k \in 1 .. n : IsDigit(text[sign + k], base)})
        value[n \in 0 .. digits] ==
            IF n = 0 THEN 0 ELSE value[n - 1] * base + text[sign + n]
        number == IF sign = 1 THEN - value[digits] ELSE value[digits]
    IN  IF digits = 0 THEN Failure("invalid_argument", 0)
        ELSE IF number \notin Smallest(signed) .. Largest(signed)
        THEN Failure("result_out_of_range", sign + digits)
        ELSE IF sign + digits # Len(text)
        THEN Failure("trailing_characters", sign + digits)
        ELSE Converted(number)

\* A cell is converted to the number that its content says, up to both ends of
\* the type, or refused for the same reason at the same offset.  A cell that
\* find_cell_bounds flagged is refused at once, and had no number in it unless
\* the policy trims quotes or the quote is a byte that numbers are written with.
ConvertsTheContent ==
    pc = "return" =>
        \A trimmed \in TrimPolicies, signed \in BOOLEAN, base \in Bases :
            LET said == Said(CopyContentTo(bounds, trimmed), signed, base)
            IN  IF bounds.escaped
                THEN QuoteCharacter \notin trimmed \cup Digit \cup {Minus} =>
                        said.code # "none"
                ELSE TryParse(bounds, trimmed, signed, base) = said
=============================================================================
