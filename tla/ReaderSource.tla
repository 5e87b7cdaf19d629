---------------------------- MODULE ReaderSource ----------------------------
(***************************************************************************)
(* Where the bytes of a csv2::Reader live (include/csv2/reader.hpp): every *)
(* operation that selects, replaces, moves or releases a source, for       *)
(* several Readers that may view each other's storage.                     *)
(*                                                                         *)
(* Memory is a line of addresses, 0 being the null pointer.  A block is a  *)
(* heap string held by a Reader, a file mapping held by a Reader, or a     *)
(* buffer of the caller; a string is followed by its terminating zero.     *)
(* Which Reader holds which block, and which range of memory each one      *)
(* views, is all that matters here; the bytes themselves do not.           *)
(*                                                                         *)
(* The caller keeps the contract of the README: a range it passes is alive *)
(* and a range a Reader views stays alive, so it destroys or reuses no     *)
(* Reader whose storage another one still views.                           *)
(***************************************************************************)
EXTENDS Integers, FiniteSets

CONSTANTS
    Reader,        \* the Reader objects of the program
    MaxAddress,    \* memory is 1 .. MaxAddress
    MaxBlock       \* bound on the size of a block

ASSUME MemoryAssumption == MaxAddress \in Nat /\ MaxBlock \in Nat

VARIABLES
    live,       \* the blocks that are allocated or mapped
    exists,     \* the Readers between construction and destruction
    reader,     \* their members: owned_buffer_, mmap_, buffer_, buffer_size_
    call,       \* the operation that has not returned yet, if any
    borrowed    \* the last parse_borrowed call and what it returned

vars == <<live, exists, reader, call, borrowed>>

Kind == {"string", "mapping", "caller"}

Block == [base : 1 .. MaxAddress, size : 1 .. MaxBlock, kind : Kind]

NoBlock == [base |-> 0, size |-> 0, kind |-> "none"]

Footprint(b) == b.base .. (IF b.kind = "string" THEN b.base + b.size ELSE b.base + b.size - 1)

Disjoint(b, c) == Footprint(b) \cap Footprint(c) = {}

\* Where the allocator or the kernel may put a new block.
Free(b) ==
    /\ Footprint(b) \subseteq 1 .. MaxAddress
    /\ \A c \in live : Disjoint(b, c)

EmptyReader == [owned |-> NoBlock, mapped |-> NoBlock, buffer |-> 0, buffer_size |-> 0]

Members == [owned : {b \in Block : b.kind = "string"} \cup {NoBlock},
            mapped : {b \in Block : b.kind = "mapping"} \cup {NoBlock},
            buffer : 0 .. MaxAddress,
            buffer_size : 0 .. MaxBlock]

NoCall == [op |-> "none"]

NoBorrow == [data |-> 0, size |-> 0, foreign |-> FALSE, ok |-> FALSE]

TypeOK ==
    /\ live \subseteq Block
    /\ exists \subseteq Reader
    /\ reader \in [Reader -> Members]
    /\ call \in {NoCall} \cup
         [op : {"parse_owned", "mmap"}, reader : Reader, data : 0 .. MaxAddress,
          size : 0 .. MaxBlock, new : Block \cup {NoBlock},
          step : {"acquire", "replace"}]
    /\ borrowed \in [data : 0 .. MaxAddress, size : 0 .. MaxBlock + 1,
                     foreign : BOOLEAN, ok : BOOLEAN]

Init ==
    /\ live = {}
    /\ exists = {}
    /\ reader = [r \in Reader |-> EmptyReader]
    /\ call = NoCall
    /\ borrowed = NoBorrow

-----------------------------------------------------------------------------
(* The private helpers of Reader.                                          *)

Held(r) == {reader[r].owned, reader[r].mapped} \ {NoBlock}

ContainsRange(b, data, size) ==
    /\ data # 0
    /\ data >= b.base
    /\ data <= b.base + b.size
    /\ size <= b.base + b.size - data

\* The address right after the source counts as inside.
ContainsAddress(b, data) ==
    /\ data # 0
    /\ data >= b.base
    /\ data <= b.base + b.size

\* Mutated form: the owned string is forgotten.
OwnsMappedRange(r, data, size) ==
    \E b \in Held(r) \ {reader[r].owned} : ContainsRange(b, data, size)

OwnsRange(r, data, size) == \E b \in Held(r) : ContainsRange(b, data, size)

AliasesSource(r, data) == \E b \in Held(r) : ContainsAddress(b, data)

View(r, data, size) == [reader[r] EXCEPT !.buffer = data, !.buffer_size = size]

-----------------------------------------------------------------------------
(* The caller's side of the contract.                                      *)

InBlock(b, data, size) == data >= b.base /\ data + size <= b.base + b.size

Alive(data, size) == \E b \in live : InBlock(b, data, size)

\* Nothing is read through a file handle or from an empty string.
Readable(data, size) == (data = 0 /\ size = 0) \/ Alive(data, size)

Overlaps(b, data, size) == \E a \in data .. data + size - 1 : a \in Footprint(b)

Views(r, b) == Overlaps(b, reader[r].buffer, reader[r].buffer_size)

\* No other Reader views what r holds.
Unviewed(r, others) == \A q \in exists \ others : \A b \in Held(r) : q # r => ~ Views(q, b)

\* A source the caller takes from r's own storage keeps that storage.
WithinHeld(r, data, size) == size > 0 /\ \E b \in Held(r) : InBlock(b, data, size)

\* What a caller may borrow: bytes of some live block, or nothing. Code and
\* tests also answer for a range that runs past the Reader's own source.
Borrowable(r, data, size) ==
    \/ data = 0 \/ size = 0
    \/ Alive(data, size)
    \/ AliasesSource(r, data)

-----------------------------------------------------------------------------
(* Source selection.                                                       *)

\* Mutated form: the mapping is not released.
ReplaceKeepingMapping(r, members) ==
    /\ live' = live \ {reader[r].owned}
    /\ reader' = [reader EXCEPT ![r] = members]

\* reset_source_(), then the members as given.
Replace(r, members) ==
    /\ live' = live \ Held(r)
    /\ reader' = [reader EXCEPT ![r] = members]

Reborrow(r, data, size) ==
    /\ reader' = [reader EXCEPT ![r] = View(r, data, size)]
    /\ UNCHANGED live

Outcome(r, data, size, ok) ==
    borrowed' = [data |-> data, size |-> size,
                 foreign |-> \E b \in live \ Held(r) : InBlock(b, data, size),
                 ok |-> ok]

\* parse_borrowed(data, size), and parse(lvalue), parse_view and the span
\* overload, which call it.
ParseBorrowed(r, data, size) ==
    /\ call = NoCall
    /\ r \in exists
    /\ Borrowable(r, data, size)
    /\ Unviewed(r, {}) \/ WithinHeld(r, data, size)
    /\ \/ /\ data = 0 \/ size = 0
          /\ Replace(r, EmptyReader)
          /\ Outcome(r, data, size, FALSE)
       \/ /\ data # 0 /\ size # 0
          /\ AliasesSource(r, data)
          /\ ~ OwnsRange(r, data, size)
          /\ Replace(r, EmptyReader)
          /\ Outcome(r, data, size, FALSE)
       \/ /\ data # 0 /\ size # 0
          /\ ~ AliasesSource(r, data)
          /\ Replace(r, [EmptyReader EXCEPT !.buffer = data, !.buffer_size = size])
          /\ Outcome(r, data, size, TRUE)
       \/ /\ data # 0 /\ size # 0
          /\ OwnsRange(r, data, size)
          /\ Reborrow(r, data, size)
          /\ Outcome(r, data, size, TRUE)
    /\ UNCHANGED <<exists, call>>

\* Mutated form: the source is reset before its contents or path are read.
BeginWithReset(r, op, data, size) ==
    /\ call = NoCall
    /\ r \in exists
    /\ Readable(data, size)
    /\ Unviewed(r, {})
    /\ call' = [op |-> op, reader |-> r, data |-> data, size |-> size,
                new |-> NoBlock, step |-> "acquire"]
    /\ borrowed' = NoBorrow
    /\ Replace(r, EmptyReader)
    /\ UNCHANGED exists

\* parse_owned and parse(rvalue) copy or take the contents, and mmap maps the
\* file, before the source is reset: the contents or the path may be a view of
\* the very storage that is about to go.
Begin(r, op, data, size) ==
    /\ call = NoCall
    /\ r \in exists
    /\ Readable(data, size)
    /\ Unviewed(r, {})
    /\ call' = [op |-> op, reader |-> r, data |-> data, size |-> size,
                new |-> NoBlock, step |-> "acquire"]
    /\ borrowed' = NoBorrow
    /\ UNCHANGED <<live, exists, reader>>

\* The owned copy has the size of its source; an empty one is discarded.
CopyContents ==
    /\ call # NoCall
    /\ call.op = "parse_owned"
    /\ call.step = "acquire"
    /\ \/ /\ call.size = 0
          /\ call' = [call EXCEPT !.step = "replace"]
          /\ UNCHANGED live
       \/ \E b \in Block :
             /\ b.kind = "string" /\ b.size = call.size
             /\ Free(b)
             /\ live' = live \cup {b}
             /\ call' = [call EXCEPT !.new = b, !.step = "replace"]
    /\ UNCHANGED <<exists, reader, borrowed>>

\* The copy cannot be allocated: the exception leaves the Reader as it was.
CopyThrows ==
    /\ call # NoCall
    /\ call.op = "parse_owned"
    /\ call.step = "acquire"
    /\ call.size > 0
    /\ call' = NoCall
    /\ UNCHANGED <<live, exists, reader, borrowed>>

\* The file opens and maps, or not; an empty file does not map.
MapFile ==
    /\ call # NoCall
    /\ call.op = "mmap"
    /\ call.step = "acquire"
    /\ \/ /\ call' = [call EXCEPT !.step = "replace"]
          /\ UNCHANGED live
       \/ \E b \in Block :
             /\ b.kind = "mapping"
             /\ Free(b)
             /\ live' = live \cup {b}
             /\ call' = [call EXCEPT !.new = b, !.step = "replace"]
    /\ UNCHANGED <<exists, reader, borrowed>>

Adopted(b) ==
    CASE b = NoBlock          -> EmptyReader
      [] b.kind = "string"    -> [owned |-> b, mapped |-> NoBlock,
                                  buffer |-> b.base, buffer_size |-> b.size]
      [] b.kind = "mapping"   -> [owned |-> NoBlock, mapped |-> b,
                                  buffer |-> b.base, buffer_size |-> b.size]

Adopt ==
    /\ call # NoCall
    /\ call.step = "replace"
    /\ Replace(call.reader, Adopted(call.new))
    /\ call' = NoCall
    /\ UNCHANGED <<exists, borrowed>>

-----------------------------------------------------------------------------
(* Construction, moves and destruction.                                    *)

Construct(r) ==
    /\ call = NoCall
    /\ r \notin exists
    /\ exists' = exists \cup {r}
    /\ reader' = [reader EXCEPT ![r] = EmptyReader]
    /\ borrowed' = NoBorrow
    /\ UNCHANGED <<live, call>>

MoveConstruct(r, other) ==
    /\ call = NoCall
    /\ r \notin exists
    /\ other \in exists
    /\ exists' = exists \cup {r}
    /\ reader' = [reader EXCEPT ![r] = reader[other], ![other] = EmptyReader]
    /\ borrowed' = NoBorrow
    /\ UNCHANGED <<live, call>>

\* A view into what r holds keeps the storage; any other source replaces it.
MoveAssign(r, other) ==
    LET data == reader[other].buffer
        size == reader[other].buffer_size
    IN  /\ call = NoCall
        /\ {r, other} \subseteq exists
        /\ r # other
        /\ Unviewed(r, {other}) \/ WithinHeld(r, data, size)
        /\ \/ /\ OwnsRange(r, data, size)
              /\ reader' = [reader EXCEPT ![r] = View(r, data, size),
                                          ![other].buffer = 0, ![other].buffer_size = 0]
              /\ UNCHANGED live
           \/ /\ ~ OwnsRange(r, data, size)
              /\ live' = live \ Held(r)
              /\ reader' = [reader EXCEPT ![r] = reader[other], ![other] = EmptyReader]
        /\ borrowed' = NoBorrow
        /\ UNCHANGED <<exists, call>>

Destroy(r) ==
    /\ call = NoCall
    /\ r \in exists
    /\ Unviewed(r, {})
    /\ exists' = exists \ {r}
    /\ Replace(r, EmptyReader)
    /\ borrowed' = NoBorrow
    /\ UNCHANGED call

-----------------------------------------------------------------------------
(* The caller's own buffers (external to the library).                     *)

CallerAllocates(b) ==
    /\ call = NoCall
    /\ b.kind = "caller"
    /\ Free(b)
    /\ live' = live \cup {b}
    /\ UNCHANGED <<exists, reader, call, borrowed>>

CallerReleases(b) ==
    /\ call = NoCall
    /\ b \in live
    /\ b.kind = "caller"
    /\ \A r \in exists : ~ Views(r, b)
    /\ live' = live \ {b}
    /\ borrowed' = NoBorrow
    /\ UNCHANGED <<exists, reader, call>>

Next ==
    \/ \E r \in Reader, data \in 0 .. MaxAddress, size \in 0 .. MaxBlock + 1 :
          ParseBorrowed(r, data, size)
    \/ \E r \in Reader, op \in {"parse_owned", "mmap"},
          data \in 0 .. MaxAddress, size \in 0 .. MaxBlock : Begin(r, op, data, size)
    \/ CopyContents
    \/ CopyThrows
    \/ MapFile
    \/ Adopt
    \/ \E r \in Reader : Construct(r) \/ Destroy(r)
    \/ \E r, other \in Reader : MoveConstruct(r, other) \/ MoveAssign(r, other)
    \/ \E b \in Block : CallerAllocates(b) \/ CallerReleases(b)

Spec == Init /\ [][Next]_vars

-----------------------------------------------------------------------------
\* No legal sequence of calls leaves a Reader with a view of memory that was
\* released, or that reaches past the block it is in: replacing, moving and
\* re-borrowing a source never invalidates the view it installs.
ViewsAreLive ==
    \A r \in exists :
        reader[r].buffer # 0 => Alive(reader[r].buffer, reader[r].buffer_size)

\* Every string and mapping has exactly one holder: none is leaked, none is
\* released twice, through moves, failed mappings and replaced sources.
OneHolder ==
    \A b \in live : b.kind # "caller" =>
        \/ \E r \in exists :
              /\ b \in Held(r)
              /\ \A q \in Reader \ {r} : b \notin Held(q)
              /\ call.op # "none" => call.new # b
        \/ /\ call.op # "none" /\ call.new = b
           /\ \A r \in Reader : b \notin Held(r)

\* The contents and the path are still there when they are read, even when
\* they lie in the source that the call replaces.
ReadsBeforeReset ==
    call.op # "none" /\ call.step = "acquire" => Readable(call.data, call.size)

\* README: parse_borrowed "borrows exactly the supplied byte range". So it
\* accepts every range of live memory that is not the Reader's own.
BorrowsSuppliedRange ==
    borrowed.foreign /\ borrowed.size > 0 => borrowed.ok
=============================================================================
