---------------------------- MODULE ReaderProofs ----------------------------
(***************************************************************************)
(* Reader: the sources of any number of Readers, in a memory of any size,  *)
(* whose views stay live; and the verdict of its validate() about any      *)
(* source, which is that of the grammar.                                   *)
(***************************************************************************)
EXTENDS ReaderSource, Validation, CsvBytesTheorems, TLAPS

HoldersExist == \A r \in Reader \ exists : reader[r] = EmptyReader

HeldIsLive == \A r \in Reader : Held(r) \subseteq live

HeldByOne == \A r, q \in Reader : r # q => Held(r) \cap Held(q) = {}

\* No view is empty.
ViewsWithinLive ==
    \A r \in Reader :
        reader[r].buffer # 0 =>
            /\ reader[r].buffer_size > 0
            /\ Alive(reader[r].buffer, reader[r].buffer_size)

NoneIsLost ==
    \A b \in live : b.kind # "caller" =>
        \/ \E r \in Reader : b \in Held(r)
        \/ call # NoCall /\ call.new = b

\* Between its two steps a call has what it read, or the block it will adopt.
CallIsSafe ==
    call # NoCall =>
        /\ call.reader \in exists
        /\ Unviewed(call.reader, {})
        /\ call.step = "acquire" => call.new = NoBlock /\ Readable(call.data, call.size)
        /\ call.new # NoBlock =>
              /\ call.new \in live
              /\ call.new.kind \in {"string", "mapping"}
              /\ \A r \in Reader : call.new \notin Held(r)

SourceInv ==
    /\ TypeOK
    /\ HoldersExist
    /\ HeldIsLive
    /\ HeldByOne
    /\ ViewsWithinLive
    /\ NoneIsLost
    /\ CallIsSafe

-----------------------------------------------------------------------------
(* Blocks, views and holders.                                              *)

\* A block lies in memory, and is not the null block.
LEMMA BlocksAreReal ==
    ASSUME NEW b \in Block
    PROVE  /\ b.base \in 1 .. MaxAddress /\ b.size \in 1 .. MaxBlock
           /\ b.base \in Nat /\ b.size \in Nat /\ b.base > 0 /\ b.size > 0
           /\ b.kind \in Kind
           /\ b # NoBlock
           /\ b.base \in Footprint(b)
BY MemoryAssumption DEF Block, NoBlock, Kind, Footprint

\* What a Reader holds, and where it looks.
LEMMA MembersAreReal ==
    ASSUME TypeOK, NEW r \in Reader
    PROVE  /\ reader[r] \in Members
           /\ reader[r].buffer \in Nat /\ reader[r].buffer_size \in Nat
           /\ \A b : b \in Held(r) <=> b # NoBlock /\ (b = reader[r].owned \/ b = reader[r].mapped)
           /\ \A b \in Held(r) : b \in Block /\ b.kind \in {"string", "mapping"}
BY MemoryAssumption DEF TypeOK, Members, Held

\* A view that is not empty overlaps the block it is in.
LEMMA ViewsOverlap ==
    ASSUME NEW b \in Block, NEW data \in Nat, NEW length \in Nat, length > 0, InBlock(b, data, length)
    PROVE  Overlaps(b, data, length)
<1>1. data \in data .. data + length - 1
  OBVIOUS
<1>2. data \in Footprint(b)
  BY BlocksAreReal DEF Footprint, InBlock
<1> QED BY <1>1, <1>2 DEF Overlaps

\* The allocator gives a new block.
LEMMA FreeIsNew ==
    ASSUME NEW b \in Block, Free(b)
    PROVE  b \notin live
BY BlocksAreReal DEF Free, Disjoint

\* The library's containment test is the one of the contract.
LEMMA ContainsIsInBlock ==
    ASSUME NEW b \in Block, NEW data \in Nat, NEW length \in Nat
    PROVE  /\ ContainsRange(b, data, length) <=> InBlock(b, data, length)
           /\ InBlock(b, data, length) => ContainsAddress(b, data) /\ length \in 0 .. MaxBlock
           /\ InBlock(b, data, length) /\ length > 0 => data \in 1 .. MaxAddress + MaxBlock
BY BlocksAreReal, MemoryAssumption DEF ContainsRange, InBlock, ContainsAddress

\* What a Reader whose source nobody else views can release: the others keep
\* what they view.
LEMMA OthersKeepViews ==
    ASSUME SourceInv, NEW r \in Reader, NEW q \in exists, q # r,
           Unviewed(r, {}), live' = live \ Held(r), reader'[q] = reader[q],
           reader[q].buffer # 0
    PROVE  /\ reader'[q].buffer_size > 0
           /\ Alive(reader[q].buffer, reader[q].buffer_size)'
<1> USE DEF SourceInv
<1>1. q \in Reader
  BY DEF TypeOK
<1>2. PICK b \in live : InBlock(b, reader[q].buffer, reader[q].buffer_size)
  BY <1>1 DEF ViewsWithinLive, Alive
<1>3. reader[q].buffer_size > 0 /\ b \in Block
  BY <1>1 DEF ViewsWithinLive, TypeOK
<1>4. Views(q, b)
  BY <1>1, <1>2, <1>3, MembersAreReal, ViewsOverlap DEF Views
<1>5. b \notin Held(r)
  BY <1>4 DEF Unviewed
<1> QED BY <1>2, <1>3, <1>5 DEF Alive, InBlock

\* The type of the last parse_borrowed call and of what it returned.
BorrowOK ==
    borrowed \in [data : 0 .. MaxAddress, size : 0 .. MaxBlock + 1, foreign : BOOLEAN, ok : BOOLEAN]

\* reset_source_() and a view of storage that the Reader does not hold.
LEMMA ReplaceKeepsInv ==
    ASSUME SourceInv, NEW r \in exists, NEW members \in Members,
           members.owned = NoBlock, members.mapped = NoBlock,
           members.buffer # 0 =>
              /\ members.buffer_size > 0
              /\ \E b \in live \ Held(r) : InBlock(b, members.buffer, members.buffer_size),
           Unviewed(r, {}), Replace(r, members),
           call = NoCall, call' = call, BorrowOK',
           \/ exists' = exists
           \/ exists' = exists \ {r} /\ members = EmptyReader
    PROVE  SourceInv'
<1> USE DEF SourceInv
<1>1. /\ r \in Reader
      /\ live' = live \ Held(r)
      /\ reader' = [reader EXCEPT ![r] = members]
      /\ reader'[r] = members
      /\ \A q \in Reader \ {r} : reader'[q] = reader[q]
  BY DEF Replace, TypeOK
<1>2. \A q \in Reader \ {r} : Held(q)' = Held(q)
  BY <1>1 DEF Held
<1>3. Held(r)' = {}
  BY <1>1 DEF Held
<1>4. TypeOK'
  BY <1>1 DEF TypeOK, BorrowOK
<1>5. HoldersExist'
  BY <1>1 DEF HoldersExist, EmptyReader, NoBlock
<1>6. HeldIsLive' /\ HeldByOne'
  <2>1. \A q \in Reader \ {r} : Held(q) \cap Held(r) = {}
    BY <1>1 DEF HeldByOne
  <2> QED BY <1>1, <1>2, <1>3, <2>1 DEF HeldIsLive, HeldByOne
<1>7. ViewsWithinLive'
  <2> SUFFICES ASSUME NEW q \in Reader, reader'[q].buffer # 0
               PROVE  /\ reader'[q].buffer_size > 0
                      /\ Alive(reader[q].buffer, reader[q].buffer_size)'
    BY DEF ViewsWithinLive
  <2>1. CASE q = r
    BY <1>1, <2>1 DEF Alive, InBlock
  <2>2. CASE q # r
    <3>1. q \in exists
      BY <1>1, <2>2 DEF HoldersExist, EmptyReader
    <3> QED BY <1>1, <2>2, <3>1, OthersKeepViews
  <2> QED BY <2>1, <2>2
<1>8. NoneIsLost' /\ CallIsSafe'
  BY <1>1, <1>2 DEF NoneIsLost, CallIsSafe, NoCall
<1> QED BY <1>4, <1>5, <1>6, <1>7, <1>8

\* A range of what the Reader holds.
LEMMA ReborrowKeepsInv ==
    ASSUME SourceInv, NEW r \in exists, NEW data \in Nat, NEW length \in Nat,
           data \in 0 .. MaxAddress, length > 0, OwnsRange(r, data, length), Reborrow(r, data, length),
           call = NoCall, UNCHANGED <<exists, call>>, BorrowOK'
    PROVE  SourceInv'
<1> USE DEF SourceInv
<1>1. /\ r \in Reader
      /\ live' = live
      /\ reader' = [reader EXCEPT ![r] = View(r, data, length)]
      /\ \A q \in Reader \ {r} : reader'[q] = reader[q]
      /\ reader'[r].buffer = data /\ reader'[r].buffer_size = length
      /\ reader'[r].owned = reader[r].owned /\ reader'[r].mapped = reader[r].mapped
  BY MembersAreReal DEF Reborrow, View, TypeOK, Members
<1>2. PICK b \in live : b \in Block /\ InBlock(b, data, length)
  BY <1>1, MembersAreReal, ContainsIsInBlock DEF OwnsRange, HeldIsLive
<1>3. \A q \in Reader : Held(q)' = Held(q)
  BY <1>1 DEF Held
<1>4. TypeOK'
  <2>1. length \in 0 .. MaxBlock
    BY <1>2, ContainsIsInBlock
  <2>2. View(r, data, length) \in Members
    BY <1>1, <2>1 DEF TypeOK, View, Members
  <2> QED BY <1>1, <2>2 DEF TypeOK, BorrowOK
<1>5. ViewsWithinLive'
  BY <1>1, <1>2 DEF ViewsWithinLive, Alive, InBlock
<1>6. HoldersExist' /\ HeldIsLive' /\ HeldByOne' /\ NoneIsLost' /\ CallIsSafe'
  BY <1>1, <1>3
     DEF HoldersExist, EmptyReader, HeldIsLive, HeldByOne, NoneIsLost, CallIsSafe, NoBlock
<1> QED BY <1>4, <1>5, <1>6

\* parse_borrowed: a foreign range replaces the source, an own one keeps it.
LEMMA ParseBorrowedKeepsInv ==
    ASSUME SourceInv, NEW r \in Reader, NEW data \in 0 .. MaxAddress,
           NEW length \in 0 .. MaxBlock + 1, ParseBorrowed(r, data, length)
    PROVE  SourceInv'
<1> USE DEF SourceInv
<1>1. /\ r \in exists /\ call = NoCall /\ UNCHANGED <<exists, call>>
      /\ data \in Nat /\ length \in Nat
  BY MemoryAssumption DEF ParseBorrowed
<1>2. BorrowOK'
  <2>1. PICK ok \in BOOLEAN : Outcome(r, data, length, ok)
    BY DEF ParseBorrowed
  <2> DEFINE foreign == \E b \in live \ Held(r) : InBlock(b, data, length)
  <2>2. foreign \in BOOLEAN
    OBVIOUS
  <2>3. borrowed' = [data |-> data, size |-> length, foreign |-> foreign, ok |-> ok]
    BY <2>1 DEF Outcome
  <2> HIDE DEF foreign
  <2> QED BY <1>1, <2>2, <2>3 DEF BorrowOK
<1>3. EmptyReader \in Members
  BY MemoryAssumption DEF EmptyReader, Members
<1>4. ~ OwnsRange(r, data, length) \/ data = 0 \/ length = 0 => Unviewed(r, {})
  <2>1. WithinHeld(r, data, length) => OwnsRange(r, data, length) /\ data # 0 /\ length # 0
    BY <1>1, MembersAreReal, ContainsIsInBlock, BlocksAreReal DEF WithinHeld, OwnsRange, InBlock
  <2> QED BY <2>1 DEF ParseBorrowed
<1>5. CASE Replace(r, EmptyReader) /\ (~ OwnsRange(r, data, length) \/ data = 0 \/ length = 0)
  BY <1>1, <1>2, <1>3, <1>4, <1>5, ReplaceKeepsInv DEF EmptyReader
<1>6. CASE /\ data # 0 /\ length # 0
           /\ ~ AliasesSource(r, data)
           /\ Replace(r, [EmptyReader EXCEPT !.buffer = data, !.buffer_size = length])
  <2> DEFINE members == [EmptyReader EXCEPT !.buffer = data, !.buffer_size = length]
  <2>1. PICK b \in live : InBlock(b, data, length)
    BY <1>6 DEF ParseBorrowed, Borrowable, Alive
  <2>2. b \in Block /\ ContainsAddress(b, data) /\ length \in 0 .. MaxBlock
    BY <1>1, <2>1, ContainsIsInBlock DEF TypeOK
  <2>3. b \notin Held(r)
    BY <1>6, <2>2 DEF AliasesSource
  <2>4. ~ OwnsRange(r, data, length)
    BY <1>6 DEF OwnsRange, AliasesSource, ContainsRange, ContainsAddress
  <2>5. /\ members \in Members /\ members.owned = NoBlock /\ members.mapped = NoBlock
        /\ members.buffer = data /\ members.buffer_size = length
    BY <2>2 DEF EmptyReader, Members
  <2>6. Replace(r, members)
    BY <1>6
  <2> HIDE DEF members
  <2>7. \E c \in live \ Held(r) : InBlock(c, members.buffer, members.buffer_size)
    BY <2>1, <2>3, <2>5
  <2>8. Unviewed(r, {}) /\ members.buffer_size > 0
    BY <1>1, <1>4, <1>6, <2>4, <2>5
  <2> QED BY <1>1, <1>2, <2>5, <2>6, <2>7, <2>8, ReplaceKeepsInv
<1>7. CASE /\ data # 0 /\ length # 0
           /\ OwnsRange(r, data, length)
           /\ Reborrow(r, data, length)
  BY <1>1, <1>2, <1>7, ReborrowKeepsInv
<1> QED BY <1>5, <1>6, <1>7 DEF ParseBorrowed

\* Nothing but the call and the blocks in memory change, and nothing is released.
LEMMA AcquireKeepsInv ==
    ASSUME SourceInv, live \subseteq live', live' \subseteq Block,
           UNCHANGED <<exists, reader>>, BorrowOK',
           \A b \in live' \ live : b.kind # "caller" => call' # NoCall /\ call'.new = b,
           \A b \in live : call # NoCall /\ call.new = b => call' # NoCall /\ call'.new = b,
           TypeOK => TypeOK',
           CallIsSafe'
    PROVE  SourceInv'
<1> USE DEF SourceInv
<1>1. \A r \in Reader : Held(r)' = Held(r)
  BY DEF Held
<1>2. HoldersExist' /\ HeldIsLive' /\ HeldByOne'
  BY <1>1 DEF HoldersExist, HeldIsLive, HeldByOne, EmptyReader, NoBlock
<1>3. ViewsWithinLive'
  BY DEF ViewsWithinLive, Alive, InBlock
<1>4. NoneIsLost'
  BY <1>1 DEF NoneIsLost, NoCall
<1> QED BY <1>2, <1>3, <1>4

\* parse_owned and mmap begin with a source that nobody else views, and with
\* contents or a path that can be read.
LEMMA BeginKeepsInv ==
    ASSUME SourceInv, NEW r \in Reader, NEW op \in {"parse_owned", "mmap"},
           NEW data \in 0 .. MaxAddress, NEW length \in 0 .. MaxBlock, Begin(r, op, data, length)
    PROVE  SourceInv'
<1> USE DEF SourceInv
<1>1. /\ call' = [op |-> op, reader |-> r, data |-> data, size |-> length,
                  new |-> NoBlock, step |-> "acquire"]
      /\ UNCHANGED <<live, exists, reader>> /\ borrowed' = NoBorrow
      /\ call = NoCall /\ r \in exists /\ Readable(data, length) /\ Unviewed(r, {})
  BY DEF Begin
<1>2. BorrowOK' /\ TypeOK'
  BY <1>1, MemoryAssumption DEF BorrowOK, NoBorrow, TypeOK
<1>3. CallIsSafe'
  BY <1>1 DEF CallIsSafe, Unviewed, Held, Views, Overlaps, Footprint, Readable, Alive, InBlock,
              NoBlock
<1> QED BY <1>1, <1>2, <1>3, AcquireKeepsInv DEF TypeOK

\* The copy, or the mapping, is made; or there is nothing to hold, or it fails.
LEMMA AcquiredKeepsInv ==
    ASSUME SourceInv, CopyContents \/ CopyThrows \/ MapFile
    PROVE  SourceInv'
<1> USE DEF SourceInv
<1>1. /\ call # NoCall /\ call.step = "acquire"
      /\ UNCHANGED <<exists, reader, borrowed>>
      /\ call.new = NoBlock
      /\ call \in [op : {"parse_owned", "mmap"}, reader : Reader, data : 0 .. MaxAddress,
                   size : 0 .. MaxBlock, new : Block \cup {NoBlock},
                   step : {"acquire", "replace"}]
      /\ BorrowOK'
  BY DEF CopyContents, CopyThrows, MapFile, CallIsSafe, TypeOK, BorrowOK
<1>2. CASE call' = NoCall /\ UNCHANGED live
  <2>1. TypeOK' /\ CallIsSafe'
    BY <1>1, <1>2 DEF TypeOK, CallIsSafe, NoCall
  <2> QED BY <1>1, <1>2, <2>1, AcquireKeepsInv, BlocksAreReal DEF TypeOK
<1>3. CASE call' = [call EXCEPT !.step = "replace"] /\ UNCHANGED live
  <2>1. TypeOK' /\ CallIsSafe'
    BY <1>1, <1>3 DEF TypeOK, CallIsSafe, NoCall, Unviewed, Held, Views, Overlaps, Footprint,
                      NoBlock
  <2> QED BY <1>1, <1>3, <2>1, AcquireKeepsInv, BlocksAreReal DEF TypeOK
<1>4. ASSUME NEW b \in Block, b.kind \in {"string", "mapping"}, Free(b),
             live' = live \cup {b}, call' = [call EXCEPT !.new = b, !.step = "replace"]
      PROVE  SourceInv'
  <2>1. b \notin live /\ b # NoBlock
    BY <1>4, FreeIsNew, BlocksAreReal
  <2>2. TypeOK'
    BY <1>1, <1>4 DEF TypeOK
  <2>3. call'.new = b /\ call'.reader = call.reader /\ call'.step = "replace" /\ call' # NoCall
    BY <1>1, <1>4 DEF NoCall
  <2>4. \A r \in Reader : Held(r)' = Held(r)
    BY <1>1 DEF Held
  <2>5. CallIsSafe'
    BY <1>1, <1>4, <2>1, <2>3, <2>4
       DEF CallIsSafe, Unviewed, Views, Overlaps, Footprint, HeldIsLive, NoBlock, TypeOK
  <2> QED BY <1>1, <1>4, <2>2, <2>3, <2>5, AcquireKeepsInv, BlocksAreReal DEF TypeOK
<1> QED BY <1>2, <1>3, <1>4 DEF CopyContents, CopyThrows, MapFile

\* The second step of parse_owned and mmap: the new block, if any, gets its holder.
LEMMA AdoptKeepsInv ==
    ASSUME SourceInv, Adopt
    PROVE  SourceInv'
<1> USE DEF SourceInv
<1>0. call # NoCall /\ call.reader \in Reader /\ call.new \in Block \cup {NoBlock}
  BY DEF Adopt, TypeOK
<1> PICK r \in Reader, b \in Block \cup {NoBlock} : r = call.reader /\ b = call.new
  BY <1>0
<1> PICK new : new = Adopted(b)
  OBVIOUS
<1>1. /\ r \in exists /\ Unviewed(r, {})
      /\ b # NoBlock =>
            /\ b \in live /\ b.kind \in {"string", "mapping"}
            /\ \A q \in Reader : b \notin Held(q)
      /\ call' = NoCall /\ UNCHANGED <<exists, borrowed>>
      /\ live' = live \ Held(r)
      /\ reader' = [reader EXCEPT ![r] = new]
  BY <1>0 DEF Adopt, Replace, CallIsSafe
<1>2. /\ new \in Members
      /\ \/ b = NoBlock /\ new = EmptyReader
         \/ /\ b \in Block /\ b # NoBlock
            /\ {new.owned, new.mapped} = {b, NoBlock}
            /\ new.buffer = b.base /\ new.buffer_size = b.size
  <2>1. CASE b = NoBlock
    BY <2>1, MemoryAssumption DEF Adopted, EmptyReader, Members, NoBlock
  <2>2. CASE b # NoBlock
    BY <1>1, <2>2, BlocksAreReal, MemoryAssumption DEF Adopted, Members
  <2> QED BY <2>1, <2>2
<1>3. /\ reader'[r] = new
      /\ \A q \in Reader \ {r} : reader'[q] = reader[q]
  BY <1>1 DEF TypeOK
<1>4. /\ \A q \in Reader \ {r} : Held(q)' = Held(q)
      /\ Held(r)' = {b} \ {NoBlock}
  BY <1>1, <1>2, <1>3 DEF Held, EmptyReader
<1>5. TypeOK'
  BY <1>1, <1>2 DEF TypeOK
<1>6. HoldersExist'
  BY <1>1, <1>3 DEF HoldersExist, EmptyReader, NoBlock
<1>7. HeldIsLive' /\ HeldByOne'
  <2>1. \A q \in Reader \ {r} : Held(q) \cap Held(r) = {}
    BY <1>1 DEF HeldByOne
  <2>2. \A q \in Reader : Held(q)' \subseteq live'
    BY <1>1, <1>4, <2>1 DEF HeldIsLive
  <2> QED BY <1>1, <1>4, <2>1, <2>2 DEF HeldIsLive, HeldByOne
<1>8. ViewsWithinLive'
  <2> SUFFICES ASSUME NEW q \in Reader, reader'[q].buffer # 0
               PROVE  /\ reader'[q].buffer_size > 0
                      /\ Alive(reader[q].buffer, reader[q].buffer_size)'
    BY DEF ViewsWithinLive
  <2>1. CASE q = r
    <3>1. b \in Block /\ new.buffer = b.base /\ new.buffer_size = b.size
      BY <1>2, <1>3, <2>1 DEF EmptyReader
    <3>2. InBlock(b, b.base, b.size) /\ b.size > 0
      BY <3>1, BlocksAreReal DEF InBlock
    <3>3. b \in live'
      BY <1>1, <3>1, BlocksAreReal
    <3> QED BY <1>3, <2>1, <3>1, <3>2, <3>3 DEF Alive, InBlock
  <2>2. CASE q # r
    <3>1. q \in exists
      BY <1>3, <2>2 DEF HoldersExist, EmptyReader
    <3> QED BY <1>1, <1>3, <2>2, <3>1, OthersKeepViews
  <2> QED BY <2>1, <2>2
<1>9. NoneIsLost'
  <2> SUFFICES ASSUME NEW c \in live', c.kind # "caller"
               PROVE  \E q \in Reader : c \in Held(q)'
    BY DEF NoneIsLost
  <2>1. c \in live /\ c \notin Held(r) /\ c # NoBlock
    BY <1>1, BlocksAreReal DEF TypeOK
  <2> QED BY <1>1, <1>4, <2>1 DEF NoneIsLost
<1>10. CallIsSafe'
  BY <1>1 DEF CallIsSafe, NoCall
<1> QED BY <1>5, <1>6, <1>7, <1>8, <1>9, <1>10

\* A new Reader is empty.
LEMMA ConstructKeepsInv ==
    ASSUME SourceInv, NEW r \in Reader, Construct(r)
    PROVE  SourceInv'
<1> USE DEF SourceInv
<1>1. /\ r \notin exists /\ exists' = exists \cup {r}
      /\ reader' = reader
      /\ call = NoCall /\ UNCHANGED <<live, call>> /\ borrowed' = NoBorrow
  BY DEF Construct, HoldersExist, TypeOK
<1>2. \A q \in Reader : Held(q)' = Held(q)
  BY <1>1 DEF Held
<1>3. TypeOK'
  BY <1>1, MemoryAssumption DEF TypeOK, NoBorrow
<1>4. HoldersExist' /\ HeldIsLive' /\ HeldByOne' /\ NoneIsLost' /\ CallIsSafe'
  BY <1>1, <1>2
     DEF HoldersExist, HeldIsLive, HeldByOne, NoneIsLost, CallIsSafe, EmptyReader, NoBlock
<1>5. ViewsWithinLive'
  BY <1>1 DEF ViewsWithinLive, Alive, InBlock
<1> QED BY <1>3, <1>4, <1>5

\* A destroyed Reader releases what it holds, and no other one viewed it.
LEMMA DestroyKeepsInv ==
    ASSUME SourceInv, NEW r \in Reader, Destroy(r)
    PROVE  SourceInv'
<1>1. EmptyReader \in Members /\ BorrowOK'
  BY MemoryAssumption DEF EmptyReader, Members, Destroy, NoBorrow, BorrowOK
<1> QED BY <1>1, ReplaceKeepsInv DEF Destroy, EmptyReader

\* The members of one Reader go to another one, which has lost its own.
LEMMA TransferKeepsInv ==
    ASSUME SourceInv, NEW r \in Reader, NEW other \in exists, r # other,
           live' = live \ Held(r),
           reader' = [reader EXCEPT ![r] = reader[other], ![other] = EmptyReader],
           exists' = exists \cup {r},
           \A q \in exists \ {r, other} : \A b \in Held(r) : ~ Views(q, b),
           \A b \in Held(r) : ~ InBlock(b, reader[other].buffer, reader[other].buffer_size),
           call = NoCall, call' = call, BorrowOK'
    PROVE  SourceInv'
<1> USE DEF SourceInv
<1>1. /\ other \in Reader
      /\ reader'[r] = reader[other] /\ reader'[other] = EmptyReader
      /\ \A q \in Reader \ {r, other} : reader'[q] = reader[q]
  BY DEF TypeOK
<1>2. /\ Held(r)' = Held(other)
      /\ Held(other)' = {}
      /\ \A q \in Reader \ {r, other} : Held(q)' = Held(q)
  <2>1. Held(r)' = Held(other)
    BY <1>1 DEF Held
  <2>2. Held(other)' = {}
    BY <1>1 DEF Held, EmptyReader
  <2>3. \A q \in Reader \ {r, other} : Held(q)' = Held(q)
    BY <1>1 DEF Held
  <2> QED BY <2>1, <2>2, <2>3
<1>3. TypeOK'
  <2>1. EmptyReader \in Members
    BY MemoryAssumption DEF EmptyReader, Members
  <2> QED BY <1>1, <2>1 DEF TypeOK, BorrowOK
<1>4. HoldersExist'
  BY <1>1 DEF HoldersExist, EmptyReader, NoBlock
<1>5. HeldIsLive' /\ HeldByOne'
  <2>1. \A q \in Reader \ {r} : Held(q) \cap Held(r) = {}
    BY DEF HeldByOne
  <2>2. \A q \in Reader : Held(q)' \subseteq live'
    BY <1>1, <1>2, <2>1 DEF HeldIsLive
  <2>3. \A p, q \in Reader : p # q => Held(p)' \cap Held(q)' = {}
    BY <1>1, <1>2 DEF HeldByOne
  <2> QED BY <2>2, <2>3 DEF HeldIsLive, HeldByOne
<1>6. ViewsWithinLive'
  <2> SUFFICES ASSUME NEW q \in Reader, reader'[q].buffer # 0
               PROVE  /\ reader'[q].buffer_size > 0
                      /\ Alive(reader[q].buffer, reader[q].buffer_size)'
    BY DEF ViewsWithinLive
  <2>1. CASE q = r
    BY <1>1, <2>1 DEF ViewsWithinLive, Alive, InBlock
  <2>2. CASE q \notin {r, other}
    <3>0. reader'[q] = reader[q] /\ reader[q].buffer # 0
      BY <1>1, <2>2
    <3>1. q \in exists
      BY <3>0 DEF HoldersExist, EmptyReader
    <3>2. PICK b \in live : InBlock(b, reader[q].buffer, reader[q].buffer_size)
      BY <3>0 DEF ViewsWithinLive, Alive
    <3>3. reader[q].buffer_size > 0 /\ b \in Block
      BY <3>0 DEF ViewsWithinLive, TypeOK
    <3>4. Views(q, b)
      BY <3>2, <3>3, MembersAreReal, ViewsOverlap DEF Views
    <3>5. b \in live'
      BY <2>2, <3>1, <3>4
    <3> QED BY <3>0, <3>2, <3>3, <3>5 DEF Alive, InBlock
  <2>3. q # other
    <3>1. reader'[other].buffer = 0
      BY <1>1 DEF EmptyReader
    <3> QED BY <3>1
  <2> QED BY <2>1, <2>2, <2>3
<1>7. NoneIsLost'
  <2> SUFFICES ASSUME NEW b \in live', b.kind # "caller"
               PROVE  \E q \in Reader : b \in Held(q)'
    BY DEF NoneIsLost
  <2>1. b \in live /\ b \notin Held(r)
    OBVIOUS
  <2>2. PICK q \in Reader : b \in Held(q)
    BY <2>1 DEF NoneIsLost
  <2> QED BY <1>1, <1>2, <2>1, <2>2
<1>8. CallIsSafe'
  BY DEF CallIsSafe
<1> QED BY <1>3, <1>4, <1>5, <1>6, <1>7, <1>8

\* A Reader made from another one takes all its members.
LEMMA MoveConstructKeepsInv ==
    ASSUME SourceInv, NEW r \in Reader, NEW other \in Reader, MoveConstruct(r, other)
    PROVE  SourceInv'
<1>1. Held(r) = {}
  BY DEF SourceInv, HoldersExist, MoveConstruct, Held, EmptyReader
<1>2. BorrowOK'
  BY MemoryAssumption DEF MoveConstruct, NoBorrow, BorrowOK
<1> QED BY <1>1, <1>2, TransferKeepsInv DEF MoveConstruct

\* Move assignment: a view into the target's own storage keeps that storage, any
\* other source replaces it.
LEMMA MoveAssignKeepsInv ==
    ASSUME SourceInv, NEW r \in Reader, NEW other \in Reader, MoveAssign(r, other)
    PROVE  SourceInv'
<1> USE DEF SourceInv
<1> PICK data, length : data = reader[other].buffer /\ length = reader[other].buffer_size
  OBVIOUS
<1>1. /\ call = NoCall /\ r \in exists /\ other \in exists /\ r # other
      /\ UNCHANGED <<exists, call>>
      /\ Unviewed(r, {other}) \/ WithinHeld(r, data, length)
      /\ data \in Nat /\ length \in Nat
  BY MembersAreReal DEF MoveAssign
<1>2. BorrowOK'
  BY MemoryAssumption DEF MoveAssign, NoBorrow, BorrowOK
<1>3. \A b \in Held(r) : b \in Block
  BY MembersAreReal
<1>4. CASE ~ OwnsRange(r, data, length)
  <2>1. \A b \in Held(r) : ~ InBlock(b, data, length)
    BY <1>1, <1>3, <1>4, ContainsIsInBlock DEF OwnsRange
  <2>2. \A q \in exists \ {r, other} : \A b \in Held(r) : ~ Views(q, b)
    BY <1>1, <2>1 DEF WithinHeld, Unviewed
  <2>3. /\ live' = live \ Held(r)
        /\ reader' = [reader EXCEPT ![r] = reader[other], ![other] = EmptyReader]
        /\ exists' = exists \cup {r}
    BY <1>1, <1>4 DEF MoveAssign
  <2> QED BY <1>1, <1>2, <2>1, <2>2, <2>3, TransferKeepsInv
<1>5. CASE OwnsRange(r, data, length)
  <2>1. /\ reader' = [reader EXCEPT ![r] = View(r, data, length),
                                    ![other].buffer = 0, ![other].buffer_size = 0]
        /\ live' = live
    BY <1>5 DEF MoveAssign
  <2>2. data # 0
    BY <1>5 DEF OwnsRange, ContainsRange
  <2>3. View(r, data, length) \in Members /\ View(other, 0, 0) \in Members
    <3>1. reader[r] \in Members /\ reader[other] \in Members
      BY MembersAreReal
    <3>2. data \in 0 .. MaxAddress /\ length \in 0 .. MaxBlock
      BY <3>1 DEF Members
    <3>3. 0 \in 0 .. MaxAddress /\ 0 \in 0 .. MaxBlock
      BY MemoryAssumption
    <3> QED BY <3>1, <3>2, <3>3 DEF View, Members
  <2>4. /\ reader'[r] = View(r, data, length)
        /\ reader'[other] = View(other, 0, 0)
        /\ \A q \in Reader \ {r, other} : reader'[q] = reader[q]
        /\ reader' \in [Reader -> Members]
    <3>1. reader' = [reader EXCEPT ![r] = View(r, data, length), ![other] = View(other, 0, 0)]
      BY <1>1, <2>1 DEF View, TypeOK
    <3> QED BY <1>1, <2>3, <3>1 DEF TypeOK
  <2>5. \A q \in Reader : Held(q)' = Held(q)
    <3>1. reader[r] \in Members /\ reader[other] \in Members
      BY MembersAreReal
    <3>2. /\ reader'[r].owned = reader[r].owned /\ reader'[r].mapped = reader[r].mapped
          /\ reader'[other].owned = reader[other].owned
          /\ reader'[other].mapped = reader[other].mapped
      BY <2>4, <3>1 DEF View, Members
    <3> QED BY <2>4, <3>2 DEF Held
  <2>6. TypeOK'
    BY <1>1, <1>2, <2>1, <2>4 DEF TypeOK, BorrowOK
  <2>7. HoldersExist' /\ HeldIsLive' /\ HeldByOne' /\ NoneIsLost' /\ CallIsSafe'
    BY <1>1, <2>1, <2>4, <2>5
       DEF HoldersExist, HeldIsLive, HeldByOne, NoneIsLost, CallIsSafe, EmptyReader, NoBlock
  <2>8. ViewsWithinLive'
    <3> SUFFICES ASSUME NEW q \in Reader, reader'[q].buffer # 0
                 PROVE  /\ reader'[q].buffer_size > 0
                        /\ Alive(reader[q].buffer, reader[q].buffer_size)'
      BY DEF ViewsWithinLive
    <3>1. CASE q = r
      <4>1. reader'[q].buffer = data /\ reader'[q].buffer_size = length
        <5>1. reader[r] \in Members
          BY MembersAreReal
        <5> QED BY <2>4, <3>1, <5>1 DEF View, Members
      <4> QED BY <2>1, <2>2, <4>1 DEF ViewsWithinLive, Alive, InBlock
    <3>2. q # other
      <4>1. reader[other] \in Members
        BY MembersAreReal
      <4> QED BY <2>4, <4>1 DEF View, Members
    <3>3. CASE q \notin {r, other}
      BY <2>1, <2>4, <3>3 DEF ViewsWithinLive, Alive, InBlock
    <3> QED BY <3>1, <3>2, <3>3
  <2> QED BY <2>6, <2>7, <2>8
<1> QED BY <1>4, <1>5

\* The caller's own buffers come and go, unless a Reader views them.
LEMMA CallerKeepsInv ==
    ASSUME SourceInv, NEW b \in Block, CallerAllocates(b) \/ CallerReleases(b)
    PROVE  SourceInv'
<1> USE DEF SourceInv
<1>1. call = NoCall /\ UNCHANGED <<exists, reader, call>> /\ b.kind = "caller"
  BY DEF CallerAllocates, CallerReleases
<1>4. BorrowOK'
  <2>1. borrowed' = borrowed \/ borrowed' = NoBorrow
    BY DEF CallerAllocates, CallerReleases
  <2>2. BorrowOK
    BY DEF TypeOK, BorrowOK
  <2>3. NoBorrow \in [data : 0 .. MaxAddress, size : 0 .. MaxBlock + 1,
                     foreign : BOOLEAN, ok : BOOLEAN]
    BY MemoryAssumption DEF NoBorrow
  <2> QED BY <2>1, <2>2, <2>3 DEF BorrowOK
<1>2. CASE CallerAllocates(b)
  BY <1>1, <1>2, <1>4, AcquireKeepsInv DEF CallerAllocates, TypeOK, CallIsSafe, BorrowOK
<1>3. CASE CallerReleases(b)
  <2>1. live' = live \ {b} /\ \A r \in exists : ~ Views(r, b)
    BY <1>3 DEF CallerReleases
  <2>2. \A r \in Reader : Held(r)' = Held(r) /\ b \notin Held(r)
    BY <1>1, MembersAreReal DEF Held
  <2>3. TypeOK'
    BY <1>1, <1>4, <2>1 DEF TypeOK, BorrowOK
  <2>4. HoldersExist' /\ HeldIsLive' /\ HeldByOne' /\ NoneIsLost' /\ CallIsSafe'
    BY <1>1, <2>1, <2>2
       DEF HoldersExist, HeldIsLive, HeldByOne, NoneIsLost, CallIsSafe, EmptyReader, NoBlock
  <2>5. ViewsWithinLive'
    <3> SUFFICES ASSUME NEW q \in Reader, reader[q].buffer # 0
                 PROVE  /\ reader[q].buffer_size > 0
                        /\ \E c \in live' : InBlock(c, reader[q].buffer, reader[q].buffer_size)
      BY <1>1 DEF ViewsWithinLive, Alive, InBlock
    <3>1. q \in exists
      BY DEF HoldersExist, EmptyReader
    <3>2. PICK c \in live : InBlock(c, reader[q].buffer, reader[q].buffer_size)
      BY DEF ViewsWithinLive, Alive
    <3>3. reader[q].buffer_size > 0 /\ c \in Block
      BY DEF ViewsWithinLive, TypeOK
    <3>4. Views(q, c)
      BY <3>2, <3>3, MembersAreReal, ViewsOverlap DEF Views
    <3> QED BY <2>1, <3>1, <3>2, <3>3, <3>4
  <2> QED BY <2>3, <2>4, <2>5
<1> QED BY <1>2, <1>3

-----------------------------------------------------------------------------
\* Before the first call no Reader exists and no block is allocated.
LEMMA InitSourceInv ==
    ASSUME Init
    PROVE  SourceInv
<1>1. TypeOK
  BY MemoryAssumption DEF Init, TypeOK, EmptyReader, Members, NoBorrow
<1>2. \A r \in Reader : Held(r) = {} /\ reader[r] = EmptyReader
  BY DEF Init, Held, EmptyReader
<1> QED BY <1>1, <1>2
        DEF Init, SourceInv, HoldersExist, HeldIsLive, HeldByOne, ViewsWithinLive, NoneIsLost,
            CallIsSafe, EmptyReader

\* Every call of a Reader, and every step of its caller, keeps the invariant.
LEMMA NextSourceInv ==
    ASSUME SourceInv, [Next]_vars
    PROVE  SourceInv'
<1>1. ASSUME NEW r \in Reader, Construct(r) \/ Destroy(r)
      PROVE  SourceInv'
  BY <1>1, ConstructKeepsInv, DestroyKeepsInv
<1>2. ASSUME NEW r \in Reader, NEW other \in Reader,
             MoveConstruct(r, other) \/ MoveAssign(r, other)
      PROVE  SourceInv'
  BY <1>2, MoveConstructKeepsInv, MoveAssignKeepsInv
<1>3. CASE UNCHANGED vars
  BY <1>3
     DEF vars, SourceInv, TypeOK, HoldersExist, HeldIsLive, HeldByOne, ViewsWithinLive,
         NoneIsLost, CallIsSafe, Held, Alive, InBlock, Unviewed, Views, Overlaps, Footprint,
         Readable
<1> QED BY <1>1, <1>2, <1>3, ParseBorrowedKeepsInv, BeginKeepsInv, AcquiredKeepsInv,
           AdoptKeepsInv, CallerKeepsInv
        DEF Next

\* The inductive invariant of every legal sequence of calls.
LEMMA SourceInvariant == Spec => []SourceInv
<1>1. SourceInv /\ [Next]_vars => SourceInv'
  BY NextSourceInv
<1> QED BY <1>1, InitSourceInv, PTL DEF Spec

\* No legal sequence of calls on any number of Readers leaves one with a view of
\* released memory: the overlap tests of reader.hpp keep every source that is
\* still looked at.
THEOREM ReadersViewLiveMemory == Spec => []ViewsAreLive
<1>1. SourceInv => ViewsAreLive
  BY DEF SourceInv, ViewsWithinLive, ViewsAreLive, TypeOK
<1> QED BY <1>1, SourceInvariant, PTL

\* Every owned string and every mapping is released exactly once: it always has
\* one holder, a Reader or the call that has made it.
THEOREM BlocksHaveOneHolder == Spec => []OneHolder
<1>1. ASSUME SourceInv
      PROVE  OneHolder
  <2> SUFFICES ASSUME NEW b \in live, b.kind # "caller"
               PROVE  \/ \E r \in exists :
                            /\ b \in Held(r)
                            /\ \A q \in Reader \ {r} : b \notin Held(q)
                            /\ call.op # "none" => call.new # b
                      \/ /\ call.op # "none" /\ call.new = b
                         /\ \A r \in Reader : b \notin Held(r)
    BY DEF OneHolder
  <2> USE <1>1 DEF SourceInv
  <2>1. b # NoBlock /\ (call.op # "none" <=> call # NoCall)
    BY BlocksAreReal DEF TypeOK, NoCall
  <2>2. ASSUME NEW r \in Reader, b \in Held(r)
        PROVE  /\ r \in exists
               /\ \A q \in Reader \ {r} : b \notin Held(q)
               /\ call # NoCall => call.new # b
    BY <2>1, <2>2 DEF HoldersExist, HeldByOne, CallIsSafe, Held, EmptyReader
  <2>3. CASE call # NoCall /\ call.new = b
    BY <2>1, <2>3 DEF CallIsSafe
  <2> QED BY <2>1, <2>2, <2>3 DEF NoneIsLost
<1> QED BY <1>1, SourceInvariant, PTL

\* parse_owned and mmap read contents and paths before they release what these
\* may lie in.
THEOREM CallsReadBeforeReset == Spec => []ReadsBeforeReset
<1>1. SourceInv => ReadsBeforeReset
  BY DEF SourceInv, CallIsSafe, ReadsBeforeReset, TypeOK, NoCall
<1> QED BY <1>1, SourceInvariant, PTL

-----------------------------------------------------------------------------
(* Validation: the automaton.                                              *)

\* The source is one of bytes, with a policy of the Reader.
SourceOK ==
    /\ size \in Nat
    /\ buffer \in Buffer(size)
    /\ trim \in TrimPolicies

\* What the automaton has made of the first k bytes.
Reads(k) == Reading(buffer, size, trim)[k]

ParseErrors ==
    [code : ErrorCodes, byte_offset : Int, row : Int, column : Int]

Readings ==
    [state : {"start", "bare", "quoted", "quote", "after", "return"},
     opened : Nat, row : Nat, column : Nat, error : SUBSET ParseErrors]

IsReading(reading, source, trimmed, first, last) ==
    reading = [k \in first .. last |->
                  IF k = 0 THEN Start
                  ELSE Read(Blank(trimmed), reading[k - 1], k - 1, source[k - 1])]

\* There is such a reading of as many bytes as one likes.
LEMMA ReadingExists ==
    ASSUME NEW source, NEW trimmed, NEW last \in Nat
    PROVE  \E reading : IsReading(reading, source, trimmed, 0, last)
<1> DEFINE Next_(reading, k) == Read(Blank(trimmed), reading[k - 1], k - 1, source[k - 1])
           Good == {n \in 0 .. last : \E reading : IsReading(reading, source, trimmed, 0, n)}
<1>1. 0 \in Good
    <2> DEFINE one == [k \in 0 .. 0 |-> Start]
    <2>1. one = [k \in 0 .. 0 |-> IF k = 0 THEN Start ELSE Next_(one, k)]
        <3>1. \A k \in 0 .. 0 : k = 0
            OBVIOUS
        <3> HIDE DEF one
        <3>2. one = [k \in 0 .. 0 |-> Start]
            BY Zenon DEF one
        <3>3. [k \in 0 .. 0 |-> Start] = [k \in 0 .. 0 |-> IF k = 0 THEN Start ELSE Next_(one, k)]
            BY <3>1, Zenon
        <3> QED
            BY <3>2, <3>3, Zenon
    <2>2. IsReading(one, source, trimmed, 0, 0)
        BY <2>1, Zenon DEF IsReading
    <2>3. 0 \in 0 .. last
        OBVIOUS
    <2> QED
        BY <2>2, <2>3, Zenon
<1>2. ASSUME NEW n \in 0 .. last - 1, n \in Good
      PROVE  n + 1 \in Good
    <2>1. PICK before : IsReading(before, source, trimmed, 0, n)
        BY <1>2
    <2> DEFINE all == [k \in 0 .. n + 1 |-> IF k = n + 1 THEN Next_(before, k) ELSE before[k]]
    <2>2. ASSUME NEW k \in 0 .. n + 1
          PROVE  all[k] = IF k = 0 THEN Start ELSE Next_(all, k)
        <3>1. k # 0 => all[k - 1] = before[k - 1]
            <4>1. ASSUME k # 0 PROVE k - 1 \in 0 .. n + 1 /\ k - 1 # n + 1
                BY <4>1
            <4> QED
                BY <4>1
        <3>2. CASE k = n + 1
            <4>1. k # 0
                BY <3>2
            <4>2. all[k] = Next_(before, k)
                BY <3>2
            <4> HIDE DEF all
            <4> QED
                BY <3>1, <4>1, <4>2, Zenon
        <3>3. CASE k # n + 1
            <4>1. k \in 0 .. n
                BY <3>3
            <4>2. before[k] = IF k = 0 THEN Start ELSE Next_(before, k)
                BY <2>1, <4>1, Zenon DEF IsReading
            <4>3. all[k] = before[k]
                BY <3>3
            <4> HIDE DEF all
            <4> QED
                BY <3>1, <4>2, <4>3, Zenon
        <3> QED
            BY <3>2, <3>3
    <2>3. all = [k \in 0 .. n + 1 |-> all[k]]
        OBVIOUS
    <2> HIDE DEF all
    <2>4. [k \in 0 .. n + 1 |-> all[k]]
            = [k \in 0 .. n + 1 |-> IF k = 0 THEN Start ELSE Next_(all, k)]
        BY <2>2, Zenon
    <2>5. IsReading(all, source, trimmed, 0, n + 1)
        BY <2>3, <2>4, Zenon DEF IsReading
    <2>6. n + 1 \in 0 .. last
        OBVIOUS
    <2> QED
        BY <2>5, <2>6, Zenon
<1>3. \A n \in 0 .. last : n \in Good
    <2> HIDE DEF Good
    <2> QED
        BY <1>1, <1>2, Upwards
<1>4. last \in 0 .. last
    OBVIOUS
<1> QED
    BY <1>3, <1>4

\* So it is what it says, from one byte to the next.
LEMMA ReadingIs ==
    ASSUME SourceOK
    PROVE  /\ Reads(0) = Start
           /\ \A k \in 0 .. size - 1 :
                 Reads(k + 1) = Read(Blank(trim), Reads(k), k, buffer[k])
<1> DEFINE reading == Reading(buffer, size, trim)
<1>1. IsReading(reading, buffer, trim, 0, size)
    <2>1. \E r : IsReading(r, buffer, trim, 0, size)
        BY ReadingExists DEF SourceOK
    <2>2. reading = CHOOSE r : IsReading(r, buffer, trim, 0, size)
        BY Zenon DEF Reading, IsReading
    <2> QED
        BY <2>1, <2>2, Zenon
<1>2. \A k \in 0 .. size :
         reading[k] = IF k = 0 THEN Start
                      ELSE Read(Blank(trim), reading[k - 1], k - 1, buffer[k - 1])
    <2> HIDE DEF reading
    <2> QED
        BY <1>1, Zenon DEF IsReading
<1>3. 0 \in 0 .. size
    BY DEF SourceOK
<1>4. \A k \in 0 .. size - 1 : k + 1 \in 0 .. size /\ k + 1 # 0 /\ (k + 1) - 1 = k
    BY DEF SourceOK
<1> HIDE DEF reading
<1>5. \A k \in 0 .. size - 1 : reading[k + 1] = Read(Blank(trim), reading[k], k, buffer[k])
    <2> TAKE k \in 0 .. size - 1
    <2>1. reading[k + 1] = Read(Blank(trim), reading[(k + 1) - 1], (k + 1) - 1, buffer[(k + 1) - 1])
        BY <1>2, <1>4, Zenon
    <2> QED
        BY <1>4, <2>1
<1> QED
    BY <1>2, <1>3, <1>5, Zenon DEF Reads, reading

\* Every reading has its types.
LEMMA ReadingsHaveTypes ==
    ASSUME SourceOK
    PROVE  \A k \in 0 .. size : Reads(k) \in Readings
<1> DEFINE Good == {k \in 0 .. size : Reads(k) \in Readings}
<1>1. size \in Nat /\ 0 \in 0 .. size
    BY DEF SourceOK
<1>2. 0 \in Good
    BY <1>1, ReadingIs DEF Start, Readings
<1>3. ASSUME NEW k \in 0 .. size - 1, k \in Good PROVE k + 1 \in Good
    <2> DEFINE s == Reads(k)
               b == buffer[k]
               next == Delta(Blank(trim), s.state, b)
    <2>1. /\ k + 1 \in 0 .. size /\ k \in Nat
          /\ Reads(k + 1) = Read(Blank(trim), s, k, b)
        BY <1>1, ReadingIs
    <2>2. s \in Readings
        BY <1>3
    <2>3. next \in {"start", "bare", "quoted", "quote", "after", "return", "error"}
        BY <2>2 DEF Delta, Readings
    <2>4. ErrorAt(s, k, b) \in ParseErrors
        <3>1. ErrorCode(s.state, b) \in ErrorCodes
            BY DEF ErrorCode, ErrorCodes
        <3>2. s.row \in Int /\ s.column \in Int /\ s.opened \in Int /\ k - 1 \in Int /\ k \in Int
            BY <2>1, <2>2 DEF Readings
        <3> QED
            BY <3>1, <3>2 DEF ErrorAt, ParseErrors
    <2> HIDE DEF s, b, next
    <2>5. CASE s.error # {}
        BY <2>1, <2>2, <2>5 DEF Read
    <2>6. CASE s.error = {} /\ next = "error"
        <3>1. Reads(k + 1) = [s EXCEPT !.error = {ErrorAt(s, k, b)}]
            BY <2>1, <2>6 DEF Read, next
        <3>2. [s EXCEPT !.error = {ErrorAt(s, k, b)}] \in Readings
            BY <2>2, <2>4 DEF Readings
        <3> QED
            BY <2>1, <3>1, <3>2
    <2>7. CASE s.error = {} /\ next # "error"
        <3>1. Reads(k + 1) =
                [state  |-> next,
                 opened |-> IF s.state = "start" /\ next = "quoted" THEN k ELSE s.opened,
                 row    |-> IF next = "start" /\ b = LF THEN s.row + 1 ELSE s.row,
                 column |-> CASE next = "start" /\ b = LF -> 1
                              [] next = "start" /\ b = Delimiter -> s.column + 1
                              [] OTHER -> s.column,
                 error  |-> {}]
            BY <2>1, <2>7 DEF Read, next
        <3>2. /\ s.opened \in Nat /\ s.row \in Nat /\ s.column \in Nat
            BY <2>2 DEF Readings
        <3>3. (CASE next = "start" /\ b = LF -> 1
                 [] next = "start" /\ b = Delimiter -> s.column + 1
                 [] OTHER -> s.column) \in Nat
            BY <3>2, PolicyAssumption
        <3> QED
            BY <2>1, <2>3, <2>7, <3>1, <3>2, <3>3 DEF Readings
    <2> QED
        BY <2>5, <2>6, <2>7
<1>4. \A k \in 0 .. size : k \in Good
    <2> HIDE DEF Good
    <2> QED
        BY <1>1, <1>2, <1>3, Upwards
<1> QED
    BY <1>4

\* What one byte does to a reading that has no error yet.
LEMMA ReadStep ==
    ASSUME SourceOK, NEW k \in 0 .. size - 1, Reads(k).error = {},
           NEW next, next = Delta(Blank(trim), Reads(k).state, buffer[k])
    PROVE  /\ next = "error" =>
                Reads(k + 1).error = {ErrorAt(Reads(k), k, buffer[k])}
           /\ next # "error" =>
                /\ Reads(k + 1).error = {} /\ Reads(k + 1).state = next
                /\ Reads(k + 1).opened = IF Reads(k).state = "start" /\ next = "quoted"
                                         THEN k ELSE Reads(k).opened
                /\ next # "start" =>
                      /\ Reads(k + 1).row = Reads(k).row
                      /\ Reads(k + 1).column = Reads(k).column
                /\ next = "start" /\ buffer[k] = LF =>
                      Reads(k + 1).row = Reads(k).row + 1 /\ Reads(k + 1).column = 1
                /\ next = "start" /\ buffer[k] = Delimiter =>
                      /\ Reads(k + 1).row = Reads(k).row
                      /\ Reads(k + 1).column = Reads(k).column + 1
                /\ next = "start" /\ buffer[k] \notin {LF, Delimiter} =>
                      /\ Reads(k + 1).row = Reads(k).row
                      /\ Reads(k + 1).column = Reads(k).column
<1>1. Reads(k + 1) = Read(Blank(trim), Reads(k), k, buffer[k])
    BY ReadingIs
<1>2. Reads(k) \in Readings
    BY ReadingsHaveTypes DEF SourceOK
<1>3. ASSUME next = "error" PROVE Reads(k + 1).error = {ErrorAt(Reads(k), k, buffer[k])}
    <2>1. Reads(k + 1) = [Reads(k) EXCEPT !.error = {ErrorAt(Reads(k), k, buffer[k])}]
        BY <1>1, <1>3 DEF Read
    <2> QED
        BY <1>2, <2>1 DEF Readings
<1>4. ASSUME next # "error"
      PROVE  Reads(k + 1) =
                [state  |-> next,
                 opened |-> IF Reads(k).state = "start" /\ next = "quoted" THEN k ELSE Reads(k).opened,
                 row    |-> IF next = "start" /\ buffer[k] = LF THEN Reads(k).row + 1 ELSE Reads(k).row,
                 column |-> CASE next = "start" /\ buffer[k] = LF -> 1
                              [] next = "start" /\ buffer[k] = Delimiter -> Reads(k).column + 1
                              [] OTHER -> Reads(k).column,
                 error  |-> {}]
    BY <1>1, <1>4 DEF Read
<1> QED
    BY <1>3, <1>4, PolicyAssumption

\* The first error stays.
LEMMA ErrorStays ==
    ASSUME SourceOK, NEW k \in 0 .. size, NEW fault, Reads(k).error = {fault}
    PROVE  Errors(buffer, size, trim) = {fault}
<1> DEFINE Good == {m \in k .. size : Reads(m).error = {fault}}
<1>1. size \in Nat /\ k \in Nat /\ k \in k .. size
    BY DEF SourceOK
<1>2. k \in Good
    BY <1>1
<1>3. ASSUME NEW m \in k .. size - 1, m \in Good PROVE m + 1 \in Good
    <2>1. m \in 0 .. size - 1 /\ m + 1 \in k .. size
        BY <1>1
    <2>2. Reads(m + 1) = Reads(m)
        BY <1>3, <2>1, ReadingIs DEF Read
    <2> QED
        BY <1>3, <2>1, <2>2
<1>4. \A m \in k .. size : m \in Good
    <2> HIDE DEF Good
    <2> QED
        BY <1>1, <1>2, <1>3, Upwards
<1>5. Reads(size).error = {fault}
    BY <1>1, <1>4
<1> QED
    BY <1>5 DEF Errors, Reads

\* The automaton is in a quoted cell exactly behind an odd number of quotes.
LEMMA QuotedIsOdd ==
    ASSUME SourceOK, NEW from \in 0 .. size,
           Reads(from).error = {}, Reads(from).state = "start"
    PROVE  \A k \in from .. size : Reads(k).error = {} =>
               (Reads(k).state = "quoted" <=> ~ Balanced(buffer, from, k))
<1> DEFINE Good == {k \in from .. size : Reads(k).error = {} =>
                       (Reads(k).state = "quoted" <=> ~ Balanced(buffer, from, k))}
<1>1. size \in Nat /\ from \in Nat /\ from \in from .. size
    BY DEF SourceOK
<1>2. from \in Good
    <2>1. Balanced(buffer, from, from)
        BY <1>1, EmptyIsBalanced
    <2> QED
        BY <1>1, <2>1
<1>3. ASSUME NEW k \in from .. size - 1, k \in Good PROVE k + 1 \in Good
    <2>1. k \in 0 .. size - 1 /\ k + 1 \in from .. size
        BY <1>1
    <2> SUFFICES ASSUME Reads(k + 1).error = {}
                 PROVE  Reads(k + 1).state = "quoted" <=> ~ Balanced(buffer, from, k + 1)
        BY <2>1
    <2>2. Reads(k).error = {}
        BY <2>1, ReadingIs DEF Read
    <2>3. PICK next : next = Delta(Blank(trim), Reads(k).state, buffer[k])
        OBVIOUS
    <2>4. next # "error" /\ Reads(k + 1).state = next
        BY <2>1, <2>2, <2>3, ReadStep
    <2>5. /\ buffer[k] = QuoteCharacter =>
                (Balanced(buffer, from, k + 1) <=> ~ Balanced(buffer, from, k))
          /\ buffer[k] # QuoteCharacter =>
                (Balanced(buffer, from, k + 1) <=> Balanced(buffer, from, k))
        BY <1>1, <2>1, ParityStep
    <2>6. Reads(k).state = "quoted" <=> ~ Balanced(buffer, from, k)
        BY <1>3, <2>2
    <2>7. Reads(k).state \in {"start", "bare", "quoted", "quote", "after", "return"}
        BY <1>1, <2>1, ReadingsHaveTypes DEF Readings
    <2>8. buffer[k] = QuoteCharacter => (next = "quoted" <=> Reads(k).state # "quoted")
        <3> SUFFICES ASSUME buffer[k] = QuoteCharacter
                     PROVE  next = "quoted" <=> Reads(k).state # "quoted"
            OBVIOUS
        <3>1. CASE Reads(k).state = "quoted"
            BY <2>3, <3>1 DEF Delta
        <3>2. CASE Reads(k).state = "return"
            BY <2>3, <2>4, <3>2, GrammarAssumption DEF Delta
        <3>3. CASE Reads(k).state \in {"start", "quote"}
            BY <2>3, <3>3, GrammarAssumption DEF Delta, Blank, Structural
        <3>4. CASE Reads(k).state \in {"bare", "after"}
            BY <2>3, <2>4, <3>4, GrammarAssumption DEF Delta, Blank, Structural
        <3> QED
            BY <2>7, <3>1, <3>2, <3>3, <3>4
    <2>9. buffer[k] # QuoteCharacter => (next = "quoted" <=> Reads(k).state = "quoted")
        BY <2>3, <2>4, <2>7, GrammarAssumption DEF Delta
    <2> QED
        BY <2>4, <2>5, <2>6, <2>8, <2>9
<1>4. \A k \in from .. size : k \in Good
    <2> HIDE DEF Good
    <2> QED
        BY <1>1, <1>2, <1>3, Upwards
<1> QED
    BY <1>4

\* What the automaton does at each kind of byte.
LEMMA DeltaIs ==
    ASSUME NEW state, NEW byte, NEW trimmed
    PROVE  /\ state = "quoted" =>
                Delta(Blank(trimmed), state, byte) =
                    IF byte = QuoteCharacter THEN "quote" ELSE "quoted"
           /\ state = "return" =>
                Delta(Blank(trimmed), state, byte) = IF byte = LF THEN "start" ELSE "error"
           /\ state \notin {"quoted", "return"} =>
                /\ byte \in {LF, Delimiter} => Delta(Blank(trimmed), state, byte) = "start"
                /\ byte = CR => Delta(Blank(trimmed), state, byte) = "return"
                /\ byte = QuoteCharacter =>
                      Delta(Blank(trimmed), state, byte) =
                          IF state \in {"start", "quote"} THEN "quoted" ELSE "error"
                /\ byte \in Blank(trimmed) =>
                      Delta(Blank(trimmed), state, byte) =
                          IF state = "quote" THEN "after" ELSE state
                /\ byte \notin Structural \cup Blank(trimmed) =>
                      Delta(Blank(trimmed), state, byte) =
                          IF state \in {"start", "bare"} THEN "bare" ELSE "error"
<1>1. /\ QuoteCharacter \notin {LF, CR, Delimiter} /\ CR \notin {LF, Delimiter}
      /\ Structural = {LF, CR, Delimiter, QuoteCharacter}
      /\ Blank(trimmed) \cap Structural = {}
    BY GrammarAssumption, PolicyAssumption DEF Blank, Structural
<1>2. ASSUME state = "quoted"
      PROVE  Delta(Blank(trimmed), state, byte) =
                IF byte = QuoteCharacter THEN "quote" ELSE "quoted"
    BY <1>2 DEF Delta
<1>3. ASSUME state = "return"
      PROVE  Delta(Blank(trimmed), state, byte) = IF byte = LF THEN "start" ELSE "error"
    BY <1>3 DEF Delta
<1>4. ASSUME state \notin {"quoted", "return"}
      PROVE  Delta(Blank(trimmed), state, byte) =
                CASE byte \in {LF, Delimiter} -> "start"
                  [] byte = CR -> "return"
                  [] byte = QuoteCharacter ->
                        CASE state \in {"start", "quote"} -> "quoted"
                          [] OTHER -> "error"
                  [] byte \in Blank(trimmed) -> IF state = "quote" THEN "after" ELSE state
                  [] OTHER -> IF state \in {"start", "bare"} THEN "bare" ELSE "error"
    BY <1>4 DEF Delta
<1> HIDE DEF Delta
<1>5. ASSUME state \notin {"quoted", "return"}, byte \in {LF, Delimiter}
      PROVE  Delta(Blank(trimmed), state, byte) = "start"
    BY <1>1, <1>4, <1>5
<1>6. ASSUME state \notin {"quoted", "return"}, byte = CR
      PROVE  Delta(Blank(trimmed), state, byte) = "return"
    BY <1>1, <1>4, <1>6
<1>7. ASSUME state \notin {"quoted", "return"}, byte = QuoteCharacter
      PROVE  Delta(Blank(trimmed), state, byte) =
                IF state \in {"start", "quote"} THEN "quoted" ELSE "error"
    BY <1>1, <1>4, <1>7
<1>8. ASSUME state \notin {"quoted", "return"}, byte \in Blank(trimmed)
      PROVE  Delta(Blank(trimmed), state, byte) = IF state = "quote" THEN "after" ELSE state
    BY <1>1, <1>4, <1>8
<1>9. ASSUME state \notin {"quoted", "return"}, byte \notin Structural \cup Blank(trimmed)
      PROVE  Delta(Blank(trimmed), state, byte) =
                IF state \in {"start", "bare"} THEN "bare" ELSE "error"
    BY <1>1, <1>4, <1>9
<1> QED
    BY <1>2, <1>3, <1>5, <1>6, <1>7, <1>8, <1>9

\* A reading that goes on in the same cell.
GoesOn(k, m) ==
    /\ Reads(m).error = {}
    /\ Reads(m).row = Reads(k).row
    /\ Reads(m).column = Reads(k).column
    /\ Reads(k).state # "start" => Reads(m).opened = Reads(k).opened

\* Blanks keep it before a cell or in a quoted one, and are passed behind one.
LEMMA OverBlanks ==
    ASSUME SourceOK, NEW from \in 0 .. size, NEW to \in from .. size,
           Reads(from).error = {}, Reads(from).state \in {"start", "quoted", "quote", "after"},
           \A k \in from .. to - 1 : buffer[k] \in Blank(trim)
    PROVE  /\ GoesOn(from, to)
           /\ Reads(from).state \in {"start", "quoted"} => Reads(to).state = Reads(from).state
           /\ Reads(from).state \in {"quote", "after"} =>
                 IF from = to THEN Reads(to).state = Reads(from).state
                              ELSE Reads(to).state = "after"
<1> DEFINE Good == {k \in from .. to :
                      /\ GoesOn(from, k)
                      /\ Reads(from).state \in {"start", "quoted"} =>
                            Reads(k).state = Reads(from).state
                      /\ Reads(from).state \in {"quote", "after"} =>
                            IF from = k THEN Reads(k).state = Reads(from).state
                                        ELSE Reads(k).state = "after"}
<1>1. size \in Nat /\ from \in Nat /\ to \in Nat /\ from \in from .. to /\ to \in from .. to
    BY DEF SourceOK
<1>2. from \in Good
    BY <1>1 DEF GoesOn
<1>3. ASSUME NEW k \in from .. to - 1, k \in Good PROVE k + 1 \in Good
    <2>1. k \in 0 .. size - 1 /\ k + 1 \in from .. to /\ from # k + 1
        BY <1>1
    <2>2. buffer[k] \in Blank(trim) /\ buffer[k] \notin Structural
        BY DEF Blank
    <2>3. PICK next : next = Delta(Blank(trim), Reads(k).state, buffer[k])
        OBVIOUS
    <2>4. /\ Reads(k).state = "start" => next = "start"
          /\ Reads(k).state = "quoted" => next = "quoted"
          /\ Reads(k).state \in {"quote", "after"} => next = "after"
        BY <2>2, <2>3, DeltaIs DEF Structural
    <2>5. Reads(k).error = {} /\ Reads(k).state \in {"start", "quoted", "quote", "after"}
        BY <1>3 DEF GoesOn
    <2>6. next # "error" /\ buffer[k] \notin {LF, Delimiter}
        BY <2>2, <2>4, <2>5 DEF Structural
    <2>7. /\ Reads(k + 1).error = {} /\ Reads(k + 1).state = next
          /\ Reads(k).state # "start" => Reads(k + 1).opened = Reads(k).opened
          /\ Reads(k + 1).row = Reads(k).row /\ Reads(k + 1).column = Reads(k).column
        BY <2>1, <2>3, <2>5, <2>6, ReadStep
    <2>8. GoesOn(from, k + 1)
        BY <1>3, <2>5, <2>7 DEF GoesOn
    <2> QED
        BY <1>3, <2>1, <2>4, <2>5, <2>7, <2>8
<1>4. \A k \in from .. to : k \in Good
    <2> HIDE DEF Good
    <2> QED
        BY <1>1, <1>2, <1>3, Upwards
<1> QED
    BY <1>1, <1>4

\* Where the quote at a position is closed, if it is looked for from there on.
ClosingFrom(closing, k, end) ==
    IF k = end THEN end
    ELSE IF ~ IsQuote(k) THEN closing[k + 1]
    ELSE IF k + 1 < end /\ IsQuote(k + 1) THEN closing[k + 2]
    ELSE k

IsClosing(closing, from, end) ==
    closing = [k \in from .. end |-> ClosingFrom(closing, k, end)]

\* There is such a function.
LEMMA ClosingExists ==
    ASSUME NEW from \in Nat, NEW end \in Nat, from <= end
    PROVE  \E closing : IsClosing(closing, from, end)
<1> DEFINE Good == {n \in from .. end : \E closing : IsClosing(closing, n, end)}
<1>1. end \in Good
    <2> DEFINE one == [k \in end .. end |-> end]
    <2>1. \A k \in end .. end : ClosingFrom(one, k, end) = end
        BY DEF ClosingFrom
    <2> HIDE DEF one
    <2>2. one = [k \in end .. end |-> end]
        BY Zenon DEF one
    <2>3. [k \in end .. end |-> end] = [k \in end .. end |-> ClosingFrom(one, k, end)]
        BY <2>1, Zenon
    <2>4. IsClosing(one, end, end)
        BY <2>2, <2>3, Zenon DEF IsClosing
    <2>5. end \in from .. end
        OBVIOUS
    <2> QED
        BY <2>4, <2>5, Zenon
<1>2. ASSUME NEW n \in from .. end - 1, \A m \in n + 1 .. end : m \in Good
      PROVE  n \in Good
    <2>1. n + 1 \in n + 1 .. end /\ n \in from .. end /\ n # end
        OBVIOUS
    <2>2. PICK rest : IsClosing(rest, n + 1, end)
        BY <1>2, <2>1
    <2> DEFINE all == [k \in n .. end |-> IF k = n THEN ClosingFrom(rest, n, end) ELSE rest[k]]
    <2>3. ASSUME NEW k \in n .. end
          PROVE  all[k] = ClosingFrom(all, k, end)
        <3>1. /\ k # end => all[k + 1] = rest[k + 1]
              /\ k + 1 < end => all[k + 2] = rest[k + 2]
            <4>1. /\ k # end => k + 1 \in n .. end /\ k + 1 # n
                  /\ k + 1 < end => k + 2 \in n .. end /\ k + 2 # n
                OBVIOUS
            <4> QED
                BY <4>1
        <3>2. ClosingFrom(all, k, end) = ClosingFrom(rest, k, end)
            <4> HIDE DEF all
            <4> QED
                BY <3>1 DEF ClosingFrom
        <3>3. CASE k = n
            BY <3>2, <3>3
        <3>4. CASE k # n
            <4>1. k \in n + 1 .. end
                BY <3>4
            <4>2. rest[k] = ClosingFrom(rest, k, end)
                BY <2>2, <4>1, Zenon DEF IsClosing
            <4>3. all[k] = rest[k]
                BY <3>4
            <4> HIDE DEF all
            <4> QED
                BY <3>2, <4>2, <4>3
        <3> QED
            BY <3>3, <3>4
    <2>4. all = [k \in n .. end |-> all[k]]
        OBVIOUS
    <2> HIDE DEF all
    <2>5. [k \in n .. end |-> all[k]] = [k \in n .. end |-> ClosingFrom(all, k, end)]
        BY <2>3, Zenon
    <2>6. IsClosing(all, n, end)
        BY <2>4, <2>5, Zenon DEF IsClosing
    <2> QED
        BY <2>1, <2>6, Zenon
<1>3. \A n \in from .. end : n \in Good
    <2> HIDE DEF Good
    <2> QED
        BY <1>1, <1>2, Downwards
<1> QED
    BY <1>3

\* So the closing quote is what it says, from one position to the next.
LEMMA ClosingIs ==
    ASSUME NEW from \in Nat, NEW end \in Nat, from <= end
    PROVE  \E closing :
              /\ ClosingQuote(from, end) = closing[from]
              /\ \A k \in from .. end : closing[k] = ClosingFrom(closing, k, end)
<1>1. PICK closing : closing = CHOOSE f : IsClosing(f, from, end)
    OBVIOUS
<1>2. IsClosing(closing, from, end)
    BY <1>1, ClosingExists, Zenon
<1>3. ClosingQuote(from, end) = closing[from]
    BY <1>1, Zenon DEF ClosingQuote, IsClosing, ClosingFrom
<1>4. \A k \in from .. end : closing[k] = ClosingFrom(closing, k, end)
    BY <1>2, Zenon DEF IsClosing
<1> QED
    BY <1>3, <1>4

\* A reading that goes on twice goes on.
LEMMA GoesOnJoins ==
    ASSUME NEW j, NEW k, NEW m, GoesOn(j, k), GoesOn(k, m),
           Reads(j).state # "start" => Reads(k).state # "start"
    PROVE  GoesOn(j, m)
BY DEF GoesOn

\* A quoted cell goes on to its closing quote, or to the end.
LEMMA OverQuoted ==
    ASSUME SourceOK, NEW from \in 0 .. size, NEW end \in from .. size,
           Reads(from).error = {}, Reads(from).state = "quoted"
    PROVE  /\ ClosingQuote(from, end) \in from .. end
           /\ GoesOn(from, ClosingQuote(from, end))
           /\ Reads(ClosingQuote(from, end)).state = "quoted"
           /\ ClosingQuote(from, end) < end =>
                 /\ IsQuote(ClosingQuote(from, end))
                 /\ ClosingQuote(from, end) + 1 < end =>
                       ~ IsQuote(ClosingQuote(from, end) + 1)
<1>1. size \in Nat /\ from \in Nat /\ end \in Nat /\ from <= end
      /\ end \in from .. end /\ from \in from .. end
    BY DEF SourceOK
<1>2. PICK closing :
         /\ ClosingQuote(from, end) = closing[from]
         /\ \A k \in from .. end : closing[k] = ClosingFrom(closing, k, end)
    BY <1>1, ClosingIs
<1> DEFINE Closes(k, c) ==
               /\ c \in k .. end
               /\ GoesOn(k, c)
               /\ Reads(c).state = "quoted"
               /\ c < end => /\ IsQuote(c)
                             /\ c + 1 < end => ~ IsQuote(c + 1)
           Good == {k \in from .. end :
                      Reads(k).error = {} /\ Reads(k).state = "quoted" => Closes(k, closing[k])}
<1>3. end \in Good
    <2>1. closing[end] = end
        BY <1>1, <1>2 DEF ClosingFrom
    <2> QED
        BY <1>1, <2>1 DEF GoesOn
<1>4. ASSUME NEW k \in from .. end - 1, \A m \in k + 1 .. end : m \in Good
      PROVE  k \in Good
    <2>1. k \in from .. end /\ k # end /\ k \in 0 .. size - 1 /\ k + 1 \in k + 1 .. end
        BY <1>1
    <2> SUFFICES ASSUME Reads(k).error = {}, Reads(k).state = "quoted"
                 PROVE  Closes(k, closing[k])
        BY <2>1
    <2>2. PICK next : next = Delta(Blank(trim), Reads(k).state, buffer[k])
        OBVIOUS
    <2>3. next = IF IsQuote(k) THEN "quote" ELSE "quoted"
        BY <2>2, DeltaIs DEF IsQuote
    <2>4. GoesOn(k, k + 1) /\ Reads(k + 1).state = next
        BY <2>1, <2>2, <2>3, ReadStep DEF GoesOn
    <2>5. CASE ~ IsQuote(k)
        <3>1. closing[k] = closing[k + 1]
            BY <1>2, <2>1, <2>5 DEF ClosingFrom
        <3>2. Closes(k + 1, closing[k + 1])
            BY <1>4, <2>1, <2>3, <2>4, <2>5 DEF GoesOn
        <3>3. GoesOn(k, closing[k + 1])
            BY <2>3, <2>4, <2>5, <3>2, GoesOnJoins
        <3>4. closing[k + 1] \in k .. end
            BY <2>1, <3>2
        <3> QED
            BY <3>1, <3>2, <3>3, <3>4
    <2>6. CASE IsQuote(k) /\ k + 1 < end /\ IsQuote(k + 1)
        <3>1. closing[k] = closing[k + 2]
            BY <1>2, <2>1, <2>6 DEF ClosingFrom
        <3>2. k + 1 \in 0 .. size - 1 /\ k + 2 \in k + 1 .. end /\ (k + 1) + 1 = k + 2
            BY <1>1, <2>1, <2>6
        <3>3. PICK second : second = Delta(Blank(trim), Reads(k + 1).state, buffer[k + 1])
            OBVIOUS
        <3>4. Reads(k + 1).error = {} /\ Reads(k + 1).state = "quote"
            BY <2>3, <2>4, <2>6 DEF GoesOn
        <3>5. second = "quoted"
            BY <2>6, <3>3, <3>4, DeltaIs DEF IsQuote
        <3>6. GoesOn(k + 1, (k + 1) + 1) /\ Reads((k + 1) + 1).state = "quoted"
            BY <3>2, <3>3, <3>4, <3>5, ReadStep DEF GoesOn
        <3>7. GoesOn(k, k + 2) /\ Reads(k + 2).state = "quoted"
            BY <2>4, <3>2, <3>4, <3>6, GoesOnJoins
        <3>8. Closes(k + 2, closing[k + 2])
            BY <1>4, <3>2, <3>7 DEF GoesOn
        <3>9. GoesOn(k, closing[k + 2])
            BY <3>7, <3>8, GoesOnJoins
        <3>10. closing[k + 2] \in k .. end
            BY <2>1, <3>8
        <3> QED
            BY <3>1, <3>8, <3>9, <3>10
    <2>7. CASE IsQuote(k) /\ ~ (k + 1 < end /\ IsQuote(k + 1))
        <3>1. closing[k] = k
            BY <1>2, <2>1, <2>7 DEF ClosingFrom
        <3>2. k \in k .. end /\ GoesOn(k, k)
            BY <2>1 DEF GoesOn
        <3> QED
            BY <2>7, <3>1, <3>2
    <2> QED
        BY <2>5, <2>6, <2>7
<1>5. \A k \in from .. end : k \in Good
    <2> HIDE DEF Good
    <2> QED
        BY <1>1, <1>3, <1>4, Downwards
<1> QED
    BY <1>1, <1>2, <1>5

\* A policy takes blanks from both ends of a cell, and leaves what begins with the
\* first byte that is none. Its end may be left as it is where all is trimmed.
LEMMA TrimIs ==
    ASSUME SourceOK, NEW start \in 0 .. size, NEW end \in start .. size,
           NEW bounds, bounds = TrimPreservingStructure(start, end)
    PROVE  /\ bounds.first \in start .. end
           /\ bounds.second \in bounds.first .. end
           /\ \A k \in start .. bounds.first - 1 : buffer[k] \in Blank(trim)
           /\ \A k \in bounds.second .. end - 1 : buffer[k] \in Blank(trim)
           /\ bounds.first < bounds.second =>
                 \E k \in start .. end - 1 : buffer[k] \notin Blank(trim)
           /\ (\E k \in start .. end - 1 : buffer[k] \notin Blank(trim)) =>
                 /\ bounds.first < bounds.second
                 /\ buffer[bounds.first] \notin Blank(trim)
           /\ (\E k \in start .. end - 1 : buffer[k] \notin trim) =>
                 buffer[bounds.second - 1] \notin Blank(trim)
<1> DEFINE kept == {k \in start .. end - 1 : buffer[k] \notin trim}
           trimmed == Trim(start, end)
           before == {k \in start .. trimmed.first - 1 : buffer[k] \in Structural}
           after == {k \in trimmed.second .. end - 1 : buffer[k] \in Structural}
<1>1. size \in Nat /\ start \in Nat /\ end \in Nat /\ start <= end
    BY DEF SourceOK
<1>2. /\ bounds.first = IF before = {} THEN trimmed.first ELSE Min(before)
      /\ bounds.second = IF after = {} THEN trimmed.second ELSE Max(after) + 1
    BY DEF TrimPreservingStructure
<1>3. /\ kept = {} => trimmed.first = end /\ trimmed.second = end
      /\ kept # {} => trimmed.first = Min(kept) /\ trimmed.second = Max(kept) + 1
    BY DEF Trim
<1>4. kept # {} =>
         /\ Min(kept) \in kept /\ Max(kept) \in kept
         /\ \A k \in kept : Min(kept) <= k /\ k <= Max(kept)
    <2>1. kept \in SUBSET (start .. end)
        BY <1>1
    <2> HIDE DEF kept
    <2> QED
        BY <1>1, <2>1, ExtremesExist
<1>5. /\ trimmed.first \in start .. end /\ trimmed.second \in trimmed.first .. end
      /\ \A k \in start .. trimmed.first - 1 : buffer[k] \in trim
      /\ \A k \in trimmed.second .. end - 1 : buffer[k] \in trim
      /\ kept # {} => trimmed.first < trimmed.second
    <2>1. CASE kept = {}
        BY <1>1, <1>3, <2>1
    <2>2. CASE kept # {}
        <3>1. PICK least, greatest \in start .. end - 1 :
                 /\ trimmed.first = least /\ trimmed.second = greatest + 1
                 /\ least \in kept /\ greatest \in kept
                 /\ \A k \in kept : least <= k /\ k <= greatest
            BY <1>3, <1>4, <2>2
        <3>2. \A k \in start .. end - 1 : k \in kept <=> buffer[k] \notin trim
            OBVIOUS
        <3> HIDE DEF kept, trimmed
        <3> QED
            BY <1>1, <3>1, <3>2
    <2> QED
        BY <2>1, <2>2
<1>6. before # {} =>
         /\ Min(before) \in before
         /\ \A k \in before : Min(before) <= k
    <2>1. before \in SUBSET (start .. end)
        BY <1>1, <1>5
    <2> HIDE DEF before
    <2> QED
        BY <1>1, <2>1, ExtremesExist
<1>7. after # {} =>
         /\ Max(after) \in after
         /\ \A k \in after : k <= Max(after)
    <2>1. after \in SUBSET (start .. end)
        BY <1>1, <1>5
    <2> HIDE DEF after
    <2> QED
        BY <1>1, <2>1, ExtremesExist
<1>8. PICK f, l : f = trimmed.first /\ l = trimmed.second
    OBVIOUS
<1>9. /\ f \in start .. end /\ l \in f .. end
      /\ \A k \in start .. f - 1 : buffer[k] \in trim
      /\ \A k \in l .. end - 1 : buffer[k] \in trim
      /\ kept # {} => f < l /\ buffer[f] \notin trim /\ buffer[l - 1] \notin trim
      /\ kept = {} => f = end /\ l = end
      /\ before = {k \in start .. f - 1 : buffer[k] \in Structural}
      /\ after = {k \in l .. end - 1 : buffer[k] \in Structural}
    <2>1. kept # {} => buffer[f] \notin trim /\ buffer[l - 1] \notin trim
        <3> SUFFICES ASSUME kept # {} PROVE buffer[f] \notin trim /\ buffer[l - 1] \notin trim
            OBVIOUS
        <3>1. f = Min(kept) /\ l = Max(kept) + 1 /\ Max(kept) \in Int
            BY <1>1, <1>3, <1>4, <1>8
        <3>2. l - 1 = Max(kept)
            BY <3>1
        <3> QED
            BY <1>4, <3>1, <3>2
    <2> QED
        BY <1>3, <1>5, <1>8, <2>1
<1>10. /\ bounds.first = IF before = {} THEN f ELSE Min(before)
       /\ bounds.second = IF after = {} THEN l ELSE Max(after) + 1
    BY <1>2, <1>8
<1>11. \A byte : byte \in Blank(trim) <=> byte \in trim /\ byte \notin Structural
    BY DEF Blank
<1>12. (\E k \in start .. end - 1 : buffer[k] \notin trim) <=> kept # {}
    OBVIOUS
<1> HIDE DEF trimmed, kept
<1>13. /\ bounds.first \in start .. f
       /\ \A k \in start .. bounds.first - 1 : buffer[k] \in Blank(trim)
       /\ before # {} => bounds.first < f /\ buffer[bounds.first] \in Structural
    <2>1. CASE before = {}
        BY <1>1, <1>9, <1>10, <1>11, <2>1
    <2>2. CASE before # {}
        <3>1. PICK m \in start .. f - 1 :
                 /\ bounds.first = m /\ buffer[m] \in Structural
                 /\ \A k \in start .. f - 1 : buffer[k] \in Structural => m <= k
            BY <1>6, <1>9, <1>10, <2>2
        <3> HIDE DEF before
        <3> QED
            BY <1>1, <1>9, <1>11, <3>1
    <2> QED
        BY <2>1, <2>2
<1>14. /\ bounds.second \in l .. end
       /\ \A k \in bounds.second .. end - 1 : buffer[k] \in Blank(trim)
       /\ after = {} => bounds.second = l
       /\ after # {} => buffer[bounds.second - 1] \in Structural
    <2>1. CASE after = {}
        BY <1>1, <1>9, <1>10, <1>11, <2>1
    <2>2. CASE after # {}
        <3>1. PICK m \in l .. end - 1 :
                 /\ bounds.second = m + 1 /\ buffer[m] \in Structural
                 /\ \A k \in l .. end - 1 : buffer[k] \in Structural => k <= m
            BY <1>7, <1>9, <1>10, <2>2
        <3>2. bounds.second - 1 = m
            BY <1>1, <1>9, <3>1
        <3> HIDE DEF after
        <3> QED
            BY <1>1, <1>9, <1>11, <2>2, <3>1, <3>2
    <2> QED
        BY <2>1, <2>2
<1>15. ASSUME NEW k \in start .. end - 1, buffer[k] \notin Blank(trim)
       PROVE  bounds.first < bounds.second /\ buffer[bounds.first] \notin Blank(trim)
    <2>1. CASE kept = {}
        <3>1. k \in before
            BY <1>1, <1>9, <1>11, <1>12, <1>15, <2>1
        <3> QED
            BY <1>1, <1>9, <1>11, <1>13, <1>14, <3>1
    <2>2. CASE kept # {}
        <3>1. CASE before = {}
            BY <1>1, <1>9, <1>10, <1>11, <1>14, <2>2, <3>1
        <3>2. CASE before # {}
            BY <1>1, <1>9, <1>11, <1>13, <1>14, <3>2
        <3> QED
            BY <3>1, <3>2
    <2> QED
        BY <2>1, <2>2
<1>16. kept # {} => buffer[bounds.second - 1] \notin Blank(trim)
    BY <1>9, <1>11, <1>14
<1>17. bounds.first \in start .. end /\ bounds.second \in bounds.first .. end
    BY <1>1, <1>9, <1>13, <1>14
<1>18. ASSUME bounds.first < bounds.second
       PROVE  \E k \in start .. end - 1 : buffer[k] \notin Blank(trim)
    <2> SUFFICES ASSUME \A k \in start .. end - 1 : buffer[k] \in Blank(trim)
                 PROVE  FALSE
        OBVIOUS
    <2>1. kept = {}
        BY <1>11, <1>12
    <2>2. before = {}
        BY <1>1, <1>9, <1>11
    <2> QED
        BY <1>1, <1>9, <1>10, <1>14, <1>18, <2>1, <2>2
<1> QED
    BY <1>12, <1>13, <1>14, <1>15, <1>16, <1>17, <1>18

-----------------------------------------------------------------------------
(* Validation: records and cells.                                          *)

\* The record that is read ends at its first line feed, or with the source.
LEMMA RecordReadIs ==
    ASSUME NEW from \in 0 .. size - 1, SourceOK
    PROVE  \/ /\ Record(buffer, size, from) = RestOfBuffer(size, from)
              /\ \A k \in from .. size - 1 : ~ EndsRecord(buffer, from, k)
           \/ \E i \in from .. size - 1 :
                 /\ EndsRecord(buffer, from, i)
                 /\ \A k \in from .. i - 1 : ~ EndsRecord(buffer, from, k)
                 /\ Record(buffer, size, from) = RecordBounds(buffer, from, i)
<1> DEFINE ends == {i \in from .. size - 1 : EndsRecord(buffer, from, i)}
<1>1. size \in Nat /\ from \in Nat
    BY DEF SourceOK
<1>2. CASE ends = {}
    BY <1>1, <1>2, RecordIsRest
<1>3. CASE ends # {}
    <2>1. PICK i \in ends : \A k \in ends : i <= k
        <3>1. ends \in SUBSET Nat
            BY <1>1
        <3> HIDE DEF ends
        <3> QED
            BY <1>3, <3>1, LeastExists
    <2>2. \A k \in from .. i - 1 : ~ EndsRecord(buffer, from, k)
        BY <1>1, <2>1
    <2> QED
        BY <1>1, <2>1, <2>2, RecordEndsAt
<1> QED
    BY <1>2, <1>3

\* The cell that is read ends at its first delimiter, or with the record.
LEMMA CellReadIs ==
    ASSUME NEW end \in Nat, NEW from \in 0 .. end,
           NEW e, e = Cell(buffer, end, from).content_end
    PROVE  /\ e \in from .. end
           /\ \A k \in from .. e - 1 : ~ EndsCell(buffer, from, k)
           /\ e < end => EndsCell(buffer, from, e)
<1> DEFINE ends == {i \in from .. end - 1 : EndsCell(buffer, from, i)}
<1>1. CASE ends = {}
    BY <1>1, CellIsRest
<1>2. CASE ends # {}
    <2>1. PICK i \in ends : \A k \in ends : i <= k
        <3>1. ends \in SUBSET Nat
            OBVIOUS
        <3> HIDE DEF ends
        <3> QED
            BY <1>2, <3>1, LeastExists
    <2>2. \A k \in from .. i - 1 : ~ EndsCell(buffer, from, k)
        BY <2>1
    <2>3. e = i
        BY <2>1, <2>2, CellEndsAt
    <2> QED
        BY <2>1, <2>2, <2>3
<1> QED
    BY <1>1, <1>2

\* A record and a cell of it are under way, and the automaton is before the cell.
CellUnderWay ==
    /\ record.start \in 0 .. size - 1
    /\ record = Record(buffer, size, record.start)
    /\ Reads(record.start).error = {} /\ Reads(record.start).state = "start"
    /\ cell_start \in record.start .. record.content_end
    /\ Reads(cell_start).error = {} /\ Reads(cell_start).state = "start"
    /\ Reads(cell_start).row = row /\ Reads(cell_start).column = column

\* The record and the cell as their bounds give them.
LEMMA BoundsAre ==
    ASSUME SourceOK, CellUnderWay,
           NEW e, e = Cell(buffer, record.content_end, cell_start).content_end
    PROVE  /\ record.content_end \in record.start .. size
           /\ e \in cell_start .. record.content_end
           /\ \A k \in cell_start .. e - 1 : ~ EndsCell(buffer, cell_start, k)
           /\ e < record.content_end => EndsCell(buffer, cell_start, e)
           /\ \/ /\ record.content_end = size /\ record.next_start = size
                 /\ \A k \in record.start .. size - 1 : ~ EndsRecord(buffer, record.start, k)
              \/ \E i \in record.start .. size - 1 :
                    /\ EndsRecord(buffer, record.start, i)
                    /\ \A k \in record.start .. i - 1 : ~ EndsRecord(buffer, record.start, k)
                    /\ record.next_start = i + 1
                    /\ record.content_end =
                          IF DropsCarriageReturn(buffer, record.start, i) THEN i - 1 ELSE i
<1>1. size \in Nat /\ record.start \in 0 .. size - 1
    BY DEF SourceOK, CellUnderWay
<1>2. \/ /\ record.content_end = size /\ record.next_start = size
         /\ \A k \in record.start .. size - 1 : ~ EndsRecord(buffer, record.start, k)
      \/ \E i \in record.start .. size - 1 :
            /\ EndsRecord(buffer, record.start, i)
            /\ \A k \in record.start .. i - 1 : ~ EndsRecord(buffer, record.start, k)
            /\ record.next_start = i + 1
            /\ record.content_end =
                  IF DropsCarriageReturn(buffer, record.start, i) THEN i - 1 ELSE i
    <2>1. CASE /\ record = RestOfBuffer(size, record.start)
               /\ \A k \in record.start .. size - 1 : ~ EndsRecord(buffer, record.start, k)
        BY <2>1 DEF RestOfBuffer
    <2>2. ASSUME NEW i \in record.start .. size - 1,
                 EndsRecord(buffer, record.start, i),
                 \A k \in record.start .. i - 1 : ~ EndsRecord(buffer, record.start, k),
                 record = RecordBounds(buffer, record.start, i)
          PROVE  /\ record.next_start = i + 1
                 /\ record.content_end =
                       IF DropsCarriageReturn(buffer, record.start, i) THEN i - 1 ELSE i
        <3>1. record.next_start = i + 1
            BY <2>2 DEF RecordBounds
        <3>2. record.content_end =
                 IF DropsCarriageReturn(buffer, record.start, i) THEN i - 1 ELSE i
            BY <2>2 DEF RecordBounds
        <3> QED
            BY <3>1, <3>2
    <2>3. record = Record(buffer, size, record.start)
        BY DEF CellUnderWay
    <2>4. \/ /\ record = RestOfBuffer(size, record.start)
             /\ \A k \in record.start .. size - 1 : ~ EndsRecord(buffer, record.start, k)
          \/ \E i \in record.start .. size - 1 :
                /\ EndsRecord(buffer, record.start, i)
                /\ \A k \in record.start .. i - 1 : ~ EndsRecord(buffer, record.start, k)
                /\ record = RecordBounds(buffer, record.start, i)
        BY <1>1, <2>3, RecordReadIs
    <2> QED
        BY <2>1, <2>2, <2>4
<1>3. record.content_end \in record.start .. size
    BY <1>1, <1>2 DEF DropsCarriageReturn
<1>4. record.content_end \in Nat /\ cell_start \in 0 .. record.content_end
    BY <1>1, <1>3 DEF CellUnderWay
<1> QED
    BY <1>2, <1>3, <1>4, CellReadIs

\* In a cell and outside of quotes there is no delimiter and no end of a record.
LEMMA InCell ==
    ASSUME SourceOK, CellUnderWay,
           NEW e, e = Cell(buffer, record.content_end, cell_start).content_end,
           NEW k \in cell_start .. e - 1,
           Reads(k).error = {}, Reads(k).state # "quoted"
    PROVE  /\ buffer[k] \notin {LF, Delimiter}
           /\ buffer[k] = CR /\ k + 1 < size => buffer[k + 1] # LF
<1> DEFINE s == record.start
           end == record.content_end
<1>1. /\ size \in Nat /\ s \in 0 .. size - 1 /\ end \in s .. size
      /\ cell_start \in s .. end /\ e \in cell_start .. end
      /\ k \in 0 .. size - 1 /\ k >= s /\ k < end
    BY BoundsAre DEF SourceOK, CellUnderWay
<1>2. Balanced(buffer, s, k) /\ Balanced(buffer, cell_start, k)
    BY <1>1, QuotedIsOdd DEF CellUnderWay
<1>3. buffer[k] # Delimiter
    BY <1>1, <1>2, BoundsAre, GrammarAssumption DEF EndsCell
<1>4. ASSUME NEW m \in s .. size - 1, buffer[m] = LF, Balanced(buffer, s, m),
             m = k \/ (m = k + 1 /\ buffer[k] = CR)
      PROVE  FALSE
    <2>1. EndsRecord(buffer, s, m)
        BY <1>4, GrammarAssumption DEF EndsRecord
    <2>2. PICK i \in s .. size - 1 :
             /\ \A j \in s .. i - 1 : ~ EndsRecord(buffer, s, j)
             /\ end = IF DropsCarriageReturn(buffer, s, i) THEN i - 1 ELSE i
        BY <2>1, BoundsAre
    <2>3. i <= m
        BY <1>1, <2>1, <2>2
    <2>4. CASE i <= k
        BY <1>1, <2>2, <2>4
    <2>5. CASE i = k + 1
        <3>1. m = k + 1 /\ buffer[i - 1] = CR /\ i > s
            BY <1>1, <1>4, <2>3, <2>5
        <3>2. DropsCarriageReturn(buffer, s, i)
            BY <3>1, GrammarAssumption DEF DropsCarriageReturn
        <3> QED
            BY <1>1, <2>2, <2>5, <3>2
    <2> QED
        BY <1>1, <1>4, <2>3, <2>4, <2>5
<1>5. buffer[k] # LF
    BY <1>1, <1>2, <1>4
<1>6. ASSUME buffer[k] = CR, k + 1 < size PROVE buffer[k + 1] # LF
    <2>1. Balanced(buffer, s, k + 1)
        BY <1>1, <1>2, <1>6, ParityStep, GrammarAssumption
    <2>2. k + 1 \in s .. size - 1
        BY <1>1, <1>6
    <2> QED
        BY <1>4, <1>6, <2>1, <2>2
<1> QED
    BY <1>3, <1>5, <1>6

\* A cell ends at a delimiter, at the end of its record, or at the end of the source.
LEMMA BehindCell ==
    ASSUME SourceOK, CellUnderWay,
           NEW e, e = Cell(buffer, record.content_end, cell_start).content_end
    PROVE  \/ /\ e < record.content_end /\ e < size
              /\ buffer[e] = Delimiter
              /\ Reads(e).error = {} => Reads(e).state # "quoted"
           \/ /\ e = record.content_end
              /\ e = size /\ record.next_start = size
           \/ /\ e = record.content_end
              /\ Reads(e).error = {} => Reads(e).state # "quoted"
              /\ \/ /\ e < size /\ record.next_start = e + 1
                    /\ buffer[e] = LF
                 \/ /\ e + 1 < size /\ record.next_start = (e + 1) + 1
                    /\ buffer[e] = CR /\ buffer[e + 1] = LF
<1> DEFINE s == record.start
           end == record.content_end
<1>1. /\ size \in Nat /\ s \in 0 .. size - 1 /\ end \in s .. size
      /\ cell_start \in s .. end /\ e \in cell_start .. end
      /\ e \in 0 .. size /\ e >= s
    BY BoundsAre DEF SourceOK, CellUnderWay
<1>2. /\ Reads(e).error = {} /\ Reads(e).state = "quoted" =>
            ~ Balanced(buffer, s, e) /\ ~ Balanced(buffer, cell_start, e)
    BY <1>1, QuotedIsOdd DEF CellUnderWay
<1>3. CASE e < end
    <2>1. EndsCell(buffer, cell_start, e)
        BY <1>3, BoundsAre
    <2> QED
        BY <1>1, <1>2, <1>3, <2>1 DEF EndsCell
<1>4. CASE e = end
    <2>1. CASE end = size /\ record.next_start = size
        BY <1>4, <2>1
    <2>2. ASSUME NEW i \in s .. size - 1, EndsRecord(buffer, s, i),
                 record.next_start = i + 1,
                 end = IF DropsCarriageReturn(buffer, s, i) THEN i - 1 ELSE i
          PROVE  /\ Reads(e).error = {} => Reads(e).state # "quoted"
                 /\ \/ e < size /\ record.next_start = e + 1 /\ buffer[e] = LF
                    \/ /\ e + 1 < size /\ record.next_start = (e + 1) + 1
                       /\ buffer[e] = CR /\ buffer[e + 1] = LF
        <3>1. buffer[i] = LF /\ Balanced(buffer, s, i)
            BY <2>2 DEF EndsRecord
        <3>2. CASE DropsCarriageReturn(buffer, s, i)
            <4>1. i = e + 1 /\ buffer[e] = CR /\ buffer[e] # QuoteCharacter
                BY <1>1, <1>4, <2>2, <3>2, GrammarAssumption DEF DropsCarriageReturn
            <4>2. Balanced(buffer, s, e)
                BY <1>1, <3>1, <4>1, ParityStep
            <4>3. e + 1 < size /\ record.next_start = (e + 1) + 1 /\ buffer[e + 1] = LF
                BY <1>1, <2>2, <3>1, <4>1
            <4> QED
                BY <1>2, <4>1, <4>2, <4>3
        <3>3. CASE ~ DropsCarriageReturn(buffer, s, i)
            <4>1. e = i
                BY <1>4, <2>2, <3>3
            <4>2. e < size /\ record.next_start = e + 1 /\ buffer[e] = LF /\ Balanced(buffer, s, e)
                BY <1>1, <2>2, <3>1, <4>1
            <4> QED
                BY <1>2, <4>2
        <3> QED
            BY <3>2, <3>3
    <2> QED
        BY <1>4, <2>1, <2>2, BoundsAre
<1> QED
    BY <1>1, <1>3, <1>4

-----------------------------------------------------------------------------
(* Validation: the verdict about a cell.                                   *)

\* The source has one error, this fault of the cell under way.
ReportedAs(fault) ==
    Errors(buffer, size, trim) =
        {[code |-> fault.code, byte_offset |-> fault.offset, row |-> row, column |-> column]}

\* Behind the cell the automaton has found no error, and no quote is open.
CellIsRead(e) ==
    /\ Reads(e).error = {}
    /\ Reads(e).state \notin {"quoted", "return"}
    /\ Reads(e).row = row /\ Reads(e).column = column

\* An error that the automaton finds in the cell is the error of the source.
LEMMA ErrorIsReported ==
    ASSUME SourceOK, NEW k \in 0 .. size - 1,
           Reads(k).error = {}, Reads(k).row = row, Reads(k).column = column,
           Reads(k).state \notin {"quoted", "return"},
           Delta(Blank(trim), Reads(k).state, buffer[k]) = "error"
    PROVE  ReportedAs(Fault(ErrorCode(Reads(k).state, buffer[k]), k))
<1>1. Reads(k + 1).error = {ErrorAt(Reads(k), k, buffer[k])}
    BY ReadStep
<1>2. k + 1 \in 0 .. size
    BY DEF SourceOK
<1>3. ErrorAt(Reads(k), k, buffer[k]) =
         [code |-> ErrorCode(Reads(k).state, buffer[k]), byte_offset |-> k,
          row |-> row, column |-> column]
    BY DEF ErrorAt
<1>4. Errors(buffer, size, trim) = {ErrorAt(Reads(k), k, buffer[k])}
    BY <1>1, <1>2, ErrorStays
<1> QED
    BY <1>3, <1>4 DEF ReportedAs, Fault

\* A carriage return outside of quotes is an error of the cell that it is in.
LEMMA CarriageReturnIsReported ==
    ASSUME SourceOK, CellUnderWay,
           NEW e, e = Cell(buffer, record.content_end, cell_start).content_end,
           NEW k \in cell_start .. e - 1, buffer[k] = CR,
           Reads(k).error = {}, Reads(k).row = row, Reads(k).column = column,
           Reads(k).state \notin {"quoted", "return"}
    PROVE  ReportedAs(Fault("bare_carriage_return", k))
<1>1. size \in Nat /\ k \in 0 .. size - 1 /\ k + 1 \in 0 .. size
    BY BoundsAre DEF SourceOK, CellUnderWay
<1>2. k + 1 < size => buffer[k + 1] # LF
    BY InCell
<1>3. Delta(Blank(trim), Reads(k).state, buffer[k]) = "return"
    BY DeltaIs
<1>4. /\ Reads(k + 1).error = {} /\ Reads(k + 1).state = "return"
      /\ Reads(k + 1).row = row /\ Reads(k + 1).column = column
    BY <1>1, <1>3, ReadStep
<1>5. \A m, byte : m = k + 1 =>
         ErrorAt(Reads(m), m, byte) =
            [code |-> "bare_carriage_return", byte_offset |-> k, row |-> row, column |-> column]
    <2> SUFFICES ASSUME NEW byte
                 PROVE  ErrorAt(Reads(k + 1), k + 1, byte) =
                           [code |-> "bare_carriage_return", byte_offset |-> k,
                            row |-> row, column |-> column]
        OBVIOUS
    <2>1. ErrorCode(Reads(k + 1).state, byte) = "bare_carriage_return"
        BY <1>4 DEF ErrorCode
    <2>2. (k + 1) - 1 = k
        BY <1>1
    <2> QED
        BY <1>4, <2>1, <2>2 DEF ErrorAt
<1>6. CASE k + 1 = size
    BY <1>4, <1>5, <1>6 DEF ReportedAs, Fault, Errors, Reads
<1>7. CASE k + 1 < size
    <2>1. k + 1 \in 0 .. size - 1 /\ (k + 1) + 1 \in 0 .. size
        BY <1>1, <1>7
    <2>2. Delta(Blank(trim), Reads(k + 1).state, buffer[k + 1]) = "error"
        BY <1>2, <1>4, <1>7, DeltaIs
    <2>3. Reads((k + 1) + 1).error = {ErrorAt(Reads(k + 1), k + 1, buffer[k + 1])}
        BY <1>4, <2>1, <2>2, ReadStep
    <2>4. Errors(buffer, size, trim) = {ErrorAt(Reads(k + 1), k + 1, buffer[k + 1])}
        BY <2>1, <2>3, ErrorStays
    <2> QED
        BY <1>5, <2>4 DEF ReportedAs, Fault
<1> QED
    BY <1>1, <1>6, <1>7

\* A byte of a bare cell that is not at fault is a plain one.
LEMMA PlainByte ==
    ASSUME SourceOK, CellUnderWay,
           NEW e, e = Cell(buffer, record.content_end, cell_start).content_end,
           NEW k \in cell_start .. e - 1,
           Reads(k).error = {}, Reads(k).state # "quoted",
           ~ IsQuote(k), ~ BareCarriageReturn(k, e)
    PROVE  buffer[k] \notin Structural
<1>1. /\ size \in Nat /\ e <= size /\ e \in Nat /\ k \in Nat
    BY BoundsAre DEF SourceOK, CellUnderWay
<1>2. /\ buffer[k] \notin {LF, Delimiter}
      /\ buffer[k] = CR /\ k + 1 < size => buffer[k + 1] # LF
    BY InCell
<1>3. buffer[k] # CR
    BY <1>1, <1>2, GrammarAssumption DEF BareCarriageReturn
<1> QED
    BY <1>2, <1>3 DEF Structural, IsQuote

\* A cell whose first byte that is not blank is no quote: its first quote, or its
\* first carriage return, is at fault.
LEMMA BareCellIsRead ==
    ASSUME SourceOK, CellUnderWay,
           NEW e, e = Cell(buffer, record.content_end, cell_start).content_end,
           NEW f \in cell_start .. e - 1,
           \A k \in cell_start .. f - 1 : buffer[k] \in Blank(trim),
           buffer[f] \notin Blank(trim), ~ IsQuote(f),
           NEW fault, fault = BareCell(cell_start, e)
    PROVE  /\ fault = NoFault => CellIsRead(e)
           /\ fault # NoFault => ReportedAs(fault)
<1> DEFINE c == cell_start
           bad == {k \in c .. e - 1 : IsQuote(k) \/ BareCarriageReturn(k, e)}
<1>1. /\ size \in Nat /\ c \in Nat /\ e \in Nat /\ f \in Nat
      /\ c \in 0 .. size /\ e \in c .. size /\ f \in c .. e - 1
      /\ f \in 0 .. size - 1 /\ f \in c .. size
    BY BoundsAre DEF SourceOK, CellUnderWay
<1>2. fault = IF bad = {} THEN NoFault
              ELSE Fault(IF IsQuote(Min(bad)) THEN "unexpected_quote" ELSE "bare_carriage_return",
                         Min(bad))
    BY DEF BareCell
<1>3. /\ Reads(f).error = {} /\ Reads(f).state = "start"
      /\ Reads(f).row = row /\ Reads(f).column = column
    <2>1. GoesOn(c, f) /\ Reads(f).state = "start"
        BY <1>1, OverBlanks DEF CellUnderWay
    <2> QED
        BY <2>1 DEF GoesOn, CellUnderWay
<1>4. \A k \in bad : k >= f
    <2> SUFFICES ASSUME NEW k \in c .. f - 1 PROVE k \notin bad
        BY <1>1
    <2>1. buffer[k] \notin Structural
        BY DEF Blank
    <2> QED
        BY <2>1 DEF Structural, IsQuote, BareCarriageReturn
<1> DEFINE BareAt(m) == /\ Reads(m).error = {} /\ Reads(m).state = "bare"
                        /\ Reads(m).row = row /\ Reads(m).column = column
           Good == {m \in f + 1 .. e : (\A k \in f .. m - 1 : k \notin bad) => BareAt(m)}
<1>5. ASSUME NEW m \in f .. e - 1, m \notin bad,
             Reads(m).error = {}, Reads(m).row = row, Reads(m).column = column,
             Reads(m).state = "bare" \/ (Reads(m).state = "start" /\ m = f)
      PROVE  BareAt(m + 1)
    <2>1. m \in c .. e - 1 /\ m \in 0 .. size - 1
        BY <1>1
    <2>2. buffer[m] \notin Structural
        BY <1>5, <2>1, PlainByte
    <2>3. Delta(Blank(trim), Reads(m).state, buffer[m]) = "bare"
        BY <1>5, <2>2, DeltaIs
    <2> QED
        BY <1>5, <2>1, <2>3, ReadStep
<1>6. f + 1 \in Good
    <2>1. f \in f .. (f + 1) - 1 /\ f \in f .. e - 1 /\ f + 1 \in f + 1 .. e
        BY <1>1
    <2> HIDE DEF bad, BareAt
    <2>2. f \notin bad => BareAt(f + 1)
        BY <1>3, <1>5, <2>1
    <2> QED
        BY <2>1, <2>2
<1>7. ASSUME NEW m \in f + 1 .. e - 1, m \in Good PROVE m + 1 \in Good
    <2>1. /\ m \in f .. (m + 1) - 1 /\ m \in f .. e - 1 /\ m + 1 \in f + 1 .. e
          /\ \A k \in f .. m - 1 : k \in f .. (m + 1) - 1
        BY <1>1
    <2> HIDE DEF bad
    <2> SUFFICES ASSUME \A k \in f .. (m + 1) - 1 : k \notin bad
                 PROVE  BareAt(m + 1)
        BY <2>1
    <2>2. BareAt(m) /\ m \notin bad
        BY <1>7, <2>1
    <2> QED
        BY <1>5, <2>1, <2>2
<1>8. \A m \in f + 1 .. e : m \in Good
    <2>1. PICK next : next = f + 1
        OBVIOUS
    <2>2. next \in Nat /\ next \in Good
        BY <1>1, <1>6, <2>1
    <2>3. \A m \in next .. e - 1 : m \in Good => m + 1 \in Good
        BY <1>7, <2>1
    <2> HIDE DEF Good
    <2>5. e \in Nat
        BY <1>1
    <2>4. \A m \in next .. e : m \in Good
        BY <2>2, <2>3, <2>5, Upwards, Zenon
    <2> QED
        BY <2>1, <2>4
<1>9. CASE bad = {}
    <2>1. e \in f + 1 .. e
        BY <1>1
    <2>2. BareAt(e)
        BY <1>8, <1>9, <2>1
    <2> QED
        BY <1>2, <1>9, <2>2 DEF CellIsRead
<1>10. CASE bad # {}
    <2>1. PICK b \in bad : b = Min(bad) /\ \A k \in bad : b <= k
        <3>1. bad \in SUBSET (c .. e) /\ c \in Nat /\ e \in Nat
            BY <1>1
        <3> HIDE DEF bad, c
        <3>2. Min(bad) \in bad /\ \A k \in bad : Min(bad) <= k
            BY <1>10, <3>1, ExtremesExist
        <3> QED
            BY <3>2, Zenon
    <2>2. fault = Fault(IF IsQuote(b) THEN "unexpected_quote" ELSE "bare_carriage_return", b)
        BY <1>2, <1>10, <2>1
    <2>3. b \in c .. e - 1 /\ b >= f /\ b \in 0 .. size - 1
        BY <1>1, <1>4, <2>1
    <2>4. /\ Reads(b).error = {}
          /\ Reads(b).row = row /\ Reads(b).column = column
          /\ Reads(b).state = IF b = f THEN "start" ELSE "bare"
        <3>1. CASE b = f
            BY <1>3, <3>1
        <3>2. CASE b # f
            <4>1. b \in f + 1 .. e /\ \A k \in f .. b - 1 : k \notin bad
                BY <1>1, <2>1, <2>3, <3>2
            <4> HIDE DEF bad
            <4> QED
                BY <1>8, <3>2, <4>1
        <3> QED
            BY <3>1, <3>2
    <2>5. CASE IsQuote(b)
        <3>1. Reads(b).state = "bare"
            BY <2>4, <2>5
        <3>2. Delta(Blank(trim), Reads(b).state, buffer[b]) = "error"
            BY <2>5, <3>1, DeltaIs DEF IsQuote
        <3>3. ErrorCode(Reads(b).state, buffer[b]) = "unexpected_quote"
            BY <3>1 DEF ErrorCode
        <3>4. ReportedAs(Fault("unexpected_quote", b))
            BY <2>3, <2>4, <3>1, <3>2, <3>3, ErrorIsReported
        <3> QED
            BY <2>2, <2>5, <3>4 DEF Fault, NoFault
    <2>6. CASE ~ IsQuote(b)
        <3>1. buffer[b] = CR
            BY <2>1, <2>6 DEF BareCarriageReturn
        <3>2. ReportedAs(Fault("bare_carriage_return", b))
            BY <2>3, <2>4, <3>1, CarriageReturnIsReported
        <3> QED
            BY <2>2, <2>6, <3>2 DEF Fault, NoFault
    <2> QED
        BY <2>5, <2>6
<1> QED
    BY <1>9, <1>10

\* A policy that trims the quote trims nothing else that may surround a cell.
PoliciesKeepQuotes ==
    \A trimmed \in TrimPolicies : QuoteCharacter \in trimmed => Blank(trimmed) = {}

\* A quoted cell is read to the byte that is none of it, or that it lacks.
LEMMA QuotedCellIsRead ==
    ASSUME SourceOK, CellUnderWay,
           NEW e, e = Cell(buffer, record.content_end, cell_start).content_end,
           NEW f \in cell_start .. e - 1,
           \A k \in cell_start .. f - 1 : buffer[k] \in Blank(trim), IsQuote(f),
           NEW l \in f + 1 .. e,
           \A k \in l .. e - 1 : buffer[k] \in Blank(trim),
           PoliciesKeepQuotes => buffer[l - 1] \notin Blank(trim),
           NEW closing, closing = ClosingQuote(f + 1, l),
           NEW fault, fault = CASE closing = l -> Fault("unclosed_quote", f)
                                [] closing + 1 < l -> AfterQuote(closing + 1, l)
                                [] OTHER -> NoFault
    PROVE  /\ fault = NoFault => CellIsRead(e)
           /\ PoliciesKeepQuotes /\ fault # NoFault => ReportedAs(fault)
<1> DEFINE c == cell_start
<1>1. /\ size \in Nat /\ c \in Nat /\ e \in Nat /\ f \in Nat /\ l \in Nat
      /\ c \in 0 .. size /\ e \in c .. size /\ f \in c .. e - 1 /\ l \in f + 1 .. e
      /\ f \in 0 .. size - 1 /\ f \in c .. size /\ f + 1 \in 0 .. size
      /\ l \in f + 1 .. size /\ l \in 0 .. size /\ e \in l .. size
    BY BoundsAre DEF SourceOK, CellUnderWay
<1>2. /\ Reads(f).error = {} /\ Reads(f).state = "start"
      /\ Reads(f).row = row /\ Reads(f).column = column
    <2>1. GoesOn(c, f) /\ Reads(f).state = "start"
        BY <1>1, OverBlanks DEF CellUnderWay
    <2> QED
        BY <2>1 DEF GoesOn, CellUnderWay
<1>3. /\ Reads(f + 1).error = {} /\ Reads(f + 1).state = "quoted"
      /\ Reads(f + 1).opened = f
      /\ Reads(f + 1).row = row /\ Reads(f + 1).column = column
    <2>1. Delta(Blank(trim), Reads(f).state, buffer[f]) = "quoted"
        BY <1>2, DeltaIs DEF IsQuote
    <2> QED
        BY <1>1, <1>2, <2>1, ReadStep
<1>4. /\ closing \in f + 1 .. l
      /\ GoesOn(f + 1, closing)
      /\ Reads(closing).state = "quoted"
      /\ closing < l => /\ IsQuote(closing)
                        /\ closing + 1 < l => ~ IsQuote(closing + 1)
    BY <1>1, <1>3, OverQuoted
<1>5. /\ Reads(closing).error = {} /\ Reads(closing).opened = f
      /\ Reads(closing).row = row /\ Reads(closing).column = column
    BY <1>3, <1>4 DEF GoesOn
<1>6. CASE closing = l
    <2>1. GoesOn(l, e) /\ Reads(e).state = "quoted"
        BY <1>1, <1>4, <1>5, <1>6, OverBlanks
    <2>2. /\ Reads(e).error = {} /\ Reads(e).opened = f
          /\ Reads(e).row = row /\ Reads(e).column = column
        BY <1>4, <1>5, <1>6, <2>1 DEF GoesOn
    <2>3. e = size
        BY <2>1, <2>2, BehindCell
    <2>4. ErrorAt(Reads(size), size, LF) =
             [code |-> "unclosed_quote", byte_offset |-> f, row |-> row, column |-> column]
        BY <2>1, <2>2, <2>3 DEF ErrorAt, ErrorCode
    <2>5. Errors(buffer, size, trim) = {ErrorAt(Reads(size), size, LF)}
        BY <2>1, <2>2, <2>3 DEF Errors, Reads
    <2>6. fault = Fault("unclosed_quote", f)
        BY <1>6
    <2> QED
        BY <2>4, <2>5, <2>6 DEF ReportedAs, Fault, NoFault
<1>7. ASSUME closing # l
      PROVE  /\ closing + 1 \in f + 1 .. l /\ closing + 1 \in 0 .. size
             /\ Reads(closing + 1).error = {} /\ Reads(closing + 1).state = "quote"
             /\ Reads(closing + 1).row = row /\ Reads(closing + 1).column = column
    <2>1. closing < l /\ closing \in 0 .. size - 1 /\ closing \in Nat
        BY <1>1, <1>4, <1>7
    <2>2. Delta(Blank(trim), Reads(closing).state, buffer[closing]) = "quote"
        BY <1>4, <2>1, DeltaIs DEF IsQuote
    <2> QED
        BY <1>1, <1>4, <1>5, <2>1, <2>2, ReadStep
<1>8. CASE closing + 1 = l
    <2>1. closing # l
        BY <1>1, <1>4, <1>8
    <2>2. GoesOn(l, e) /\ Reads(e).state \in {"quote", "after"}
        BY <1>1, <1>7, <1>8, <2>1, OverBlanks
    <2>3. CellIsRead(e)
        BY <1>7, <1>8, <2>1, <2>2 DEF GoesOn, CellIsRead
    <2>4. fault = NoFault
        BY <1>1, <1>8, <2>1
    <2> QED
        BY <2>3, <2>4
<1>9. CASE closing + 1 < l
    <2>1. closing # l /\ fault = AfterQuote(closing + 1, l)
        BY <1>1, <1>4, <1>9
    <2>13. fault # NoFault
        BY <2>1 DEF AfterQuote, Fault, NoFault
    <2> SUFFICES ASSUME PoliciesKeepQuotes PROVE ReportedAs(fault)
        BY <2>13
    <2>2. PICK first : first = closing + 1
        OBVIOUS
    <2>3. /\ first \in 0 .. size /\ l \in first .. size /\ first \in Nat
          /\ l - 1 \in first .. l - 1 /\ ~ IsQuote(first)
          /\ Reads(first).error = {} /\ Reads(first).state = "quote"
          /\ Reads(first).row = row /\ Reads(first).column = column
        BY <1>1, <1>4, <1>7, <1>9, <2>1, <2>2
    <2>4. PICK suffix : suffix = TrimPreservingStructure(first, l)
        OBVIOUS
    <2>5. PICK o : o = suffix.first
        OBVIOUS
    <2>6. /\ o \in first .. l /\ suffix.second \in o .. l /\ o < suffix.second
          /\ \A k \in first .. o - 1 : buffer[k] \in Blank(trim)
          /\ buffer[o] \notin Blank(trim)
        BY <2>3, <2>4, <2>5, TrimIs
    <2>7. /\ o \in c .. e - 1 /\ o \in 0 .. size - 1 /\ o \in first .. size /\ o \in Nat
          /\ o < l
        BY <1>1, <1>4, <2>2, <2>3, <2>6
    <2>8. fault = CASE BareCarriageReturn(o, l) -> Fault("bare_carriage_return", o)
                    [] o # first /\ IsQuote(o) -> Fault("invalid_doubled_quote", o)
                    [] OTHER -> Fault("characters_after_closing_quote", o)
        BY <2>1, <2>2, <2>4, <2>5, <2>6 DEF AfterQuote
    <2>9. /\ GoesOn(first, o)
          /\ Reads(o).state = IF first = o THEN "quote" ELSE "after"
        BY <2>3, <2>6, <2>7, OverBlanks
    <2>10. /\ Reads(o).error = {} /\ Reads(o).row = row /\ Reads(o).column = column
        BY <2>3, <2>9 DEF GoesOn
    <2>11. /\ buffer[o] \notin {LF, Delimiter}
           /\ buffer[o] = CR /\ o + 1 < size => buffer[o + 1] # LF
        BY <2>7, <2>9, <2>10, InCell
    <2>12. BareCarriageReturn(o, l) <=> buffer[o] = CR
        BY <1>1, <2>7, <2>11, GrammarAssumption DEF BareCarriageReturn
    <2>14. CASE buffer[o] = CR
        <3>1. ReportedAs(Fault("bare_carriage_return", o))
            BY <2>7, <2>9, <2>10, <2>14, CarriageReturnIsReported
        <3>2. fault = Fault("bare_carriage_return", o)
            BY <2>8, <2>12, <2>14, GrammarAssumption DEF IsQuote
        <3> QED
            BY <2>13, <3>1, <3>2
    <2>15. CASE IsQuote(o)
        <3>1. o # first /\ Reads(o).state = "after" /\ buffer[o] # CR
            BY <2>3, <2>9, <2>15, GrammarAssumption DEF IsQuote
        <3>2. Delta(Blank(trim), Reads(o).state, buffer[o]) = "error"
            BY <2>15, <3>1, DeltaIs DEF IsQuote
        <3>3. ErrorCode(Reads(o).state, buffer[o]) = "invalid_doubled_quote"
            BY <2>15, <3>1 DEF ErrorCode, IsQuote
        <3>4. ReportedAs(Fault("invalid_doubled_quote", o))
            BY <2>7, <2>10, <3>1, <3>2, <3>3, ErrorIsReported
        <3>5. fault = Fault("invalid_doubled_quote", o)
            BY <2>8, <2>12, <2>15, <3>1
        <3> QED
            BY <2>13, <3>4, <3>5
    <2>16. CASE buffer[o] # CR /\ ~ IsQuote(o)
        <3>1. Reads(o).state \in {"quote", "after"}
            BY <2>9
        <3>2. buffer[o] \notin Structural \cup Blank(trim)
            BY <2>6, <2>11, <2>16 DEF Structural, IsQuote
        <3>3. Delta(Blank(trim), Reads(o).state, buffer[o]) = "error"
            BY <3>1, <3>2, DeltaIs
        <3>4. ErrorCode(Reads(o).state, buffer[o]) = "characters_after_closing_quote"
            BY <2>16, <3>1 DEF ErrorCode, IsQuote
        <3>5. ReportedAs(Fault("characters_after_closing_quote", o))
            BY <2>7, <2>10, <3>1, <3>3, <3>4, ErrorIsReported
        <3>6. fault = Fault("characters_after_closing_quote", o)
            BY <2>8, <2>12, <2>16
        <3> QED
            BY <2>13, <3>5, <3>6
    <2> QED
        BY <2>14, <2>15, <2>16
<1>10. closing = l \/ closing + 1 = l \/ closing + 1 < l
    BY <1>1, <1>4
<1> QED
    BY <1>6, <1>8, <1>9, <1>10

\* What validate_cell says of a cell is what the automaton finds in it.
LEMMA CellVerdict ==
    ASSUME SourceOK, CellUnderWay,
           NEW e, e = Cell(buffer, record.content_end, cell_start).content_end,
           NEW fault, fault = ValidateCell(cell_start, e)
    PROVE  /\ fault = NoFault => CellIsRead(e)
           /\ PoliciesKeepQuotes /\ fault # NoFault => ReportedAs(fault)
<1> DEFINE c == cell_start
<1>1. /\ size \in Nat /\ c \in Nat /\ e \in Nat
      /\ c \in 0 .. size /\ e \in c .. size
    BY BoundsAre DEF SourceOK, CellUnderWay
<1>2. PICK bounds : bounds = TrimPreservingStructure(c, e)
    OBVIOUS
<1>3. PICK f, l : f = bounds.first /\ l = bounds.second
    OBVIOUS
<1>4. /\ f \in c .. e /\ l \in f .. e
      /\ \A k \in c .. f - 1 : buffer[k] \in Blank(trim)
      /\ \A k \in l .. e - 1 : buffer[k] \in Blank(trim)
      /\ f < l => \E k \in c .. e - 1 : buffer[k] \notin Blank(trim)
      /\ (\E k \in c .. e - 1 : buffer[k] \notin Blank(trim)) =>
            f < l /\ buffer[f] \notin Blank(trim)
      /\ (\E k \in c .. e - 1 : buffer[k] \notin trim) => buffer[l - 1] \notin Blank(trim)
    <2> HIDE DEF c
    <2>1. /\ bounds.first \in c .. e /\ bounds.second \in bounds.first .. e
          /\ \A k \in c .. bounds.first - 1 : buffer[k] \in Blank(trim)
          /\ \A k \in bounds.second .. e - 1 : buffer[k] \in Blank(trim)
          /\ bounds.first < bounds.second => \E k \in c .. e - 1 : buffer[k] \notin Blank(trim)
          /\ (\E k \in c .. e - 1 : buffer[k] \notin Blank(trim)) =>
                bounds.first < bounds.second /\ buffer[bounds.first] \notin Blank(trim)
          /\ (\E k \in c .. e - 1 : buffer[k] \notin trim) =>
                buffer[bounds.second - 1] \notin Blank(trim)
        <3>1. c \in 0 .. size /\ e \in c .. size
            BY <1>1
        <3> QED
            BY <1>2, <3>1, TrimIs
    <2> QED
        BY <1>3, <2>1, Zenon
<1>5. PICK closing : closing = ClosingQuote(f + 1, l)
    OBVIOUS
<1>6. fault = CASE f = l -> NoFault
                [] f # l /\ ~ IsQuote(f) -> BareCell(c, e)
                [] OTHER ->
                      CASE closing = l -> Fault("unclosed_quote", f)
                        [] closing + 1 < l -> AfterQuote(closing + 1, l)
                        [] OTHER -> NoFault
    BY <1>2, <1>3, <1>5 DEF ValidateCell
<1>7. CASE f = l
    <2>1. \A k \in c .. e - 1 : buffer[k] \in Blank(trim)
        BY <1>4, <1>7
    <2>2. GoesOn(c, e) /\ Reads(e).state = "start"
        BY <1>1, <2>1, OverBlanks DEF CellUnderWay
    <2>3. CellIsRead(e)
        BY <2>2 DEF GoesOn, CellIsRead, CellUnderWay
    <2>4. fault = NoFault
        BY <1>6, <1>7
    <2> QED
        BY <2>3, <2>4
<1>8. ASSUME f # l
      PROVE  /\ f \in c .. e - 1 /\ buffer[f] \notin Blank(trim)
             /\ l \in f + 1 .. e
    BY <1>1, <1>4, <1>8
<1>9. CASE f # l /\ ~ IsQuote(f)
    <2>1. fault = BareCell(c, e)
        BY <1>6, <1>9
    <2> QED
        BY <1>4, <1>8, <1>9, <2>1, BareCellIsRead
<1>10. CASE f # l /\ IsQuote(f)
    <2>1. fault = CASE closing = l -> Fault("unclosed_quote", f)
                    [] closing + 1 < l -> AfterQuote(closing + 1, l)
                    [] OTHER -> NoFault
        BY <1>6, <1>10
    <2>2. PoliciesKeepQuotes => buffer[l - 1] \notin Blank(trim)
        <3> SUFFICES ASSUME PoliciesKeepQuotes PROVE buffer[l - 1] \notin Blank(trim)
            OBVIOUS
        <3>1. CASE QuoteCharacter \in trim
            BY <3>1 DEF PoliciesKeepQuotes, SourceOK
        <3>2. CASE QuoteCharacter \notin trim
            BY <1>4, <1>8, <1>10, <3>2 DEF IsQuote
        <3> QED
            BY <3>1, <3>2
    <2> QED
        BY <1>4, <1>5, <1>8, <1>10, <2>1, <2>2, QuotedCellIsRead
<1> QED
    BY <1>7, <1>9, <1>10

-----------------------------------------------------------------------------
(* Validation: the verdict about the source.                               *)

\* What validate accepts is valid.
AcceptsOnlyValidSources ==
    pc = "accepted" => error = NoError /\ Errors(buffer, size, trim) = {}

\* A record is to be read, and the automaton is before it.
BeforeRecord ==
    LET from == IF row = 1 THEN 0 ELSE record.next_start
    IN  /\ from \in 0 .. size - 1
        /\ row \in Nat \ {0}
        /\ Reads(from).error = {} /\ Reads(from).state = "start"
        /\ Reads(from).row = row /\ Reads(from).column = 1

\* The inductive invariant: up to the record or the cell that is to be read the
\* automaton has found no error, and it counts rows and columns alike.
InStep ==
    /\ SourceOK
    /\ pc \in {"record", "cell", "validate", "accepted", "rejected"}
    /\ row \in Nat \ {0}
    /\ pc = "record" => BeforeRecord
    /\ pc \in {"cell", "validate"} => CellUnderWay
    /\ pc = "validate" => cell_end = Cell(buffer, record.content_end, cell_start).content_end
    /\ pc # "rejected" => error = NoError
    /\ AcceptsOnlyValidSources
    /\ PoliciesKeepQuotes => ReportsTheFirstError

LEMMA ValidationStarts == ValidationInit => InStep
<1> SUFFICES ASSUME ValidationInit PROVE InStep
    OBVIOUS
<1>1. SourceOK
    BY ValidationAssumption DEF ValidationInit, SourceOK
<1>2. /\ Reads(0).error = {} /\ Reads(0).state = "start"
      /\ Reads(0).row = 1 /\ Reads(0).column = 1
    BY <1>1, ReadingIs DEF Start
<1>3. CASE size = 0
    <2>1. Errors(buffer, size, trim) = {}
        BY <1>2, <1>3 DEF Errors, Reads
    <2> QED
        BY <1>1, <1>3, <2>1 DEF ValidationInit, InStep, AcceptsOnlyValidSources, ReportsTheFirstError
<1>4. CASE size # 0
    <2>1. BeforeRecord
        BY <1>1, <1>2, <1>4 DEF BeforeRecord, ValidationInit, SourceOK
    <2> QED
        BY <1>1, <1>4, <2>1 DEF ValidationInit, InStep, AcceptsOnlyValidSources, ReportsTheFirstError
<1> QED
    BY <1>3, <1>4

LEMMA ReadRecordKeepsStep ==
    ASSUME InStep, ReadRecord
    PROVE  InStep'
<1> DEFINE from == IF row = 1 THEN 0 ELSE record.next_start
<1>1. /\ SourceOK /\ SourceOK' /\ BeforeRecord /\ error = NoError
      /\ row \in Nat \ {0} /\ row' = row /\ error' = error /\ pc' = "cell"
    BY DEF InStep, ReadRecord, SourceOK, sourceVars
<1>2. \A k : Reads(k)' = Reads(k)
    BY DEF ReadRecord, sourceVars, Reads
<1>3. /\ record' = Record(buffer, size, from) /\ cell_start' = record'.start
      /\ from \in 0 .. size - 1
      /\ Reads(from).error = {} /\ Reads(from).state = "start"
      /\ Reads(from).row = row /\ Reads(from).column = 1
    BY <1>1 DEF ReadRecord, BeforeRecord
<1>4. record'.start = from /\ record'.content_end \in from .. size
    <2> DEFINE read == Record(buffer, size, from)
    <2>1. \/ read = RestOfBuffer(size, from)
          \/ \E i \in from .. size - 1 : read = RecordBounds(buffer, from, i)
        BY <1>1, <1>3, RecordReadIs
    <2> HIDE DEF read
    <2>2. read.start = from /\ read.content_end \in from .. size
        BY <1>1, <1>3, <2>1 DEF RestOfBuffer, RecordBounds, DropsCarriageReturn, SourceOK
    <2> QED
        BY <1>3, <2>2 DEF read
<1>5. CellUnderWay'
    <2>1. size' = size /\ buffer' = buffer /\ column' = 1
        BY DEF ReadRecord, sourceVars
    <2>2. record'.start \in record'.start .. record'.content_end
        BY <1>1, <1>3, <1>4 DEF SourceOK
    <2> HIDE DEF from
    <2> QED
        BY <1>1, <1>2, <1>3, <1>4, <2>1, <2>2 DEF CellUnderWay
<1> QED
    BY <1>1, <1>5 DEF InStep, AcceptsOnlyValidSources, ReportsTheFirstError

LEMMA ReadCellKeepsStep ==
    ASSUME InStep, ReadCell
    PROVE  InStep'
<1>1. \A k : Reads(k)' = Reads(k)
    BY DEF ReadCell, sourceVars, Reads
<1>2. CellUnderWay'
    BY <1>1 DEF InStep, ReadCell, sourceVars, CellUnderWay
<1> QED
    BY <1>2 DEF InStep, ReadCell, sourceVars, SourceOK, AcceptsOnlyValidSources, ReportsTheFirstError

LEMMA RejectKeepsStep ==
    ASSUME InStep, pc = "validate",
           Reject(ValidateCell(cell_start, cell_end))
    PROVE  InStep'
<1>1. PICK fault : fault = ValidateCell(cell_start, cell_end)
    OBVIOUS
<1>2. fault # NoFault /\ Reject(fault)
    BY <1>1 DEF Reject
<1>3. SourceOK /\ CellUnderWay /\ cell_end = Cell(buffer, record.content_end, cell_start).content_end
    BY DEF InStep
<1>4. PoliciesKeepQuotes => ReportedAs(fault)
    BY <1>1, <1>2, <1>3, CellVerdict
<1>5. PoliciesKeepQuotes => Errors(buffer, size, trim) = {error'}
    BY <1>2, <1>4 DEF Reject, ReportedAs
<1>6. /\ pc' = "rejected" /\ row' = row
      /\ buffer' = buffer /\ size' = size /\ trim' = trim
    BY <1>2 DEF Reject, sourceVars
<1> QED
    BY <1>5, <1>6 DEF InStep, SourceOK, AcceptsOnlyValidSources, ReportsTheFirstError

\* A cell that is not at fault leaves the automaton before the next one.
LEMMA NextCellKeepsStep ==
    ASSUME InStep, pc = "validate",
           ValidateCell(cell_start, cell_end) = NoFault, NextCell
    PROVE  InStep'
<1> DEFINE e == cell_end
<1>1. /\ SourceOK /\ CellUnderWay /\ error = NoError /\ row \in Nat \ {0}
      /\ e = Cell(buffer, record.content_end, cell_start).content_end
    BY DEF InStep
<1>2. CellIsRead(e)
    BY <1>1, CellVerdict
<1>3. /\ e < record.content_end /\ e < size /\ buffer[e] = Delimiter
    <2>1. e < record.content_end
        BY DEF NextCell
    <2>2. e \in Int /\ record.content_end \in Int
        BY <1>1, BoundsAre DEF SourceOK, CellUnderWay
    <2>3. e # record.content_end
        BY <2>1, <2>2
    <2> QED
        BY <1>1, <2>3, BehindCell
<1>4. /\ size \in Nat /\ e \in 0 .. size - 1 /\ e \in cell_start .. record.content_end
      /\ record.start \in 0 .. size - 1 /\ record.content_end \in record.start .. size
      /\ cell_start \in record.start .. record.content_end
    BY <1>1, <1>3, BoundsAre DEF SourceOK, CellUnderWay
<1>5. /\ Reads(e + 1).error = {} /\ Reads(e + 1).state = "start"
      /\ Reads(e + 1).row = row /\ Reads(e + 1).column = column + 1
    <2>1. Delta(Blank(trim), Reads(e).state, buffer[e]) = "start"
        BY <1>2, <1>3, DeltaIs DEF CellIsRead
    <2> QED
        BY <1>1, <1>2, <1>3, <1>4, <2>1, ReadStep DEF CellIsRead
<1>6. /\ cell_start' = e + 1 /\ column' = column + 1 /\ row' = row /\ record' = record
      /\ pc' = "cell" /\ error' = error
      /\ buffer' = buffer /\ size' = size /\ trim' = trim
    BY DEF NextCell, sourceVars
<1>7. \A k : Reads(k)' = Reads(k)
    BY <1>6 DEF Reads
<1>8. e + 1 \in record.start .. record.content_end
    BY <1>3, <1>4
<1>9. CellUnderWay'
    BY <1>1, <1>5, <1>6, <1>7, <1>8 DEF CellUnderWay
<1> QED
    BY <1>1, <1>6, <1>9 DEF InStep, SourceOK, AcceptsOnlyValidSources, ReportsTheFirstError

\* The last cell of a record leaves it before the next record, or at the end.
LEMMA NextRecordKeepsStep ==
    ASSUME InStep, pc = "validate",
           ValidateCell(cell_start, cell_end) = NoFault, NextRecord
    PROVE  InStep'
<1> DEFINE e == cell_end
           next == record.next_start
<1>1. /\ SourceOK /\ CellUnderWay /\ error = NoError /\ row \in Nat \ {0}
      /\ e = Cell(buffer, record.content_end, cell_start).content_end
    BY DEF InStep
<1>2. CellIsRead(e)
    BY <1>1, CellVerdict
<1>3. /\ row' = (IF next >= size THEN row ELSE row + 1)
      /\ pc' = (IF next >= size THEN "accepted" ELSE "record")
      /\ record' = record /\ error' = error
      /\ buffer' = buffer /\ size' = size /\ trim' = trim
    BY DEF NextRecord, sourceVars
<1>4. \A k : Reads(k)' = Reads(k)
    BY <1>3 DEF Reads
<1>5. /\ size \in Nat /\ e \in 0 .. size
      /\ \/ e = size /\ next = size
         \/ e < size /\ next = e + 1 /\ buffer[e] = LF
         \/ /\ e + 1 < size /\ next = (e + 1) + 1
            /\ buffer[e] = CR /\ buffer[e + 1] = LF
    <2>1. e >= record.content_end
        BY DEF NextRecord
    <2>2. /\ size \in Nat /\ record.start \in 0 .. size - 1
          /\ record.content_end \in record.start .. size
          /\ cell_start \in record.start .. record.content_end
          /\ e \in cell_start .. record.content_end
        BY <1>1, BoundsAre DEF SourceOK, CellUnderWay
    <2> QED
        BY <1>1, <2>1, <2>2, BehindCell
<1>6. CASE e = size /\ next = size
    <2>1. Errors(buffer, size, trim) = {}
        BY <1>2, <1>6 DEF Errors, Reads, CellIsRead
    <2>2. Errors(buffer, size, trim)' = {}
        BY <1>3, <2>1
    <2>3. pc' = "accepted" /\ row' = row
        BY <1>3, <1>5, <1>6
    <2> QED
        BY <1>1, <1>3, <2>2, <2>3 DEF InStep, SourceOK, AcceptsOnlyValidSources, ReportsTheFirstError
<1>7. ASSUME next \in 1 .. size,
             Reads(next).error = {}, Reads(next).state = "start",
             Reads(next).row = row + 1, Reads(next).column = 1
      PROVE  InStep'
    <2>1. CASE next = size
        <3>1. Errors(buffer, size, trim) = {}
            BY <1>7, <2>1 DEF Errors, Reads
        <3>2. Errors(buffer, size, trim)' = {}
            BY <1>3, <3>1
        <3>3. pc' = "accepted" /\ row' = row
            BY <1>3, <1>5, <2>1
        <3> QED
            BY <1>1, <1>3, <3>2, <3>3 DEF InStep, SourceOK, AcceptsOnlyValidSources, ReportsTheFirstError
    <2>2. CASE next < size
        <3>1. pc' = "record" /\ row' = row + 1 /\ row' \in Nat \ {0} /\ row' # 1
            BY <1>1, <1>3, <1>5, <1>7, <2>2
        <3>2. next \in 0 .. size - 1
            BY <1>5, <1>7, <2>2
        <3>3. BeforeRecord'
            BY <1>3, <1>4, <1>7, <3>1, <3>2 DEF BeforeRecord
        <3> QED
            BY <1>1, <1>3, <3>1, <3>3 DEF InStep, SourceOK, AcceptsOnlyValidSources, ReportsTheFirstError
    <2> QED
        BY <1>5, <1>7, <2>1, <2>2
<1>8. CASE e < size /\ next = e + 1 /\ buffer[e] = LF
    <2>1. e \in 0 .. size - 1 /\ e + 1 \in 1 .. size
        BY <1>5, <1>8
    <2>2. Delta(Blank(trim), Reads(e).state, buffer[e]) = "start"
        BY <1>2, <1>8, DeltaIs DEF CellIsRead
    <2>3. /\ Reads(e + 1).error = {} /\ Reads(e + 1).state = "start"
          /\ Reads(e + 1).row = row + 1 /\ Reads(e + 1).column = 1
        BY <1>1, <1>2, <1>8, <2>1, <2>2, ReadStep DEF CellIsRead
    <2> QED
        BY <1>7, <1>8, <2>1, <2>3
<1>9. CASE /\ e + 1 < size /\ next = (e + 1) + 1
           /\ buffer[e] = CR /\ buffer[e + 1] = LF
    <2>1. e \in 0 .. size - 1 /\ e + 1 \in 0 .. size - 1 /\ (e + 1) + 1 \in 1 .. size
        BY <1>5, <1>9
    <2>2. Delta(Blank(trim), Reads(e).state, buffer[e]) = "return"
        BY <1>2, <1>9, DeltaIs DEF CellIsRead
    <2>3. /\ Reads(e + 1).error = {} /\ Reads(e + 1).state = "return"
          /\ Reads(e + 1).row = row /\ Reads(e + 1).column = column
        BY <1>1, <1>2, <2>1, <2>2, ReadStep DEF CellIsRead
    <2>4. Delta(Blank(trim), Reads(e + 1).state, buffer[e + 1]) = "start"
        BY <1>9, <2>3, DeltaIs
    <2>5. /\ Reads((e + 1) + 1).error = {} /\ Reads((e + 1) + 1).state = "start"
          /\ Reads((e + 1) + 1).row = row + 1 /\ Reads((e + 1) + 1).column = 1
        BY <1>1, <1>9, <2>1, <2>3, <2>4, ReadStep
    <2> QED
        BY <1>7, <1>9, <2>1, <2>5
<1> QED
    BY <1>5, <1>6, <1>8, <1>9

\* Validation keeps step with the automaton, under every policy.
LEMMA ValidationKeepsStep == ValidationSpec => []InStep
<1>1. ValidationInit => InStep
    BY ValidationStarts
<1>2. InStep /\ [ValidationNext]_validationVars => InStep'
    <2> SUFFICES ASSUME InStep, [ValidationNext]_validationVars PROVE InStep'
        OBVIOUS
    <2>1. CASE ReadRecord
        BY <2>1, ReadRecordKeepsStep
    <2>2. CASE ReadCell
        BY <2>2, ReadCellKeepsStep
    <2>3. CASE CheckCell
        <3>1. pc = "validate"
            BY <2>3 DEF CheckCell
        <3>2. \/ Reject(ValidateCell(cell_start, cell_end))
              \/ ValidateCell(cell_start, cell_end) = NoFault /\ NextCell
              \/ ValidateCell(cell_start, cell_end) = NoFault /\ NextRecord
            BY <2>3 DEF CheckCell
        <3> QED
            BY <3>1, <3>2, RejectKeepsStep, NextCellKeepsStep, NextRecordKeepsStep
    <2>4. CASE UNCHANGED validationVars
        <3>1. \A k : Reads(k)' = Reads(k)
            BY <2>4 DEF validationVars, sourceVars, Reads
        <3>2. (CellUnderWay <=> CellUnderWay') /\ (BeforeRecord <=> BeforeRecord')
            BY <2>4, <3>1 DEF validationVars, sourceVars, CellUnderWay, BeforeRecord
        <3> QED
            BY <2>4, <3>2 DEF validationVars, sourceVars, InStep, SourceOK,
                              AcceptsOnlyValidSources, ReportsTheFirstError
    <2> QED
        BY <2>1, <2>2, <2>3, <2>4 DEF ValidationNext, Step, Verdict
<1> QED
    BY <1>1, <1>2, PTL DEF ValidationSpec

\* A source that validate accepts is one in which the automaton finds no error,
\* whatever the policy trims.
THEOREM AcceptedSourcesAreValid == ValidationSpec => []AcceptsOnlyValidSources
<1>1. InStep => AcceptsOnlyValidSources
    BY DEF InStep
<1> QED
    BY <1>1, ValidationKeepsStep, PTL

\* validate accepts exactly the sources in which the automaton finds no error, and
\* reports of the others the code, the offset, the row and the column of the first
\* one, under every policy that keeps its quotes.
THEOREM TheFirstErrorIsReported ==
    ASSUME PoliciesKeepQuotes
    PROVE  ValidationSpec => []ReportsTheFirstError
<1>1. InStep => ReportsTheFirstError
    BY DEF InStep
<1> QED
    BY <1>1, ValidationKeepsStep, PTL
=============================================================================
