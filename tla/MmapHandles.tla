----------------------------- MODULE MmapHandles ----------------------------
(***************************************************************************)
(* The descriptors and mappings of mio::basic_mmap (include/csv2/mio.hpp), *)
(* in its POSIX build: several objects that map files by path or by a      *)
(* handle, remap, unmap, move and swap, over a table of descriptors whose  *)
(* numbers are used again after they are closed.                           *)
(*                                                                         *)
(* A handle given to map() is open: one of the caller's own, or whatever   *)
(* file_handle() of some object returns, as long as it is open.  Files     *)
(* have a size of their own at every call.  The caller may close its own   *)
(* descriptors at any time, even while an object still names them.         *)
(***************************************************************************)
EXTENDS Integers, FiniteSets

CONSTANTS
    Mmap,          \* the basic_mmap objects
    Descriptor,    \* file descriptors
    Invalid,       \* invalid_handle
    PageSize,
    Pages,         \* the address space has pages 1 .. Pages
    MaxFile        \* bound on the size of a file

ASSUME SizesAssumption ==
    /\ PageSize \in Nat \ {0}
    /\ Pages \in Nat
    /\ MaxFile \in Nat
    /\ Invalid \notin Descriptor

VARIABLES
    descriptors,   \* who opened each descriptor, or "closed"
    regions,       \* what munmap has still to undo, by start and length
    exists,        \* the objects between construction and destruction
    mmap,          \* their members
    call           \* a map(path) between open() and its return, if any

vars == <<descriptors, regions, exists, mmap, call>>

Address == 0 .. (Pages + 1) * PageSize

Unmapped == [data |-> 0, length |-> 0, mapped_length |-> 0,
             file_handle |-> Invalid, is_handle_internal |-> FALSE]

Members == [data : Address, length : 0 .. MaxFile, mapped_length : 0 .. MaxFile,
            file_handle : Descriptor \cup {Invalid}, is_handle_internal : BOOLEAN]

NoCall == [step |-> "none"]

TypeOK ==
    /\ descriptors \in [Descriptor -> {"closed", "caller", "library"}]
    /\ regions \subseteq [start : Address \ {0}, length : 1 .. MaxFile]
    /\ exists \subseteq Mmap
    /\ mmap \in [Mmap -> Members]
    /\ call \in {NoCall} \cup [step : {"map", "failed"}, object : Mmap, handle : Descriptor]

Init ==
    /\ descriptors = [d \in Descriptor |-> "closed"]
    /\ regions = {}
    /\ exists = {}
    /\ mmap = [m \in Mmap |-> Unmapped]
    /\ call = NoCall

-----------------------------------------------------------------------------
(* The operating system.                                                   *)

FirstPage(start) == start \div PageSize

LastPage(start, length) == (start + length - 1) \div PageSize

PagesOf(r) == FirstPage(r.start) .. LastPage(r.start, r.length)

\* mmap(0, length, ...): whole pages that nothing else is mapped to.
Placed(start, length) ==
    /\ length > 0
    /\ start % PageSize = 0
    /\ PagesOf([start |-> start, length |-> length]) \subseteq 1 .. Pages
    /\ \A r \in regions : PagesOf(r) \cap PagesOf([start |-> start, length |-> length]) = {}

\* munmap(start, length) takes every page it touches from whoever has it, and
\* fails, which the code ignores, on a start within a page.
Munmap(start, length) ==
    IF start % PageSize # 0
    THEN regions
    ELSE {r \in regions : PagesOf(r) \cap PagesOf([start |-> start, length |-> length]) = {}}

Open(d) == descriptors[d] # "closed"

-----------------------------------------------------------------------------
(* The members of one object.                                              *)

\* Mutated form: a mapping with an offset is released from its data on.
MappingStartAtData(m) == mmap[m].data

MappingStart(m) == mmap[m].data - (mmap[m].mapped_length - mmap[m].length)

Region(m) == [start |-> MappingStart(m), length |-> mmap[m].mapped_length]

RegionsWithout(m) ==
    IF mmap[m].data = 0 THEN regions
    ELSE Munmap(MappingStart(m), mmap[m].mapped_length)

\* Mutated form: the descriptor is closed whoever opened it.
DescriptorsWithoutAny(m, kept) ==
    IF mmap[m].file_handle # Invalid /\ ~ kept
    THEN [descriptors EXCEPT ![mmap[m].file_handle] = "closed"]
    ELSE descriptors

\* The descriptors after unmap() of m; kept says that its own is kept open.
DescriptorsWithout(m, kept) ==
    IF mmap[m].is_handle_internal /\ ~ kept
    THEN [descriptors EXCEPT ![mmap[m].file_handle] = "closed"]
    ELSE descriptors

-----------------------------------------------------------------------------
(* map().                                                                  *)

RemappingInternalHandle(m, handle) ==
    mmap[m].is_handle_internal /\ handle = mmap[m].file_handle

\* Mutated form: file_size - offset wraps around.
InFileByLength(offset, length, file_size) == length <= file_size

InFile(offset, length, file_size) ==
    /\ offset <= file_size
    /\ length <= file_size - offset

\* map(handle, offset, length, error) when it succeeds: the new mapping is
\* made before the previous one is undone.
Remap(m, handle, internal, offset, length, file_size) ==
    LET bytes == IF length = 0 THEN file_size - offset ELSE length
        mapped_length == (offset % PageSize) + bytes
    IN  /\ InFile(offset, length, file_size)
        /\ \E start \in Address \ {0} :
              /\ Placed(start, mapped_length)
              /\ regions' = RegionsWithout(m)
                              \cup {[start |-> start, length |-> mapped_length]}
              /\ mmap' = [mmap EXCEPT ![m] =
                            [data               |-> start + (offset % PageSize),
                             length             |-> bytes,
                             mapped_length      |-> mapped_length,
                             file_handle        |-> handle,
                             is_handle_internal |-> internal]]
        /\ descriptors' = DescriptorsWithout(m, RemappingInternalHandle(m, handle))

\* map() of a handle the caller passes. When it fails nothing has changed.
MapByHandle(m, handle, offset, length, file_size) ==
    /\ call = NoCall
    /\ m \in exists
    /\ Open(handle)
    /\ Remap(m, handle, RemappingInternalHandle(m, handle), offset, length, file_size)
    /\ UNCHANGED <<exists, call>>

\* map() of a path: open() gives any free number.
OpenFile(m) ==
    /\ call = NoCall
    /\ m \in exists
    /\ \E d \in Descriptor :
          /\ ~ Open(d)
          /\ descriptors' = [descriptors EXCEPT ![d] = "library"]
          /\ call' = [step |-> "map", object |-> m, handle |-> d]
    /\ UNCHANGED <<regions, exists, mmap>>

\* The file cannot be measured or mapped, or the range is not in it.
MapOpenedFails ==
    /\ call # NoCall
    /\ call.step = "map"
    /\ call' = [call EXCEPT !.step = "failed"]
    /\ UNCHANGED <<descriptors, regions, exists, mmap>>

\* Mutated form: the guard is released before the error is looked at.
KeepOpened ==
    /\ call # NoCall
    /\ call.step = "failed"
    /\ call' = NoCall
    /\ UNCHANGED <<descriptors, regions, exists, mmap>>

\* ~file_handle_guard.
CloseOpened ==
    /\ call # NoCall
    /\ call.step = "failed"
    /\ descriptors' = [descriptors EXCEPT ![call.handle] = "closed"]
    /\ call' = NoCall
    /\ UNCHANGED <<regions, exists, mmap>>

\* map(handle) succeeds, and the object becomes the owner of the handle.
MapOpened(offset, length, file_size) ==
    /\ call # NoCall
    /\ call.step = "map"
    /\ Remap(call.object, call.handle, TRUE, offset, length, file_size)
    /\ call' = NoCall
    /\ UNCHANGED exists

-----------------------------------------------------------------------------
(* Construction, unmap(), moves, swap and destruction.                     *)

Construct(m) ==
    /\ call = NoCall
    /\ m \notin exists
    /\ exists' = exists \cup {m}
    /\ UNCHANGED <<descriptors, regions, mmap, call>>

Unmap(m) ==
    /\ call = NoCall
    /\ m \in exists
    /\ regions' = RegionsWithout(m)
    /\ descriptors' = DescriptorsWithout(m, FALSE)
    /\ mmap' = [mmap EXCEPT ![m] = Unmapped]
    /\ UNCHANGED <<exists, call>>

Destroy(m) ==
    /\ call = NoCall
    /\ m \in exists
    /\ regions' = RegionsWithout(m)
    /\ descriptors' = DescriptorsWithout(m, FALSE)
    /\ mmap' = [mmap EXCEPT ![m] = Unmapped]
    /\ exists' = exists \ {m}
    /\ UNCHANGED call

MoveConstruct(m, other) ==
    /\ call = NoCall
    /\ m \notin exists
    /\ other \in exists
    /\ exists' = exists \cup {m}
    /\ mmap' = [mmap EXCEPT ![m] = mmap[other], ![other] = Unmapped]
    /\ UNCHANGED <<descriptors, regions, call>>

MoveAssign(m, other) ==
    /\ call = NoCall
    /\ {m, other} \subseteq exists
    /\ m # other
    /\ regions' = RegionsWithout(m)
    /\ descriptors' = DescriptorsWithout(m, FALSE)
    /\ mmap' = [mmap EXCEPT ![m] = mmap[other], ![other] = Unmapped]
    /\ UNCHANGED <<exists, call>>

Swap(m, other) ==
    /\ call = NoCall
    /\ {m, other} \subseteq exists
    /\ m # other
    /\ mmap' = [mmap EXCEPT ![m] = mmap[other], ![other] = mmap[m]]
    /\ UNCHANGED <<descriptors, regions, exists, call>>

-----------------------------------------------------------------------------
(* The caller's own descriptors (external to the library).                 *)

CallerOpens(d) ==
    /\ call = NoCall
    /\ ~ Open(d)
    /\ descriptors' = [descriptors EXCEPT ![d] = "caller"]
    /\ UNCHANGED <<regions, exists, mmap, call>>

CallerCloses(d) ==
    /\ call = NoCall
    /\ descriptors[d] = "caller"
    /\ descriptors' = [descriptors EXCEPT ![d] = "closed"]
    /\ UNCHANGED <<regions, exists, mmap, call>>

Next ==
    \/ \E m \in Mmap : Construct(m) \/ Unmap(m) \/ Destroy(m) \/ OpenFile(m)
    \/ \E m, other \in Mmap :
          MoveConstruct(m, other) \/ MoveAssign(m, other) \/ Swap(m, other)
    \/ \E offset, length, file_size \in 0 .. MaxFile :
          \/ MapOpened(offset, length, file_size)
          \/ \E m \in Mmap, d \in Descriptor : MapByHandle(m, d, offset, length, file_size)
    \/ MapOpenedFails
    \/ CloseOpened
    \/ \E d \in Descriptor : CallerOpens(d) \/ CallerCloses(d)

Spec == Init /\ [][Next]_vars

-----------------------------------------------------------------------------
\* Every region is undone exactly once and as a whole: what is mapped is what
\* the objects say they have mapped, no two of them the same, whatever the
\* offsets, remappings, moves and swaps.
RegionsAccounted ==
    LET holders == {m \in exists : mmap[m].data # 0}
    IN  /\ regions = {Region(m) : m \in holders}
        /\ \A m, n \in holders : m # n => PagesOf(Region(m)) \cap PagesOf(Region(n)) = {}

\* Every descriptor the library opened has exactly one object that will close
\* it, or is that of the call under way; and nobody else's is closed: an object
\* that is to close a descriptor opened it itself.
DescriptorsAccounted ==
    LET owners(d) == {m \in exists : mmap[m].is_handle_internal /\ mmap[m].file_handle = d}
    IN  \A d \in Descriptor :
            IF call # NoCall /\ call.handle = d
            THEN descriptors[d] = "library" /\ owners(d) = {}
            ELSE /\ descriptors[d] = "library" => Cardinality(owners(d)) = 1
                 /\ owners(d) # {} => descriptors[d] = "library"

\* A descriptor of the caller is closed by the caller only, even when its
\* number is one that an object has named since an earlier file.
CallerKeepsItsDescriptors ==
    [][\A d \in Descriptor :
          descriptors[d] = "caller" /\ descriptors'[d] # "caller" => CallerCloses(d)]_vars
=============================================================================
