-------------------------- MODULE MmapHandlesProofs -------------------------
(***************************************************************************)
(* The descriptors and mappings of any number of basic_mmap objects, for   *)
(* any page size, address space and sizes of files: each is undone once,   *)
(* by the object that made it.                                             *)
(***************************************************************************)
EXTENDS MmapHandles, FiniteSetTheorems, TLAPS

UnmadeIsUnmapped == \A m \in Mmap \ exists : mmap[m] = Unmapped

\* What an object has mapped starts with a page and is not empty.
MappingsAreWhole ==
    \A m \in Mmap : mmap[m].data # 0 =>
        /\ MappingStart(m) \in Address \ {0}
        /\ MappingStart(m) % PageSize = 0
        /\ mmap[m].mapped_length > 0

Owns(m, d) == mmap[m].is_handle_internal /\ mmap[m].file_handle = d

\* An object owns one of its own, which the library opened.
OwnersAreAlone ==
    /\ \A m \in Mmap : mmap[m].is_handle_internal =>
          /\ mmap[m].file_handle \in Descriptor
          /\ descriptors[mmap[m].file_handle] = "library"
    /\ \A m, n \in Mmap, d \in Descriptor : Owns(m, d) /\ Owns(n, d) => m = n

\* Whatever the library opened has its owner, or the call under way.
NoneIsLeft ==
    \A d \in Descriptor : descriptors[d] = "library" =>
        \/ call # NoCall /\ call.handle = d
        \/ \E m \in Mmap : Owns(m, d)

CallOwns ==
    call # NoCall =>
        /\ call.object \in exists
        /\ descriptors[call.handle] = "library"
        /\ \A m \in Mmap : ~ Owns(m, call.handle)

MmapInv ==
    /\ TypeOK
    /\ UnmadeIsUnmapped
    /\ MappingsAreWhole
    /\ RegionsAccounted
    /\ OwnersAreAlone
    /\ NoneIsLeft
    /\ CallOwns
-----------------------------------------------------------------------------
(* Pages.                                                                  *)

\* Division by the size of a page.
LEMMA PageArithmetic ==
    ASSUME NEW a \in Nat, NEW b \in Nat
    PROVE  /\ a % PageSize \in 0 .. a
           /\ a \div PageSize \in Nat
           /\ a <= b => a \div PageSize <= b \div PageSize
           /\ a \div PageSize <= b => a < (b + 1) * PageSize
<1>1. PageSize \in Nat \ {0}
  BY SizesAssumption
<1>2. a % PageSize \in 0 .. a
  BY <1>1
<1>3. a \div PageSize \in Nat
  BY <1>1
<1>4. a <= b => a \div PageSize <= b \div PageSize
  BY <1>1
<1>5. a \div PageSize <= b => a < (b + 1) * PageSize
  BY <1>1
<1> QED BY <1>2, <1>3, <1>4, <1>5

\* A region touches the page that it starts with.
LEMMA RegionsHavePages ==
    ASSUME NEW start \in Nat, NEW length \in Nat \ {0}
    PROVE  FirstPage(start) \in PagesOf([start |-> start, length |-> length])
<1>1. start \div PageSize \in Nat /\ (start + length - 1) \div PageSize \in Nat
  BY PageArithmetic
<1>2. start \div PageSize <= (start + length - 1) \div PageSize
  BY PageArithmetic
<1> QED BY <1>1, <1>2 DEF FirstPage, LastPage, PagesOf

\* The address space has a size.
LEMMA AddressIsNat == (Pages + 1) * PageSize \in Nat /\ Address \subseteq Nat
BY SizesAssumption DEF Address

\* What a successful map() gives its object: data and lengths within their
\* bounds, and a region that starts with a page.
LEMMA NewMembers ==
    ASSUME NEW offset \in 0 .. MaxFile, NEW length \in 0 .. MaxFile,
           NEW file_size \in 0 .. MaxFile, InFile(offset, length, file_size),
           NEW bytes, bytes = IF length = 0 THEN file_size - offset ELSE length,
           NEW start \in Address \ {0}, Placed(start, (offset % PageSize) + bytes)
    PROVE  /\ bytes \in 0 .. MaxFile
           /\ (offset % PageSize) + bytes \in 1 .. MaxFile
           /\ start + (offset % PageSize) \in Address \ {0}
           /\ start + (offset % PageSize) - ((offset % PageSize) + bytes - bytes) = start
<1>1. offset % PageSize \in 0 .. offset
  BY PageArithmetic
<1>2. bytes \in 0 .. MaxFile /\ (offset % PageSize) + bytes \in 1 .. MaxFile
  BY <1>1, SizesAssumption DEF InFile, Placed
<1>3. start + (offset % PageSize) \in Address \ {0}
  <2> DEFINE total == (offset % PageSize) + bytes
  <2>1. start \in Nat /\ total \in Nat \ {0}
    BY <1>2, AddressIsNat
  <2>2. start + total - 1 \in Nat
    BY <2>1
  <2>3. LastPage(start, total) \in PagesOf([start |-> start, length |-> total])
    <3>1. start \div PageSize \in Nat /\ (start + total - 1) \div PageSize \in Nat
      BY <2>1, <2>2, PageArithmetic
    <3>2. start \div PageSize <= (start + total - 1) \div PageSize
      BY <2>1, <2>2, PageArithmetic
    <3> QED BY <3>1, <3>2 DEF FirstPage, LastPage, PagesOf
  <2>4. (start + total - 1) \div PageSize <= Pages
    BY <2>3 DEF Placed, LastPage
  <2>5. start + total - 1 < (Pages + 1) * PageSize
    BY <2>2, <2>4, SizesAssumption, PageArithmetic
  <2>6. start + (offset % PageSize) <= start + total
    BY <1>1, <1>2, <2>1
  <2> QED BY <1>1, <2>1, <2>5, <2>6, AddressIsNat DEF Address
<1>4. start \in Nat
  BY AddressIsNat
<1> QED BY <1>1, <1>2, <1>3, <1>4

-----------------------------------------------------------------------------
(* The regions of the objects.                                             *)

Holders == {m \in Mmap : mmap[m].data # 0}

\* Only objects that exist hold something, and each holds pages of its own.
LEMMA HoldersHold ==
    ASSUME MmapInv
    PROVE  /\ Holders = {m \in exists : mmap[m].data # 0}
           /\ regions = {Region(m) : m \in Holders}
           /\ \A m, n \in Holders : m # n => PagesOf(Region(m)) \cap PagesOf(Region(n)) = {}
           /\ \A m \in Holders : PagesOf(Region(m)) # {}
<1>1. Holders = {m \in exists : mmap[m].data # 0}
  BY DEF MmapInv, TypeOK, UnmadeIsUnmapped, Unmapped, Holders
<1>2. ASSUME NEW m \in Holders
      PROVE  PagesOf(Region(m)) # {}
  <2>1. MappingStart(m) \in Nat /\ mmap[m].mapped_length \in Nat \ {0}
    <3>1. mmap[m] \in Members
      BY <1>2 DEF MmapInv, TypeOK, Holders
    <3>2. MappingStart(m) \in Address /\ mmap[m].mapped_length > 0
      BY <1>2 DEF MmapInv, MappingsAreWhole, Holders
    <3>3. mmap[m].mapped_length \in Nat
      BY <3>1, SizesAssumption DEF Members
    <3>4. MappingStart(m) \in Nat
      BY <3>2, AddressIsNat
    <3> QED BY <3>2, <3>3, <3>4
  <2> QED BY <2>1, RegionsHavePages DEF Region
<1> QED BY <1>1, <1>2 DEF MmapInv, RegionsAccounted

\* munmap takes the region of its object, and of no other one.
LEMMA UnmapsOne ==
    ASSUME MmapInv, NEW m \in Mmap
    PROVE  RegionsWithout(m) = {Region(n) : n \in Holders \ {m}}
<1>1. CASE mmap[m].data = 0
  BY <1>1, HoldersHold DEF RegionsWithout, Holders
<1>2. CASE mmap[m].data # 0
  <2>1. m \in Holders /\ MappingStart(m) % PageSize = 0
    BY <1>2 DEF Holders, MmapInv, MappingsAreWhole
  <2>2. RegionsWithout(m) = {r \in regions : PagesOf(r) \cap PagesOf(Region(m)) = {}}
    BY <1>2, <2>1 DEF RegionsWithout, Munmap, Region
  <2>3. \A n \in Holders : PagesOf(Region(n)) \cap PagesOf(Region(m)) = {} <=> n # m
    BY <2>1, HoldersHold
  <2> QED BY <2>2, <2>3, HoldersHold
<1> QED BY <1>1, <1>2

RegionsInv == UnmadeIsUnmapped /\ MappingsAreWhole /\ RegionsAccounted

\* What each object held is held by one object, or undone.
LEMMA HoldersMove ==
    ASSUME MmapInv, TypeOK', NEW gone \in SUBSET Mmap, NEW from \in [Mmap -> Mmap],
           regions' = {Region(n) : n \in Holders \ gone},
           \A n \in Mmap : \/ mmap'[n] = Unmapped
                           \/ mmap'[n] = mmap[from[n]] /\ from[n] \notin gone,
           \A n, o \in Mmap : mmap'[n].data # 0 /\ mmap'[o].data # 0 /\ n # o => from[n] # from[o],
           \A n \in Holders \ gone : \E o \in Mmap : from[o] = n /\ mmap'[o] = mmap[n],
           \A n \in Mmap \ exists' : mmap'[n] = Unmapped
    PROVE  RegionsInv'
<1>1. \A n \in Mmap : mmap'[n].data # 0 => mmap'[n] = mmap[from[n]] /\ from[n] \in Holders \ gone
  BY DEF Unmapped, Holders
<1>2. Holders' = {n \in Mmap : mmap'[n].data # 0}
  BY DEF Holders
<1>3. ASSUME NEW n \in Holders'
      PROVE  Region(n)' = Region(from[n]) /\ MappingStart(n)' = MappingStart(from[n])
  BY <1>1, <1>2 DEF Region, MappingStart
<1>4. regions' = {Region(n)' : n \in Holders'}
  <2>1. regions' = {Region(n) : n \in Holders \ gone}
    OBVIOUS
  <2>2. ASSUME NEW n \in Holders'
        PROVE  Region(n)' \in regions'
    BY <1>1, <1>2, <1>3, <2>1
  <2>3. ASSUME NEW n \in Holders \ gone
        PROVE  \E o \in Holders' : Region(n) = Region(o)'
    <3>1. PICK o \in Mmap : from[o] = n /\ mmap'[o] = mmap[n]
      OBVIOUS
    <3>2. o \in Holders'
      BY <1>2, <3>1 DEF Holders
    <3> QED BY <1>3, <3>1, <3>2
  <2> QED BY <2>1, <2>2, <2>3
<1>5. \A n, o \in Holders' : n # o => PagesOf(Region(n)') \cap PagesOf(Region(o)') = {}
  BY <1>1, <1>2, <1>3, HoldersHold
<1>6. Holders' = {n \in exists' : mmap'[n].data # 0}
  BY <1>2 DEF TypeOK, Unmapped
<1>7. RegionsAccounted'
  BY <1>4, <1>5, <1>6 DEF RegionsAccounted, PagesOf, FirstPage, LastPage
<1>8. MappingsAreWhole'
  BY <1>1, <1>2, <1>3 DEF MmapInv, MappingsAreWhole, Holders
<1> QED BY <1>7, <1>8 DEF RegionsInv, UnmadeIsUnmapped
\* An object that unmaps has nothing left.
LEMMA ReleaseRegions ==
    ASSUME MmapInv, TypeOK', NEW m \in Mmap, regions' = RegionsWithout(m),
           mmap' = [mmap EXCEPT ![m] = Unmapped], exists \ {m} \subseteq exists'
    PROVE  RegionsInv'
<1> DEFINE from == [n \in Mmap |-> n]
<1>1. \A n \in Mmap : mmap'[n] = IF n = m THEN Unmapped ELSE mmap[n]
  BY DEF MmapInv, TypeOK
<1>2. \A n \in Mmap \ exists' : mmap'[n] = Unmapped
  BY <1>1 DEF MmapInv, UnmadeIsUnmapped
<1>3. regions' = {Region(n) : n \in Holders \ {m}}
  BY UnmapsOne
<1>4. /\ \A n \in Mmap : \/ mmap'[n] = Unmapped
                         \/ mmap'[n] = mmap[from[n]] /\ from[n] \notin {m}
      /\ \A n, o \in Mmap : mmap'[n].data # 0 /\ mmap'[o].data # 0 /\ n # o => from[n] # from[o]
      /\ \A n \in Holders \ {m} : \E o \in Mmap : from[o] = n /\ mmap'[o] = mmap[n]
  BY <1>1 DEF Holders
<1>5. from \in [Mmap -> Mmap] /\ {m} \in SUBSET Mmap
  OBVIOUS
<1> HIDE DEF from
<1> QED BY <1>2, <1>3, <1>4, <1>5, HoldersMove

\* Moved: m has what the other one had, and what m had is undone.
LEMMA TransferRegions ==
    ASSUME MmapInv, TypeOK', NEW m \in Mmap, NEW other \in exists, m # other,
           regions' = RegionsWithout(m),
           mmap' = [mmap EXCEPT ![m] = mmap[other], ![other] = Unmapped],
           exists' = exists \cup {m}
    PROVE  RegionsInv'
<1> DEFINE from == [n \in Mmap |-> IF n = m THEN other ELSE n]
<1>1. /\ other \in Mmap
      /\ \A n \in Mmap : mmap'[n] = IF n = other THEN Unmapped
                                    ELSE IF n = m THEN mmap[other] ELSE mmap[n]
  BY DEF MmapInv, TypeOK
<1>2. \A n \in Mmap \ exists' : mmap'[n] = Unmapped
  BY <1>1 DEF MmapInv, UnmadeIsUnmapped
<1>3. regions' = {Region(n) : n \in Holders \ {m}}
  BY UnmapsOne
<1>4. /\ \A n \in Mmap : \/ mmap'[n] = Unmapped
                         \/ mmap'[n] = mmap[from[n]] /\ from[n] \notin {m}
      /\ \A n, o \in Mmap : mmap'[n].data # 0 /\ mmap'[o].data # 0 /\ n # o => from[n] # from[o]
      /\ \A n \in Holders \ {m} : \E o \in Mmap : from[o] = n /\ mmap'[o] = mmap[n]
  <2>1. \A n \in Mmap : \/ mmap'[n] = Unmapped
                        \/ mmap'[n] = mmap[from[n]] /\ from[n] \notin {m}
    BY <1>1
  <2>2. \A n, o \in Mmap : mmap'[n].data # 0 /\ mmap'[o].data # 0 /\ n # o => from[n] # from[o]
    <3>1. Unmapped.data = 0
      BY DEF Unmapped
    <3>2. \A n \in Mmap : mmap'[n].data # 0 => n # other
      BY <1>1, <3>1
    <3> QED BY <3>2
  <2>3. \A n \in Holders \ {m} : \E o \in Mmap : from[o] = n /\ mmap'[o] = mmap[n]
    <3> SUFFICES ASSUME NEW n \in Holders \ {m}
                 PROVE  \E o \in Mmap : from[o] = n /\ mmap'[o] = mmap[n]
      OBVIOUS
    <3>1. CASE n = other
      BY <1>1, <3>1
    <3>2. CASE n # other
      BY <1>1, <3>2 DEF Holders
    <3> QED BY <3>1, <3>2
  <2> QED BY <2>1, <2>2, <2>3
<1>5. from \in [Mmap -> Mmap] /\ {m} \in SUBSET Mmap
  BY <1>1
<1> HIDE DEF from
<1> QED BY <1>2, <1>3, <1>4, <1>5, HoldersMove

\* Swapped: each has what the other one had.
LEMMA SwapRegions ==
    ASSUME MmapInv, TypeOK', NEW m \in exists, NEW other \in exists, m # other,
           mmap' = [mmap EXCEPT ![m] = mmap[other], ![other] = mmap[m]],
           UNCHANGED <<regions, exists>>
    PROVE  RegionsInv'
<1> DEFINE from == [n \in Mmap |-> IF n = m THEN other ELSE IF n = other THEN m ELSE n]
           gone == {}
<1>1. /\ m \in Mmap /\ other \in Mmap
      /\ \A n \in Mmap : mmap'[n] = mmap[from[n]]
  BY DEF MmapInv, TypeOK
<1>2. \A n \in Mmap \ exists' : mmap'[n] = Unmapped
  BY <1>1 DEF MmapInv, UnmadeIsUnmapped
<1>3. regions' = {Region(n) : n \in Holders \ gone}
  BY HoldersHold
<1>4. /\ \A n \in Mmap : \/ mmap'[n] = Unmapped
                         \/ mmap'[n] = mmap[from[n]] /\ from[n] \notin gone
      /\ \A n, o \in Mmap : mmap'[n].data # 0 /\ mmap'[o].data # 0 /\ n # o => from[n] # from[o]
      /\ \A n \in Holders \ gone : \E o \in Mmap : from[o] = n /\ mmap'[o] = mmap[n]
  <2>1. \A n \in Mmap : mmap'[n] = mmap[from[n]] /\ from[n] \notin gone
    BY <1>1
  <2>2. \A n, o \in Mmap : n # o => from[n] # from[o]
    BY <1>1
  <2>3. \A n \in Mmap : from[n] \in Mmap /\ from[from[n]] = n
    BY <1>1
  <2>4. \A n \in Mmap : mmap'[from[n]] = mmap[n]
    BY <2>1, <2>3
  <2> QED BY <2>1, <2>2, <2>3, <2>4 DEF Holders
<1>5. from \in [Mmap -> Mmap] /\ gone \in SUBSET Mmap
  BY <1>1
<1> HIDE DEF from, gone
<1> QED BY <1>2, <1>3, <1>4, <1>5, HoldersMove

\* Mapped: what m had is undone after the new region has its pages.
LEMMA RemapRegions ==
    ASSUME MmapInv, TypeOK', NEW m \in exists, NEW handle, NEW internal,
           NEW offset \in 0 .. MaxFile, NEW length \in 0 .. MaxFile, NEW file_size \in 0 .. MaxFile,
           Remap(m, handle, internal, offset, length, file_size),
           exists' = exists
    PROVE  RegionsInv'
<1>1. PICK bytes : bytes = IF length = 0 THEN file_size - offset ELSE length
  OBVIOUS
<1>2. PICK into : into = offset % PageSize
  OBVIOUS
<1>3. PICK start \in Address \ {0} :
         /\ Placed(start, into + bytes)
         /\ regions' = RegionsWithout(m) \cup {[start |-> start, length |-> into + bytes]}
         /\ mmap' = [mmap EXCEPT ![m] =
                       [data               |-> start + into,
                        length             |-> bytes,
                        mapped_length      |-> into + bytes,
                        file_handle        |-> handle,
                        is_handle_internal |-> internal]]
  BY <1>1, <1>2 DEF Remap
<1>4. /\ bytes \in 0 .. MaxFile /\ into + bytes \in 1 .. MaxFile
      /\ start + into \in Address \ {0}
      /\ start + into - (into + bytes - bytes) = start
  BY <1>1, <1>2, <1>3, NewMembers DEF Remap
<1>5. /\ m \in Mmap
      /\ mmap'[m].data = start + into /\ mmap'[m].length = bytes
      /\ mmap'[m].mapped_length = into + bytes
      /\ \A n \in Mmap \ {m} : mmap'[n] = mmap[n]
  BY <1>3 DEF MmapInv, TypeOK
<1>6. /\ MappingStart(m)' = start
      /\ Region(m)' = [start |-> start, length |-> into + bytes]
      /\ \A n \in Mmap \ {m} : MappingStart(n)' = MappingStart(n) /\ Region(n)' = Region(n)
  <2>1. MappingStart(m)' = start
    <3>1. start \in Nat /\ into \in Nat /\ bytes \in Nat
      BY <1>2, <1>4, PageArithmetic, AddressIsNat
    <3> QED BY <1>5, <3>1 DEF MappingStart
  <2>2. Region(m)' = [start |-> start, length |-> into + bytes]
    BY <1>5, <2>1 DEF Region
  <2>3. \A n \in Mmap \ {m} : MappingStart(n)' = MappingStart(n) /\ Region(n)' = Region(n)
    BY <1>5 DEF MappingStart, Region
  <2> QED BY <2>1, <2>2, <2>3
<1>7. Holders' = (Holders \ {m}) \cup {m}
  BY <1>4, <1>5 DEF Holders
<1>8. regions' = {Region(n)' : n \in Holders'}
  BY <1>3, <1>6, <1>7, UnmapsOne DEF Holders
<1>9. \A n, o \in Holders' : n # o => PagesOf(Region(n)') \cap PagesOf(Region(o)') = {}
  <2>1. \A n \in Holders : PagesOf(Region(n)) \cap PagesOf(Region(m)') = {}
    BY <1>3, <1>6, HoldersHold DEF Placed
  <2> QED BY <1>6, <1>7, <2>1, HoldersHold DEF Holders
<1>10. UnmadeIsUnmapped'
  BY <1>5 DEF MmapInv, UnmadeIsUnmapped, Unmapped
<1>11. Holders' = {n \in exists' : mmap'[n].data # 0}
  BY <1>10 DEF UnmadeIsUnmapped, Unmapped, TypeOK, Holders
<1>12. RegionsAccounted'
  BY <1>8, <1>9, <1>11 DEF RegionsAccounted, PagesOf, FirstPage, LastPage
<1>13. MappingsAreWhole'
  BY <1>3, <1>4, <1>5, <1>6 DEF MmapInv, MappingsAreWhole, Placed
<1> QED BY <1>10, <1>12, <1>13 DEF RegionsInv

\* Nothing is mapped or undone.
LEMMA SameRegions ==
    ASSUME MmapInv, UNCHANGED <<regions, mmap>>, exists \subseteq exists', exists' \subseteq Mmap
    PROVE  RegionsInv'
<1>1. \A m \in Mmap : Region(m)' = Region(m) /\ MappingStart(m)' = MappingStart(m)
  BY DEF Region, MappingStart
<1>2. UnmadeIsUnmapped' /\ MappingsAreWhole'
  BY <1>1 DEF MmapInv, UnmadeIsUnmapped, MappingsAreWhole
<1>3. {m \in exists' : mmap'[m].data # 0} = Holders
  BY <1>2, HoldersHold DEF Holders
<1>4. RegionsAccounted'
  BY <1>1, <1>3, HoldersHold DEF RegionsAccounted, Holders, PagesOf, FirstPage, LastPage
<1> QED BY <1>2, <1>4 DEF RegionsInv
-----------------------------------------------------------------------------
(* The descriptors of the objects.                                         *)

Opener == {"closed", "caller", "library"}

DescriptorsInv == OwnersAreAlone /\ NoneIsLeft /\ CallOwns

\* unmap() closes the descriptor that its object owns, and no other one.
LEMMA ClosesOwn ==
    ASSUME MmapInv, NEW m \in Mmap, NEW kept \in BOOLEAN
    PROVE  /\ DescriptorsWithout(m, kept) \in [Descriptor -> Opener]
           /\ \A d \in Descriptor :
                 DescriptorsWithout(m, kept)[d] =
                     IF Owns(m, d) /\ ~ kept THEN "closed" ELSE descriptors[d]
BY DEF MmapInv, TypeOK, OwnersAreAlone, DescriptorsWithout, Owns, Opener

\* An object that unmaps owns nothing any more.
LEMMA ReleaseDescriptors ==
    ASSUME MmapInv, NEW m \in Mmap, descriptors' = DescriptorsWithout(m, FALSE),
           mmap' = [mmap EXCEPT ![m] = Unmapped], call = NoCall, call' = call
    PROVE  DescriptorsInv'
<1>1. \A d \in Descriptor :
          descriptors'[d] = IF Owns(m, d) THEN "closed" ELSE descriptors[d]
  BY ClosesOwn
<1>2. \A n \in Mmap : mmap'[n] = IF n = m THEN Unmapped ELSE mmap[n]
  BY DEF MmapInv, TypeOK
<1>3. \A n \in Mmap, d \in Descriptor : Owns(n, d)' <=> n # m /\ Owns(n, d)
  BY <1>2 DEF Owns, Unmapped
<1>4. OwnersAreAlone'
  <2>1. ASSUME NEW n \in Mmap, mmap'[n].is_handle_internal
        PROVE  /\ mmap'[n].file_handle \in Descriptor
               /\ descriptors'[mmap'[n].file_handle] = "library"
    <3>1. n # m /\ mmap'[n] = mmap[n]
      BY <1>2, <2>1 DEF Unmapped
    <3>2. mmap[n].file_handle \in Descriptor /\ descriptors[mmap[n].file_handle] = "library"
      BY <2>1, <3>1 DEF MmapInv, OwnersAreAlone
    <3>3. Owns(n, mmap[n].file_handle) /\ ~ Owns(m, mmap[n].file_handle)
      BY <2>1, <3>1, <3>2 DEF Owns, MmapInv, OwnersAreAlone
    <3> QED BY <1>1, <3>1, <3>2, <3>3
  <2> QED BY <1>3, <2>1 DEF MmapInv, OwnersAreAlone
<1>5. NoneIsLeft'
  BY <1>1, <1>3 DEF MmapInv, NoneIsLeft
<1> QED BY <1>4, <1>5 DEF DescriptorsInv, CallOwns

\* Moved: m owns what the other one owned, and what m owned is closed.
LEMMA TransferDescriptors ==
    ASSUME MmapInv, NEW m \in Mmap, NEW other \in Mmap, m # other,
           descriptors' = DescriptorsWithout(m, FALSE),
           mmap' = [mmap EXCEPT ![m] = mmap[other], ![other] = Unmapped],
           call = NoCall, call' = call
    PROVE  DescriptorsInv'
<1>1. \A d \in Descriptor :
          descriptors'[d] = IF Owns(m, d) THEN "closed" ELSE descriptors[d]
  BY ClosesOwn
<1>2. \A n \in Mmap : mmap'[n] = IF n = other THEN Unmapped
                                 ELSE IF n = m THEN mmap[other] ELSE mmap[n]
  BY DEF MmapInv, TypeOK
<1>3. \A n \in Mmap, d \in Descriptor :
          Owns(n, d)' <=> \/ n = m /\ Owns(other, d)
                          \/ n \notin {m, other} /\ Owns(n, d)
  <2>1. ~ Unmapped.is_handle_internal
    BY DEF Unmapped
  <2>2. \A d \in Descriptor : ~ Owns(other, d)'
    BY <1>2, <2>1 DEF Owns
  <2>3. \A d \in Descriptor : Owns(m, d)' <=> Owns(other, d)
    BY <1>2 DEF Owns
  <2>4. \A n \in Mmap \ {m, other}, d \in Descriptor : Owns(n, d)' <=> Owns(n, d)
    BY <1>2 DEF Owns
  <2> QED BY <2>2, <2>3, <2>4
<1>4. OwnersAreAlone'
  <2>1. ASSUME NEW n \in Mmap, mmap'[n].is_handle_internal
        PROVE  /\ mmap'[n].file_handle \in Descriptor
               /\ descriptors'[mmap'[n].file_handle] = "library"
    <3>0. n # other
      <4>1. ~ Unmapped.is_handle_internal
        BY DEF Unmapped
      <4> QED BY <1>2, <2>1, <4>1
    <3>1. PICK o \in Mmap \ {m} : mmap'[n] = mmap[o]
      BY <1>2, <3>0
    <3>2. mmap[o].file_handle \in Descriptor /\ descriptors[mmap[o].file_handle] = "library"
      BY <2>1, <3>1 DEF MmapInv, OwnersAreAlone
    <3>3. Owns(o, mmap[o].file_handle) /\ ~ Owns(m, mmap[o].file_handle)
      BY <2>1, <3>1, <3>2 DEF Owns, MmapInv, OwnersAreAlone
    <3> QED BY <1>1, <3>1, <3>2, <3>3
  <2>2. \A n, o \in Mmap, d \in Descriptor : Owns(n, d)' /\ Owns(o, d)' => n = o
    BY <1>3 DEF MmapInv, OwnersAreAlone
  <2> QED BY <2>1, <2>2 DEF OwnersAreAlone
<1>5. NoneIsLeft'
  BY <1>1, <1>3 DEF MmapInv, NoneIsLeft
<1> QED BY <1>4, <1>5 DEF DescriptorsInv, CallOwns

\* Swapped: each owns what the other one owned.
LEMMA SwapDescriptors ==
    ASSUME MmapInv, NEW m \in Mmap, NEW other \in Mmap, m # other,
           mmap' = [mmap EXCEPT ![m] = mmap[other], ![other] = mmap[m]],
           UNCHANGED descriptors, call = NoCall, call' = call
    PROVE  DescriptorsInv'
<1>1. \A n \in Mmap : mmap'[n] = IF n = other THEN mmap[m]
                                 ELSE IF n = m THEN mmap[other] ELSE mmap[n]
  BY DEF MmapInv, TypeOK
<1>2. \A n \in Mmap, d \in Descriptor :
          Owns(n, d)' <=> \/ n = m /\ Owns(other, d)
                          \/ n = other /\ Owns(m, d)
                          \/ n \notin {m, other} /\ Owns(n, d)
  BY <1>1 DEF Owns
<1>3. OwnersAreAlone'
  <2>1. ASSUME NEW n \in Mmap, mmap'[n].is_handle_internal
        PROVE  /\ mmap'[n].file_handle \in Descriptor
               /\ descriptors'[mmap'[n].file_handle] = "library"
    <3>1. PICK o \in Mmap : mmap'[n] = mmap[o]
      BY <1>1
    <3> QED BY <2>1, <3>1 DEF MmapInv, OwnersAreAlone
  <2>2. \A n, o \in Mmap, d \in Descriptor : Owns(n, d)' /\ Owns(o, d)' => n = o
    BY <1>2 DEF MmapInv, OwnersAreAlone
  <2> QED BY <2>1, <2>2 DEF OwnersAreAlone
<1>4. NoneIsLeft'
  BY <1>2 DEF MmapInv, NoneIsLeft
<1> QED BY <1>3, <1>4 DEF DescriptorsInv, CallOwns

\* Mapped, by a handle: the object keeps its own descriptor when that is the one
\* it maps, and otherwise closes it and owns none.
LEMMA RemapDescriptors ==
    ASSUME MmapInv, NEW m \in Mmap, NEW handle \in Descriptor,
           descriptors' = DescriptorsWithout(m, RemappingInternalHandle(m, handle)),
           \A n \in Mmap \ {m} : mmap'[n] = mmap[n],
           mmap'[m].file_handle = handle,
           mmap'[m].is_handle_internal = RemappingInternalHandle(m, handle),
           call = NoCall, call' = call
    PROVE  DescriptorsInv'
<1>1. RemappingInternalHandle(m, handle) \in BOOLEAN
  BY DEF RemappingInternalHandle, MmapInv, TypeOK, Members
<1>2. RemappingInternalHandle(m, handle) <=> Owns(m, handle)
  BY DEF RemappingInternalHandle, Owns
<1>3. \A d \in Descriptor :
          descriptors'[d] = IF Owns(m, d) /\ d # handle THEN "closed" ELSE descriptors[d]
  BY <1>1, <1>2, ClosesOwn DEF Owns
<1>4. \A n \in Mmap, d \in Descriptor :
          Owns(n, d)' <=> Owns(n, d) /\ (n = m => d = handle)
  BY <1>1, <1>2 DEF Owns
<1>5. OwnersAreAlone'
  <2>1. ASSUME NEW n \in Mmap, mmap'[n].is_handle_internal
        PROVE  /\ mmap'[n].file_handle \in Descriptor
               /\ descriptors'[mmap'[n].file_handle] = "library"
    <3>1. mmap'[n].file_handle \in Descriptor
      BY <2>1 DEF MmapInv, OwnersAreAlone
    <3>2. Owns(n, mmap'[n].file_handle) /\ (n = m => mmap'[n].file_handle = handle)
      BY <1>4, <2>1, <3>1 DEF Owns
    <3>3. descriptors[mmap'[n].file_handle] = "library"
      BY <3>2 DEF MmapInv, OwnersAreAlone, Owns
    <3>4. Owns(m, mmap'[n].file_handle) => n = m
      BY <3>1, <3>2 DEF MmapInv, OwnersAreAlone
    <3> QED BY <1>3, <3>1, <3>2, <3>3, <3>4
  <2>2. \A n, o \in Mmap, d \in Descriptor : Owns(n, d)' /\ Owns(o, d)' => n = o
    BY <1>4 DEF MmapInv, OwnersAreAlone
  <2> QED BY <2>1, <2>2 DEF OwnersAreAlone
<1>6. NoneIsLeft'
  BY <1>3, <1>4 DEF MmapInv, NoneIsLeft
<1> QED BY <1>5, <1>6 DEF DescriptorsInv, CallOwns

\* Mapped, by a path: the object closes its own descriptor and owns the one that
\* the call has opened.
LEMMA OpenedDescriptors ==
    ASSUME MmapInv, NEW m \in Mmap, call # NoCall,
           descriptors' = DescriptorsWithout(m, RemappingInternalHandle(m, call.handle)),
           \A n \in Mmap \ {m} : mmap'[n] = mmap[n],
           mmap'[m].file_handle = call.handle,
           mmap'[m].is_handle_internal = TRUE,
           call' = NoCall
    PROVE  DescriptorsInv'
<1>1. call.handle \in Descriptor /\ descriptors[call.handle] = "library"
  BY DEF MmapInv, CallOwns, TypeOK
<1>2. \A n \in Mmap : ~ Owns(n, call.handle)
  BY DEF MmapInv, CallOwns
<1>3. RemappingInternalHandle(m, call.handle) = FALSE
  BY <1>2 DEF RemappingInternalHandle, Owns, MmapInv, TypeOK, Members
<1>4. \A d \in Descriptor :
          descriptors'[d] = IF Owns(m, d) THEN "closed" ELSE descriptors[d]
  BY <1>3, ClosesOwn
<1>5. \A n \in Mmap, d \in Descriptor :
          Owns(n, d)' <=> IF n = m THEN d = call.handle ELSE Owns(n, d)
  BY DEF Owns
<1>6. OwnersAreAlone'
  <2>1. ASSUME NEW n \in Mmap, mmap'[n].is_handle_internal
        PROVE  /\ mmap'[n].file_handle \in Descriptor
               /\ descriptors'[mmap'[n].file_handle] = "library"
    <3>1. CASE n = m
      BY <1>1, <1>2, <1>4, <3>1
    <3>2. CASE n # m
      <4>1. mmap'[n] = mmap[n]
        BY <3>2
      <4>2. mmap[n].file_handle \in Descriptor /\ descriptors[mmap[n].file_handle] = "library"
        BY <2>1, <4>1 DEF MmapInv, OwnersAreAlone
      <4>3. ~ Owns(m, mmap[n].file_handle)
        BY <2>1, <3>2, <4>1, <4>2 DEF Owns, MmapInv, OwnersAreAlone
      <4> QED BY <1>4, <4>1, <4>2, <4>3
    <3> QED BY <3>1, <3>2
  <2>2. \A n, o \in Mmap, d \in Descriptor : Owns(n, d)' /\ Owns(o, d)' => n = o
    BY <1>2, <1>5 DEF MmapInv, OwnersAreAlone
  <2> QED BY <2>1, <2>2 DEF OwnersAreAlone
<1>7. NoneIsLeft'
  BY <1>4, <1>5 DEF MmapInv, NoneIsLeft
<1> QED BY <1>6, <1>7 DEF DescriptorsInv, CallOwns
-----------------------------------------------------------------------------
(* The inductive invariant.                                                *)

\* What an unmapped object has is of the right types.
LEMMA UnmappedIsMembers == Unmapped \in Members
BY SizesAssumption, AddressIsNat DEF Unmapped, Members, Address

\* What a successful map() leaves is of the right types, and so are the members
\* that it changes.
LEMMA RemapTypes ==
    ASSUME MmapInv, NEW m \in Mmap, NEW handle \in Descriptor, NEW internal \in BOOLEAN,
           NEW offset \in 0 .. MaxFile, NEW length \in 0 .. MaxFile, NEW file_size \in 0 .. MaxFile,
           Remap(m, handle, internal, offset, length, file_size)
    PROVE  /\ mmap' \in [Mmap -> Members]
           /\ \A n \in Mmap \ {m} : mmap'[n] = mmap[n]
           /\ mmap'[m].file_handle = handle
           /\ mmap'[m].is_handle_internal = internal
           /\ regions' \subseteq [start : Address \ {0}, length : 1 .. MaxFile]
           /\ descriptors' = DescriptorsWithout(m, RemappingInternalHandle(m, handle))
           /\ descriptors' \in [Descriptor -> Opener]
<1>1. PICK bytes : bytes = IF length = 0 THEN file_size - offset ELSE length
  OBVIOUS
<1>2. PICK into : into = offset % PageSize
  OBVIOUS
<1>3. PICK start \in Address \ {0} :
         /\ Placed(start, into + bytes)
         /\ regions' = RegionsWithout(m) \cup {[start |-> start, length |-> into + bytes]}
         /\ mmap' = [mmap EXCEPT ![m] =
                       [data               |-> start + into,
                        length             |-> bytes,
                        mapped_length      |-> into + bytes,
                        file_handle        |-> handle,
                        is_handle_internal |-> internal]]
  BY <1>1, <1>2 DEF Remap
<1>4. /\ bytes \in 0 .. MaxFile /\ into + bytes \in 1 .. MaxFile
      /\ start + into \in Address \ {0}
  BY <1>1, <1>2, <1>3, NewMembers DEF Remap
<1>5. into + bytes \in 0 .. MaxFile
  BY <1>4, SizesAssumption
<1>6. [data |-> start + into, length |-> bytes, mapped_length |-> into + bytes,
       file_handle |-> handle, is_handle_internal |-> internal] \in Members
  BY <1>4, <1>5 DEF Members
<1>7. /\ mmap' \in [Mmap -> Members]
      /\ \A n \in Mmap \ {m} : mmap'[n] = mmap[n]
      /\ mmap'[m].file_handle = handle
      /\ mmap'[m].is_handle_internal = internal
  BY <1>3, <1>6 DEF MmapInv, TypeOK
<1>8. regions' \subseteq [start : Address \ {0}, length : 1 .. MaxFile]
  <2>1. RegionsWithout(m) \subseteq regions
    BY DEF RegionsWithout, Munmap
  <2>2. [start |-> start, length |-> into + bytes] \in
            [start : Address \ {0}, length : 1 .. MaxFile]
    BY <1>3, <1>4
  <2> QED BY <1>3, <2>1, <2>2 DEF MmapInv, TypeOK
<1>9. /\ descriptors' = DescriptorsWithout(m, RemappingInternalHandle(m, handle))
      /\ RemappingInternalHandle(m, handle) \in BOOLEAN
  BY DEF Remap, RemappingInternalHandle, MmapInv, TypeOK, Members
<1> QED BY <1>7, <1>8, <1>9, ClosesOwn

\* munmap and close make the types no larger.
LEMMA WithoutTypes ==
    ASSUME MmapInv, NEW m \in Mmap
    PROVE  /\ RegionsWithout(m) \subseteq [start : Address \ {0}, length : 1 .. MaxFile]
           /\ DescriptorsWithout(m, FALSE) \in [Descriptor -> Opener]
<1>1. RegionsWithout(m) \subseteq regions
  BY DEF RegionsWithout, Munmap
<1> QED BY <1>1, ClosesOwn DEF MmapInv, TypeOK

\* unmap() and destruction.
LEMMA ReleaseStep ==
    ASSUME MmapInv, NEW m \in Mmap, Unmap(m) \/ Destroy(m)
    PROVE  MmapInv'
<1>1. /\ call = NoCall /\ call' = call
      /\ regions' = RegionsWithout(m) /\ descriptors' = DescriptorsWithout(m, FALSE)
      /\ mmap' = [mmap EXCEPT ![m] = Unmapped]
      /\ exists \ {m} \subseteq exists' /\ exists' \subseteq exists
  BY DEF Unmap, Destroy
<1>2. TypeOK'
  BY <1>1, WithoutTypes, UnmappedIsMembers DEF MmapInv, TypeOK, Opener
<1> QED BY <1>1, <1>2, ReleaseRegions, ReleaseDescriptors
     DEF MmapInv, RegionsInv, DescriptorsInv

\* Move construction and move assignment.
LEMMA TransferStep ==
    ASSUME MmapInv, NEW m \in Mmap, NEW other \in Mmap,
           MoveConstruct(m, other) \/ MoveAssign(m, other)
    PROVE  MmapInv'
<1>1. /\ call = NoCall /\ call' = call
      /\ other \in exists /\ m # other /\ exists' = exists \cup {m}
      /\ mmap' = [mmap EXCEPT ![m] = mmap[other], ![other] = Unmapped]
  BY DEF MoveConstruct, MoveAssign
<1>2. regions' = RegionsWithout(m) /\ descriptors' = DescriptorsWithout(m, FALSE)
  <2>1. CASE MoveAssign(m, other)
    BY <2>1 DEF MoveAssign
  <2>2. CASE MoveConstruct(m, other)
    <3>1. mmap[m] = Unmapped
      BY <2>2 DEF MoveConstruct, MmapInv, UnmadeIsUnmapped
    <3> QED BY <2>2, <3>1 DEF MoveConstruct, RegionsWithout, DescriptorsWithout, Unmapped
  <2> QED BY <2>1, <2>2
<1>3. TypeOK'
  BY <1>1, <1>2, WithoutTypes, UnmappedIsMembers DEF MmapInv, TypeOK, Opener
<1> QED BY <1>1, <1>2, <1>3, TransferRegions, TransferDescriptors
     DEF MmapInv, RegionsInv, DescriptorsInv

\* swap().
LEMMA SwapStep ==
    ASSUME MmapInv, NEW m \in Mmap, NEW other \in Mmap, Swap(m, other)
    PROVE  MmapInv'
<1>1. TypeOK'
  BY DEF Swap, MmapInv, TypeOK
<1> QED BY <1>1, SwapRegions, SwapDescriptors DEF Swap, MmapInv, RegionsInv, DescriptorsInv

\* map() of a handle.
LEMMA MapByHandleStep ==
    ASSUME MmapInv, NEW m \in Mmap, NEW handle \in Descriptor,
           NEW offset \in 0 .. MaxFile, NEW length \in 0 .. MaxFile, NEW file_size \in 0 .. MaxFile,
           MapByHandle(m, handle, offset, length, file_size)
    PROVE  MmapInv'
<1>1. RemappingInternalHandle(m, handle) \in BOOLEAN
  BY DEF RemappingInternalHandle, MmapInv, TypeOK, Members
<1>2. /\ m \in exists /\ exists' = exists /\ call = NoCall /\ call' = call
      /\ Remap(m, handle, RemappingInternalHandle(m, handle), offset, length, file_size)
  BY DEF MapByHandle
<1>3. TypeOK'
  BY <1>1, <1>2, RemapTypes DEF MmapInv, TypeOK, Opener
<1>4. RegionsInv'
  BY <1>2, <1>3, RemapRegions
<1>5. DescriptorsInv'
  BY <1>1, <1>2, RemapTypes, RemapDescriptors
<1> QED BY <1>3, <1>4, <1>5
     DEF MmapInv, RegionsInv, DescriptorsInv

\* map() of a path, once the file is open.
LEMMA MapOpenedStep ==
    ASSUME MmapInv,
           NEW offset \in 0 .. MaxFile, NEW length \in 0 .. MaxFile, NEW file_size \in 0 .. MaxFile,
           MapOpened(offset, length, file_size)
    PROVE  MmapInv'
<1>1. /\ call # NoCall /\ call' = NoCall /\ exists' = exists
      /\ Remap(call.object, call.handle, TRUE, offset, length, file_size)
  BY DEF MapOpened
<1>2. call.object \in exists /\ call.object \in Mmap /\ call.handle \in Descriptor
  BY <1>1 DEF MmapInv, CallOwns, TypeOK
<1>3. TypeOK'
  BY <1>1, <1>2, RemapTypes DEF MmapInv, TypeOK, Opener
<1>4. RegionsInv'
  BY <1>1, <1>2, <1>3, RemapRegions
<1>5. DescriptorsInv'
  BY <1>1, <1>2, RemapTypes, OpenedDescriptors
<1> QED BY <1>3, <1>4, <1>5
     DEF MmapInv, RegionsInv, DescriptorsInv

\* Descriptors come and go, and the members of every object stay.
LEMMA DescriptorStep ==
    ASSUME MmapInv, \/ \E m \in Mmap : OpenFile(m)
                    \/ MapOpenedFails \/ CloseOpened
                    \/ \E d \in Descriptor : CallerOpens(d) \/ CallerCloses(d)
    PROVE  MmapInv'
<1>1. UNCHANGED <<regions, exists, mmap>>
  BY DEF OpenFile, MapOpenedFails, CloseOpened, CallerOpens, CallerCloses
<1>2. TypeOK'
  BY DEF OpenFile, MapOpenedFails, CloseOpened, CallerOpens, CallerCloses, MmapInv, TypeOK, NoCall
<1>3. RegionsInv'
  BY <1>1, SameRegions DEF MmapInv, TypeOK
<1>4. DescriptorsInv'
  <2> USE DEF MmapInv, TypeOK, OwnersAreAlone, NoneIsLeft, CallOwns, DescriptorsInv, Owns, Open
  <2>1. ASSUME NEW m \in Mmap, OpenFile(m)
        PROVE  DescriptorsInv'
    <3>1. PICK d \in Descriptor :
             /\ descriptors[d] = "closed"
             /\ descriptors' = [descriptors EXCEPT ![d] = "library"]
             /\ call' = [step |-> "map", object |-> m, handle |-> d]
      BY <2>1 DEF OpenFile
    <3>2. \A n \in Mmap : ~ Owns(n, d)
      BY <3>1
    <3>3. m \in exists
      BY <2>1 DEF OpenFile
    <3>4. OwnersAreAlone'
      BY <1>1, <3>1, <3>2
    <3>5. NoneIsLeft' /\ CallOwns'
      <4>1. call = NoCall /\ call' # NoCall
        BY <2>1, <3>1 DEF OpenFile, NoCall
      <4>2. \A c : \A n \in Mmap : Owns(n, c)' <=> Owns(n, c)
        BY <1>1
      <4>3. CallOwns'
        BY <1>1, <3>1, <3>2, <3>3, <4>1, <4>2
      <4>4. NoneIsLeft'
        <5>1. call'.handle = d
          BY <3>1
        <5>2. ASSUME NEW c \in Descriptor \ {d}, descriptors'[c] = "library"
              PROVE  \E n \in Mmap : Owns(n, c)'
          <6>1. descriptors[c] = "library"
            BY <3>1, <5>2
          <6>2. PICK n \in Mmap : Owns(n, c)
            BY <4>1, <6>1
          <6> QED BY <4>2, <6>2
        <5> QED BY <4>1, <5>1, <5>2
      <4> QED BY <4>3, <4>4
    <3> QED BY <3>4, <3>5
  <2>2. CASE MapOpenedFails
    <3>1. /\ call # NoCall /\ call' # NoCall /\ descriptors' = descriptors
          /\ call'.object = call.object /\ call'.handle = call.handle
      BY <2>2 DEF MapOpenedFails, NoCall
    <3>2. \A n \in Mmap : \A c : Owns(n, c)' <=> Owns(n, c)
      BY <1>1
    <3>3. OwnersAreAlone'
      BY <1>1, <3>1
    <3>4. NoneIsLeft'
      BY <3>1, <3>2
    <3>5. CallOwns'
      BY <1>1, <3>1, <3>2
    <3> QED BY <3>3, <3>4, <3>5
  <2>3. CASE CloseOpened
    BY <1>1, <2>3 DEF CloseOpened
  <2>4. CASE \E d \in Descriptor : CallerOpens(d) \/ CallerCloses(d)
    BY <1>1, <2>4 DEF CallerOpens, CallerCloses
  <2> QED BY <2>1, <2>2, <2>3, <2>4
<1> QED BY <1>2, <1>3, <1>4
     DEF MmapInv, RegionsInv, DescriptorsInv

\* Every call of an object, and every step of its caller, keeps the invariant.
LEMMA MmapInvStep ==
    ASSUME MmapInv, [Next]_vars
    PROVE  MmapInv'
<1>1. ASSUME NEW m \in Mmap, Construct(m)
      PROVE  MmapInv'
  <2>1. TypeOK'
    BY <1>1 DEF Construct, MmapInv, TypeOK
  <2>2. RegionsInv'
    BY <1>1, <2>1, SameRegions DEF Construct, TypeOK
  <2>3. DescriptorsInv'
    BY <1>1
       DEF Construct, MmapInv, DescriptorsInv, OwnersAreAlone, NoneIsLeft, CallOwns, Owns
  <2> QED BY <2>1, <2>2, <2>3
     DEF MmapInv, RegionsInv, DescriptorsInv
<1>2. CASE UNCHANGED vars
  <2>1. TypeOK'
    BY <1>2 DEF vars, MmapInv, TypeOK
  <2>2. RegionsInv'
    BY <1>2, <2>1, SameRegions DEF vars, TypeOK
  <2>3. DescriptorsInv'
    BY <1>2 DEF vars, MmapInv, DescriptorsInv, OwnersAreAlone, NoneIsLeft, CallOwns, Owns
  <2> QED BY <2>1, <2>2, <2>3
     DEF MmapInv, RegionsInv, DescriptorsInv
<1> QED BY <1>1, <1>2, ReleaseStep, TransferStep, SwapStep, MapByHandleStep, MapOpenedStep,
           DescriptorStep
        DEF Next

\* Before the first call nothing is open or mapped.
LEMMA MmapInvInit ==
    ASSUME Init
    PROVE  MmapInv
<1>1. TypeOK /\ UnmadeIsUnmapped
  BY UnmappedIsMembers DEF Init, TypeOK, UnmadeIsUnmapped
<1>2. MappingsAreWhole /\ OwnersAreAlone /\ NoneIsLeft /\ CallOwns
  BY DEF Init, MappingsAreWhole, OwnersAreAlone, NoneIsLeft, CallOwns, Owns, Unmapped
<1>3. RegionsAccounted
  BY DEF Init, RegionsAccounted
<1> QED BY <1>1, <1>2, <1>3 DEF MmapInv

\* The inductive invariant of every sequence of calls.
LEMMA MmapInvariant == Spec => []MmapInv
<1>1. MmapInv /\ [Next]_vars => MmapInv'
  BY MmapInvStep
<1> QED BY <1>1, MmapInvInit, PTL DEF Spec

\* The members of every object stay within the address space, the files and the
\* table of descriptors.
THEOREM MembersAreTyped == Spec => []TypeOK
BY MmapInvariant, PTL DEF MmapInv

\* Every region that was mapped is unmapped once and as a whole, by the object
\* that has it, whatever page size, offsets, remappings, moves and swaps.
THEOREM RegionsAreUndone == Spec => []RegionsAccounted
BY MmapInvariant, PTL DEF MmapInv

\* Every descriptor that the library opened has one object that closes it, and
\* an object closes none but those.
THEOREM DescriptorsAreOwned == Spec => []DescriptorsAccounted
<1>1. ASSUME MmapInv
      PROVE  DescriptorsAccounted
  <2> DEFINE owners(d) == {m \in exists : mmap[m].is_handle_internal /\ mmap[m].file_handle = d}
  <2> SUFFICES ASSUME NEW d \in Descriptor
               PROVE  IF call # NoCall /\ call.handle = d
                      THEN descriptors[d] = "library" /\ owners(d) = {}
                      ELSE /\ descriptors[d] = "library" => Cardinality(owners(d)) = 1
                           /\ owners(d) # {} => descriptors[d] = "library"
    BY DEF DescriptorsAccounted
  <2>1. \A m \in Mmap : Owns(m, d) <=> m \in owners(d)
    BY <1>1 DEF MmapInv, TypeOK, UnmadeIsUnmapped, Unmapped, Owns
  <2>2. owners(d) \subseteq Mmap
    BY <1>1 DEF MmapInv, TypeOK
  <2>3. CASE call # NoCall /\ call.handle = d
    BY <1>1, <2>1, <2>2, <2>3 DEF MmapInv, CallOwns
  <2>4. CASE ~ (call # NoCall /\ call.handle = d)
    <3>1. owners(d) # {} => descriptors[d] = "library"
      BY <1>1, <2>1, <2>2 DEF MmapInv, OwnersAreAlone, Owns
    <3>2. ASSUME descriptors[d] = "library"
          PROVE  Cardinality(owners(d)) = 1
      <4>1. PICK m \in Mmap : Owns(m, d)
        BY <1>1, <2>4, <3>2 DEF MmapInv, NoneIsLeft
      <4>2. owners(d) = {m}
        BY <1>1, <2>1, <2>2, <4>1 DEF MmapInv, OwnersAreAlone
      <4> QED BY <4>2, FS_Singleton
    <3> QED BY <2>4, <3>1, <3>2
  <2> QED BY <2>3, <2>4
<1> QED BY <1>1, MmapInvariant, PTL

\* No call closes a descriptor of the caller, even one whose number an object
\* still names.
THEOREM CallersDescriptorsStay == Spec => CallerKeepsItsDescriptors
<1>1. ASSUME MmapInv, [Next]_vars, NEW d \in Descriptor,
             descriptors[d] = "caller", descriptors'[d] # "caller"
      PROVE  CallerCloses(d)
  <2>1. ASSUME NEW m \in Mmap, NEW kept \in BOOLEAN
        PROVE  DescriptorsWithout(m, kept)[d] = "caller"
    BY <1>1, ClosesOwn DEF MmapInv, OwnersAreAlone, Owns
  <2>2. ASSUME NEW m \in Mmap, NEW handle
        PROVE  RemappingInternalHandle(m, handle) \in BOOLEAN
    BY <1>1 DEF RemappingInternalHandle, MmapInv, TypeOK, Members
  <2>3. \A m, other \in Mmap :
            ~ Unmap(m) /\ ~ Destroy(m) /\ ~ MoveAssign(m, other)
    BY <1>1, <2>1 DEF Unmap, Destroy, MoveAssign
  <2>4. ASSUME NEW m \in Mmap, NEW handle, NEW internal, NEW offset, NEW length, NEW file_size
        PROVE  ~ Remap(m, handle, internal, offset, length, file_size)
    BY <1>1, <2>1, <2>2 DEF Remap
  <2>5. /\ ~ \E handle, offset, length, file_size : \E m \in Mmap :
                MapByHandle(m, handle, offset, length, file_size)
        /\ ~ \E offset, length, file_size : MapOpened(offset, length, file_size)
    BY <1>1, <2>4 DEF MapByHandle, MapOpened, MmapInv, CallOwns, TypeOK
  <2>6. ~ \E m \in Mmap : OpenFile(m)
    BY <1>1 DEF OpenFile, MmapInv, TypeOK, Open
  <2>7. ~ CloseOpened
    BY <1>1 DEF CloseOpened, MmapInv, CallOwns, TypeOK
  <2>8. ~ \E c \in Descriptor : CallerOpens(c)
    BY <1>1 DEF CallerOpens, MmapInv, TypeOK, Open
  <2>9. ASSUME NEW c \in Descriptor, CallerCloses(c)
        PROVE  c = d
    BY <1>1, <2>9 DEF CallerCloses, MmapInv, TypeOK
  <2> QED BY <1>1, <2>3, <2>5, <2>6, <2>7, <2>8, <2>9
          DEF Next, vars, Construct, MoveConstruct, Swap, MapOpenedFails
<1>2. MmapInv /\ [Next]_vars =>
          [\A d \in Descriptor :
              descriptors[d] = "caller" /\ descriptors'[d] # "caller" => CallerCloses(d)]_vars
  BY <1>1
<1> QED BY <1>2, MmapInvariant, PTL DEF Spec, CallerKeepsItsDescriptors
=============================================================================
