-------------------------- MODULE MemoryBitmapProofs --------------------------
(***************************************************************************)
(* Proofs about MemoryBitmap, for every memory map and every page size.     *)
(***************************************************************************)
EXTENDS MemoryBitmap, TLAPS

\* Division by a positive number rounds down.
LEMMA DivisionRoundsDown ==
    ASSUME NEW a \in Nat, NEW b \in Nat \ {0}
    PROVE  /\ a \div b \in Nat
           /\ (a \div b) * b <= a
           /\ a < (a \div b) * b + b
OBVIOUS

\* Multiplication by a positive number keeps the order.
LEMMA ProductIsMonotone ==
    ASSUME NEW a \in Int, NEW b \in Int, NEW c \in Nat \ {0}, a < b
    PROVE  a * c + c <= b * c
<1>1. (b - a - 1) * c >= 0
  OBVIOUS
<1>2. (b - a - 1) * c = b * c - a * c - c
  OBVIOUS
<1> QED
  BY <1>1, <1>2

\* A page that holds a byte from start up to end is one of PagesOf(start, end), however the
\* two ends lie inside their pages.
LEMMA TouchedIsCovered ==
    ASSUME NEW p \in Nat, NEW start \in Nat, NEW end \in Nat, Touches(p, start, end)
    PROVE  p \in PagesOf(start, end)
<1> DEFINE first == start \div PageSize
           past  == (end + PageSize - 1) \div PageSize
<1>1. PageSize \in Nat \ {0}
  BY PageSizeAssumption
<1>2. p * PageSize < end /\ start < p * PageSize + PageSize
  <2>1. p * PageSize < end /\ start < (p + 1) * PageSize
    BY DEF Touches
  <2>2. (p + 1) * PageSize = p * PageSize + PageSize
    BY <1>1
  <2> QED
    BY <2>1, <2>2
<1>3. first \in Nat /\ first * PageSize <= start
  BY <1>1, DivisionRoundsDown
<1>4. past \in Nat /\ end + PageSize - 1 < past * PageSize + PageSize
  <2>1. end + PageSize - 1 \in Nat
    BY <1>1
  <2> QED
    BY <1>1, <2>1, DivisionRoundsDown
<1> HIDE DEF first, past
<1>5. first <= p
  <2> SUFFICES ASSUME p < first
               PROVE  FALSE
    BY <1>3
  <2>1. p * PageSize + PageSize <= first * PageSize
    BY <1>1, <1>3, ProductIsMonotone
  <2> QED
    BY <1>1, <1>2, <1>3, <2>1
<1>6. p < past
  <2> SUFFICES ASSUME past < p + 1
               PROVE  FALSE
    BY <1>4
  <2>1. past * PageSize + PageSize <= (p + 1) * PageSize
    BY <1>1, <1>4, ProductIsMonotone
  <2>2. (p + 1) * PageSize = p * PageSize + PageSize
    BY <1>1
  <2> QED
    BY <1>1, <1>2, <1>4, <2>1, <2>2
<1> QED
  BY <1>3, <1>4, <1>5, <1>6 DEF PagesOf, Page, PageUp, first, past

-----------------------------------------------------------------------------
\* The type of the bitmap that memory_bitmap_module_init builds.
LEMMA BootEntriesType == BootEntries \in [0 .. Pages - 1 -> BOOLEAN]
BY DEF BootEntries

\* A page with an address of 0, which a caller takes for NULL, is locked.
LEMMA PageZeroIsNoFrame == 0 \notin Frames
<1>1. FirstMegabyte \in Nat \ {0} /\ FirstMegabyte % PageSize = 0 /\ PageSize \in Nat \ {0}
  BY KernelAssumption, PageSizeAssumption
<1>2. Page(FirstMegabyte) \in Nat \ {0}
  <2>1. FirstMegabyte = (FirstMegabyte \div PageSize) * PageSize
    BY <1>1
  <2> QED
    BY <1>1, <2>1, DivisionRoundsDown DEF Page
<1>3. 0 \notin Initrd
  BY <1>2, InitrdAssumption
<1>4. 0 \in Locked
  BY <1>2 DEF Locked
<1> QED
  BY <1>3, <1>4 DEF Frames, BootEntries

\* Every variable keeps its type; memory_bitmap_allocate returns NULL or a page's address.
THEOREM TypeCorrect == Spec => []TypeOK
<1>1. Init => TypeOK
  <2> SUFFICES ASSUME Init
               PROVE  TypeOK
    OBVIOUS
  <2>1. 0 \in 0 .. Pages - 1
    BY PagesAssumption
  <2>2. 0 = 0 * PageSize
    BY PageSizeAssumption
  <2> QED
    BY <2>1, <2>2, BootEntriesType DEF Init, TypeOK, NULL
<1>2. TypeOK /\ [Next]_vars => TypeOK'
  <2> SUFFICES ASSUME TypeOK, [Next]_vars
               PROVE  TypeOK'
    OBVIOUS
  <2> USE DEF TypeOK
  <2>1. CASE Allocate
    BY <2>1 DEF Allocate, NextHint
  <2>2. CASE AllocateFails
    <3>1. 0 \in 0 .. Pages - 1 /\ 0 = 0 * PageSize
      BY PagesAssumption, PageSizeAssumption
    <3> QED
      BY <2>2, <3>1 DEF AllocateFails, NULL
  <2>3. CASE Free
    BY <2>3 DEF Free, HintAfterFree, Held, Frames
  <2>4. CASE UNCHANGED vars
    BY <2>4 DEF vars
  <2> QED
    BY <2>1, <2>2, <2>3, <2>4 DEF Next
<1> QED
  BY <1>1, <1>2, PTL DEF Spec

\* No page below the hint is ever clear: a free lowers the hint to the freed page, and an
\* allocation raises it only over pages its search has seen set.
THEOREM HintIsSound == Spec => []HintSound
<1>1. Init => HintSound
  BY DEF Init, HintSound
<1>2. TypeOK /\ HintSound /\ [Next]_vars => HintSound'
  <2> SUFFICES ASSUME TypeOK, HintSound, [Next]_vars
               PROVE  HintSound'
    OBVIOUS
  <2> USE DEF TypeOK, HintSound
  <2>1. CASE Allocate
    <3>1. PICK p \in 0 .. Pages - 1 :
             /\ Found(p)
             /\ entries' = [entries EXCEPT ![p] = TRUE]
             /\ last_allocated_page_index' = p
      BY <2>1 DEF Allocate, NextHint
    <3>2. \A q \in 0 .. p - 1 : entries[q]
      BY <3>1 DEF Found, IsFirstClear, SearchFrom
    <3> QED
      BY <3>1, <3>2
  <2>2. CASE AllocateFails
    BY <2>2 DEF AllocateFails
  <2>3. CASE Free
    BY <2>3 DEF Free, HintAfterFree, Held, Frames
  <2>4. CASE UNCHANGED vars
    BY <2>4 DEF vars
  <2> QED
    BY <2>1, <2>2, <2>3, <2>4 DEF Next
<1> QED
  BY <1>1, <1>2, TypeCorrect, PTL DEF Spec

-----------------------------------------------------------------------------
\* Every page that memory_bitmap_module_init has to lock is locked, the last page of the
\* bitmap's own storage included.
LEMMA ReservedIsLocked ==
    ASSUME NEW p \in 0 .. Pages - 1, Reserved(p)
    PROVE  p \in Locked
<1> DEFINE base == PageUp(KernelEnd)
           bytes == Pages \div 8
           needed == (Pages + 7) \div 8
           size == PageUp(bytes)
<1>1. PageSize \in Nat \ {0} /\ Pages \in Nat /\ p \in Nat
  BY PageSizeAssumption, PagesAssumption
<1>2. CASE Touches(p, 0, FirstMegabyte)
  <2>1. FirstMegabyte \in Nat /\ FirstMegabyte = (FirstMegabyte \div PageSize) * PageSize
    BY <1>1, KernelAssumption
  <2>2. FirstMegabyte \div PageSize \in Nat
    BY <1>1, <2>1, DivisionRoundsDown
  <2>3. p * PageSize < (FirstMegabyte \div PageSize) * PageSize
    BY <1>2, <2>1 DEF Touches
  <2>4. p < FirstMegabyte \div PageSize
    <3> SUFFICES ASSUME FirstMegabyte \div PageSize < p
                 PROVE  FALSE
      BY <1>1, <2>2, <2>3
    <3> HIDE DEF base, bytes, needed, size
    <3> QED
      BY <1>1, <2>2, <2>3, ProductIsMonotone
  <2> QED
    BY <1>1, <2>2, <2>4 DEF Locked, Page
<1>3. CASE Touches(p, KernelStart, KernelEnd)
  BY <1>1, <1>3, KernelAssumption, TouchedIsCovered DEF Locked
<1>4. CASE \E i \in 2 .. Len(Modules) : Touches(p, Modules[i].mod_start, Modules[i].mod_end)
  <2>1. PICK i \in 2 .. Len(Modules) : Touches(p, Modules[i].mod_start, Modules[i].mod_end)
    BY <1>4
  <2>2. i \in 1 .. Len(Modules)
    BY <2>1, ModulesAssumption
  <2>3. p \in PagesOf(Modules[i].mod_start, Modules[i].mod_end)
    BY <1>1, <2>1, <2>2, ModulesAssumption, TouchedIsCovered
  <2> QED
    BY <2>2, <2>3 DEF Locked
<1>5. CASE Touches(p, base * PageSize, base * PageSize + needed)
  <2>1. base \in Nat
    <3>1. KernelEnd + PageSize - 1 \in Nat
      BY <1>1, KernelAssumption
    <3> QED
      BY <1>1, <3>1, DivisionRoundsDown DEF PageUp
  <2>2. /\ bytes \in Nat /\ needed \in Nat
        /\ needed <= bytes + 1
        /\ Pages % 8 = 0 => needed = bytes
    BY <1>1
  <2>3. size \in Nat /\ bytes <= size * PageSize
    <3>1. bytes + PageSize - 1 \in Nat
      BY <1>1, <2>2
    <3>2. size \in Nat /\ bytes + PageSize - 1 < size * PageSize + PageSize
      BY <1>1, <3>1, DivisionRoundsDown DEF PageUp
    <3> QED
      BY <1>1, <2>2, <3>2
  <2>4. needed <= size * PageSize
    <3>1. CASE Pages % 8 = 0
      BY <2>2, <2>3, <3>1
    <3>2. CASE bytes % PageSize # 0
      <4>1. (size * PageSize) % PageSize = 0
        BY <1>1, <2>3
      <4>2. bytes # size * PageSize
        BY <3>2, <4>1
      <4> QED
        BY <1>1, <2>2, <2>3, <4>2
    <3> QED
      BY <3>1, <3>2, BitmapAssumption
  <2> HIDE DEF base, bytes, needed, size
  <2>5. p * PageSize < (base + size) * PageSize /\ base * PageSize < (p + 1) * PageSize
    <3>1. (base + size) * PageSize = base * PageSize + size * PageSize
      BY <1>1, <2>1, <2>3
    <3> QED
      BY <1>1, <1>5, <2>1, <2>2, <2>3, <2>4, <3>1 DEF Touches
  <2>6. p < base + size
    <3> SUFFICES ASSUME base + size < p
                 PROVE  FALSE
      BY <1>1, <2>1, <2>3, <2>5
    <3> QED
      BY <1>1, <2>1, <2>3, <2>5, ProductIsMonotone
  <2>7. base <= p
    <3> SUFFICES ASSUME p + 1 < base
                 PROVE  FALSE
      BY <1>1, <2>1, <2>5
    <3> QED
      BY <1>1, <2>1, <2>5, ProductIsMonotone
  <2> QED
    BY <1>1, <2>1, <2>3, <2>6, <2>7 DEF Locked, BitmapPages, base, size, bytes
<1> QED
  BY <1>2, <1>3, <1>4, <1>5 DEF Reserved

\* The bits of pages that are never handed out: the inductive part of ReservedStaysSet.
OthersStaySet == \A p \in (0 .. Pages - 1) \ Frames : entries[p]

\* Nothing but a page of Frames is ever given back.
LEMMA OthersAreSet == Spec => []OthersStaySet
<1>1. Init => OthersStaySet
  BY DEF Init, OthersStaySet, Frames
<1>2. TypeOK /\ OthersStaySet /\ [Next]_vars => OthersStaySet'
  <2> SUFFICES ASSUME TypeOK, OthersStaySet, [Next]_vars
               PROVE  OthersStaySet'
    OBVIOUS
  <2> USE DEF TypeOK, OthersStaySet
  <2>1. CASE Allocate
    BY <2>1 DEF Allocate
  <2>2. CASE AllocateFails
    BY <2>2 DEF AllocateFails
  <2>3. CASE Free
    BY <2>3 DEF Free, Held
  <2>4. CASE UNCHANGED vars
    BY <2>4 DEF vars
  <2> QED
    BY <2>1, <2>2, <2>3, <2>4 DEF Next
<1> QED
  BY <1>1, <1>2, TypeCorrect, PTL DEF Spec

\* Reserved memory that shares no page with the initrd is never handed out, for every memory
\* map, kernel and list of modules that meets the assumptions on the layout.
THEOREM ReservedIsSafe == Spec => []ReservedStaysSet
<1>1. OthersStaySet => ReservedStaysSet
  <2> SUFFICES ASSUME OthersStaySet, NEW p \in (0 .. Pages - 1) \ Initrd, Reserved(p)
               PROVE  entries[p]
    BY DEF ReservedStaysSet
  <2>1. p \in Locked
    BY ReservedIsLocked
  <2>2. p \notin Frames
    BY <2>1 DEF Frames, BootEntries
  <2> QED
    BY <2>2 DEF OthersStaySet
<1> QED
  BY <1>1, OthersAreSet, PTL

-----------------------------------------------------------------------------
\* Two pages have two addresses.
LEMMA AddressesDiffer ==
    ASSUME NEW p \in 0 .. Pages - 1, NEW q \in 0 .. Pages - 1, p * PageSize = q * PageSize
    PROVE  p = q
<1>1. PageSize \in Nat \ {0} /\ p \in Int /\ q \in Int
  BY PageSizeAssumption, PagesAssumption
<1>2. ~(p < q)
  BY <1>1, ProductIsMonotone
<1>3. ~(q < p)
  BY <1>1, ProductIsMonotone
<1> QED
  BY <1>1, <1>2, <1>3

\* memory_bitmap.c implements the abstract frame allocator.
THEOREM BitmapIsAllocator == Spec => AllocatorSpec
<1> DEFINE Addresses(S) == {p * PageSize : p \in S}
<1>1. Init => Allocator!Init
  <2> SUFFICES ASSUME Init
               PROVE  Allocator!Init
    OBVIOUS
  <2>1. Held = Initrd \cap Frames
    <3>1. \A p \in Frames : p \in 0 .. Pages - 1
      BY DEF Frames
    <3>2. \A p \in Initrd \cap (0 .. Pages - 1) : BootEntries[p]
      <4> SUFFICES ASSUME NEW p \in Initrd, p \in 0 .. Pages - 1
                   PROVE  p \in Locked
        BY DEF BootEntries
      <4> QED
        BY ModulesAssumption DEF Locked, Initrd
    <3> QED
      BY <3>1, <3>2 DEF Init, Held, Frames
  <2> QED
    BY <2>1 DEF Init, Allocator!Init
<1>2. TypeOK /\ OthersStaySet /\ [Next]_vars => [Allocator!Next]_Allocator!vars
  <2> SUFFICES ASSUME TypeOK, OthersStaySet, [Next]_vars
               PROVE  [Allocator!Next]_Allocator!vars
    OBVIOUS
  <2>1. CASE Allocate
    <3>1. PICK p \in 0 .. Pages - 1 :
             /\ Found(p)
             /\ entries' = [entries EXCEPT ![p] = TRUE]
             /\ result' = p * PageSize
      BY <2>1 DEF Allocate
    <3>2. ~entries[p]
      BY <3>1 DEF Found, IsFirstClear
    <3>3. p \in Frames /\ p \notin Held
      BY <3>2 DEF OthersStaySet, Held
    <3>4. Held' = Held \cup {p}
      BY <3>1, <3>3 DEF Held, TypeOK, Frames
    <3>5. p * PageSize \in Addresses(Frames) \ Addresses(Held)
      BY <3>3, AddressesDiffer DEF Held, Frames
    <3>6. Addresses(Held)' = Addresses(Held) \cup {p * PageSize}
      BY <3>4
    <3>7. Allocator!Allocate
      BY <3>1, <3>5, <3>6 DEF Allocator!Allocate
    <3> QED
      BY <3>7 DEF Allocator!Next
  <2>2. CASE AllocateFails
    <3>1. \A p \in 0 .. Pages - 1 : entries[p]
      BY <2>2 DEF AllocateFails, NoneClear, SearchFrom, TypeOK
    <3>2. Held = Frames
      BY <3>1 DEF Held, Frames
    <3>3. Allocator!AllocateFails
      BY <2>2, <3>2 DEF AllocateFails, Allocator!AllocateFails, Held
    <3> QED
      BY <3>3 DEF Allocator!Next
  <2>3. CASE Free
    <3>1. PICK p \in Held : entries' = [entries EXCEPT ![p] = FALSE] /\ UNCHANGED result
      BY <2>3 DEF Free
    <3>2. Held' = Held \ {p}
      BY <3>1 DEF Held, TypeOK, Frames
    <3>3. \A q \in Held : q \in 0 .. Pages - 1
      BY DEF Held, Frames
    <3>4. Addresses(Held)' = Addresses(Held) \ {p * PageSize}
      BY <3>1, <3>2, <3>3, AddressesDiffer
    <3>5. Allocator!Free
      BY <3>1, <3>4 DEF Allocator!Free
    <3> QED
      BY <3>5 DEF Allocator!Next
  <2>4. CASE UNCHANGED vars
    BY <2>4 DEF vars, Allocator!vars, Held
  <2> QED
    BY <2>1, <2>2, <2>3, <2>4 DEF Next
<1> QED
  BY <1>1, <1>2, TypeCorrect, OthersAreSet, PTL DEF Spec, AllocatorSpec, Allocator!Spec
=============================================================================
