----------------------------- MODULE MemoryBitmap -----------------------------
(***************************************************************************)
(* The physical frame allocator (src/memory_bitmap.c): a bitmap with one    *)
(* bit per page, built at boot from the multiboot memory map, and a hint    *)
(* where the search for a clear bit starts.  Addresses are in bytes; the    *)
(* kernel is not preempted, so each function is one step.                   *)
(***************************************************************************)
EXTENDS Integers, Sequences

CONSTANTS
    PageSize,       \* PAGE_SIZE
    SizeModulus,    \* 2^32: size_t has 32 bits, the memory map's fields 64
    Regions,        \* the memory map: records [addr, len, available]
    Modules,        \* the multiboot modules: records [mod_start, mod_end]; the first is the initrd
    FirstMegabyte,  \* 0x100000
    KernelStart,    \* _kernel_physical_start
    KernelEnd       \* _kernel_physical_end

ASSUME PageSizeAssumption == PageSize \in Nat \ {0} /\ SizeModulus \in Nat \ {0}
ASSUME RegionsAssumption ==
    \A r \in Regions : r.addr \in Nat /\ r.len \in Nat /\ r.available \in BOOLEAN
ASSUME ModulesAssumption ==
    Len(Modules) \in Nat \ {0} /\ \A i \in 1 .. Len(Modules) : Modules[i].mod_start \in Nat /\ Modules[i].mod_end \in Nat
ASSUME KernelAssumption ==
    /\ FirstMegabyte \in Nat \ {0} /\ FirstMegabyte % PageSize = 0
    /\ KernelStart \in Nat /\ KernelEnd \in Nat

-----------------------------------------------------------------------------
(***************************************************************************)
(* The layout of the memory at boot.                                        *)
(***************************************************************************)
Page(address) == address \div PageSize

PageRoundedDown(address) == address \div PageSize  \* mutant

\* ALIGN_UP(address) / PAGE_SIZE, the first page that starts at or behind the address.
PageUp(address) == (address + PageSize - 1) \div PageSize

\* The pages from the one that holds start to the one that holds the byte before end.
PagesOf(start, end) == Page(start) .. PageUp(end) - 1

\* total_memory_bytes, where region_end is a size_t: the sum is truncated.
RegionEnd(r) == (r.addr + r.len) % SizeModulus
TotalMemory ==
    CHOOSE total \in {RegionEnd(r) : r \in Regions} :
        \A r \in Regions : RegionEnd(r) <= total

\* memory_bitmap.pages.
Pages == Page(TotalMemory)

ASSUME PagesAssumption == Pages \in Nat \ {0}

Available == UNION {PagesOf(r.addr, r.addr + r.len) : r \in {s \in Regions : s.available}}

Initrd == PagesOf(Modules[1].mod_start, Modules[1].mod_end)

\* memory_bitmap_lock_bitmap: the bitmap stands behind the kernel image.
BitmapPages == PageUp(KernelEnd) .. PageUp(KernelEnd) + PageUp(Pages \div 8) - 1

\* The pages the four functions memory_bitmap_lock_... set.
Locked ==
    UNION {0 .. Page(FirstMegabyte) - 1,
           UNION {PagesOf(Modules[i].mod_start, Modules[i].mod_end) : i \in 1 .. Len(Modules)},
           PagesOf(KernelStart, KernelEnd),
           BitmapPages}

\* The bitmap that memory_bitmap_module_init builds.  An available region behind the last
\* counted page clears bits behind its end (memory_bitmap.c:78), which no function reads.
BootEntries == [p \in 0 .. Pages - 1 |-> p \notin Available \/ p \in Locked]

-----------------------------------------------------------------------------
VARIABLES
    entries,                    \* TRUE: the page's bit is set
    last_allocated_page_index,
    result                      \* the address the last memory_bitmap_allocate returned

vars == <<entries, last_allocated_page_index, result>>

NULL == 0

Init ==
    /\ entries = BootEntries
    /\ last_allocated_page_index = 0
    /\ result = NULL

\* The pages that can ever be handed out: those clear at boot, and those of the initrd,
\* which ramfs_driver_init gives back once it has copied the archive.
Frames == {p \in 0 .. Pages - 1 : ~BootEntries[p] \/ p \in Initrd}

\* The pages in use, by the initrd at boot or by a caller of memory_bitmap_allocate.
Held == {p \in Frames : entries[p]}

IsFirstClear(p, from, to) ==
    /\ p \in from .. to
    /\ ~entries[p]
    /\ \A lower \in from .. p - 1 : entries[lower]

NoneClear(from, to) == \A p \in from .. to : entries[p]

SearchAfterHint == last_allocated_page_index + 1  \* mutant

\* Where the first loop of memory_bitmap_allocate starts.
SearchFrom == last_allocated_page_index

\* The page the two loops of memory_bitmap_allocate stop at.
Found(p) ==
    \/ IsFirstClear(p, SearchFrom, Pages - 1)
    \/ /\ NoneClear(SearchFrom, Pages - 1)
       /\ IsFirstClear(p, 0, last_allocated_page_index - 1)

NextHintPast(p) == p + 1  \* mutant

NextHint(p) == p

\* memory_bitmap_allocate.
Allocate ==
    \E p \in 0 .. Pages - 1 :
        /\ Found(p)
        /\ entries' = [entries EXCEPT ![p] = TRUE]
        /\ last_allocated_page_index' = NextHint(p)
        /\ result' = p * PageSize

\* ... when both loops find nothing.
AllocateFails ==
    /\ NoneClear(SearchFrom, Pages - 1)
    /\ NoneClear(0, last_allocated_page_index - 1)
    /\ result' = NULL
    /\ UNCHANGED <<entries, last_allocated_page_index>>

HintKept(p) == last_allocated_page_index  \* mutant

\* The hint after page p is given back.
HintAfterFree(p) ==
    IF p < last_allocated_page_index THEN p ELSE last_allocated_page_index

\* memory_bitmap_free of an address on a page in use.
Free ==
    \E p \in Held :
        /\ entries' = [entries EXCEPT ![p] = FALSE]
        /\ last_allocated_page_index' = HintAfterFree(p)
        /\ UNCHANGED result

Next == Allocate \/ AllocateFails \/ Free

Spec == Init /\ [][Next]_vars

-----------------------------------------------------------------------------
(***************************************************************************)
(* Properties.                                                              *)
(***************************************************************************)

\* Every variable has its type; the hint is always the index of a page.
TypeOK ==
    /\ entries \in [0 .. Pages - 1 -> BOOLEAN]
    /\ last_allocated_page_index \in 0 .. Pages - 1
    /\ result \in {p * PageSize : p \in 0 .. Pages - 1}

\* No page below the hint is clear, however allocations and frees alternate: the search
\* starts at the lowest free page, memory is handed out lowest first, and the second loop
\* of memory_bitmap_allocate never finds a page the first one missed.
HintSound == \A p \in 0 .. last_allocated_page_index - 1 : entries[p]

\* The page holds a byte from start up to end.
Touches(p, start, end) == p * PageSize < end /\ start < (p + 1) * PageSize

\* The page holds a byte of the kernel image, of a module that is never released, of the
\* bitmap itself or of the first megabyte.
Reserved(p) ==
    \/ Touches(p, 0, FirstMegabyte)
    \/ Touches(p, KernelStart, KernelEnd)
    \/ \E i \in 2 .. Len(Modules) : Touches(p, Modules[i].mod_start, Modules[i].mod_end)
    \/ Touches(p, PageUp(KernelEnd) * PageSize, PageUp(KernelEnd) * PageSize + (Pages + 7) \div 8)

\* The boot loader puts no module into the first megabyte, and when the size of the bitmap
\* in whole bytes fills its pages exactly, no bits are left for one more byte.
ASSUME InitrdAssumption == \A p \in Initrd : p >= Page(FirstMegabyte)
ASSUME BitmapAssumption == Pages % 8 = 0 \/ (Pages \div 8) % PageSize # 0

\* Reserved memory is never handed out: its bits stay set for ever, wherever inside a page
\* the kernel image or a module begins and ends.  The exception is a page that it shares with
\* the initrd: ramfs_driver_init gives back every page that holds a byte of the archive
\* (ramfs.c:168), also the first and the last one, whatever else is on them.
ReservedStaysSet == \A p \in (0 .. Pages - 1) \ Initrd : Reserved(p) => entries[p]

\* The bitmap implements the abstract allocator: a frame has one holder at a time, NULL is
\* returned only when no page is left, and it is never the address of a page.
Allocator == INSTANCE FrameAllocator WITH
    Frames <- {p * PageSize : p \in Frames},
    InitiallyHeld <- {p * PageSize : p \in Initrd \cap Frames},
    NoFrame <- NULL,
    held <- {p * PageSize : p \in Held}
AllocatorSpec == Allocator!Spec
=============================================================================
