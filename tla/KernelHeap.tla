------------------------------ MODULE KernelHeap ------------------------------
(***************************************************************************)
(* The kernel heap (src/kernel_heap.c): a ring of free blocks in the order  *)
(* of their addresses, searched first-fit from where the last operation     *)
(* stopped, grown page by page behind heap_break.                           *)
(*                                                                         *)
(* A block begins with a header; addresses and sizes of blocks are counted  *)
(* in headers, from heap_start.  "pc" is the point the one call in progress *)
(* has reached (the kernel is not preempted): "idle" between calls,         *)
(* "search" in the loop of malloc, "place" in the loop of free, which       *)
(* malloc calls as well when it grows the heap.  Sizes and addresses are    *)
(* 32-bit numbers, and the sums the code makes of them wrap.  "outside" is  *)
(* the point where it goes on to write or map memory beyond the heap after  *)
(* such a sum: the model stops there.                                       *)
(***************************************************************************)
EXTENDS Integers, FiniteSets

CONSTANTS
    HeaderSize,     \* sizeof(kernel_heap_header_t)
    PageHeaders,    \* PAGE_SIZE / HeaderSize
    MinimumHeaders, \* KERNEL_HEAP_MINIMUM_HEADERS_TO_ALLOCATE
    HeapStart,      \* heap_start, in headers
    HeapEnd,        \* heap_end - heap_start, in headers
    WordHeaders,    \* 2^32 / HeaderSize
    FrameCounts,    \* how many frames memory_bitmap_allocate may have to give
    Sizes,          \* the sizes malloc is called with, in bytes
    MaxBlocks       \* bound: blocks that are held at a time

Word == WordHeaders * HeaderSize   \* 2^32

ASSUME HeaderAssumption == HeaderSize \in Nat \ {0} /\ PageHeaders \in Nat \ {0}
ASSUME WordAssumption ==
    /\ {HeapStart, HeapEnd, WordHeaders} \subseteq Nat
    /\ HeapStart + HeapEnd < WordHeaders
    /\ HeapEnd % PageHeaders = 0 /\ WordHeaders % PageHeaders = 0
ASSUME GrowthAssumption == MinimumHeaders \in 1 .. HeapEnd /\ FrameCounts \subseteq Nat
ASSUME SizesAssumption == Sizes \subseteq 1 .. Word - 1 /\ MaxBlocks \in Nat

\* kernel_heap.base, in the kernel image: below the heap and not adjacent to it.
Base == -2

VARIABLES
    next,               \* of every free block's header
    size,               \* of every block's header
    free_headers_head,
    heap_break,
    frames,             \* left in the bitmap
    held,               \* the blocks of the callers, with the bytes they asked for
    pc,
    previous_header, current_header, request,   \* of malloc
    block, location,    \* of free: freed_block_header, freed_block_new_location
    grown               \* how often the malloc in progress has grown the heap

ringVars   == <<next, size, free_headers_head>>
mallocVars == <<previous_header, current_header, request, grown>>
freeVars   == <<block, location>>
vars == <<ringVars, heap_break, frames, held, pc, mallocVars, freeVars>>

\* kernel_heap_module_init.
Init ==
    /\ next = [a \in {Base} |-> Base]
    /\ size = [a \in {Base} |-> 0]
    /\ free_headers_head = Base
    /\ heap_break = 0
    /\ frames \in FrameCounts
    /\ held = [a \in {} |-> 0]
    /\ pc = "idle"
    /\ previous_header = Base /\ current_header = Base /\ request = 0 /\ grown = 0
    /\ block = Base /\ location = Base

\* The call is over and its local variables are gone.
Return ==
    /\ pc' = "idle"
    /\ previous_header' = Base /\ current_header' = Base /\ request' = 0 /\ grown' = 0
    /\ block' = Base /\ location' = Base

-----------------------------------------------------------------------------
(***************************************************************************)
(* kernel_heap_malloc.                                                      *)
(***************************************************************************)
RoundedDown(bytes) == bytes \div HeaderSize + 1  \* mutant

\* headers_to_allocate: the bytes rounded up to headers, and the block's own header.  For
\* the last HeaderSize - 1 sizes the sum wraps, and only the header is left.
HeadersFor(bytes) == ((bytes + HeaderSize - 1) % Word) \div HeaderSize + 1

Malloc ==
    /\ pc = "idle"
    /\ Cardinality(DOMAIN held) < MaxBlocks
    /\ request' \in Sizes
    /\ pc' = "search"
    /\ previous_header' = free_headers_head
    /\ current_header' = next[free_headers_head]
    /\ UNCHANGED <<ringVars, heap_break, frames, held, grown, freeVars>>

Fits == size[current_header] >= HeadersFor(request)

\* The block fits: unlink it, or cut the request from its end.
Take ==
    LET headers == HeadersFor(request)
        taken   == IF size[current_header] = headers THEN current_header
                   ELSE current_header + size[current_header] - headers
    IN  /\ pc = "search" /\ Fits
        /\ IF taken = current_header
           THEN /\ next' = [a \in DOMAIN next \ {taken} |->
                               IF a = previous_header THEN next[taken] ELSE next[a]]
                /\ UNCHANGED size
           ELSE /\ size' = [a \in DOMAIN size \cup {taken} |->
                               CASE a = taken -> headers
                                 [] a = current_header -> size[a] - headers
                                 [] OTHER -> size[a]]
                /\ UNCHANGED next
        /\ free_headers_head' = previous_header
        /\ held' = [a \in DOMAIN held \cup {taken} |-> IF a = taken THEN request ELSE held[a]]
        /\ Return
        /\ UNCHANGED <<heap_break, frames>>

\* On to the next block of the ring.
Advance ==
    /\ pc = "search" /\ ~Fits
    /\ current_header # free_headers_head
    /\ previous_header' = current_header
    /\ current_header' = next[current_header]
    /\ UNCHANGED <<ringVars, heap_break, frames, held, pc, request, grown, freeVars>>

\* kernel_heap_allocate_more_headers: the size of the new block, and the pages it takes.
\* headers * sizeof and ALIGN_UP may wrap to 0.
Wanted      == HeadersFor(request) % WordHeaders
MoreHeaders == IF Wanted < MinimumHeaders THEN MinimumHeaders ELSE Wanted
MorePages   == ((MoreHeaders + PageHeaders - 1) % WordHeaders) \div PageHeaders

Exhausted == pc = "search" /\ ~Fits /\ current_header = free_headers_head

\* heap_break + bytes_to_allocate <= heap_end, where the sum may wrap.
SeemsToFit == (HeapStart + heap_break + MorePages * PageHeaders) % WordHeaders <= HeapStart + HeapEnd

PagesLeft == (HeapEnd - heap_break) \div PageHeaders

BreakKept == heap_break  \* mutant

\* heap_break behind the new pages.
BreakMoved == heap_break + MorePages * PageHeaders

\* kernel_heap_allocate_physical_memory succeeds; the new block is then freed.
Grow ==
    /\ Exhausted /\ SeemsToFit
    /\ MorePages \in 1 .. PagesLeft
    /\ frames >= MorePages
    /\ frames' = frames - MorePages
    /\ heap_break' = BreakMoved
    /\ size' = [a \in DOMAIN size \cup {heap_break} |-> IF a = heap_break THEN MoreHeaders ELSE size[a]]
    /\ grown' = grown + 1
    /\ block' = heap_break
    /\ location' = free_headers_head
    /\ pc' = "place"
    /\ UNCHANGED <<next, free_headers_head, held, previous_header, current_header, request>>

\* No address space is left: malloc returns NULL.
GrowHitsEnd ==
    /\ Exhausted /\ ~SeemsToFit
    /\ Return
    /\ UNCHANGED <<ringVars, heap_break, frames, held>>

\* The bitmap runs out of frames: NULL, and the frames taken so far are not given back.
GrowRunsOut ==
    /\ Exhausted /\ SeemsToFit
    /\ frames < MorePages /\ frames <= PagesLeft
    /\ frames' = 0
    /\ Return
    /\ UNCHANGED <<ringVars, heap_break, held>>

\* A sum has wrapped: the header of the new block is written where no page was mapped, or
\* pages are mapped over what lies above the heap.
GrowLeavesHeap ==
    /\ Exhausted /\ SeemsToFit
    /\ MorePages = 0 \/ (MorePages > PagesLeft /\ frames > PagesLeft)
    /\ pc' = "outside"
    /\ UNCHANGED <<ringVars, heap_break, frames, held, mallocVars, freeVars>>

-----------------------------------------------------------------------------
(***************************************************************************)
(* kernel_heap_free.                                                        *)
(***************************************************************************)
Free ==
    /\ pc = "idle"
    /\ block' \in DOMAIN held
    /\ held' = [a \in DOMAIN held \ {block'} |-> held[a]]
    /\ location' = free_headers_head
    /\ pc' = "place"
    /\ UNCHANGED <<ringVars, heap_break, frames, mallocVars>>

PlacedBehind == block > location  \* mutant: the successor is not looked at

PlacedBetween == block > location /\ block < next[location]  \* mutant: the ring's end is forgotten

\* The block belongs between location and its successor, or beyond an end of the list.
PlacedHere ==
    \/ block > location /\ block < next[location]
    \/ location >= next[location] /\ (block > location \/ block < next[location])

Walk ==
    /\ pc = "place" /\ ~PlacedHere
    /\ location' = next[location]
    /\ UNCHANGED <<ringVars, heap_break, frames, held, pc, mallocVars, block>>

\* The block ends where the next free block begins.
JoinsNext == block + size[block] = next[location]

\* The block begins where the free block before it ends.
JoinsPrevious == location + size[location] = block

\* Where malloc goes on after it has grown the heap.
Resumed == current_header

\* Link the block in, joined with its neighbours; malloc goes on from where it grew.
Place ==
    LET after     == next[location]
        newSize   == IF JoinsNext THEN size[block] + size[after] ELSE size[block]
        newNext   == IF JoinsNext THEN next[after] ELSE after
        swallowed == (IF JoinsNext THEN {after} ELSE {}) \cup (IF JoinsPrevious THEN {block} ELSE {})
    IN  /\ pc = "place" /\ PlacedHere
        /\ size' = [a \in DOMAIN size \ swallowed |->
                       CASE a = location /\ JoinsPrevious -> size[location] + newSize
                         [] a = block -> newSize
                         [] OTHER -> size[a]]
        /\ next' = [a \in (DOMAIN next \cup {block}) \ swallowed |->
                       CASE a = location -> IF JoinsPrevious THEN newNext ELSE block
                         [] a = block -> newNext
                         [] OTHER -> next[a]]
        /\ free_headers_head' = location
        /\ IF grown > 0
           THEN /\ pc' = "search"
                /\ previous_header' = Resumed
                /\ current_header' = next'[current_header]
                /\ block' = Base /\ location' = Base
                /\ UNCHANGED <<request, grown>>
           ELSE Return
        /\ UNCHANGED <<heap_break, frames, held>>

-----------------------------------------------------------------------------
Step == Take \/ Advance \/ Grow \/ GrowHitsEnd \/ GrowRunsOut \/ GrowLeavesHeap \/ Walk \/ Place

Next == Malloc \/ Free \/ Step

Spec == Init /\ [][Next]_vars

\* A call in progress is executed to its end.
FairSpec == Spec /\ WF_vars(Step)

-----------------------------------------------------------------------------
(***************************************************************************)
(* Properties.                                                              *)
(***************************************************************************)
Headers == {Base} \cup 0 .. HeapEnd - 1

\* A request that 32 bits cannot round up: malloc answers it with a header and no bytes.
Oversized(bytes) == bytes > Word - HeaderSize

\* A request whose headers, in bytes, are 0 in 32 bits: every growth is the smallest one.
NeverServed(bytes) == HeadersFor(bytes) = WordHeaders

\* Every variable has its type: the fields the code reads are those of headers it has set up.
\* The search is not restarted when the heap grows, and free moves the head it ends at; one
\* call of malloc may therefore grow the heap once more than it has to, but not for ever -
\* unless what it grows by is not what it asks for, and it takes all the heap there is.
TypeOK ==
    /\ DOMAIN next \subseteq DOMAIN size /\ DOMAIN size \subseteq Headers
    /\ \A a \in DOMAIN next : next[a] \in DOMAIN next
    /\ \A a \in DOMAIN size : size[a] \in 0 .. HeapEnd
    /\ free_headers_head \in DOMAIN next
    /\ heap_break \in 0 .. HeapEnd
    /\ frames \in Nat
    /\ DOMAIN held \subseteq DOMAIN size /\ \A a \in DOMAIN held : held[a] \in Sizes
    /\ pc \in {"idle", "search", "place", "outside"}
    /\ pc = "search" => previous_header \in DOMAIN next /\ current_header \in DOMAIN next
    /\ pc = "place" => block \in DOMAIN size \ DOMAIN next /\ location \in DOMAIN next
    /\ request \in Sizes \cup {0} /\ grown \in Nat
    /\ grown <= 2 \/ NeverServed(request)

\* A malloc in progress stands on two neighbours of the ring, also after the heap has grown
\* underneath it: unlinking current_header through previous_header drops no other block.
SearchIsInStep == pc = "search" => next[previous_header] = current_header

\* The free blocks form one ring in the order of their addresses, through the base, whatever
\* was merged, split or unlinked: each block's next is the nearest one above it, and a search in
\* progress is in step with it.
RingIsOrdered ==
    /\ TypeOK
    /\ SearchIsInStep
    /\ \A a \in DOMAIN next :
          /\ \A b \in DOMAIN next : ~(a < b /\ b < next[a])
          /\ next[a] <= a => next[a] = Base /\ \A b \in DOMAIN next : b <= a

Covers(a, unit) == a <= unit /\ unit < a + size[a]

\* Blocks never overlap, lie below heap_break and hold what was asked for; each is in the ring,
\* in a caller's hands or on its way back; and no memory is lost between them: what belongs to
\* no block is the end of a page behind a growth that was no multiple of a page.  No two free
\* blocks are adjacent: memory that was freed in pieces can be handed out whole.  The only
\* requests that get less than they asked for are those that 32 bits cannot round up.
BlocksTile ==
    /\ \A a \in DOMAIN next \ {Base} : a + size[a] \notin DOMAIN next
    /\ \A a \in DOMAIN size \ {Base} :
          /\ 0 <= a /\ a + size[a] <= heap_break
          /\ \A b \in DOMAIN size \ {Base} : a < b => a + size[a] <= b
    /\ \A a \in DOMAIN held :
          /\ a \notin DOMAIN next
          /\ Oversized(held[a]) \/ held[a] <= (size[a] - 1) * HeaderSize
    /\ DOMAIN size = DOMAIN next \cup DOMAIN held \cup (IF pc = "place" THEN {block} ELSE {})
    /\ \A unit \in 0 .. heap_break - 1 :
          (\A a \in DOMAIN size : ~Covers(a, unit)) =>
              \A later \in unit .. heap_break - 1 :
                  later \div PageHeaders = unit \div PageHeaders => \A a \in DOMAIN size : ~Covers(a, later)

\* The heap implements the abstract allocator: two callers never hold the same byte.  The
\* header that an oversized request gets holds none.
Blocks == INSTANCE BlockAllocator WITH
    Addresses <- 0 .. HeapEnd * HeaderSize - 1,
    blocks <- {(a + 1) * HeaderSize .. (a + 1) * HeaderSize + held[a] - 1 :
                  a \in {h \in DOMAIN held : ~Oversized(held[h])}}
AllocatorSpec == Blocks!Spec

\* Every malloc and every free comes to an end, or leaves the heap as above: neither loop
\* runs round the ring for ever, even where malloc grows the heap again and again.
CallsEnd == pc \in {"search", "place"} ~> pc \in {"idle", "outside"}
=============================================================================
