--------------------------- MODULE KernelHeapProofs ---------------------------
(***************************************************************************)
(* Proofs about KernelHeap, for a heap of any length, pages and headers of  *)
(* any size, any sequence of requests of any size a 32-bit number can have, *)
(* and any point at which frames or addresses run out.                      *)
(***************************************************************************)
EXTENDS KernelHeap, TLAPS

\* The ring goes through the base, and next never leaves it.
RingIsClosed ==
    /\ Base \in DOMAIN next /\ DOMAIN next \subseteq DOMAIN size
    /\ \A a \in DOMAIN next : next[a] \in DOMAIN next
    /\ free_headers_head \in DOMAIN next

\* In the order of addresses: the successor is the nearest above, or the base.
InOrder ==
    \A a \in DOMAIN next :
        /\ \A b \in DOMAIN next : ~(a < b /\ b < next[a])
        /\ next[a] <= a => next[a] = Base /\ \A b \in DOMAIN next : b <= a

\* Every block but the base has a size, ends below the break and before the next block.
Disjoint ==
    /\ Base \in DOMAIN size /\ size[Base] = 0
    /\ \A a \in DOMAIN size \ {Base} :
          a \in Nat /\ size[a] \in Nat \ {0} /\ a + size[a] <= heap_break
    /\ \A a, b \in DOMAIN size \ {Base} : a < b => a + size[a] <= b

\* Every block is free, held, or on its way back to the ring.
Owned ==
    /\ DOMAIN size = DOMAIN next \cup DOMAIN held \cup (IF pc = "place" THEN {block} ELSE {})
    /\ DOMAIN held \cap DOMAIN next = {}
    /\ pc = "place" => block \notin DOMAIN next /\ block \notin DOMAIN held
    /\ \A a \in DOMAIN held :
          held[a] \in Sizes /\ (Oversized(held[a]) \/ held[a] <= (size[a] - 1) * HeaderSize)

\* No two free blocks are adjacent.
Merged == \A a \in DOMAIN next \ {Base} : a + size[a] \notin DOMAIN next

Covered(unit) == \E a \in DOMAIN size : Covers(a, unit)

\* What belongs to no block is the end of a page.
NoneLost ==
    \A unit \in 0 .. heap_break - 1 :
        ~Covered(unit) => \A later \in unit .. heap_break - 1 :
            later \div PageHeaders = unit \div PageHeaders => ~Covered(later)

BreakIsPage ==
    /\ heap_break \in 0 .. HeapEnd
    /\ \E pages \in Nat : heap_break = pages * PageHeaders
    /\ frames \in Nat

\* The local variables of the call in progress.
CallInv ==
    /\ pc \in {"idle", "search", "place", "outside"}
    /\ pc = "idle" => grown = 0
    /\ request \in Sizes \cup {0} /\ grown \in Nat
    /\ grown <= 2 \/ NeverServed(request)
    /\ pc = "search" => /\ request \in Sizes
                        /\ previous_header \in DOMAIN next
                        /\ current_header = next[previous_header]
    /\ pc = "place" => location \in DOMAIN next

FitsAt(a) == size[a] >= HeadersFor(request)

\* Why a call grows the heap at most twice.  The new block is the topmost one.  The
\* search goes on behind the old head and ends at the new one, which is the block
\* below: when the two were joined it fits there, and otherwise the new block is the
\* next one, at which the search arrives after growing once more.
GrowthHelps ==
    /\ pc = "search" /\ grown = 1 => FitsAt(free_headers_head) \/ FitsAt(next[free_headers_head])
    /\ pc = "search" /\ grown = 2 => FitsAt(current_header)
    /\ pc = "place" /\ grown > 0 => FitsAt(block)
    /\ pc = "place" /\ grown = 2 => FitsAt(next[free_headers_head])

\* A request whose headers wrap to nothing is not helped by growth; all others are.
Growing ==
    /\ pc = "place" /\ grown > 0 =>
          /\ request \in Sizes /\ current_header = free_headers_head
          /\ \A b \in DOMAIN next : b < block
    /\ NeverServed(request) \/ GrowthHelps

\* The inductive invariant.
IInv ==
    /\ RingIsClosed /\ InOrder /\ Disjoint /\ Owned /\ Merged /\ NoneLost
    /\ BreakIsPage /\ CallInv /\ Growing

-----------------------------------------------------------------------------
(* Quotients and products.                                                  *)

LEMMA Quotient ==
    ASSUME NEW x \in Nat, NEW d \in Nat \ {0}
    PROVE  /\ x \div d \in Nat
           /\ (x \div d) * d <= x
           /\ x < (x \div d) * d + d
OBVIOUS

LEMMA ProductMonotone ==
    ASSUME NEW a \in Nat, NEW b \in Nat, NEW c \in Nat, a <= b
    PROVE  a * c \in Nat /\ b * c \in Nat /\ a * c <= b * c
<1>1. PICK d \in Nat : b = a + d
  BY b - a \in Nat
<1>2. b * c = a * c + d * c
  BY <1>1
<1>3. a * c \in Nat /\ b * c \in Nat /\ d * c \in Nat
  OBVIOUS
<1>. QED BY <1>2, <1>3

LEMMA SumTimes ==
    ASSUME NEW a \in Int, NEW b \in Int, NEW c \in Int
    PROVE  (a + b) * c = a * c + b * c
OBVIOUS

\* Rounding up: a multiple of d that is at least x.
LEMMA RoundedUp ==
    ASSUME NEW x \in Nat \ {0}, NEW d \in Nat \ {0}
    PROVE  /\ (x + d - 1) \div d \in Nat \ {0}
           /\ x <= ((x + d - 1) \div d) * d
<1>. DEFINE q == (x + d - 1) \div d
<1>1. x + d - 1 \in Nat /\ x + d - 1 >= d
  OBVIOUS
<1>2. q \in Nat /\ x + d - 1 < q * d + d
  BY <1>1, Quotient
<1>. HIDE DEF q
<1>3. q # 0
  BY <1>1, <1>2
<1>4. q * d \in Nat
  BY <1>2
<1>5. x <= q * d
  BY <1>2, <1>4
<1>. QED
  BY <1>2, <1>3, <1>5 DEF q

\* A sum below the word is exact, and one below two words wraps once.
LEMMA Wraps ==
    ASSUME NEW x \in Nat, NEW m \in Nat \ {0}
    PROVE  /\ x % m \in 0 .. m - 1
           /\ x < m => x % m = x
           /\ m <= x /\ x < m + m => x % m = x - m
<1>1. x % m \in 0 .. m - 1
  OBVIOUS
<1>2. x < m => x % m = x
  OBVIOUS
<1>3. ASSUME m <= x, x < m + m PROVE x % m = x - m
  BY <1>3
<1>. QED BY <1>1, <1>2, <1>3

\* A quotient is below a bound when the dividend is below its product.
LEMMA QuotientBelow ==
    ASSUME NEW x \in Nat, NEW d \in Nat \ {0}, NEW n \in Nat, x < n * d
    PROVE  x \div d < n
<1>. DEFINE q == x \div d
<1>1. q \in Nat /\ q * d <= x
  BY Quotient
<1>. HIDE DEF q
<1>2. ASSUME n <= q PROVE FALSE
  BY <1>1, <1>2, ProductMonotone
<1>. QED BY <1>1, <1>2 DEF q

LEMMA WordFacts ==
    /\ HeaderSize \in Nat \ {0} /\ PageHeaders \in Nat \ {0} /\ WordHeaders \in Nat \ {0}
    /\ HeapStart \in Nat /\ HeapEnd \in Nat /\ HeapEnd < WordHeaders
    /\ Word \in Nat \ {0} /\ HeaderSize <= Word
    /\ PageHeaders <= WordHeaders
<1>1. /\ HeaderSize \in Nat \ {0} /\ PageHeaders \in Nat \ {0} /\ WordHeaders \in Nat \ {0}
      /\ HeapStart \in Nat /\ HeapEnd \in Nat /\ HeapEnd < WordHeaders
      /\ WordHeaders % PageHeaders = 0
  BY HeaderAssumption, WordAssumption
<1>2. Word \in Nat /\ 1 * HeaderSize <= Word /\ 1 * HeaderSize = HeaderSize
  BY <1>1, ProductMonotone, 1 <= WordHeaders DEF Word
<1>3. PageHeaders <= WordHeaders
  BY <1>1, Wraps
<1>. QED
  BY <1>1, <1>2, <1>3

\* The headers of a request hold its bytes, and one more for the block itself; only the
\* header is left of a request that cannot be rounded up.
LEMMA HeadersForFacts ==
    ASSUME NEW bytes \in Sizes
    PROVE  /\ HeadersFor(bytes) \in Nat /\ HeadersFor(bytes) >= 1 /\ HeadersFor(bytes) <= WordHeaders
           /\ Oversized(bytes) \/ bytes <= (HeadersFor(bytes) - 1) * HeaderSize
<1>. DEFINE s == bytes + HeaderSize - 1
            q == (s % Word) \div HeaderSize
<1>1. bytes \in Nat \ {0} /\ bytes < Word /\ s \in Nat
  BY SizesAssumption, WordFacts
<1>2. s % Word \in 0 .. Word - 1 /\ (s < Word => s % Word = s)
  BY <1>1, Wraps, WordFacts
<1>3. q \in Nat /\ q < WordHeaders
  <2>1. s % Word \in Nat /\ s % Word < WordHeaders * HeaderSize
    BY <1>2, WordFacts DEF Word
  <2>. QED BY <2>1, Quotient, QuotientBelow, WordFacts
<1>4. Oversized(bytes) \/ bytes <= q * HeaderSize
  <2>. SUFFICES ASSUME ~Oversized(bytes) PROVE bytes <= q * HeaderSize
    OBVIOUS
  <2>1. s < Word
    BY <1>1, WordFacts DEF Oversized
  <2>2. q = (bytes + HeaderSize - 1) \div HeaderSize
    BY <1>2, <2>1
  <2>3. bytes <= ((bytes + HeaderSize - 1) \div HeaderSize) * HeaderSize
    BY <1>1, RoundedUp, WordFacts
  <2>. QED BY <2>2, <2>3
<1>5. HeadersFor(bytes) = q + 1
  BY DEF HeadersFor
<1>. HIDE DEF q
<1>6. (q + 1) - 1 = q
  BY <1>3
<1>. QED
  BY <1>3, <1>4, <1>5, <1>6, WordFacts

\* The block that growth adds fits the request, unless its headers wrap, and the pages it
\* takes, unless those wrap.
LEMMA MoreFacts ==
    ASSUME request \in Sizes
    PROVE  /\ MoreHeaders \in Nat \ {0}
           /\ NeverServed(request) \/ MoreHeaders >= HeadersFor(request)
           /\ MorePages \in Nat /\ MorePages * PageHeaders \in Nat
           /\ MorePages = 0 \/ MoreHeaders <= MorePages * PageHeaders
<1>1. /\ HeadersFor(request) \in Nat /\ HeadersFor(request) <= WordHeaders
      /\ Wanted \in 0 .. WordHeaders - 1
      /\ HeadersFor(request) < WordHeaders => Wanted = HeadersFor(request)
  BY HeadersForFacts, Wraps, WordFacts DEF Wanted
<1>2. /\ MoreHeaders \in Nat \ {0} /\ MoreHeaders < WordHeaders
      /\ NeverServed(request) \/ MoreHeaders >= HeadersFor(request)
  BY <1>1, GrowthAssumption, WordFacts DEF MoreHeaders, NeverServed
<1>. DEFINE s == MoreHeaders + PageHeaders - 1
<1>3. s \in Nat /\ s < WordHeaders + WordHeaders
  BY <1>2, WordFacts
<1>4. CASE s < WordHeaders
  <2>1. MorePages = (MoreHeaders + PageHeaders - 1) \div PageHeaders
    BY <1>3, <1>4, Wraps, WordFacts DEF MorePages
  <2>2. MorePages \in Nat /\ MoreHeaders <= MorePages * PageHeaders
    BY <1>2, <2>1, RoundedUp, WordFacts
  <2>3. MorePages * PageHeaders \in Nat
    BY <2>2, WordFacts
  <2>. QED BY <1>2, <2>2, <2>3
<1>5. CASE ~(s < WordHeaders)
  <2>1. s % WordHeaders = s - WordHeaders
    BY <1>3, <1>5, Wraps, WordFacts
  <2>2. s % WordHeaders \in Nat /\ s % WordHeaders < 1 * PageHeaders
    BY <1>2, <1>3, <1>5, <2>1, WordFacts
  <2>3. MorePages \in Nat /\ MorePages < 1
    BY <2>2, Quotient, QuotientBelow, WordFacts DEF MorePages
  <2>4. MorePages = 0 /\ MorePages * PageHeaders \in Nat
    BY <2>3, WordFacts
  <2>. QED BY <1>2, <2>3, <2>4
<1>. QED
  BY <1>4, <1>5

\* Two addresses of one page are on the same side of a page's end.
LEMMA SamePage ==
    ASSUME NEW pages \in Nat, NEW unit \in Nat, NEW later \in Nat,
           unit < pages * PageHeaders,
           later \div PageHeaders = unit \div PageHeaders
    PROVE  later < pages * PageHeaders
<1>. DEFINE q == unit \div PageHeaders
<1>1. /\ q \in Nat /\ q * PageHeaders <= unit
      /\ later < q * PageHeaders + PageHeaders
  BY Quotient, HeaderAssumption
<1>. HIDE DEF q
<1>2. PageHeaders \in Nat
  BY HeaderAssumption
<1>3. q < pages
  <2>1. ASSUME pages <= q PROVE FALSE
    BY <1>1, <1>2, <2>1, ProductMonotone
  <2>. QED BY <1>1, <2>1
<1>4. (q + 1) * PageHeaders <= pages * PageHeaders
  BY <1>1, <1>2, <1>3, ProductMonotone, q + 1 \in Nat, q + 1 <= pages
<1>5. (q + 1) * PageHeaders = q * PageHeaders + PageHeaders
  BY <1>1, <1>2
<1>6. q * PageHeaders \in Nat /\ pages * PageHeaders \in Nat
  BY <1>1, <1>2
<1>. QED
  BY <1>1, <1>2, <1>4, <1>5, <1>6

-----------------------------------------------------------------------------
(* Consequences that most steps need.                                       *)

LEMMA BlockAddresses ==
    ASSUME Disjoint
    PROVE  /\ Base = -2
           /\ \A a \in DOMAIN size : a \in Int /\ size[a] \in Nat /\ Base <= a
           /\ \A a \in DOMAIN size \ {Base} : a \in Nat /\ Base < a
BY DEF Disjoint, Base

\* What does not change the blocks keeps what is said of them alone.
LEMMA SameBlocks ==
    ASSUME Disjoint, NoneLost, UNCHANGED <<size, heap_break>>
    PROVE  Disjoint' /\ NoneLost'
BY DEF Disjoint, NoneLost, Covered, Covers

LEMMA SameRing ==
    ASSUME RingIsClosed, InOrder, Merged, UNCHANGED ringVars
    PROVE  RingIsClosed' /\ InOrder' /\ Merged'
BY DEF RingIsClosed, InOrder, Merged, ringVars

LEMMA SameHeap ==
    ASSUME IInv, UNCHANGED <<ringVars, heap_break>>
    PROVE  RingIsClosed' /\ InOrder' /\ Merged' /\ Disjoint' /\ NoneLost'
BY SameBlocks, SameRing DEF IInv, ringVars

-----------------------------------------------------------------------------
(* The steps that change no block and no link.                              *)

LEMMA InitIInv == Init => IInv
<1>. SUFFICES ASSUME Init PROVE IInv
  OBVIOUS
<1>1. RingIsClosed /\ InOrder /\ Disjoint /\ Owned /\ Merged
  BY DEF Init, RingIsClosed, InOrder, Disjoint, Owned, Merged, Base
<1>2. NoneLost /\ CallInv /\ Growing
  BY DEF Init, NoneLost, CallInv, Growing, GrowthHelps
<1>3. BreakIsPage
  <2>1. 0 = 0 * PageHeaders
    BY HeaderAssumption
  <2>. QED
    BY <2>1, GrowthAssumption, WordFacts DEF Init, BreakIsPage
<1>. QED
  BY <1>1, <1>2, <1>3 DEF IInv

LEMMA MallocIInv == ASSUME IInv, Malloc PROVE IInv'
<1>1. RingIsClosed' /\ InOrder' /\ Merged' /\ Disjoint' /\ NoneLost'
  BY SameHeap DEF Malloc
<1>2. Owned' /\ BreakIsPage'
  BY DEF Malloc, IInv, Owned, BreakIsPage, ringVars
<1>3. CallInv' /\ Growing'
  BY DEF Malloc, IInv, CallInv, Growing, GrowthHelps, RingIsClosed, ringVars
<1>. QED
  BY <1>1, <1>2, <1>3 DEF IInv

LEMMA AdvanceIInv == ASSUME IInv, Advance PROVE IInv'
<1>1. RingIsClosed' /\ InOrder' /\ Merged' /\ Disjoint' /\ NoneLost'
  BY SameHeap DEF Advance
<1>2. Owned' /\ BreakIsPage'
  BY DEF Advance, IInv, Owned, BreakIsPage, ringVars
<1>3. CallInv'
  BY DEF Advance, IInv, CallInv, RingIsClosed, ringVars
<1>4. NeverServed(request) \/ (grown # 2 /\ GrowthHelps)
  BY DEF Advance, IInv, Growing, GrowthHelps, FitsAt, Fits
<1>5. Growing'
  BY <1>4 DEF Advance, IInv, CallInv, Growing, GrowthHelps, FitsAt, NeverServed, ringVars
<1>. QED
  BY <1>1, <1>2, <1>3, <1>5 DEF IInv

LEMMA WalkIInv == ASSUME IInv, Walk PROVE IInv'
<1>1. RingIsClosed' /\ InOrder' /\ Merged' /\ Disjoint' /\ NoneLost'
  BY SameHeap DEF Walk
<1>2. Owned' /\ BreakIsPage'
  BY DEF Walk, IInv, Owned, BreakIsPage, ringVars
<1>3. CallInv' /\ Growing'
  BY DEF Walk, IInv, CallInv, Growing, GrowthHelps, NeverServed, FitsAt, RingIsClosed, ringVars, mallocVars
<1>. QED
  BY <1>1, <1>2, <1>3 DEF IInv

LEMMA FreeIInv == ASSUME IInv, Free PROVE IInv'
<1>1. RingIsClosed' /\ InOrder' /\ Merged' /\ Disjoint' /\ NoneLost'
  BY SameHeap DEF Free
<1>2. Owned'
  BY DEF Free, IInv, Owned, ringVars
<1>3. BreakIsPage'
  BY DEF Free, IInv, BreakIsPage
<1>4. CallInv' /\ Growing'
  BY DEF Free, IInv, CallInv, Growing, GrowthHelps, NeverServed, RingIsClosed, ringVars, mallocVars
<1>. QED
  BY <1>1, <1>2, <1>3, <1>4 DEF IInv

LEMMA ReturnCall == ASSUME Return PROVE CallInv' /\ Growing'
BY DEF Return, CallInv, Growing, GrowthHelps

\* malloc gives up: no addresses, or no frames.
LEMMA GrowFailsIInv == ASSUME IInv, GrowHitsEnd \/ GrowRunsOut PROVE IInv'
<1>1. RingIsClosed' /\ InOrder' /\ Merged' /\ Disjoint' /\ NoneLost'
  BY SameHeap DEF GrowHitsEnd, GrowRunsOut
<1>2. Owned'
  BY DEF GrowHitsEnd, GrowRunsOut, Exhausted, Return, IInv, Owned, ringVars
<1>3. BreakIsPage'
  BY GrowthAssumption DEF GrowHitsEnd, GrowRunsOut, IInv, BreakIsPage
<1>4. CallInv' /\ Growing'
  BY ReturnCall DEF GrowHitsEnd, GrowRunsOut
<1>. QED
  BY <1>1, <1>2, <1>3, <1>4 DEF IInv

\* The call leaves the heap, which is as it was.
LEMMA GrowLeavesIInv == ASSUME IInv, GrowLeavesHeap PROVE IInv'
<1>1. RingIsClosed' /\ InOrder' /\ Merged' /\ Disjoint' /\ NoneLost'
  BY SameHeap DEF GrowLeavesHeap
<1>2. Owned' /\ BreakIsPage'
  BY DEF GrowLeavesHeap, Exhausted, IInv, Owned, BreakIsPage, ringVars
<1>3. CallInv' /\ Growing'
  BY DEF GrowLeavesHeap, IInv, CallInv, Growing, GrowthHelps, NeverServed, mallocVars
<1>. QED
  BY <1>1, <1>2, <1>3 DEF IInv

LEMMA StutterIInv == ASSUME IInv, UNCHANGED vars PROVE IInv'
<1>1. RingIsClosed' /\ InOrder' /\ Merged' /\ Disjoint' /\ NoneLost'
  BY SameHeap DEF vars
<1>2. Owned' /\ BreakIsPage'
  BY DEF vars, IInv, Owned, BreakIsPage, ringVars, freeVars
<1>3. CallInv' /\ Growing'
  BY DEF vars, IInv, CallInv, Growing, GrowthHelps, NeverServed, FitsAt, ringVars, mallocVars, freeVars
<1>. QED
  BY <1>1, <1>2, <1>3 DEF IInv

-----------------------------------------------------------------------------
(* Growth.                                                                  *)

LEMMA GrowIInv == ASSUME IInv, Grow PROVE IInv'
<1>1. /\ request \in Sizes /\ pc = "search" /\ current_header = free_headers_head
      /\ ~FitsAt(current_header)
  BY DEF Grow, Exhausted, Fits, FitsAt, IInv, CallInv
<1>2. /\ MoreHeaders \in Nat \ {0}
      /\ NeverServed(request) \/ MoreHeaders >= HeadersFor(request)
      /\ MorePages \in Nat /\ MorePages * PageHeaders \in Nat
      /\ MoreHeaders <= MorePages * PageHeaders
      /\ HeadersFor(request) \in Nat
  <2>1. MorePages # 0
    BY DEF Grow
  <2>. QED BY <1>1, <2>1, MoreFacts, HeadersForFacts
<1>3. /\ heap_break \in Nat /\ heap_break \notin DOMAIN size /\ heap_break # Base
      /\ \A a \in DOMAIN size : a < heap_break
  BY DEF IInv, BreakIsPage, Disjoint, Base
<1>4. /\ heap_break' = heap_break + MorePages * PageHeaders
      /\ DOMAIN size' = DOMAIN size \cup {heap_break}
      /\ size'[heap_break] = MoreHeaders
      /\ \A a \in DOMAIN size : size'[a] = size[a]
      /\ block' = heap_break /\ pc' = "place" /\ location' = free_headers_head
      /\ UNCHANGED <<next, free_headers_head, held, current_header, request>>
  BY <1>3 DEF Grow, BreakMoved
<1>. HIDE DEF Base
<1>5. RingIsClosed' /\ InOrder'
  BY <1>4 DEF IInv, RingIsClosed, InOrder
<1>6. Disjoint'
  BY <1>2, <1>3, <1>4 DEF IInv, Disjoint
<1>7. Owned'
  BY <1>1, <1>3, <1>4 DEF IInv, Owned, RingIsClosed
<1>8. Merged'
  BY <1>3, <1>4 DEF IInv, Merged, RingIsClosed
<1>9. NoneLost'
  <2>. SUFFICES ASSUME NEW unit \in 0 .. heap_break' - 1, ~Covered(unit)',
                       NEW later \in unit .. heap_break' - 1,
                       later \div PageHeaders = unit \div PageHeaders,
                       Covered(later)'
                PROVE  FALSE
    BY DEF NoneLost
  <2>1. PICK a \in DOMAIN size' : a <= later /\ later < a + size'[a]
    BY DEF Covered, Covers
  <2>2. CASE unit < heap_break
    <3>1. unit \in 0 .. heap_break - 1 /\ unit \in Nat /\ later \in Nat
      BY <1>2, <1>3, <1>4, <2>2
    <3>2. ~Covered(unit)
      BY <1>4 DEF Covered, Covers
    <3>3. later < heap_break
      BY <3>1, <2>2, SamePage DEF IInv, BreakIsPage
    <3>4. a # heap_break
      BY <2>1, <3>1, <3>3, <1>3
    <3>5. Covered(later)
      BY <1>4, <2>1, <3>4 DEF Covered, Covers
    <3>6. later \in unit .. heap_break - 1
      BY <1>3, <3>1, <3>3
    <3>. QED
      BY <3>1, <3>2, <3>5, <3>6 DEF IInv, NoneLost
  <2>3. CASE unit >= heap_break
    \* Behind the break there is only the new block, from its beginning.
    <3>0. unit \in Nat /\ later \in Nat /\ unit <= later
      BY <1>2, <1>3, <1>4
    <3>1. a = heap_break
      <4>1. ASSUME a \in DOMAIN size PROVE FALSE
        <5>1. a + size[a] <= heap_break
          BY <4>1, <1>3 DEF IInv, Disjoint, Base
        <5>. QED
          BY <1>3, <1>4, <2>1, <2>3, <3>0, <4>1, <5>1, BlockAddresses DEF IInv
      <4>. QED BY <4>1, <1>4
    <3>2. heap_break <= unit /\ unit < heap_break + size'[heap_break]
      BY <1>2, <1>3, <1>4, <2>1, <2>3, <3>0, <3>1
    <3>3. heap_break \in DOMAIN size'
      BY <1>4
    <3>. QED
      BY <3>2, <3>3 DEF Covered, Covers
  <2>. QED
    BY <2>2, <2>3, <1>2, <1>3, <1>4
<1>10. BreakIsPage'
  <2>1. PICK pages \in Nat : heap_break = pages * PageHeaders
    BY DEF IInv, BreakIsPage
  <2>2. heap_break' = (pages + MorePages) * PageHeaders /\ pages + MorePages \in Nat
    BY <1>2, <1>4, <2>1, SumTimes, HeaderAssumption
  <2>3. heap_break' \in 0 .. HeapEnd
    <3>1. heap_break \in 0 .. HeapEnd /\ HeapEnd \in Nat
      BY WordFacts DEF IInv, BreakIsPage
    <3>2. PagesLeft \in Nat /\ PagesLeft * PageHeaders <= HeapEnd - heap_break
      BY <3>1, Quotient, WordFacts, HeapEnd - heap_break \in Nat DEF PagesLeft
    <3>3. MorePages <= PagesLeft
      BY <1>2, <3>2 DEF Grow
    <3>4. PagesLeft * PageHeaders \in Nat /\ MorePages * PageHeaders <= PagesLeft * PageHeaders
      BY <1>2, <3>2, <3>3, ProductMonotone, WordFacts
    <3>. QED
      BY <1>2, <1>4, <3>1, <3>2, <3>4
  <2>4. frames' \in Nat
    BY <1>2 DEF Grow, IInv, BreakIsPage
  <2>. QED
    BY <2>2, <2>3, <2>4 DEF BreakIsPage
<1>11. /\ grown \in Nat /\ grown' = grown + 1
       /\ NeverServed(request) \/ (grown <= 1 /\ (grown = 1 => FitsAt(next[free_headers_head])))
  BY <1>1 DEF Grow, IInv, CallInv, Growing, GrowthHelps
<1>12. CallInv'
  BY <1>1, <1>4, <1>11 DEF IInv, CallInv, RingIsClosed, NeverServed
<1>13. Growing'
  <2>1. next[free_headers_head] \in DOMAIN size /\ DOMAIN next \subseteq DOMAIN size
    BY DEF IInv, RingIsClosed
  <2>2. HeadersFor(request') = HeadersFor(request)
    BY <1>4
  <2>3. NeverServed(request') \/ GrowthHelps'
    BY <1>2, <1>4, <1>11, <2>1, <2>2 DEF GrowthHelps, FitsAt, NeverServed
  <2>4. \A b \in DOMAIN next' : b < block'
    BY <1>3, <1>4, <2>1
  <2>. QED
    BY <1>1, <1>4, <2>3, <2>4 DEF Growing
<1>. QED
  BY <1>5, <1>6, <1>7, <1>8, <1>9, <1>10, <1>12, <1>13 DEF IInv

-----------------------------------------------------------------------------
(* Taking a block from the ring.                                            *)

\* Cutting or joining blocks keeps NoneLost as long as they cover the same memory.
LEMMA SameCover ==
    ASSUME NoneLost, UNCHANGED heap_break, \A unit \in Nat : Covered(unit)' <=> Covered(unit),
           heap_break \in Nat
    PROVE  NoneLost'
<1>. SUFFICES ASSUME NEW unit \in 0 .. heap_break - 1, ~Covered(unit)',
                     NEW later \in unit .. heap_break - 1,
                     later \div PageHeaders = unit \div PageHeaders
              PROVE  ~Covered(later)'
  BY DEF NoneLost
<1>1. unit \in Nat /\ later \in Nat
  OBVIOUS
<1>2. ~Covered(unit)
  BY <1>1
<1>3. ~Covered(later)
  BY <1>2 DEF NoneLost
<1>. QED
  BY <1>1, <1>3

\* Only the base follows a block from above, and each block follows one other.
LEMMA NextIsAbove ==
    ASSUME RingIsClosed, InOrder, Disjoint
    PROVE  /\ \A a \in DOMAIN next : a \in Int /\ next[a] \in Int
           /\ \A a \in DOMAIN next : next[a] # Base => a < next[a]
           /\ \A a, b \in DOMAIN next : next[a] = next[b] /\ next[a] # Base => a = b
<1>1. \A a \in DOMAIN next : a \in Int /\ next[a] \in Int
  BY BlockAddresses DEF RingIsClosed
<1>2. \A a \in DOMAIN next : next[a] # Base => a < next[a]
  BY <1>1 DEF InOrder
<1>3. \A a, b \in DOMAIN next : next[a] = next[b] /\ next[a] # Base => a = b
  BY <1>1, <1>2 DEF InOrder
<1>. QED
  BY <1>1, <1>2, <1>3

LEMMA TakeFacts ==
    ASSUME IInv, Take
    PROVE  /\ request \in Sizes /\ previous_header \in DOMAIN next
           /\ current_header = next[previous_header] /\ current_header \in DOMAIN next
           /\ current_header \in DOMAIN size \ {Base} /\ current_header \in Nat
           /\ HeadersFor(request) \in Nat /\ HeadersFor(request) >= 1
           /\ Oversized(request) \/ request <= (HeadersFor(request) - 1) * HeaderSize
           /\ size[current_header] \in Nat /\ size[current_header] >= HeadersFor(request)
           /\ pc = "search" /\ heap_break \in Nat
<1>1. /\ request \in Sizes /\ previous_header \in DOMAIN next
      /\ current_header = next[previous_header] /\ current_header \in DOMAIN next
      /\ current_header \in DOMAIN size /\ pc = "search"
      /\ size[current_header] >= HeadersFor(request)
      /\ heap_break \in Nat
  BY DEF Take, Fits, IInv, CallInv, RingIsClosed, BreakIsPage
<1>2. /\ HeadersFor(request) \in Nat /\ HeadersFor(request) >= 1
      /\ Oversized(request) \/ request <= (HeadersFor(request) - 1) * HeaderSize
  BY <1>1, HeadersForFacts
<1>3. current_header # Base
  BY <1>1, <1>2 DEF IInv, Disjoint
<1>. QED
  BY <1>1, <1>2, <1>3 DEF IInv, Disjoint

\* The block is as large as the request: it is unlinked.
LEMMA UnlinkIInv ==
    ASSUME IInv, Take, size[current_header] = HeadersFor(request)
    PROVE  IInv'
<1>. DEFINE c == current_header
            p == previous_header
<1>1. /\ request \in Sizes /\ p \in DOMAIN next /\ c = next[p] /\ c \in DOMAIN next
      /\ c \in DOMAIN size /\ c # Base /\ c \in Nat
      /\ Oversized(request) \/ request <= (size[c] - 1) * HeaderSize
      /\ pc = "search"
  BY TakeFacts
<1>2. /\ DOMAIN next' = DOMAIN next \ {c}
      /\ \A a \in DOMAIN next \ {c} : next'[a] = IF a = p THEN next[c] ELSE next[a]
      /\ UNCHANGED <<size, heap_break, frames>> /\ free_headers_head' = p
      /\ DOMAIN held' = DOMAIN held \cup {c}
      /\ held'[c] = request /\ \A a \in DOMAIN held \ {c} : held'[a] = held[a]
      /\ Return
  BY DEF Take
<1>3. /\ \A a \in DOMAIN next : a \in Int /\ next[a] \in Int
      /\ \A a \in DOMAIN next : next[a] # Base => a < next[a]
      /\ \A a, b \in DOMAIN next : next[a] = next[b] /\ next[a] # Base => a = b
  BY NextIsAbove DEF IInv
<1>. HIDE DEF c, p
<1>4. p < c /\ p # c /\ next[c] # c
  BY <1>1, <1>3
<1>5. RingIsClosed'
  BY <1>1, <1>2, <1>3, <1>4 DEF IInv, RingIsClosed
<1>6. InOrder'
  <2>1. ASSUME NEW a \in DOMAIN next', NEW b \in DOMAIN next' PROVE ~(a < b /\ b < next'[a])
    BY <1>1, <1>2, <1>3, <1>4 DEF IInv, InOrder
  <2>2. ASSUME NEW a \in DOMAIN next', next'[a] <= a
        PROVE  next'[a] = Base /\ \A b \in DOMAIN next' : b <= a
    <3>1. CASE a = p
      <4>1. next[c] <= c
        BY <1>1, <1>2, <1>3, <1>4, <2>2, <3>1
      <4>2. next[c] = Base /\ \A b \in DOMAIN next : b <= c
        BY <4>1, <1>1 DEF IInv, InOrder
      <4>3. \A b \in DOMAIN next : ~(p < b /\ b < c)
        BY <1>1 DEF IInv, InOrder
      <4>. QED
        BY <4>2, <4>3, <1>1, <1>2, <1>3, <1>4, <3>1
    <3>2. CASE a # p
      BY <1>2, <2>2, <3>2 DEF IInv, InOrder
    <3>. QED
      BY <3>1, <3>2
  <2>. QED
    BY <2>1, <2>2 DEF InOrder
<1>7. Merged'
  BY <1>2 DEF IInv, Merged
<1>8. Disjoint' /\ NoneLost'
  BY <1>2, SameBlocks DEF IInv
<1>9. Owned'
  <2>1. c \notin DOMAIN held
    BY <1>1 DEF IInv, Owned
  <2>. QED
    BY <1>1, <1>2, <2>1 DEF IInv, Owned, Return
<1>10. BreakIsPage'
  BY <1>2 DEF IInv, BreakIsPage
<1>11. CallInv' /\ Growing'
  BY <1>2, ReturnCall
<1>. QED
  BY <1>5, <1>6, <1>7, <1>8, <1>9, <1>10, <1>11 DEF IInv

\* The block is larger: its end is cut off and the ring stays as it is.
LEMMA CutIInv ==
    ASSUME IInv, Take, size[current_header] # HeadersFor(request)
    PROVE  IInv'
<1>. DEFINE c == current_header
            h == HeadersFor(request)
            t == c + size[c] - h
<1>1. /\ request \in Sizes /\ c \in DOMAIN next /\ previous_header \in DOMAIN next
      /\ c \in DOMAIN size \ {Base} /\ c \in Nat
      /\ h \in Nat /\ h >= 1 /\ (Oversized(request) \/ request <= (h - 1) * HeaderSize)
      /\ size[c] \in Nat /\ size[c] > h
      /\ pc = "search" /\ heap_break \in Nat
  BY TakeFacts
<1>2. t \in Nat /\ c < t /\ t < c + size[c] /\ t + h = c + size[c] /\ c + (size[c] - h) = t /\ t # Base
  BY <1>1 DEF Base
<1>3. /\ DOMAIN size' = DOMAIN size \cup {t}
      /\ size'[t] = h /\ size'[c] = size[c] - h
      /\ \A a \in DOMAIN size \ {c, t} : size'[a] = size[a]
      /\ UNCHANGED <<next, heap_break, frames>> /\ free_headers_head' = previous_header
      /\ DOMAIN held' = DOMAIN held \cup {t}
      /\ held'[t] = request /\ \A a \in DOMAIN held \ {t} : held'[a] = held[a]
      /\ Return
  BY <1>1, <1>2 DEF Take
<1>. HIDE DEF c, h, t, Base
<1>4. t \notin DOMAIN size
  BY <1>1, <1>2 DEF IInv, Disjoint
<1>5. RingIsClosed' /\ InOrder'
  BY <1>1, <1>3 DEF IInv, RingIsClosed, InOrder
<1>6. Disjoint'
  <2>1. Base \in DOMAIN size' /\ size'[Base] = 0
    BY <1>1, <1>2, <1>3 DEF IInv, Disjoint
  <2>2. \A a \in DOMAIN size' \ {Base} :
            a \in Nat /\ size'[a] \in Nat \ {0} /\ a + size'[a] <= heap_break'
    BY <1>1, <1>2, <1>3 DEF IInv, Disjoint
  <2>3. ASSUME NEW a \in DOMAIN size' \ {Base}, NEW b \in DOMAIN size' \ {Base}, a < b
        PROVE  a + size'[a] <= b
    <3>1. /\ a \in DOMAIN size => a \in Nat /\ size[a] \in Nat
          /\ b \in DOMAIN size => b \in Nat /\ size[b] \in Nat
          /\ a \in DOMAIN size /\ b \in DOMAIN size => a + size[a] <= b
          /\ a \in DOMAIN size /\ a < c => a + size[a] <= c
          /\ b \in DOMAIN size /\ c < b => c + size[c] <= b
          /\ a \in DOMAIN size /\ c < a => c + size[c] <= a
      BY <1>1, <2>3 DEF IInv, Disjoint
    <3>2. CASE a = t
      BY <1>1, <1>2, <1>3, <2>3, <3>1, <3>2
    <3>3. CASE b = t
      BY <1>1, <1>2, <1>3, <2>3, <3>1, <3>3
    <3>4. CASE a # t /\ b # t
      BY <1>1, <1>2, <1>3, <2>3, <3>1, <3>4
    <3>. QED
      BY <3>2, <3>3, <3>4
  <2>. QED
    BY <2>1, <2>2, <2>3 DEF Disjoint
<1>7. Owned'
  <2>1. t \notin DOMAIN held /\ t \notin DOMAIN next /\ c \notin DOMAIN held
    BY <1>1, <1>4 DEF IInv, Owned
  <2>. QED
    BY <1>1, <1>3, <2>1 DEF IInv, Owned, Return
<1>8. Merged'
  <2>. SUFFICES ASSUME NEW a \in DOMAIN next \ {Base}
                PROVE  a + size'[a] \notin DOMAIN next
    BY <1>3 DEF Merged
  <2>1. a \in DOMAIN size /\ t \notin DOMAIN next
    BY <1>4 DEF IInv, RingIsClosed
  <2>2. CASE a = c
    BY <1>2, <1>3, <2>1, <2>2
  <2>3. CASE a # c
    BY <1>3, <1>4, <2>1, <2>3 DEF IInv, Merged
  <2>. QED
    BY <2>2, <2>3
<1>9. NoneLost'
  <2>1. ASSUME NEW unit \in Nat PROVE Covered(unit)' <=> Covered(unit)
    <3>1. ASSUME Covered(unit) PROVE Covered(unit)'
      <4>1. PICK a \in DOMAIN size : a <= unit /\ unit < a + size[a]
        BY <3>1 DEF Covered, Covers
      <4>2. CASE a = c
        <5>1. \/ c <= unit /\ unit < c + size'[c]
              \/ t <= unit /\ unit < t + size'[t]
          BY <1>1, <1>2, <1>3, <4>1, <4>2
        <5>. QED
          BY <5>1, <1>1, <1>3 DEF Covered, Covers
      <4>3. CASE a # c
        BY <1>3, <1>4, <4>1, <4>3 DEF Covered, Covers
      <4>. QED
        BY <4>2, <4>3
    <3>2. ASSUME Covered(unit)' PROVE Covered(unit)
      <4>1. PICK a \in DOMAIN size' : a <= unit /\ unit < a + size'[a]
        BY <3>2 DEF Covered, Covers
      <4>2. CASE a = c \/ a = t
        <5>1. c <= unit /\ unit < c + size[c]
          BY <1>1, <1>2, <1>3, <4>1, <4>2
        <5>. QED
          BY <5>1, <1>1 DEF Covered, Covers
      <4>3. CASE a # c /\ a # t
        BY <1>3, <4>1, <4>3 DEF Covered, Covers
      <4>. QED
        BY <4>2, <4>3
    <3>. QED
      BY <3>1, <3>2
  <2>. QED
    BY <1>1, <1>3, <2>1, SameCover DEF IInv
<1>10. BreakIsPage'
  BY <1>3 DEF IInv, BreakIsPage
<1>11. CallInv' /\ Growing'
  BY <1>3, ReturnCall
<1>. QED
  BY <1>5, <1>6, <1>7, <1>8, <1>9, <1>10, <1>11 DEF IInv

LEMMA TakeIInv == ASSUME IInv, Take PROVE IInv'
BY UnlinkIInv, CutIInv

-----------------------------------------------------------------------------
(* Giving a block back to the ring.                                         *)

\* Where free stops: the block lies behind location and before its successor, and
\* there is no free block between the two.  The base joins with neither side.
LEMMA PlaceFacts ==
    ASSUME IInv, Place
    PROVE  /\ pc = "place" /\ heap_break \in Nat
           /\ block \in DOMAIN size \ {Base} /\ block \in Nat /\ block \notin DOMAIN next
           /\ block \notin DOMAIN held
           /\ location \in DOMAIN next /\ next[location] \in DOMAIN next
           /\ location < block
           /\ next[location] = Base \/ block < next[location]
           /\ \A x \in DOMAIN next : x <= location \/ (next[location] # Base /\ next[location] <= x)
           /\ \A x \in DOMAIN next : x <= location \/ block < x
           /\ JoinsNext => next[location] # Base
           /\ JoinsPrevious => location # Base
<1>. DEFINE l == location
            b == block
            n == next[location]
<1>1. /\ pc = "place" /\ heap_break \in Nat /\ b \in DOMAIN size /\ b \notin DOMAIN next
      /\ b \notin DOMAIN held /\ b # Base /\ l \in DOMAIN next /\ n \in DOMAIN next
      /\ l \in DOMAIN size /\ n \in DOMAIN size
  BY DEF Place, IInv, Owned, CallInv, RingIsClosed, BreakIsPage
<1>2. /\ b \in Nat /\ size[b] \in Nat \ {0} /\ size[Base] = 0
      /\ l \in Int /\ n \in Int /\ Base = -2 /\ Base <= n
      /\ \A x \in DOMAIN next : x \in Int
  BY <1>1, BlockAddresses DEF IInv, Disjoint, RingIsClosed
<1>3. PlacedHere
  BY DEF Place
<1>4. \A x \in DOMAIN next : ~(l < x /\ x < n)
  BY <1>1 DEF IInv, InOrder
<1>5. n <= l => n = Base /\ \A x \in DOMAIN next : x <= l
  BY <1>1 DEF IInv, InOrder
<1>6. /\ l < b
      /\ (b < n) \/ (n = Base /\ \A x \in DOMAIN next : x <= l)
  BY <1>2, <1>3, <1>5 DEF PlacedHere
<1>7. \A x \in DOMAIN next : x <= l \/ (n # Base /\ n <= x)
  BY <1>2, <1>4, <1>6
<1>8. \A x \in DOMAIN next : x <= l \/ b < x
  BY <1>2, <1>6, <1>7
<1>9. (JoinsNext => n # Base) /\ (JoinsPrevious => l # Base)
  BY <1>2 DEF JoinsNext, JoinsPrevious
<1>. QED
  BY <1>1, <1>2, <1>6, <1>7, <1>8, <1>9

\* The ring and the blocks after the step, field by field.
LEMMA PlaceFields ==
    ASSUME IInv, Place, NEW n, n = next[location], NEW newSize, NEW newNext,
           newSize = IF JoinsNext THEN size[block] + size[n] ELSE size[block],
           newNext = IF JoinsNext THEN next[n] ELSE n
    PROVE  /\ DOMAIN size' = {a \in DOMAIN size : ~(JoinsNext /\ a = n) /\ ~(JoinsPrevious /\ a = block)}
           /\ DOMAIN next' = {a \in DOMAIN next \cup {block} : ~(JoinsNext /\ a = n) /\ ~(JoinsPrevious /\ a = block)}
           /\ location \in DOMAIN next'
           /\ \A a \in DOMAIN size' \ {location, block} : size'[a] = size[a]
           /\ \A a \in DOMAIN next' \ {location, block} : next'[a] = next[a]
           /\ JoinsPrevious => size'[location] = size[location] + newSize /\ next'[location] = newNext
           /\ ~JoinsPrevious =>
                /\ size'[location] = size[location] /\ next'[location] = block
                /\ block \in DOMAIN next' /\ size'[block] = newSize /\ next'[block] = newNext
<1>1. /\ block \in DOMAIN size /\ location \in DOMAIN next /\ location \in DOMAIN size
      /\ location # block /\ (JoinsNext => n # location) /\ (JoinsNext => n # block)
  <2>1. /\ location < block /\ location \in Int /\ block \in Nat /\ block \in DOMAIN size
        /\ location \in DOMAIN next /\ location \in DOMAIN size
        /\ JoinsNext => block < n /\ n \in Int
    BY PlaceFacts, NextIsAbove DEF IInv, RingIsClosed
  <2>. QED BY <2>1
<1>2. /\ DOMAIN size' = DOMAIN size \ ((IF JoinsNext THEN {n} ELSE {}) \cup (IF JoinsPrevious THEN {block} ELSE {}))
      /\ DOMAIN next' = (DOMAIN next \cup {block}) \ ((IF JoinsNext THEN {n} ELSE {}) \cup (IF JoinsPrevious THEN {block} ELSE {}))
      /\ \A a \in DOMAIN size' : size'[a] =
             CASE a = location /\ JoinsPrevious -> size[location] + newSize
               [] a = block -> newSize
               [] OTHER -> size[a]
      /\ \A a \in DOMAIN next' : next'[a] =
             CASE a = location -> IF JoinsPrevious THEN newNext ELSE block
               [] a = block -> newNext
               [] OTHER -> next[a]
  BY DEF Place
<1>. HIDE DEF JoinsNext, JoinsPrevious
<1>3. location \in DOMAIN next' /\ location \in DOMAIN size'
  BY <1>1, <1>2
<1>4. /\ \A a \in DOMAIN size' \ {location, block} : size'[a] = size[a]
      /\ \A a \in DOMAIN next' \ {location, block} : next'[a] = next[a]
  BY <1>2
<1>5. JoinsPrevious => size'[location] = size[location] + newSize /\ next'[location] = newNext
  BY <1>2, <1>3
<1>6. ~JoinsPrevious =>
        /\ size'[location] = size[location] /\ next'[location] = block
        /\ block \in DOMAIN next' /\ size'[block] = newSize /\ next'[block] = newNext
  BY <1>1, <1>2, <1>3
<1>7. /\ DOMAIN size' = {a \in DOMAIN size : ~(JoinsNext /\ a = n) /\ ~(JoinsPrevious /\ a = block)}
      /\ DOMAIN next' = {a \in DOMAIN next \cup {block} : ~(JoinsNext /\ a = n) /\ ~(JoinsPrevious /\ a = block)}
  BY <1>2
<1>. QED
  BY <1>3, <1>4, <1>5, <1>6, <1>7

\* The ring with the block in it is closed and in order.
LEMMA PlaceRing ==
    ASSUME IInv, Place
    PROVE  RingIsClosed' /\ InOrder'
<1>. DEFINE l == location
            b == block
            n == next[location]
            newSize == IF JoinsNext THEN size[b] + size[n] ELSE size[b]
            newNext == IF JoinsNext THEN next[n] ELSE n
<1>1. /\ b \in DOMAIN size \ {Base} /\ b \in Nat /\ b \notin DOMAIN next
      /\ l \in DOMAIN next /\ n \in DOMAIN next
      /\ l < b /\ (n = Base \/ b < n)
      /\ \A x \in DOMAIN next : x <= l \/ (n # Base /\ n <= x)
      /\ \A x \in DOMAIN next : x <= l \/ b < x
      /\ JoinsNext => n # Base
      /\ JoinsPrevious => l # Base
  BY PlaceFacts
<1>2. /\ DOMAIN size' = {a \in DOMAIN size : ~(JoinsNext /\ a = n) /\ ~(JoinsPrevious /\ a = b)}
      /\ DOMAIN next' = {a \in DOMAIN next \cup {b} : ~(JoinsNext /\ a = n) /\ ~(JoinsPrevious /\ a = b)}
      /\ l \in DOMAIN next'
      /\ \A a \in DOMAIN next' \ {l, b} : next'[a] = next[a]
      /\ JoinsPrevious => next'[l] = newNext
      /\ ~JoinsPrevious => next'[l] = b /\ b \in DOMAIN next' /\ next'[b] = newNext
  BY PlaceFields
<1>3. /\ \A a \in DOMAIN next : a \in Int /\ next[a] \in Int
      /\ \A a \in DOMAIN next : next[a] # Base => a < next[a]
      /\ \A a, c \in DOMAIN next : next[a] = next[c] /\ next[a] # Base => a = c
  BY NextIsAbove DEF IInv
<1>4. /\ Base \in DOMAIN next /\ DOMAIN next \subseteq DOMAIN size
      /\ \A a \in DOMAIN next : next[a] \in DOMAIN next
      /\ \A a, x \in DOMAIN next : ~(a < x /\ x < next[a])
      /\ \A a \in DOMAIN next : next[a] <= a => next[a] = Base /\ \A x \in DOMAIN next : x <= a
      /\ Base = -2
      /\ free_headers_head' = l
  BY DEF IInv, RingIsClosed, InOrder, Place, Base
<1>5. newNext \in DOMAIN next /\ (JoinsNext => newNext # n) /\ newNext # b
  BY <1>1, <1>3, <1>4
\* The part above the block: newNext is the nearest free block above it.
<1>6. /\ \A x \in DOMAIN next : (JoinsNext => x # n) => ~(l < x /\ x < newNext)
      /\ newNext <= b => newNext = Base /\ \A x \in DOMAIN next : (JoinsNext => x # n) => x <= l
  <2>1. CASE JoinsNext
    <3>1. newNext = next[n]
      BY <2>1
    <3>. HIDE DEF newNext
    <3>2. ASSUME NEW x \in DOMAIN next, x # n PROVE ~(l < x /\ x < newNext)
      BY <1>1, <1>3, <1>4, <2>1, <3>1, <3>2
    <3>3. ASSUME newNext <= b PROVE newNext = Base /\ \A x \in DOMAIN next : x # n => x <= l
      <4>1. next[n] <= n
        BY <1>1, <1>3, <1>4, <2>1, <3>1, <3>3
      <4>2. newNext = Base /\ \A x \in DOMAIN next : x <= n
        BY <1>1, <1>4, <4>1, <3>1
      <4>. QED BY <1>1, <1>3, <4>2
    <3>. QED BY <2>1, <3>2, <3>3
  <2>2. CASE ~JoinsNext
    <3>1. newNext = n
      BY <2>2
    <3>. HIDE DEF newNext
    <3>2. \A x \in DOMAIN next : ~(l < x /\ x < newNext)
      BY <1>1, <1>3, <1>4, <3>1
    <3>3. newNext <= b => newNext = Base /\ \A x \in DOMAIN next : x <= l
      BY <1>1, <1>3, <1>4, <3>1
    <3>. QED BY <2>2, <3>2, <3>3
  <2>. QED BY <2>1, <2>2
<1>. HIDE DEF l, b, n, newSize, newNext, JoinsNext, JoinsPrevious, Base
<1>7. RingIsClosed'
  <2>1. Base \in DOMAIN next' /\ DOMAIN next' \subseteq DOMAIN size'
    BY <1>1, <1>2, <1>4
  <2>2. newNext \in DOMAIN next'
    BY <1>1, <1>2, <1>5
  <2>3. \A a \in DOMAIN next' : next'[a] \in DOMAIN next'
    <3>. SUFFICES ASSUME NEW a \in DOMAIN next' PROVE next'[a] \in DOMAIN next'
      OBVIOUS
    <3>1. CASE a = l \/ a = b
      BY <1>2, <2>2, <3>1
    <3>2. CASE a # l /\ a # b
      <4>1. a \in DOMAIN next /\ next'[a] = next[a] /\ next[a] \in DOMAIN next
        BY <1>2, <1>4, <3>2
      <4>2. JoinsNext => next[a] # n
        BY <1>1, <1>3, <4>1, <3>2 DEF n, l
      <4>. QED BY <1>1, <1>2, <4>1, <4>2
    <3>. QED BY <3>1, <3>2
  <2>. QED BY <1>2, <1>4, <2>1, <2>3 DEF RingIsClosed
<1>8. InOrder'
  <2>. SUFFICES ASSUME NEW a \in DOMAIN next'
                PROVE  /\ \A x \in DOMAIN next' : ~(a < x /\ x < next'[a])
                       /\ next'[a] <= a => next'[a] = Base /\ \A x \in DOMAIN next' : x <= a
    BY DEF InOrder
  <2>1. CASE a # l /\ a # b
    <3>1. a \in DOMAIN next /\ next'[a] = next[a] /\ next[a] \in Int /\ a \in Int /\ l \in Int
      BY <1>1, <1>2, <1>3, <2>1
    <3>2. ~(a < b /\ b < next[a])
      BY <1>1, <1>4, <2>1, <3>1
    <3>3. next[a] <= a => b <= a
      BY <1>1, <1>4, <2>1, <3>1
    <3>. QED
      BY <1>1, <1>2, <1>4, <3>1, <3>2, <3>3
  <2>2. CASE a = b
    <3>1. ~JoinsPrevious /\ next'[b] = newNext
      BY <1>2, <2>2
    <3>. QED
      BY <1>1, <1>2, <1>3, <1>5, <1>6, <2>2, <3>1
  <2>3. CASE a = l /\ JoinsPrevious
    <3>1. next'[l] = newNext
      BY <1>2, <2>3
    <3>. QED
      BY <1>1, <1>2, <1>3, <1>5, <1>6, <2>3, <3>1
  <2>4. CASE a = l /\ ~JoinsPrevious
    <3>1. next'[l] = b
      BY <1>2, <2>4
    <3>. QED
      BY <1>1, <1>2, <1>3, <2>4, <3>1
  <2>. QED
    BY <2>1, <2>2, <2>3, <2>4
<1>. QED
  BY <1>7, <1>8

\* The block with its neighbours is one block of the heap, apart from all others.
LEMMA PlaceBlocks ==
    ASSUME IInv, Place
    PROVE  Disjoint' /\ Merged' /\ NoneLost'
<1>. DEFINE l == location
            b == block
            n == next[location]
            newSize == IF JoinsNext THEN size[b] + size[n] ELSE size[b]
            newNext == IF JoinsNext THEN next[n] ELSE n
            end == b + newSize
<1>1. /\ b \in DOMAIN size \ {Base} /\ b \in Nat /\ b \notin DOMAIN next
      /\ l \in DOMAIN next /\ n \in DOMAIN next /\ l \in DOMAIN size /\ n \in DOMAIN size
      /\ l < b /\ (n = Base \/ b < n)
      /\ \A x \in DOMAIN next : x <= l \/ (n # Base /\ n <= x)
      /\ \A x \in DOMAIN next : x <= l \/ b < x
      /\ JoinsNext => n # Base
      /\ JoinsPrevious => l # Base
      /\ heap_break \in Nat
  BY PlaceFacts DEF IInv, RingIsClosed
<1>2. /\ DOMAIN size' = {a \in DOMAIN size : ~(JoinsNext /\ a = n) /\ ~(JoinsPrevious /\ a = b)}
      /\ DOMAIN next' = {a \in DOMAIN next \cup {b} : ~(JoinsNext /\ a = n) /\ ~(JoinsPrevious /\ a = b)}
      /\ \A a \in DOMAIN size' \ {l, b} : size'[a] = size[a]
      /\ JoinsPrevious => size'[l] = size[l] + newSize
      /\ ~JoinsPrevious => size'[l] = size[l] /\ size'[b] = newSize
      /\ heap_break' = heap_break
  BY PlaceFields DEF Place
<1>3. /\ Base \in DOMAIN size /\ size[Base] = 0 /\ Base = -2
      /\ \A a \in DOMAIN size : a \in Int /\ size[a] \in Nat
      /\ \A a \in DOMAIN size \ {Base} : a \in Nat /\ size[a] \in Nat \ {0} /\ a + size[a] <= heap_break
      /\ \A a, x \in DOMAIN size \ {Base} : a < x => a + size[a] <= x
  BY DEF IInv, Disjoint, Base
<1>4. /\ JoinsNext => b + size[b] = n
      /\ JoinsPrevious => l + size[l] = b
  BY DEF JoinsNext, JoinsPrevious
<1>5. DOMAIN next \subseteq DOMAIN size
  BY DEF IInv, RingIsClosed
<1>6. /\ newSize \in Nat \ {0} /\ b + size[b] <= end
      /\ JoinsNext => end = n + size[n]
      /\ ~JoinsNext => end = b + size[b]
      /\ end <= heap_break
  BY <1>1, <1>3, <1>4
<1>7. l # b /\ (JoinsNext => n # l /\ n # b) /\ l \in DOMAIN size'
  BY <1>1, <1>2, <1>3
<1>. HIDE DEF l, b, n, newSize, newNext, JoinsNext, JoinsPrevious, Base
<1>8. JoinsPrevious => l + size'[l] = end
  BY <1>1, <1>2, <1>3, <1>4, <1>6
<1>9. ~JoinsPrevious => b + size'[b] = end
  BY <1>2
<1>10. end \in Nat
  BY <1>1, <1>6
<1>. HIDE DEF end
<1>11. ASSUME NEW x \in DOMAIN size' \ {Base}, b < x
       PROVE  end <= x
  <2>1. x \in DOMAIN size \ {Base} /\ x \in Nat /\ b + size[b] <= x
    BY <1>1, <1>2, <1>3, <1>11
  <2>2. CASE JoinsNext
    <3>1. n < x
      BY <1>2, <1>3, <1>4, <1>1, <2>1, <2>2
    <3>. QED BY <3>1, <1>1, <1>3, <1>6, <2>1, <2>2
  <2>3. CASE ~JoinsNext
    BY <1>6, <2>1, <2>3
  <2>. QED BY <2>2, <2>3
<1>12. Disjoint'
  <2>1. Base \in DOMAIN size' /\ size'[Base] = 0
    BY <1>1, <1>2, <1>3
  <2>2. ASSUME NEW a \in DOMAIN size' \ {Base}
        PROVE  /\ a \in Nat /\ size'[a] \in Nat \ {0} /\ a + size'[a] <= heap_break
               /\ \A x \in DOMAIN size' \ {Base} : a < x => a + size'[a] <= x
    <3>1. a \in DOMAIN size \ {Base} /\ a \in Nat
      BY <1>2, <1>3
    <3>2. CASE a = b
      BY <1>2, <1>6, <1>9, <1>11, <3>1, <3>2
    <3>3. CASE a = l /\ JoinsPrevious
      <4>1. size'[a] \in Nat \ {0} /\ a + size'[a] = end
        BY <1>2, <1>3, <1>6, <1>8, <3>1, <3>3
      <4>2. ASSUME NEW x \in DOMAIN size' \ {Base}, a < x PROVE end <= x
        <5>1. x \in DOMAIN size \ {Base} /\ x \in Nat /\ x # b /\ l + size[l] <= x
          BY <1>1, <1>2, <1>3, <3>1, <3>3, <4>2
        <5>2. b < x
          BY <1>1, <1>4, <3>3, <5>1
        <5>. QED BY <1>11, <5>2
      <4>. QED BY <1>6, <3>1, <4>1, <4>2
    <3>4. CASE a # b /\ ~(a = l /\ JoinsPrevious)
      <4>1. size'[a] = size[a]
        BY <1>2, <3>4
      <4>. QED BY <1>2, <1>3, <3>1, <4>1
    <3>. QED BY <3>2, <3>3, <3>4
  <2>. QED BY <1>2, <2>1, <2>2 DEF Disjoint
<1>13. Merged'
  <2>. SUFFICES ASSUME NEW a \in DOMAIN next' \ {Base}
                PROVE  a + size'[a] \notin DOMAIN next'
    BY DEF Merged
  <2>1. \A x \in DOMAIN next \ {Base} : x + size[x] \notin DOMAIN next
    BY DEF IInv, Merged
  <2>2. end \notin DOMAIN next'
    <3>1. end # b
      BY <1>1, <1>3, <1>6, <1>10
    <3>2. CASE JoinsNext
      BY <1>1, <1>2, <1>6, <2>1, <3>1, <3>2
    <3>3. CASE ~JoinsNext
      <4>. SUFFICES ASSUME end \in DOMAIN next PROVE FALSE
        BY <1>2, <3>1
      <4>1. b < end /\ end = b + size[b]
        BY <1>1, <1>3, <1>6, <1>10, <3>3
      <4>2. n # Base /\ n <= end
        BY <1>1, <1>3, <1>10, <4>1
      <4>3. end = n
        BY <1>1, <1>3, <1>10, <4>1, <4>2
      <4>. QED
        BY <4>1, <4>3, <3>3 DEF JoinsNext, n, b
    <3>. QED BY <3>2, <3>3
  <2>3. CASE a = b
    BY <1>2, <1>9, <2>2, <2>3
  <2>4. CASE a = l /\ JoinsPrevious
    BY <1>8, <2>2, <2>4
  <2>5. CASE a = l /\ ~JoinsPrevious
    <3>1. l + size[l] # b
      BY <2>5 DEF JoinsPrevious, l, b
    <3>. QED BY <1>1, <1>2, <2>1, <2>5, <3>1
  <2>6. CASE a # b /\ a # l
    <3>1. a \in DOMAIN next \ {Base} /\ a \in DOMAIN size /\ a \in DOMAIN size' /\ size'[a] = size[a]
      BY <1>2, <1>5, <2>6
    <3>2. a + size[a] # b
      <4>. SUFFICES ASSUME a + size[a] = b PROVE FALSE
        OBVIOUS
      <4>1. a < b /\ a \in Nat /\ size[a] \in Nat \ {0}
        BY <1>1, <1>3, <3>1
      <4>2. a < l
        BY <1>1, <1>3, <2>6, <3>1, <4>1
      <4>3. l # Base
        BY <1>3, <4>1, <4>2
      <4>. QED BY <1>1, <1>3, <3>1, <4>1, <4>2, <4>3
    <3>. QED BY <1>2, <2>1, <3>1, <3>2
  <2>. QED BY <2>3, <2>4, <2>5, <2>6
<1>14. NoneLost'
  <2>1. ASSUME NEW unit \in Nat PROVE Covered(unit)' <=> Covered(unit)
    \* The pieces of the new block are its parts.
    <3>1. ASSUME NEW a \in DOMAIN size, a <= unit, unit < a + size[a]
          PROVE  Covered(unit)'
      <4>1. CASE a = b \/ (JoinsNext /\ a = n) \/ (JoinsPrevious /\ a = l)
        <5>1. unit < end /\ (~JoinsPrevious => b <= unit) /\ (JoinsPrevious => l <= unit)
          BY <1>1, <1>3, <1>4, <1>6, <1>10, <3>1, <4>1
        <5>2. CASE JoinsPrevious
          BY <1>7, <1>8, <5>1, <5>2 DEF Covered, Covers
        <5>3. CASE ~JoinsPrevious
          <6>1. b \in DOMAIN size'
            BY <1>1, <1>2, <1>7, <5>3
          <6>. QED BY <1>9, <5>1, <5>3, <6>1 DEF Covered, Covers
        <5>. QED BY <5>2, <5>3
      <4>2. CASE ~(a = b \/ (JoinsNext /\ a = n) \/ (JoinsPrevious /\ a = l))
        <5>1. a \in DOMAIN size' /\ size'[a] = size[a]
          BY <1>2, <4>2
        <5>. QED BY <3>1, <5>1 DEF Covered, Covers
      <4>. QED BY <4>1, <4>2
    <3>2. ASSUME NEW a \in DOMAIN size', a <= unit, unit < a + size'[a]
          PROVE  Covered(unit)
      <4>1. CASE a = b \/ (a = l /\ JoinsPrevious)
        <5>1. unit < end /\ (~JoinsPrevious => b <= unit) /\ (JoinsPrevious => l <= unit)
          BY <1>1, <1>2, <1>3, <1>8, <1>9, <3>2, <4>1
        <5>2. \/ b <= unit /\ unit < b + size[b]
              \/ JoinsPrevious /\ l <= unit /\ unit < l + size[l]
              \/ JoinsNext /\ n <= unit /\ unit < n + size[n]
          BY <1>1, <1>3, <1>4, <1>6, <1>10, <5>1
        <5>. QED BY <1>1, <5>2 DEF Covered, Covers
      <4>2. CASE ~(a = b \/ (a = l /\ JoinsPrevious))
        <5>1. a \in DOMAIN size /\ size'[a] = size[a]
          BY <1>2, <4>2
        <5>. QED BY <3>2, <5>1 DEF Covered, Covers
      <4>. QED BY <4>1, <4>2
    <3>. QED BY <3>1, <3>2 DEF Covered, Covers
  <2>. QED BY <1>1, <1>2, <2>1, SameCover DEF IInv
<1>. QED
  BY <1>12, <1>13, <1>14

\* malloc goes on after it has grown the heap: from the old head, and near the new block.
LEMMA PlaceGrown ==
    ASSUME IInv, Place, grown > 0
    PROVE  CallInv' /\ Growing'
<1>. DEFINE l == location
            b == block
            n == next[location]
            c == current_header
<1>1. /\ b \in DOMAIN size \ {Base} /\ b \in Nat /\ b \notin DOMAIN next
      /\ l \in DOMAIN next /\ n \in DOMAIN next /\ l < b
      /\ n = Base \/ b < n
      /\ JoinsNext => n # Base
  BY PlaceFacts
<1>2. /\ request \in Sizes /\ c = free_headers_head /\ c \in DOMAIN next
      /\ \A x \in DOMAIN next : x < b
      /\ grown \in Nat /\ (NeverServed(request) \/ grown <= 2)
      /\ DOMAIN next \subseteq DOMAIN size /\ next[c] \in DOMAIN next
  BY <1>1, PlaceFacts DEF IInv, Growing, CallInv, RingIsClosed
<1>3. /\ \A a \in DOMAIN size : size[a] \in Nat /\ a \in Int
      /\ size[Base] = 0 /\ HeadersFor(request) \in Nat /\ HeadersFor(request) >= 1
  BY <1>2, BlockAddresses, HeadersForFacts DEF IInv, Disjoint
<1>4. n = Base /\ ~JoinsNext
  BY <1>1, <1>2, <1>3
<1>5. /\ DOMAIN size' = {a \in DOMAIN size : ~(JoinsPrevious /\ a = b)}
      /\ DOMAIN next' = {a \in DOMAIN next \cup {b} : ~(JoinsPrevious /\ a = b)}
      /\ l \in DOMAIN next'
      /\ \A a \in DOMAIN size' \ {l, b} : size'[a] = size[a]
      /\ \A a \in DOMAIN next' \ {l, b} : next'[a] = next[a]
      /\ JoinsPrevious => size'[l] = size[l] + size[b]
      /\ ~JoinsPrevious => size'[l] = size[l] /\ size'[b] = size[b] /\ next'[l] = b
  BY <1>4, PlaceFields
<1>6. /\ pc' = "search" /\ previous_header' = c /\ current_header' = next'[c]
      /\ free_headers_head' = l /\ UNCHANGED <<request, grown>>
  BY DEF Place, Resumed
<1>. HIDE DEF JoinsNext, JoinsPrevious
<1>7. c \in DOMAIN next'
  BY <1>1, <1>2, <1>5
<1>8. CallInv'
  BY <1>2, <1>6, <1>7 DEF CallInv, NeverServed
<1>9. HeadersFor(request') = HeadersFor(request)
  BY <1>6
<1>10. ASSUME ~NeverServed(request) PROVE GrowthHelps'
  <2>1. FitsAt(b) /\ grown \in 1 .. 2 /\ (grown = 2 => FitsAt(next[c]))
    BY <1>2, <1>10, PlaceFacts DEF IInv, Growing, GrowthHelps
  <2>2. grown = 1 => size'[l] >= HeadersFor(request) \/ size'[next'[l]] >= HeadersFor(request)
    BY <1>1, <1>2, <1>3, <1>5, <2>1 DEF FitsAt
  <2>3. grown = 2 => size'[next'[c]] >= HeadersFor(request)
    <3>. SUFFICES ASSUME grown = 2 PROVE size'[next'[c]] >= HeadersFor(request)
      OBVIOUS
    <3>1. c # l /\ c # b
      BY <1>1, <1>2, <1>3, <1>4, <2>1 DEF FitsAt
    <3>2. next'[c] = next[c] /\ next[c] # b /\ next[c] \in DOMAIN size'
      BY <1>1, <1>2, <1>5, <1>7, <3>1
    <3>3. size'[next[c]] >= size[next[c]]
      BY <1>1, <1>2, <1>3, <1>5, <3>2
    <3>. QED
      BY <1>1, <1>2, <1>3, <1>5, <2>1, <3>2, <3>3 DEF FitsAt
  <2>. QED
    BY <1>6, <1>9, <2>1, <2>2, <2>3 DEF GrowthHelps, FitsAt
<1>11. Growing'
  BY <1>6, <1>9, <1>10 DEF Growing, NeverServed
<1>. QED
  BY <1>8, <1>11

LEMMA PlaceIInv == ASSUME IInv, Place PROVE IInv'
<1>1. RingIsClosed' /\ InOrder'
  BY PlaceRing
<1>2. Disjoint' /\ Merged' /\ NoneLost'
  BY PlaceBlocks
<1>3. CallInv' /\ Growing'
  <2>1. CASE grown > 0
    BY <2>1, PlaceGrown
  <2>2. CASE ~(grown > 0)
    BY <2>2, ReturnCall DEF Place
  <2>. QED BY <2>1, <2>2
<1>4. BreakIsPage'
  BY DEF Place, IInv, BreakIsPage
<1>5. Owned'
  <2>. DEFINE n == next[location]
  <2>1. /\ pc = "place" /\ block \notin DOMAIN held /\ block \notin DOMAIN next
        /\ location \in DOMAIN next /\ n \in DOMAIN next /\ block \in DOMAIN size
    BY PlaceFacts
  <2>2. /\ DOMAIN size' = {a \in DOMAIN size : ~(JoinsNext /\ a = n) /\ ~(JoinsPrevious /\ a = block)}
        /\ DOMAIN next' = {a \in DOMAIN next \cup {block} : ~(JoinsNext /\ a = n) /\ ~(JoinsPrevious /\ a = block)}
        /\ \A a \in DOMAIN size' \ {location, block} : size'[a] = size[a]
    BY PlaceFields
  <2>3. held' = held /\ pc' # "place"
    BY DEF Place, Return
  <2>. HIDE DEF n, JoinsNext, JoinsPrevious
  <2>4. DOMAIN size = DOMAIN next \cup DOMAIN held \cup {block} /\ DOMAIN held \cap DOMAIN next = {}
    BY <2>1 DEF IInv, Owned
  <2>5. DOMAIN size' = DOMAIN next' \cup DOMAIN held /\ DOMAIN held \cap DOMAIN next' = {}
    BY <2>1, <2>2, <2>4
  <2>6. \A a \in DOMAIN held : size'[a] = size[a]
    BY <2>1, <2>2, <2>4
  <2>. QED
    BY <2>3, <2>5, <2>6 DEF IInv, Owned
<1>. QED
  BY <1>1, <1>2, <1>3, <1>4, <1>5 DEF IInv

-----------------------------------------------------------------------------
(* The theorems.                                                            *)

LEMMA NextIInv == IInv /\ [Next]_vars => IInv'
BY MallocIInv, FreeIInv, TakeIInv, AdvanceIInv, GrowIInv, GrowFailsIInv, GrowLeavesIInv,
   WalkIInv, PlaceIInv, StutterIInv DEF Next, Step

\* kernel_heap.c: what holds between any two steps of malloc and free, whoever calls them
\* and whatever runs out.
THEOREM Invariance == Spec => []IInv
BY InitIInv, NextIInv, PTL DEF Spec

\* kernel_heap.c: the free blocks form one ring in the order of addresses, no call leaves
\* it, and one malloc grows the heap at most twice, unless the growth wraps.
THEOREM HeapRingIsOrdered == Spec => []RingIsOrdered
<1>1. IInv => RingIsOrdered
  <2>. SUFFICES ASSUME IInv PROVE RingIsOrdered
    OBVIOUS
  <2>1. DOMAIN size \subseteq Headers /\ \A a \in DOMAIN size : size[a] \in 0 .. HeapEnd
    <3>. SUFFICES ASSUME NEW a \in DOMAIN size PROVE a \in Headers /\ size[a] \in 0 .. HeapEnd
      OBVIOUS
    <3>1. CASE a = Base
      BY <3>1, WordFacts DEF IInv, Disjoint, Headers
    <3>2. CASE a # Base
      <4>1. /\ a \in Nat /\ size[a] \in Nat \ {0} /\ a + size[a] <= heap_break
            /\ heap_break \in 0 .. HeapEnd
        BY <3>2 DEF IInv, Disjoint, BreakIsPage
      <4>. QED BY <4>1, WordFacts DEF Headers
    <3>. QED BY <3>1, <3>2
  <2>2. /\ DOMAIN next \subseteq DOMAIN size /\ \A a \in DOMAIN next : next[a] \in DOMAIN next
        /\ free_headers_head \in DOMAIN next
        /\ heap_break \in 0 .. HeapEnd /\ frames \in Nat
    BY DEF IInv, RingIsClosed, BreakIsPage
  <2>3. /\ DOMAIN held \subseteq DOMAIN size /\ \A a \in DOMAIN held : held[a] \in Sizes
        /\ pc = "place" => block \in DOMAIN size \ DOMAIN next
    BY DEF IInv, Owned
  <2>4. /\ pc \in {"idle", "search", "place", "outside"}
        /\ pc = "search" => previous_header \in DOMAIN next /\ current_header \in DOMAIN next
        /\ pc = "place" => location \in DOMAIN next
        /\ request \in Sizes \cup {0} /\ grown \in Nat
        /\ grown <= 2 \/ NeverServed(request)
        /\ SearchIsInStep
    BY <2>2 DEF IInv, CallInv, SearchIsInStep
  <2>5. TypeOK
    BY <2>1, <2>2, <2>3, <2>4 DEF TypeOK
  <2>. QED
    BY <2>4, <2>5 DEF IInv, InOrder, RingIsOrdered
<1>. QED
  BY <1>1, Invariance, PTL

\* kernel_heap.c: blocks never overlap, each is free, held or on its way back, a held block
\* has room for what was asked unless 32 bits could not round it up, and no memory is lost
\* but the ends of pages.
THEOREM HeapBlocksTile == Spec => []BlocksTile
<1>1. IInv => BlocksTile
  <2>. SUFFICES ASSUME IInv PROVE BlocksTile
    OBVIOUS
  <2>1. \A a \in DOMAIN next \ {Base} : a + size[a] \notin DOMAIN next
    BY DEF IInv, Merged
  <2>2. \A a \in DOMAIN size \ {Base} :
          /\ 0 <= a /\ a + size[a] <= heap_break
          /\ \A b \in DOMAIN size \ {Base} : a < b => a + size[a] <= b
    BY DEF IInv, Disjoint
  <2>3. /\ \A a \in DOMAIN held :
              a \notin DOMAIN next /\ (Oversized(held[a]) \/ held[a] <= (size[a] - 1) * HeaderSize)
        /\ DOMAIN size = DOMAIN next \cup DOMAIN held \cup (IF pc = "place" THEN {block} ELSE {})
    BY DEF IInv, Owned
  <2>4. \A unit \in 0 .. heap_break - 1 :
          (\A a \in DOMAIN size : ~Covers(a, unit)) =>
              \A later \in unit .. heap_break - 1 :
                  later \div PageHeaders = unit \div PageHeaders => \A a \in DOMAIN size : ~Covers(a, later)
    BY DEF IInv, NoneLost, Covered
  <2>. QED
    BY <2>1, <2>2, <2>3, <2>4 DEF BlocksTile
<1>. QED
  BY <1>1, Invariance, PTL

\* The bytes that a block of s headers at a gives its caller end before any address that
\* lies behind the block.
LEMMA BytesOfBlock ==
    ASSUME NEW a \in Nat, NEW s \in Nat \ {0}, NEW h \in Nat \ {0}, NEW e \in Nat,
           h <= (s - 1) * HeaderSize, a + s <= e
    PROVE  /\ (a + 1) * HeaderSize \in Nat /\ e * HeaderSize \in Nat
           /\ (a + 1) * HeaderSize + h - 1 < e * HeaderSize
           /\ (e + 1) * HeaderSize \in Nat /\ e * HeaderSize <= (e + 1) * HeaderSize
<1>1. HeaderSize \in Nat
  BY HeaderAssumption
<1>2. a + 1 \in Nat /\ s - 1 \in Nat /\ a + s \in Nat /\ e + 1 \in Nat /\ (a + 1) + (s - 1) = a + s
  OBVIOUS
<1>3. (a + s) * HeaderSize \in Nat /\ e * HeaderSize \in Nat /\ (a + s) * HeaderSize <= e * HeaderSize
  BY <1>1, <1>2, ProductMonotone
<1>4. (e + 1) * HeaderSize \in Nat /\ e * HeaderSize <= (e + 1) * HeaderSize
  BY <1>1, <1>2, ProductMonotone, e <= e + 1
<1>5. (a + 1) * HeaderSize \in Nat /\ (s - 1) * HeaderSize \in Nat
  BY <1>1, <1>2
<1>6. ((a + 1) + (s - 1)) * HeaderSize = (a + 1) * HeaderSize + (s - 1) * HeaderSize
  BY <1>1, <1>2, SumTimes
<1>. HIDE HeaderAssumption
<1>7. (a + s) * HeaderSize = (a + 1) * HeaderSize + (s - 1) * HeaderSize
  BY <1>2, <1>6
<1>. QED
  BY <1>3, <1>4, <1>5, <1>7

\* The bytes a caller holds are bytes of the heap, and no two callers hold the same.
LEMMA HeldBytes ==
    ASSUME NEW sz, NEW hd, NEW ids, NEW top \in Nat, top <= HeapEnd,
           \A a \in ids : /\ a \in DOMAIN sz /\ a \in Nat /\ sz[a] \in Nat \ {0}
                                /\ a + sz[a] <= top
                                /\ hd[a] \in Nat \ {0} /\ hd[a] <= (sz[a] - 1) * HeaderSize,
           \A a, b \in ids : a < b => a + sz[a] <= b
    PROVE  /\ \A a \in ids :
                 /\ (a + 1) * HeaderSize \in 0 .. HeapEnd * HeaderSize - 1
                 /\ (a + 1) * HeaderSize + hd[a] - 1 \in 0 .. HeapEnd * HeaderSize - 1
                 /\ (a + 1) * HeaderSize <= (a + 1) * HeaderSize + hd[a] - 1
           /\ \A a, b \in ids : a # b =>
                 ((a + 1) * HeaderSize .. (a + 1) * HeaderSize + hd[a] - 1)
                    \cap ((b + 1) * HeaderSize .. (b + 1) * HeaderSize + hd[b] - 1) = {}
<1>. DEFINE F(a) == (a + 1) * HeaderSize
            L(a) == (a + 1) * HeaderSize + hd[a] - 1
<1>1. ASSUME NEW a \in ids
      PROVE  F(a) \in Nat /\ hd[a] \in Nat \ {0} /\ HeapEnd * HeaderSize \in Nat /\ L(a) < HeapEnd * HeaderSize
  <2>1. HeapEnd \in Nat /\ a + sz[a] <= HeapEnd
    BY WordFacts
  <2>. QED
    BY <2>1, BytesOfBlock
<1>2. ASSUME NEW a \in ids, NEW b \in ids, a < b
      PROVE  L(a) < F(b)
  <2>1. /\ F(a) \in Nat /\ b * HeaderSize \in Nat /\ L(a) < b * HeaderSize
        /\ F(b) \in Nat /\ b * HeaderSize <= F(b)
    BY <1>2, BytesOfBlock
  <2>2. hd[a] \in Nat /\ L(a) = F(a) + hd[a] - 1
    OBVIOUS
  <2>. HIDE DEF F, L
  <2>3. L(a) \in Int
    BY <2>1, <2>2
  <2>. QED
    BY <2>1, <2>3
<1>3. \A a \in ids : L(a) = F(a) + hd[a] - 1 /\ a \in Nat
  OBVIOUS
<1>. HIDE DEF F, L
<1>4. \A a \in ids : /\ F(a) \in 0 .. HeapEnd * HeaderSize - 1
                           /\ L(a) \in 0 .. HeapEnd * HeaderSize - 1
                           /\ F(a) <= L(a)
  BY <1>1, <1>3
<1>5. ASSUME NEW a \in ids, NEW b \in ids, a # b
      PROVE  (F(a) .. L(a)) \cap (F(b) .. L(b)) = {}
  <2>1. a < b \/ b < a
    BY <1>3, <1>5
  <2>2. F(a) \in Int /\ L(a) \in Int /\ F(b) \in Int /\ L(b) \in Int
    BY <1>1, <1>3
  <2>3. L(a) < F(b) \/ L(b) < F(a)
    BY <1>2, <2>1
  <2>. QED
    BY <2>2, <2>3
<1>. QED
  BY <1>4, <1>5 DEF F, L

\* The held blocks whose bytes the abstract allocator hands out.
Rounded == {a \in DOMAIN held : ~Oversized(held[a])}

\* They are apart and have room for the bytes asked for.
HeldInv ==
    /\ heap_break \in Nat /\ heap_break <= HeapEnd
    /\ \A a \in Rounded : /\ a \in DOMAIN size /\ a \in Nat /\ size[a] \in Nat \ {0}
                          /\ a + size[a] <= heap_break
                          /\ held[a] \in Nat \ {0} /\ held[a] <= (size[a] - 1) * HeaderSize
    /\ \A a, b \in Rounded : a < b => a + size[a] <= b

LEMMA HeldBlocks == IInv => HeldInv
<1>. SUFFICES ASSUME IInv PROVE HeldInv
  OBVIOUS
<1>1. \A a \in DOMAIN held : a \in DOMAIN size \ {Base}
  BY DEF IInv, Owned, RingIsClosed
<1>2. /\ \A a \in DOMAIN held : a \in Nat /\ size[a] \in Nat \ {0} /\ a + size[a] <= heap_break
      /\ \A a, b \in DOMAIN held : a < b => a + size[a] <= b
  BY <1>1 DEF IInv, Disjoint
<1>3. heap_break \in Nat /\ heap_break <= HeapEnd
  BY WordFacts DEF IInv, BreakIsPage
<1>4. \A a \in Rounded : held[a] \in Nat \ {0} /\ held[a] <= (size[a] - 1) * HeaderSize
  <2>1. \A a \in Rounded : held[a] \in Sizes /\ held[a] <= (size[a] - 1) * HeaderSize
    BY DEF IInv, Owned, Rounded
  <2>2. Sizes \subseteq Nat \ {0}
    BY SizesAssumption, WordFacts
  <2>. QED BY <2>1, <2>2
<1>. QED
  BY <1>1, <1>2, <1>3, <1>4 DEF HeldInv, Rounded

\* A taken block was not held before.
LEMMA TakenIsNew ==
    ASSUME IInv, Take
    PROVE  \E t : /\ t \notin DOMAIN held
                  /\ DOMAIN held' = DOMAIN held \cup {t}
                  /\ \A a \in DOMAIN held : held'[a] = held[a]
<1>. DEFINE c == current_header
            h == HeadersFor(request)
            t == IF size[c] = h THEN c ELSE c + size[c] - h
<1>1. /\ c \in DOMAIN next /\ c \in DOMAIN size \ {Base} /\ c \in Nat
      /\ h \in Nat /\ h >= 1 /\ size[c] \in Nat /\ size[c] >= h
  BY TakeFacts
<1>2. /\ DOMAIN held' = DOMAIN held \cup {t}
      /\ \A a \in DOMAIN held \ {t} : held'[a] = held[a]
  BY DEF Take
<1>3. t \notin DOMAIN held
  <2>1. CASE size[c] = h
    BY <1>1, <2>1 DEF IInv, Owned
  <2>2. CASE size[c] # h
    <3>. HIDE DEF h, c
    <3>1. t \in Nat /\ c < t /\ t < c + size[c]
      BY <1>1, <2>2
    <3>. HIDE DEF t
    <3>2. t \notin DOMAIN size
      BY <1>1, <3>1 DEF IInv, Disjoint, Base
    <3>. QED
      BY <3>2 DEF IInv, Owned
  <2>. QED BY <2>1, <2>2
<1>. HIDE DEF t
<1>. QED
  BY <1>2, <1>3

\* kernel_heap.c implements the abstract allocator: what malloc returns is inside the heap
\* and apart from every block that is still held - but for the requests that 32 bits cannot
\* round up, of which it keeps a header and no byte.
THEOREM HeapIsAllocator == Spec => AllocatorSpec
<1>. DEFINE First(a) == (a + 1) * HeaderSize
            Bytes(a) == First(a) .. First(a) + held[a] - 1
            HeapBytes == 0 .. HeapEnd * HeaderSize - 1
            blocks == {Bytes(a) : a \in {h \in DOMAIN held : ~Oversized(held[h])}}
<1>1. Init => Blocks!Init
  BY DEF Init, Blocks!Init
<1>2. IInv /\ HeldInv /\ HeldInv' /\ [Next]_vars => [Blocks!Next]_blocks
  <2>. SUFFICES ASSUME IInv, HeldInv, HeldInv', [Next]_vars
                PROVE  [Blocks!Next]_blocks
    OBVIOUS
  <2>0. blocks = {Bytes(a) : a \in Rounded} /\ blocks' = {Bytes(a)' : a \in Rounded'}
    BY DEF Rounded
  <2>1. CASE Take
    <3>1. PICK t : /\ t \notin DOMAIN held
                   /\ DOMAIN held' = DOMAIN held \cup {t}
                   /\ \A a \in DOMAIN held : held'[a] = held[a]
      BY <2>1, TakenIsNew
    <3>2. /\ \A a \in Rounded' :
                 /\ First(a) \in HeapBytes
                 /\ First(a) + held'[a] - 1 \in HeapBytes
                 /\ First(a) <= First(a) + held'[a] - 1
          /\ \A a, b \in Rounded' : a # b => Bytes(a)' \cap Bytes(b)' = {}
      BY HeldBytes DEF HeldInv
    <3>. HIDE DEF First, HeapBytes
    <3>3. /\ \A a \in DOMAIN held : Bytes(a)' = Bytes(a)
          /\ t \notin Rounded
          /\ Rounded' = Rounded \cup (IF Oversized(held'[t]) THEN {} ELSE {t})
      BY <3>1 DEF Rounded
    <3>4. CASE Oversized(held'[t])
      <4>1. blocks' = blocks
        BY <2>0, <3>3, <3>4 DEF Rounded
      <4>. QED BY <4>1
    <3>5. CASE ~Oversized(held'[t])
      <4>1. Rounded' = Rounded \cup {t} /\ \A a \in Rounded : a # t /\ Bytes(a)' = Bytes(a)
        BY <3>3, <3>5 DEF Rounded
      <4>2. \A other \in blocks : Bytes(t)' \cap other = {}
        BY <2>0, <3>2, <4>1
      <4>3. blocks' = blocks \cup {Bytes(t)'}
        BY <2>0, <4>1
      <4>4. /\ First(t) \in HeapBytes /\ First(t) + held'[t] - 1 \in HeapBytes
            /\ First(t) <= First(t) + held'[t] - 1
        BY <3>2, <4>1
      <4>. USE DEF First, HeapBytes
      <4>5. Blocks!Malloc
        BY <4>2, <4>3, <4>4 DEF Blocks!Malloc
      <4>. QED
        BY <4>5 DEF Blocks!Next
    <3>. QED BY <3>4, <3>5
  <2>2. CASE Free
    <3>1. PICK f \in DOMAIN held : held' = [a \in DOMAIN held \ {f} |-> held[a]]
      BY <2>2 DEF Free
    <3>2. \A a, b \in Rounded : a # b => Bytes(a) # Bytes(b)
      <4>1. /\ \A a \in Rounded : /\ First(a) \in HeapBytes /\ First(a) + held[a] - 1 \in HeapBytes
                                   /\ First(a) <= First(a) + held[a] - 1
            /\ \A a, b \in Rounded : a # b => Bytes(a) \cap Bytes(b) = {}
        BY HeldBytes DEF HeldInv
      <4>. HIDE DEF First
      <4>2. \A a \in Rounded : First(a) \in Bytes(a)
        BY <4>1
      <4>. HIDE DEF Bytes
      <4>. QED
        BY <4>1, <4>2
    <3>3. Rounded' = Rounded \ {f} /\ \A a \in Rounded \ {f} : Bytes(a)' = Bytes(a)
      BY <3>1 DEF Rounded
    <3>4. CASE f \notin Rounded
      <4>1. blocks' = blocks
        BY <2>0, <3>3, <3>4
      <4>. QED BY <4>1
    <3>5. CASE f \in Rounded
      <4>1. blocks' = blocks \ {Bytes(f)}
        <5>1. \A a \in Rounded \ {f} : Bytes(a)' = Bytes(a) /\ Bytes(a) # Bytes(f)
          BY <3>2, <3>3, <3>5
        <5>2. /\ blocks = {Bytes(a) : a \in Rounded}
              /\ blocks' = {Bytes(a)' : a \in Rounded \ {f}}
          BY <2>0, <3>3
        <5>. HIDE DEF Bytes, blocks
        <5>. QED BY <5>1, <5>2, <3>5
      <4>2. Bytes(f) \in blocks
        BY <2>0, <3>5
      <4>3. Blocks!Free
        BY <4>1, <4>2 DEF Blocks!Free
      <4>. QED
        BY <4>3 DEF Blocks!Next
    <3>. QED BY <3>4, <3>5
  <2>3. CASE UNCHANGED held
    BY <2>3
  <2>4. Take \/ Free \/ UNCHANGED held
    BY DEF Next, Step, Malloc, Advance, Grow, GrowHitsEnd, GrowRunsOut, GrowLeavesHeap, Walk, Place, vars
  <2>. QED
    BY <2>1, <2>2, <2>3, <2>4
<1>. QED
  BY <1>1, <1>2, Invariance, HeldBlocks, PTL DEF Spec, AllocatorSpec, Blocks!Spec
=============================================================================
