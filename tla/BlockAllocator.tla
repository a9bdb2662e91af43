---------------------------- MODULE BlockAllocator ----------------------------
(***************************************************************************)
(* What the callers of kernel_heap_malloc and kernel_heap_free rely on:     *)
(* memory they hold is theirs alone until they give it back.                *)
(***************************************************************************)
EXTENDS Integers

CONSTANTS Addresses  \* the bytes of the heap

VARIABLE blocks      \* the ranges of bytes handed out and not given back

Init == blocks = {}

Malloc ==
    \E first, last \in Addresses :
        /\ first <= last
        /\ \A other \in blocks : (first .. last) \cap other = {}
        /\ blocks' = blocks \cup {first .. last}

Free == \E bytes \in blocks : blocks' = blocks \ {bytes}

Next == Malloc \/ Free

Spec == Init /\ [][Next]_blocks
=============================================================================
