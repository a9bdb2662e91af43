---------------------------- MODULE MCMemoryBitmap ----------------------------
(***************************************************************************)
(* MemoryBitmap on fourteen pages of two bytes.  The kernel image and the   *)
(* second module end inside a page, the initrd ends on the page where the   *)
(* second module begins, a hole of the memory map cuts the free memory, and *)
(* the last region ends at 2^32, which truncates to 0.                      *)
(***************************************************************************)
EXTENDS MemoryBitmap

MCRegions == {[addr |-> 0,  len |-> 16, available |-> TRUE],
              [addr |-> 16, len |-> 2,  available |-> FALSE],
              [addr |-> 18, len |-> 10, available |-> TRUE],
              [addr |-> 30, len |-> 2,  available |-> FALSE]}

MCModules == <<[mod_start |-> 8,  mod_end |-> 11],
               [mod_start |-> 11, mod_end |-> 15]>>
=============================================================================
