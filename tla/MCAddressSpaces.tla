---------------------------- MODULE MCAddressSpaces ----------------------------
(***************************************************************************)
(* AddressSpaces with three programs: one segment, two that overlap in a    *)
(* page, and two with a page between them that belongs to neither.          *)
(***************************************************************************)
EXTENDS AddressSpaces

MCFirstProgram == <<<<0, 1>>>>

MCPrograms == {MCFirstProgram, <<<<0, 2>>, <<1, 2>>>>, <<<<0, 1>>, <<2, 3>>>>}
=============================================================================
