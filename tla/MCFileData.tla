----------------------------- MODULE MCFileData -----------------------------
(* Instance of FileData.  The last reply decides nothing, so states that     *)
(* differ in it alone are one; the steps between them are all checked.       *)
EXTENDS FileData, TLC

MCView == <<inode, heap, resource, resources, alive, undefined>>
FileSymmetry == Permutations(Files)

=============================================================================
