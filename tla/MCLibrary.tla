----------------------------- MODULE MCLibrary -----------------------------
(* Sizes for model checking Library: two shelves of the same name.          *)
EXTENDS Library, TLC

CONSTANTS Maths, Maths2
MCSlugs == <<Maths, Maths2>>
MCRequests == Permutations(Slots) \cup Permutations(Shelves)
=============================================================================
