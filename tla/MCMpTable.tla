------------------------------- MODULE MCMpTable -------------------------------
(* MpTable with the & of machine words and interchangeable heap addresses. *)
EXTENDS MpTableRefinement, Bitwise

MCBitAnd(a, b) == a & b
MCSymmetry == Permutations(MPtr)
===============================================================================
