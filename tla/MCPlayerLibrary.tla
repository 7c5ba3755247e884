-------------------------- MODULE MCPlayerLibrary --------------------------
(***************************************************************************)
(* Instances of PlayerLibrary for TLC.  No entry is told from another but  *)
(* by where it is, so the entries can be permuted.                         *)
(***************************************************************************)
EXTENDS PlayerLibrary, TLC

Symmetry == Permutations(Entries)
=============================================================================
