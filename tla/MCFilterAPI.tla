---------------------------- MODULE MCFilterAPI ----------------------------
(* FilterAPI for TLC.  Filters differ by their ids only. *)
EXTENDS FilterAPI, TLC

Symmetry == Permutations(Subs)
=============================================================================
