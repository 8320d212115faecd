---------------------------- MODULE MCRunControl ----------------------------
(* RunControl for TLC: request handlers are interchangeable.               *)
EXTENDS RunControl, TLC

Symmetry == Permutations(Clients)
=============================================================================
