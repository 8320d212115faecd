------------------------- MODULE MCArtifactRetention -------------------------
(* ArtifactRetention for TLC: contents are interchangeable.                 *)
EXTENDS ArtifactRetention, TLC
CONSTANTS k1, k2

MCKeys == {k1, k2}
Symmetry == Permutations(MCKeys)
=============================================================================
