----------------------------- MODULE MCResearch -----------------------------
(* One long page and one short one, and two wordings of one of the values. *)
EXTENDS Research

MCChunksOf == [c \in Contents |-> IF c = "long" THEN 3 ELSE 1]
MCNorm == [v \in Values |-> IF v = "A" THEN "a" ELSE v]
=============================================================================
