---------------------------- MODULE MCAreaMeasure ----------------------------
(* AreaMeasure for TLC: writers, and names, are interchangeable. *)
EXTENDS AreaMeasure, TLC

Interchangeable == Permutations(Writer) \union Permutations(Name)
=============================================================================
