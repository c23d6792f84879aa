------------------------------ MODULE MCAiQueue ------------------------------
(***************************************************************************)
(* AiQueue for TLC: files of one row, and of up to two; the scans and the  *)
(* calls are interchangeable.                                              *)
(***************************************************************************)
EXTENDS AiQueue, TLC

OneRow == {<<s>> : s \in Scans}
UpToTwoRows == OneRow \union {<<s, t>> : s \in Scans, t \in Scans}

Symmetry == Permutations(Scans) \union Permutations(Exports) \union Permutations(Imports)

=============================================================================
