---------------------------- MODULE MCBatchScan ----------------------------
(***************************************************************************)
(* BatchScan for TLC: the scans and the job ids are interchangeable.       *)
(***************************************************************************)
EXTENDS BatchScan, TLC

Symmetry == Permutations(Scans) \union Permutations(Jobs)

=============================================================================
