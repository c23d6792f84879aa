-------------------------- MODULE MCBatchScanAdmin --------------------------
(***************************************************************************)
(* BatchScanAdmin for TLC: scans, job ids and administrators are           *)
(* interchangeable.                                                        *)
(***************************************************************************)
EXTENDS BatchScanAdmin, TLC

Symmetry == Permutations(Scans) \union Permutations(Jobs) \union Permutations(Admins)

=============================================================================
