---------------------------- MODULE MCDiscovery ----------------------------
(***************************************************************************)
(* Discovery for TLC.  Liveness is checked, so nothing is declared         *)
(* symmetric.                                                              *)
(***************************************************************************)
EXTENDS Discovery

=============================================================================
