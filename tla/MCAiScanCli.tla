---------------------------- MODULE MCAiScanCli ----------------------------
(***************************************************************************)
(* AiScanCli for TLC.  The first file has no valid row; a run takes one    *)
(* file at a time and leaves a stale lock, so that two runs can meet on    *)
(* the second file also when nothing was killed.  The two scans are of the *)
(* same page.                                                              *)
(***************************************************************************)
EXTENDS AiScanCli, TLC

CONSTANTS s1, s2

TwoFiles == 1 :> <<>> @@ 2 :> <<{s1}, {s2}>>
SamePage == [s \in {s1, s2} |-> "page"]

=============================================================================
