---------------------------- MODULE MCScanRequest ----------------------------
(***************************************************************************)
(* ScanRequest for TLC.  Two attempts for each kind of job are enough to   *)
(* fail for good and to fail and succeed; one fault is one incident, which *)
(* may hit the same job again as often as it is tried.                     *)
(***************************************************************************)
EXTENDS ScanRequest

=============================================================================
