------------------------------ MODULE MCReports ------------------------------
(***************************************************************************)
(* Reports for TLC.  Three requests: two can race for a failed report that *)
(* a first one has left, or ask for the same scan report while it is made. *)
(* Two attempts are enough to fail for good and to fail and succeed, two   *)
(* versions to have a report that is out of date.                          *)
(***************************************************************************)
EXTENDS Reports

=============================================================================
