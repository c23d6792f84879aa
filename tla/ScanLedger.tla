----------------------------- MODULE ScanLedger -----------------------------
(***************************************************************************)
(* What the scan worker promises to whoever reads a scan: a result is      *)
(* stored once, in the step that shows the scan COMPLETED, and it is never *)
(* taken away again; the scan may later be shown in another state (a retry *)
(* runs it again), but it is never shown COMPLETED without its result.     *)
(***************************************************************************)

CONSTANT Scans

VARIABLES
    stored,   \* the scans that have a ScanResult
    shown     \* the scans whose status reads COMPLETED

vars == <<stored, shown>>

Init == stored = {} /\ shown = {}

\* The first run of the scan that gets through.
Publish(s) ==
    /\ s \notin stored
    /\ stored' = stored \union {s}
    /\ shown' = shown \union {s}

\* The scan is run again, or recorded as failed after all.
Hide(s) ==
    /\ s \in shown
    /\ shown' = shown \ {s}
    /\ UNCHANGED stored

Next == \E s \in Scans : Publish(s) \/ Hide(s)

Spec == Init /\ [][Next]_vars

=============================================================================
