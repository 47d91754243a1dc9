------------------------ MODULE MCControlPlaneClient ------------------------
(* The small instance of ControlPlaneClient for TLC. *)
EXTENDS ControlPlaneClient

\* Two incident reports, so that the second can meet a full channel and a late
\* one overtake.  Repair reports would take the same path once more.
ReportBounds == [incident |-> 2, repair |-> 0]
=============================================================================
