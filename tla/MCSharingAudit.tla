-------------------------- MODULE MCSharingAudit --------------------------
(* Constant values for the runs of SharingAudit. *)
EXTENDS SharingAudit

TwoDurations == {"1h", "permanent"}
NoLadder == << >>
NoFault == {}
===========================================================================
