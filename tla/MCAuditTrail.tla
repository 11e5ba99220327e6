---------------------------- MODULE MCAuditTrail ----------------------------
(* Instance of AuditTrail for TLC.  No symmetry: the run checks liveness.     *)
EXTENDS AuditTrail
=============================================================================
