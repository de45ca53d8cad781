---------------------------- MODULE MCAuditLog ----------------------------
(* Small instances of AuditLog and ComplianceExport for TLC.                  *)
EXTENDS ComplianceExport, TLC

\* Processes are interchangeable.
Symmetry == Permutations(Process)
=============================================================================
