----------------------------- MODULE MCAuditLog -----------------------------
(* AuditLog for model checking.                                            *)
EXTENDS AuditLog

CONSTANTS a1, a2, e1, e2, w1
=============================================================================
