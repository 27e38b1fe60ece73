---------------------------- MODULE MCAuditIssue ----------------------------
(* Instances of AuditIssue for TLC. *)
EXTENDS AuditIssue
=============================================================================
