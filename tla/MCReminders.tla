---------------------------- MODULE MCReminders -----------------------------
(* Small instances of Reminders for TLC. *)
EXTENDS Reminders

CONSTANTS bob, cid
=============================================================================
