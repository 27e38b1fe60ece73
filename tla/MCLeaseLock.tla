---------------------------- MODULE MCLeaseLock ----------------------------
(* Instances of LeaseLock for TLC. *)
EXTENDS LeaseLock, TLC

\* Runs differ in nothing but their names.
Interchangeable == Permutations(Runs)
=============================================================================
