------------------------------ MODULE MCBotRun ------------------------------
(* Instances of BotRun for TLC. *)
EXTENDS BotRun, TLC

\* Runs differ in nothing but their names.
Interchangeable == Permutations(Runs)
=============================================================================
