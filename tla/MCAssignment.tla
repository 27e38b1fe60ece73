---------------------------- MODULE MCAssignment ----------------------------
(* Small instances of Assignment for TLC. *)
EXTENDS Assignment

CONSTANTS ann, bob, cid

Three == {ann, bob, cid}
=============================================================================
