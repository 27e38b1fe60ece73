---------------------------- MODULE MCReviewTurn ----------------------------
(* Small instances of ReviewTurn for TLC. *)
EXTENDS ReviewTurn

CONSTANTS ann, bob, cid
=============================================================================
