-------------------------- MODULE MCReviewerQueue --------------------------
(* Small instances of ReviewerQueue for TLC. *)
EXTENDS ReviewerQueue

CONSTANTS ann, bob, cid, issue

ThreeListed == <<ann, bob, cid>>
OneIssue == {issue}
WrittenByCid == [i \in {issue} |-> cid]
=============================================================================
