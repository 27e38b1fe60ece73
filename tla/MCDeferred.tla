---------------------------- MODULE MCDeferred ------------------------------
(* A comment and a command of one pull request, and a review. *)
EXTENDS Deferred
CONSTANTS c1, m1, r1
MCComments == {c1}
MCCommands == {m1}
MCReviews == {r1}

\* Of an older observer, of another attempt or workflow, with another key, incomplete.
Without(aspects) == [Exact EXCEPT !.right = @ \ aspects]
MCFlawed == {[Exact EXCEPT !.version = 2]}
  \union {Without(aspects) : aspects \in {{"attempt"}, {"source"}, {"keyed"}, {"complete"}}}
=============================================================================
