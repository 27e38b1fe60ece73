---------------------------- MODULE ReviewPolicy ----------------------------
(***************************************************************************)
(* Whose turn is it?  The pure part of the answer: how events of a review  *)
(* are ordered (scripts/reviewer_bot_core/review_state_machine.py), which  *)
(* reviews on GitHub count (live_review_support.py,                        *)
(* reviewer_review_helpers.py), what they complete (approval_policy.py)    *)
(* and the response state derived from all that                            *)
(* (reviewer_response_policy.py).                                          *)
(*                                                                         *)
(* Timestamps and heads are numbers.  An event is told apart from others   *)
(* of its kind by a number too; the code compares those as text, which     *)
(* agrees with the order of the numbers as long as they are equally long.  *)
(***************************************************************************)
EXTENDS Naturals, FiniteSets

CONSTANTS People, NoOne,
          Author,       \* of the issue or pull request
          Writers       \* may push to the repository

ASSUME PolicyAssumption == NoOne \notin People /\ Author \in People /\ Writers \subseteq People

Nothing == [kind |-> "none", actor |-> NoOne, at |-> 0, n |-> 0, head |-> 0]

Kinds == {"none", "comment", "feedback", "edit", "observed", "review", "dismissal", "sync"}

\* The prefix of an event's semantic key; the order is the alphabetical one.
KeyClass == [k \in Kinds |->
  CASE k = "none" -> 0 [] k \in {"comment", "feedback"} -> 1 [] k = "edit" -> 2
    [] k = "observed" -> 3 [] k \in {"review", "dismissal"} -> 4 [] k = "sync" -> 5]
Key(e) == <<KeyClass[e.kind], e.n>>
KeyAbove(e, f) == \/ KeyClass[e.kind] > KeyClass[f.kind]
                  \/ KeyClass[e.kind] = KeyClass[f.kind] /\ e.n > f.n

\* source_precedence
Rank(e) == IF e.kind \in {"feedback", "review", "sync"} THEN 1 ELSE 0

\* _compare_records, compare_records
BadNewer(e, f) == e # f
Newer(e, f) ==
  \/ e.at > f.at
  \/ e.at = f.at /\ Rank(e) > Rank(f)
  \/ e.at = f.at /\ Rank(e) = Rank(f) /\ KeyAbove(e, f)

\* _compare_cross_channel_conversation: the contributor's e against the reviewer's f
BadCrossNewer(e, f) == e.at > f.at + 1
CrossNewer(e, f) == e.at > f.at \/ (e.at = f.at /\ KeyAbove(e, f))

Newest(S) == IF S = {} THEN Nothing
             ELSE CHOOSE e \in S : \A f \in S \ {e} : Newer(e, f)

-----------------------------------------------------------------------------
(* Channels: what has been accepted, and which keys were seen *)

Channels == {"reviewer_comment", "reviewer_review", "contributor_comment",
             "contributor_revision", "review_dismissal"}
Empty == [accepted |-> Nothing, seen |-> {}]

\* The saved row of an item.  since is the boundary of the current cycle,
\* head the active head, completed stands for review_completed_at and
\* current_cycle_completion, which are set and cleared together; byLabel, that
\* review_completion_source is the sign-off label, the one source code asks for.
Row == [reviewer : People \union {NoOne}, since : Nat, head : Nat, activity : Nat,
        chan : [Channels -> [accepted : [kind : Kinds, actor : People \union {NoOne},
                                         at : Nat, n : Nat, head : Nat],
                             seen : SUBSET (Nat \X Nat)]],
        handoff : [kind : Kinds, actor : People \union {NoOne}, at : Nat, n : Nat, head : Nat],
        completed : BOOLEAN, byLabel : BOOLEAN]

Active(row, at) == [row EXCEPT !.activity = IF at > @ THEN at ELSE @]

\* accept_channel_event
Accept(row, c, e) ==
  LET ch == row.chan[c]
      stands == IF c = "review_dismissal" THEN ch.accepted # Nothing ELSE Newer(ch.accepted, e)
  IN  IF Key(e) \in ch.seen THEN row
      ELSE [row EXCEPT !.chan[c] = [accepted |-> IF stands THEN @.accepted ELSE e,
                                    seen |-> @.seen \union {Key(e)}],
                       !.handoff = IF c \in {"contributor_comment", "contributor_revision"}
                                      /\ e.at > @.at THEN Nothing ELSE @]

\* upsert_channel_accepted_record
Upsert(row, c, e) == [row EXCEPT !.chan[c] = [accepted |-> e, seen |-> @.seen \union {Key(e)}]]

\* set_current_reviewer
NewCycle(row, p, at) ==
  [Active(row, at) EXCEPT !.reviewer = p, !.since = at, !.head = 0, !.handoff = Nothing,
                          !.chan = [c \in Channels |-> Empty],
                          !.completed = FALSE, !.byLabel = FALSE]

-----------------------------------------------------------------------------
(* Reviews on GitHub: [n, actor, state, at, head] *)

AsRecord(r) == [kind |-> "review", actor |-> r.actor, at |-> r.at, n |-> r.n, head |-> r.head]
LastOf(S) == CHOOSE r \in S : \A q \in S : q.at < r.at \/ (q.at = r.at /\ q.n <= r.n)

\* get_valid_current_reviewer_reviews_for_cycle
Valid(row, reviews) == {r \in reviews : /\ r.actor = row.reviewer
                                        /\ r.state # "DISMISSED" /\ r.at >= row.since}

\* get_preferred_current_reviewer_review_for_cycle
Preferred(row, reviews, head) ==
  LET valid == Valid(row, reviews)
      there == {r \in valid : r.head = head}
  IN  IF valid = {} THEN Nothing
      ELSE AsRecord(LastOf(IF there # {} THEN there ELSE valid))

\* classify_review_freshness: current_head_assigned_reviewer and
\* current_head_alternate_reviewer
OnHead(row, reviews, head) ==
  {r \in reviews : r.state # "DISMISSED" /\ r.at >= row.since /\ r.head = head}

\* _current_head_approval_authors
Approvers(row, reviews, head) ==
  LET on == OnHead(row, reviews, head)
  IN  {p \in People : LET his == {r \in on : r.actor = p}
                      IN  his # {} /\ LastOf(his).state = "APPROVED"}

\* permission_status
Permission(p, readable) ==
  IF ~readable THEN "unavailable" ELSE IF p \in Writers THEN "granted" ELSE "denied"

\* derive_write_approval_authority_decision: the first approval, in the order
\* of the reviews, whose author may write or of whom that cannot be said.
WriteTurn(row, reviews, head, readable) ==
  LET deciding == {r \in OnHead(row, reviews, head) :
                     r.state = "APPROVED" /\ Permission(r.actor, readable) # "denied"}
      first == CHOOSE r \in deciding : \A q \in deciding : r.n <= q.n
  IN  IF deciding = {} THEN "awaiting_write_approval"
      ELSE IF Permission(first.actor, readable) = "granted" THEN "done" ELSE "projection_failed"

\* compute_pr_approval_state_result.  Any review of the assigned reviewer on
\* the current head completes the round; only an approval needs a writer's.
Approval(row, reviews, head, readable) ==
  LET his == {r \in OnHead(row, reviews, head) : r.actor = row.reviewer}
      turn == IF LastOf(his).state # "APPROVED" THEN "awaiting_contributor_response"
              ELSE WriteTurn(row, reviews, head, readable)
  IN  IF his = {} THEN [ok |-> TRUE, completed |-> FALSE, turn |-> "awaiting_reviewer_response"]
      ELSE [ok |-> turn # "projection_failed", completed |-> TRUE, turn |-> turn]

-----------------------------------------------------------------------------
(* The response state *)

\* _current_cycle_reviewer_handoff_record
HandoffRecord(row, head) ==
  IF row.handoff.actor = row.reviewer /\ row.handoff.at >= row.since /\ row.handoff.head = head
    THEN row.handoff ELSE Nothing

\* _contributor_revision_handoff_record
RevisionRecord(row, head, review) ==
  LET revision == row.chan["contributor_revision"].accepted
  IN  IF revision.head = head /\ review.head # head THEN revision ELSE Nothing

\* _record_for_current_reviewer
ByReviewer(row, e) == IF e.actor = row.reviewer THEN e ELSE Nothing

\* derive_reviewer_response_state for an issue
IssueResponse(row) ==
  LET contributor == row.chan["contributor_comment"].accepted
      comment == ByReviewer(row, row.chan["reviewer_comment"].accepted)
      noted == HandoffRecord(row, 0)
      handoff == IF CrossNewer(contributor, noted) THEN Nothing ELSE noted
      answer == IF handoff # Nothing /\ Newer(handoff, comment) THEN handoff ELSE comment
  IN  IF row.reviewer = NoOne THEN "untracked"
      ELSE IF handoff # Nothing /\ answer = handoff THEN "awaiting_contributor_response"
      ELSE IF row.completed THEN "done"
      ELSE IF answer = Nothing \/ CrossNewer(contributor, answer) THEN "awaiting_reviewer_response"
      ELSE "awaiting_contributor_response"

\* derive_reviewer_response_state for a pull request, on what
\* compute_reviewer_response_state read: reviews always come from GitHub.
BadPullResponse(row, reviews, head, readable) ==
  LET handoff == HandoffRecord(row, head)
      review == Preferred(row, reviews, head)
      approval == Approval(row, reviews, head, readable)
  IN  IF row.reviewer = NoOne THEN "untracked"
      ELSE IF handoff # Nothing THEN "awaiting_contributor_response"
      ELSE IF review.head # head THEN "awaiting_reviewer_response"
      ELSE IF ~approval.ok THEN "projection_failed"
      ELSE approval.turn
PullResponse(row, reviews, head, readable) ==
  LET stored == row.chan["reviewer_review"].accepted
      review == Preferred(row, reviews, head)
      contributor == Newest({row.chan["contributor_comment"].accepted,
                             RevisionRecord(row, head, review)} \ {Nothing})
      noted == HandoffRecord(row, head)
      handoff == IF CrossNewer(contributor, noted) THEN Nothing ELSE noted
      answer == IF handoff # Nothing /\ Newer(handoff, review) THEN handoff ELSE review
      approval == Approval(row, reviews, head, readable)
  IN  IF row.reviewer = NoOne THEN "untracked"
      ELSE IF review = Nothing /\ handoff = Nothing /\ stored = Nothing THEN "awaiting_reviewer_response"
      ELSE IF CrossNewer(contributor, answer) THEN "awaiting_reviewer_response"
      ELSE IF handoff # Nothing /\ answer = handoff THEN "awaiting_contributor_response"
      ELSE IF row.reviewer \in Approvers(row, reviews, head) /\ stored.head # head THEN "projection_failed"
      ELSE IF review.head # head /\ handoff # Nothing THEN "awaiting_contributor_response"
      ELSE IF review.head # head THEN "awaiting_reviewer_response"
      ELSE IF ~approval.ok THEN "projection_failed"
      ELSE approval.turn

Response(row, isPR, reviews, head, readable) ==
  IF isPR THEN PullResponse(row, reviews, head, readable) ELSE IssueResponse(row)
=============================================================================
