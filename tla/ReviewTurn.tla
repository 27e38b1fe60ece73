----------------------------- MODULE ReviewTurn -----------------------------
(***************************************************************************)
(* How the bot comes to know whose turn it is on one issue or pull request *)
(* (scripts/reviewer_bot_lib: lifecycle.py, comment_application.py,        *)
(* reconcile.py, reviews.py, maintenance_schedule.py).                     *)
(*                                                                         *)
(* People comment, push, review and dismiss reviews.  Each deed is an      *)
(* event that a run of the bot hears of at any later time, in any order,   *)
(* and, but for commands, any number of times.  A run also reads the live  *)
(* head and the live reviews, and may fail to.  Runs exclude one another   *)
(* (module LeaseLock), so the handling of an event is one step.  That the  *)
(* tracked reviewer is the one GitHub shows is module Assignment's matter  *)
(* and taken for granted here.                                             *)
(***************************************************************************)
EXTENDS ReviewPolicy

CONSTANTS Candidates,  \* who may become the reviewer
          First,       \* the one who is it at first
          ItemKinds,   \* TRUE for a pull request, FALSE for an issue
          MaxTime, MaxHead, MaxEvents, MaxReassigned   \* bounds

ASSUME CandidatesAssumption == Candidates \subseteq People \ {Author} /\ First \in Candidates
ASSUME TurnBoundAssumption == /\ ItemKinds \subseteq BOOLEAN
                              /\ {MaxTime, MaxHead} \subseteq Nat \ {0}
                              /\ {MaxEvents, MaxReassigned} \subseteq Nat

VARIABLES isPR,
          now,
          head,       \* the live head of the pull request, 0 for an issue
          reviews,    \* the live reviews
          events,     \* everything people did
          told,       \* history: what the bot heard of in this cycle
          row,        \* the saved state of the item
          reassigned

vars == <<isPR, now, head, reviews, events, told, row, reassigned>>
world == <<isPR, now, head, reviews, events>>

Init ==
  /\ isPR \in ItemKinds
  /\ now = 1 /\ head = (IF isPR THEN 1 ELSE 0)
  /\ reviews = {} /\ events = {} /\ told = {}
  /\ row = [reviewer |-> First, since |-> 0, head |-> 0, activity |-> 0,
            chan |-> [c \in Channels |-> Empty], handoff |-> Nothing,
            completed |-> FALSE, byLabel |-> FALSE]
  /\ reassigned = 0

-----------------------------------------------------------------------------
(* What people do *)

\* Time passes with what people do; the bot's clock shows the time of the
\* latest deed.
Later == {now, now + 1} \cap 1 .. MaxTime
New == Cardinality(events) + 1
Happens(e) == New <= MaxEvents /\ events' = events \union {e} /\ now' = e.at

Deed(kind, p, at) == [kind |-> kind, actor |-> p, at |-> at, n |-> New, head |-> 0]

\* On a pull request nobody's comments but the author's matter: one other
\* person who comments is enough.
Comment(at) == \E p \in {Author} \union (IF isPR THEN {First} ELSE Candidates) :
  Happens(Deed("comment", p, at)) /\ UNCHANGED <<head, reviews>>

Feedback(at) == \E p \in Candidates :
  Happens(Deed("feedback", p, at)) /\ UNCHANGED <<head, reviews>>

Edit(at) == ~isPR /\ Happens(Deed("edit", Author, at)) /\ UNCHANGED <<head, reviews>>

\* A push, perhaps back to a commit that was the head before.
Push(at) == \E h \in 1 .. MaxHead :
  /\ isPR /\ h # head /\ head' = h
  /\ Happens([kind |-> "sync", actor |-> NoOne, at |-> at, n |-> h, head |-> h])
  /\ reviews' = reviews

Review(at) == \E p \in Candidates, s \in {"APPROVED", "COMMENTED"} :
  /\ isPR /\ Happens([Deed("review", p, at) EXCEPT !.head = head])
  /\ reviews' = reviews \union {[n |-> New, actor |-> p, state |-> s, at |-> at, head |-> head]}
  /\ head' = head

Dismiss(at) == \E r \in reviews :
  /\ r.state # "DISMISSED"
  /\ Happens([kind |-> "dismissal", actor |-> NoOne, at |-> at, n |-> r.n, head |-> 0])
  /\ reviews' = (reviews \ {r}) \union {[r EXCEPT !.state = "DISMISSED"]}
  /\ head' = head

Deeds == \E at \in Later :
  /\ Comment(at) \/ Feedback(at) \/ Edit(at) \/ Push(at) \/ Review(at) \/ Dismiss(at)
  /\ UNCHANGED <<isPR, told, row, reassigned>>

-----------------------------------------------------------------------------
(* What a run does to the row *)

\* clear_current_cycle_reviewer_handoff where the head moves
Moved(r, h) == [r EXCEPT !.head = h, !.handoff = IF r.head = h THEN @ ELSE Nothing]

\* _clear_completion
Incomplete(r) == [r EXCEPT !.completed = FALSE, !.byLabel = FALSE]

\* maybe_record_head_observation_repair.  Where the live head is the one of the
\* last revision only the head moves; the completion stays.
HeadRepaired(r) ==
  LET seen == [kind |-> "observed", actor |-> NoOne, at |-> now, n |-> head, head |-> head]
  IN  IF head = r.head THEN r
      ELSE IF r.chan["contributor_revision"].accepted.head = head THEN Moved(r, head)
      ELSE Incomplete([Accept(r, "contributor_revision", seen) EXCEPT !.head = head, !.handoff = Nothing])

\* refresh_reviewer_review_from_live_preferred_review
Refreshed(r) ==
  LET review == Preferred(r, reviews, head)
  IN  IF review = Nothing THEN r ELSE Active(Upsert(r, "reviewer_review", review), review.at)

\* rebuild_pr_approval_state_result and apply_pr_approval_state
Rebuilt(r, readable) ==
  LET approval == Approval(r, reviews, head, readable)
  IN  IF ~approval.ok THEN r
      ELSE [Moved(r, head) EXCEPT !.completed = approval.completed, !.byLabel = FALSE]

\* What GitHub answers in a run: everything, all but who may write, or nothing
\* about the reviews.
Answers == {"all", "nopermission", "noreviews"}

\* _record_review_rebuild.  It raises where it could not rebuild; the caller
\* keeps what was changed until then, with a gap to be repaired later.
LiveRebuilt(r, how) ==
  CASE how = "all" -> Rebuilt(Refreshed(r), TRUE)
    [] how = "nopermission" -> Rebuilt(Refreshed(r), FALSE)
    [] how = "noreviews" -> r

-----------------------------------------------------------------------------
(* The runs *)

Hear(e, r) == told' = told \union {e} /\ row' = r /\ UNCHANGED <<world, reassigned>>

\* record_conversation_freshness
CommentHandled(e) ==
  IF e.actor = Author THEN Hear(e, Accept(row, "contributor_comment", e))
  ELSE IF e.actor = row.reviewer /\ ~isPR
    THEN Hear(e, Active(Accept(row, "reviewer_comment", e), e.at))
  ELSE Hear(e, row)

\* handle_feedback_command.  The head of the handoff is the one the bot knows.
FeedbackHandled(e) ==
  LET newer == row.handoff = Nothing \/ e.at > row.handoff.at
      taken == [row EXCEPT !.handoff = [e EXCEPT !.head = row.head]]
  IN  /\ e \notin told
      /\ IF e.actor = row.reviewer /\ (isPR => row.head # 0) /\ newer
           THEN Hear(e, Active(taken, e.at)) ELSE Hear(e, row)

\* handle_issue_edited_event
EditHandled(e) == Hear(e, Accept(row, "contributor_comment", e))

\* handle_pull_request_target_synchronize.  A rebuild that fails is not noticed.
SyncHandled(e, how) ==
  LET moved == Accept(Moved(row, e.head), "contributor_revision", e)
  IN  Hear(e, IF how = "noreviews" THEN moved ELSE Rebuilt(moved, how = "all"))

\* _handle_review_submitted_workflow_run: what the event says is not trusted
\* beyond the number of the review and who wrote it.
ReviewHandled(e, how) ==
  LET r == CHOOSE q \in reviews : q.n = e.n
      repaired == HeadRepaired(row)
      trusted == r.head = head /\ r.state # "DISMISSED" /\ e.actor = row.reviewer
      taken == IF trusted THEN Active(Accept(repaired, "reviewer_review", AsRecord(r)), r.at) ELSE repaired
  IN  Hear(e, LiveRebuilt(taken, how))

\* _handle_review_dismissed_workflow_run
DismissalHandled(e, how) ==
  Hear(e, LiveRebuilt(HeadRepaired(Accept(row, "review_dismissal", e)), how))

Told == \E e \in events :
  \/ e.kind = "comment" /\ CommentHandled(e)
  \/ e.kind = "feedback" /\ FeedbackHandled(e)
  \/ e.kind = "edit" /\ EditHandled(e)
  \/ \E how \in Answers : \/ e.kind = "sync" /\ SyncHandled(e, how)
                          \/ e.kind = "review" /\ ReviewHandled(e, how)
                          \/ e.kind = "dismissal" /\ DismissalHandled(e, how)

Own(r) == row' = r /\ UNCHANGED <<world, told, reassigned>>

\* handle_labeled_event, handle_unlabeled_event, handle_reopened_event
SignedOff == ~isPR /\ Own([Active(row, now) EXCEPT !.completed = TRUE, !.byLabel = TRUE])
SignOffTaken == ~isPR /\ row.byLabel /\ Own(Incomplete(row))
Reopened == ~row.byLabel /\ Own(Incomplete(row))

\* reconcile_active_review_entry; where a read fails nothing is saved.
BadRectified(r) == Rebuilt(HeadRepaired(r), TRUE)
Rectified(r) == Rebuilt(Refreshed(HeadRepaired(r)), TRUE)
Rectify == isPR /\ Own(Rectified(row))

\* _run_tracked_pr_repair, in the scheduled run; the reviews may be unreadable.
Scheduled == isPR /\ Own(HeadRepaired(Refreshed(row)))
ScheduledBlind == isPR /\ Own(HeadRepaired(row))

\* set_current_reviewer
Reassign == \E p \in Candidates \ {row.reviewer} :
  /\ reassigned < MaxReassigned /\ reassigned' = reassigned + 1
  /\ now' \in Later
  /\ row' = NewCycle(row, p, now') /\ told' = {}
  /\ UNCHANGED <<isPR, head, reviews, events>>

Bot == Told \/ SignedOff \/ SignOffTaken \/ Reopened \/ Rectify \/ Scheduled
       \/ ScheduledBlind \/ Reassign
Next == Deeds \/ Bot

Spec == Init /\ [][Next]_vars

-----------------------------------------------------------------------------
(* Properties *)

TurnTypeOK ==
  /\ isPR \in ItemKinds /\ now \in 1 .. MaxTime /\ head \in 0 .. MaxHead
  /\ told \subseteq events /\ Cardinality(events) <= MaxEvents
  /\ row.reviewer \in Candidates /\ row.since \in 0 .. now /\ row.head \in 0 .. MaxHead
  /\ row.activity \in 0 .. now /\ row.handoff.kind \in {"none", "feedback"}
  /\ \A c \in Channels : row.chan[c].accepted.kind \in Kinds
  /\ row.completed \in BOOLEAN /\ (row.byLabel => row.completed)

\* What the bot heard in this cycle from the author and from the reviewer.
FromAuthor == {e \in told : e.actor = Author /\ e.kind \in {"comment", "edit"}}
FromReviewer == {e \in told : e.actor = row.reviewer}
Comments(S) == {e \in S : e.kind \in {"comment", "edit"}}
AllTold == \A e \in events : e.at > row.since => e \in told
Turn == Response(row, isPR, reviews, head, TRUE)

\* In whatever order and how often events arrive, the comment that stands for
\* the author, and on an issue for the reviewer, is the newest one heard of.
NewestWins ==
  /\ TurnTypeOK
  /\ row.chan["contributor_comment"].accepted = Newest(FromAuthor)
  /\ ~isPR => row.chan["reviewer_comment"].accepted = Newest(Comments(FromReviewer))

\* On an issue it is the turn that the last words of both sides make it, late
\* and repeated events notwithstanding: the reviewer's when the author spoke
\* last, the author's when the reviewer did; a sign-off is overruled only by a
\* /feedback that nobody followed up.  (Words of the same second are left open.)
IssueTurn ==
  LET mine == {e \in FromReviewer : e.kind = "feedback" => e.at >= row.since}
      last == Newest(mine)
      Spoke(e, S) == \A f \in S : e.at > f.at
  IN  /\ ~isPR /\ FromAuthor # {} /\ Spoke(Newest(FromAuthor), mine)
           => Turn = IF row.completed THEN "done" ELSE "awaiting_reviewer_response"
      /\ ~isPR /\ mine # {} /\ Spoke(last, FromAuthor \union (mine \ {last}))
           => Turn = IF row.completed /\ last.kind = "comment" THEN "done"
                     ELSE "awaiting_contributor_response"

\* The author pushes a head once, and at most one head in a second.
Straight == \A e, f \in events : e.kind = "sync" /\ f.kind = "sync" /\ e # f
              => e.at # f.at /\ e.head # f.head

\* Once the bot has heard of everything, a pull request is off the reviewer's
\* desk only when the reviewer answered: no comment of the author is newer
\* than every answer, and the live head is reviewed, or /feedback was given
\* no earlier than that head was pushed.  (Where heads come back, or two in a second,
\* a /feedback that arrives late may be taken for an answer to the wrong one.)
Answered ==
  LET live == Valid(row, reviews)
      noted == {e \in FromReviewer : e.kind = "feedback" /\ e.at >= row.since}
      times == {r.at : r \in live} \union {e.at : e \in noted}
  IN  /\ \A c \in Comments({e \in events : e.actor = Author /\ e.at > row.since}) :
           \E t \in times : t >= c.at
      /\ \/ \E r \in live : r.head = head
         \/ \E e \in noted : \A q \in events : q.kind = "sync" /\ q.head = head => e.at >= q.at
NotHidden ==
  isPR /\ AllTold /\ Straight /\ Turn \in {"awaiting_contributor_response", "awaiting_write_approval", "done"}
    => Answered

\* /rectify leaves in the state what GitHub shows: the live head, the review
\* that counts, and a completion only where the head is reviewed.
RectifyAgrees ==
  [][Rectify => /\ row'.head = head
                /\ row'.completed <=> \E r \in OnHead(row, reviews, head) : r.actor = row.reviewer
                /\ LET his == Valid(row, reviews)
                   IN  his # {} => row'.chan["reviewer_review"].accepted \in {AsRecord(r) : r \in his}]_vars

\* REVIEWING.md: a review that only comments restarts the reviewer's clock, and
\* reminders stop when the reviewer approves.  The reminders skip an item that
\* is completed, so while it is the reviewer's turn it must not be.
ReminderNotSuppressed ==
  AllTold /\ Turn = "awaiting_reviewer_response" => ~row.completed
=============================================================================
