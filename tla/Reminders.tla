----------------------------- MODULE Reminders ------------------------------
(***************************************************************************)
(* Reminding the reviewer of one open item (scripts/reviewer_bot_lib:      *)
(* overdue.py, reminder_comments.py, the notice of lifecycle.py, the       *)
(* overdue pass of maintenance_schedule.py).                               *)
(*                                                                         *)
(* A scheduled run reads the comments for earlier reminders, once to       *)
(* restore the timer and once to decide; it decides from those and from    *)
(* the saved receipts, posts at most one reminder, and saves.  Reads fail; *)
(* a post fails, or fails although it was made; the save is lost.          *)
(* Activity of the reviewer clears the saved timers.                       *)
(*                                                                         *)
(* Days are counted as ages, up to the longest that matters.  The          *)
(* cadence looks at the first page of the comments only; the search before *)
(* a post looks at all of them.                                            *)
(***************************************************************************)
EXTENDS Naturals, Sequences, FiniteSets

CONSTANTS People,
          First,       \* the reviewer at first
          Deadline,    \* REVIEW_DEADLINE_DAYS
          Period,      \* TRANSITION_PERIOD_DAYS
          PageSize,    \* comments on a page
          MaxActs,     \* bound: deeds of people
          MaxFaults    \* bound: reads, posts and saves that go wrong

ASSUME ReminderAssumption == /\ First \in People /\ Deadline \in Nat \ {0} /\ Period \in Nat \ {0}
                             /\ {PageSize, MaxActs, MaxFaults} \subseteq Nat

VARIABLES scope,      \* who is to review what since when: the scope key
          answered,   \* the reviewer responded in this cycle
          turn,       \* it is the reviewer's: awaiting_reviewer_response
          completed,  \* review_completed_at is set
          shown,      \* GitHub's assignees or requested reviewers confirm the reviewer
          late,       \* days since the anchor, up to Deadline
          comments,   \* on the item, oldest first
          saved,      \* the timers and receipts of the saved row
          acts, faults,
          heard       \* history: comments there were when the reviewer last acted

vars == <<scope, answered, turn, completed, shown, late, comments, saved, acts, faults, heard>>

\* The anchor of a scope is the deed it dates from; for a cycle without an
\* answer, its start.
Scopes == [reviewer : People, cycle : Nat, head : Nat, anchor : Nat]
BadNoTimers(s) == [s EXCEPT !.warned = 0]
NoTimers(s) == [s EXCEPT !.warned = 0, !.noticed = FALSE]

Init == /\ scope = [reviewer |-> First, cycle |-> 0, head |-> 0, anchor |-> 0]
        /\ answered = FALSE /\ turn = TRUE /\ completed = FALSE /\ shown = TRUE /\ late = 0
        /\ comments = <<>> /\ acts = 0 /\ faults = 0 /\ heard = 0
        \* warned: which comment transition_warning_sent dates from, 0 for none
        /\ saved = [warned |-> 0, noticed |-> FALSE, receipts |-> {}]

Older(n, most) == IF n < most THEN n + 1 ELSE n
Remark == [kind |-> "talk", to |-> [reviewer |-> First, cycle |-> 0, head |-> 0, anchor |-> 0],
           age |-> Period]

-----------------------------------------------------------------------------
(* What people do; each deed is handled at once (module ReviewTurn has the  *)
(* delays)                                                                  *)

Act == acts < MaxActs /\ acts' = acts + 1 /\ faults' = faults

NextDay ==
  /\ late' = Older(late, Deadline)
  /\ comments' = [i \in DOMAIN comments |-> [comments[i] EXCEPT !.age = Older(@, Period)]]
  /\ UNCHANGED <<scope, answered, turn, completed, shown, saved, acts, faults, heard>>

\* The author comments: once the reviewer has answered, a new scope begins.
AuthorComments ==
  /\ Act /\ comments' = Append(comments, Remark)
  /\ IF answered
       THEN scope' = [scope EXCEPT !.anchor = acts'] /\ turn' = TRUE /\ late' = 0
       ELSE UNCHANGED <<scope, turn, late>>
  /\ UNCHANGED <<answered, completed, shown, saved, heard>>

\* The approval is rebuilt for the new head; where that fails the old one stays.
AuthorPushes ==
  /\ Act
  /\ scope' = [scope EXCEPT !.head = acts', !.anchor = IF answered THEN acts' ELSE @]
  /\ turn' = TRUE
  /\ late' = IF answered THEN 0 ELSE late
  /\ completed' \in {completed, FALSE}
  /\ UNCHANGED <<answered, shown, comments, saved, heard>>

\* record_reviewer_activity with an answer, which completes the round if it is
\* a review of the head, and with a review of an older head
ReviewerAnswers ==
  /\ Act /\ comments' = Append(comments, Remark)
  /\ answered' = TRUE /\ turn' = FALSE /\ saved' = NoTimers(saved) /\ heard' = Len(comments)
  /\ completed' \in {completed, TRUE}
  /\ UNCHANGED <<scope, shown, late>>
ReviewerStirs ==
  /\ Act /\ saved' = NoTimers(saved) /\ heard' = Len(comments)
  /\ completed' \in {completed, FALSE}
  /\ UNCHANGED <<scope, answered, turn, shown, late, comments>>

\* set_current_reviewer; the receipts stay.
Reassign == \E p \in People \ {scope.reviewer} :
  /\ Act /\ scope' = [reviewer |-> p, cycle |-> acts', head |-> scope.head, anchor |-> 0]
  /\ answered' = FALSE /\ turn' = TRUE /\ completed' = FALSE /\ shown' = TRUE /\ late' = 0
  /\ saved' = NoTimers(saved) /\ heard' = Len(comments)
  /\ UNCHANGED comments

\* Somebody edits the assignees, and no run puts them or the row right.
AssigneesEdited ==
  /\ Act /\ shown' = ~shown
  /\ UNCHANGED <<scope, answered, turn, completed, late, comments, saved, heard>>

-----------------------------------------------------------------------------
(* Reading: what is known to have been posted *)

IsReminder(i) == comments[i].kind # "talk"
ToReviewer(i) == comments[i].to.reviewer = scope.reviewer
FirstPage(readable) == IF readable THEN {i \in DOMAIN comments : i <= PageSize /\ IsReminder(i)} ELSE {}
Least(S) == CHOOSE i \in S : \A j \in S : i <= j
Most(S) == CHOOSE i \in S : \A j \in S : i >= j

None == [kind |-> "none", i |-> 0, source |-> "none"]

\* _scoped_delivery_receipt: the newest warning saved for this very scope
Scoped(s) == {r.i : r \in {q \in s.receipts : q.scope = scope}}

\* _receipt_from_scanned_comments: the oldest reminder to this reviewer,
\* whatever scope it was posted for
Scanned(readable) == {i \in FirstPage(readable) : ToReviewer(i)}

\* derive_reminder_scope_receipt
Receipt(s, readable) ==
  LET oldest == Least(Scanned(readable))
  IN  CASE Scoped(s) # {} -> [kind |-> "warning", i |-> Most(Scoped(s)), source |-> "state"]
        [] Scoped(s) = {} /\ Scanned(readable) # {} ->
             [kind |-> comments[oldest].kind, i |-> oldest, source |-> "scan"]
        [] OTHER -> IF s.warned # 0 /\ s.noticed THEN [None EXCEPT !.kind = "notice"]
                    ELSE IF s.warned # 0 \/ s.noticed THEN [None EXCEPT !.kind = "blocked"]
                    ELSE None

\* derive_reminder_cadence_decision: must_project_reassignment_needed
BadExhausted(s, readable) == Receipt(s, readable).kind = "notice"
Exhausted(s, readable) ==
  /\ Receipt(s, readable).kind # "blocked"
  /\ \/ Receipt(s, readable).kind = "notice"
     \/ Cardinality(FirstPage(readable)) >= 2

\* What check_overdue_reviews can read: all; not the comments, and it decides
\* without; not the item or its assignees, and it leaves the item alone.
Checks == {"all", "nocomments", "nothing"}

\* check_overdue_reviews, decide_overdue_reminder
Decision(s, check) ==
  LET readable == check = "all"
      receipt == Receipt(s, readable)
      due == /\ check # "nothing" /\ ~completed /\ shown
             /\ turn /\ late = Deadline /\ ~Exhausted(s, readable)
  IN  CASE due /\ receipt.kind = "warning" /\ comments[receipt.i].age = Period -> "transition"
        [] due /\ receipt.kind = "none" -> "warning"
        [] OTHER -> "none"

-----------------------------------------------------------------------------
(* The overdue pass of a scheduled run *)

Warned(s, i) == [s EXCEPT !.warned = i, !.receipts = @ \union {[scope |-> scope, i |-> i]}]

\* backfill_transition_warning_if_present: whosever turn it is, and also when
\* the reminders are exhausted
Backfilled(s, readable) ==
  LET receipt == Receipt(s, readable)
  IN  IF s.warned = 0 /\ receipt.kind = "warning" /\ receipt.source = "scan"
        THEN Warned(s, receipt.i) ELSE s

\* _find_existing_warning_comment: on all pages, for this scope
Warnings == {i \in DOMAIN comments : comments[i].kind = "warning" /\ comments[i].to = scope}

\* find_existing_transition_notice_result: not older than the warning saved
Notices(s) == {i \in DOMAIN comments : /\ comments[i].kind = "notice" /\ ToReviewer(i)
                                       /\ s.warned # 0 /\ i >= s.warned}

\* What becomes of a post: it is made; it fails (or what was posted before
\* cannot be read, and it is not tried); it fails although it is made and
\* cannot be found again.
Fates == {"made", "failed", "unknown"}
Posted(kind, fate) ==
  comments' = IF fate = "failed" THEN comments
              ELSE Append(comments, [kind |-> kind, to |-> scope, age |-> 0])
Saves(s, lost) == saved' = IF lost THEN saved ELSE s

\* handle_overdue_review_warning
WarningHandled(s, fate, lost) ==
  IF Warnings # {} THEN comments' = comments /\ Saves(Warned(s, Least(Warnings)), lost)
  ELSE Posted("warning", fate)
       /\ Saves(IF fate = "made" THEN Warned(s, Len(comments) + 1) ELSE s, lost)

\* backfill_transition_notice_if_present, handle_transition_notice
BadTransitionHandled(s, fate, lost) ==
  /\ Posted("notice", fate)
  /\ Saves(IF fate = "made" THEN [s EXCEPT !.noticed = TRUE] ELSE s, lost)
TransitionHandled(s, fate, lost) ==
  IF s.noticed THEN comments' = comments /\ Saves(s, lost)
  ELSE IF Notices(s) # {} THEN comments' = comments /\ Saves([s EXCEPT !.noticed = TRUE], lost)
  ELSE Posted("notice", fate)
       /\ Saves(IF fate = "made" THEN [s EXCEPT !.noticed = TRUE] ELSE s, lost)

\* _run_overdue_pass
Run(readable, check, fate, lost) ==
  LET s == Backfilled(saved, readable)
      decision == Decision(s, check)
      wrong == Cardinality({b \in {<<1, ~readable>>, <<2, check # "all">>,
                                   <<3, fate # "made">>, <<4, lost>>} : b[2]})
  IN  /\ faults + wrong <= MaxFaults /\ faults' = faults + wrong
      /\ \/ decision = "warning" /\ WarningHandled(s, fate, lost)
         \/ decision = "transition" /\ TransitionHandled(s, fate, lost)
         \/ decision = "none" /\ comments' = comments /\ Saves(s, lost)
      /\ UNCHANGED <<scope, answered, turn, completed, shown, late, acts, heard>>

PeopleAct == AuthorComments \/ AuthorPushes \/ ReviewerAnswers \/ ReviewerStirs \/ Reassign
             \/ AssigneesEdited
ScheduledRun == \E readable, lost \in BOOLEAN, check \in Checks, fate \in Fates :
                  Run(readable, check, fate, lost)
Next == NextDay \/ PeopleAct \/ ScheduledRun

\* Days pass, and now and then a scheduled run goes well.
Spec == Init /\ [][Next]_vars
FairSpec == Spec /\ WF_vars(NextDay) /\ SF_vars(Run(TRUE, "all", "made", FALSE))

-----------------------------------------------------------------------------
(* Properties *)

RemindersTypeOK ==
  /\ scope \in Scopes /\ {answered, turn, completed, shown} \subseteq BOOLEAN
  /\ late \in 0 .. Deadline /\ acts \in 0 .. MaxActs /\ faults \in 0 .. MaxFaults /\ heard \in 0 .. Len(comments)
  /\ \A i \in DOMAIN comments : /\ comments[i].kind \in {"talk", "warning", "notice"}
                                /\ comments[i].to \in Scopes /\ comments[i].age \in 0 .. Period
  /\ saved.warned \in 0 .. Len(comments) /\ saved.noticed \in BOOLEAN
  /\ \A r \in saved.receipts : r.scope \in Scopes /\ r.i \in DOMAIN comments

\* What the state says was posted was posted, and to the reviewer of now: the
\* warning a timer stands for, and the notice.
SavedIsTrue ==
  /\ RemindersTypeOK
  /\ saved.warned # 0 => comments[saved.warned].kind = "warning" /\ ToReviewer(saved.warned)
  /\ saved.noticed => \E i \in DOMAIN comments : comments[i].kind = "notice" /\ ToReviewer(i)
  /\ \A r \in saved.receipts : comments[r.i].kind = "warning"

\* The reminders keep the promise of module ReminderPromise: a lapse is warned
\* of once, a notice follows a warning and is not given twice for it to somebody
\* silent, through lost posts, lost saves and failed reads.  The one way to a
\* second notice: the first one is not on the page the cadence looks at, and no
\* timer was saved from which to search for it.
WarningsTo(p) == {i \in DOMAIN comments : comments[i].kind = "warning" /\ comments[i].to.reviewer = p}
Oldest(p) == comments[Least(WarningsTo(p))].age
WarnedOf == {comments[i].to : i \in {j \in DOMAIN comments : comments[j].kind = "warning"}}
Since == [p \in {q \in People : WarningsTo(q) # {}} |-> Oldest(p)]
Silent == {i \in heard + 1 .. Len(comments) : comments[i].kind = "warning"}
Stage == IF Silent = {} THEN "open"
         ELSE IF \E i \in Most(Silent) .. Len(comments) : comments[i].kind = "notice"
           THEN "noticed" ELSE "warned"
Number == Cardinality({i \in DOMAIN comments : IsReminder(i)})
OutOfSight == saved.warned = 0 /\ \E i \in DOMAIN comments : i > PageSize /\ comments[i].kind = "notice"
Promise == INSTANCE ReminderPromise WITH
  Lapses <- Scopes, lapse <- scope, due <- turn, warned <- WarnedOf, since <- Since,
  stage <- Stage, posted <- Number, unseen <- OutOfSight
PromiseKept == Promise!Spec

\* Where it stays a silent reviewer's turn, the item ends up marked as in need
\* of another reviewer, if neither an earlier review that completed the round
\* nor the assignees on GitHub keep the scheduled run from it, and if the
\* reminders are all on the page the cadence looks at.
Crowded == \E i \in DOMAIN comments : i > PageSize /\ IsReminder(i)
Escalates == []<>(~turn \/ completed \/ ~shown \/ Crowded \/ Exhausted(saved, TRUE))
=============================================================================
