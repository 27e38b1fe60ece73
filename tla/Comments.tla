------------------------------ MODULE Comments ------------------------------
(***************************************************************************)
(* What becomes of a comment on one issue or pull request                  *)
(* (scripts/reviewer_bot_lib: event_inputs.py, comment_routing.py,         *)
(* comment_application.py, commands.py, reconcile.py, and the policies     *)
(* they use in scripts/reviewer_bot_core).                                 *)
(*                                                                         *)
(* A comment on an issue is handled by the run it starts.  A comment on a  *)
(* pull request is routed first: to a run that may write, if it is of      *)
(* somebody trusted and the head is of this repository, else to an         *)
(* artifact that a later run replays against the comment as it is then.    *)
(* Between the steps the item is closed, comments are edited, permissions  *)
(* change and reads fail.  Runs take turns (module LeaseLock) and their    *)
(* calls to GitHub that assign people succeed (module Assignment): a run   *)
(* is one step.  Retries and repeated runs are module Deferred's.          *)
(***************************************************************************)
EXTENDS Naturals, FiniteSets, Sequences

CONSTANTS People, Nobody,
          Author,       \* of the item
          Members,      \* people in the queue
          Maintainers,  \* people with triage permission at first
          First,        \* the reviewer at first, or Nobody
          Items,        \* the kinds of item to look at
          Bodies,       \* the comments to look at
          AutoBodies,   \* those of them that automation makes
          MaxComments, MaxChanges   \* bounds

Commands == {"pass", "release", "claim", "assign", "producers", "done", "signoff",
             "feedback", "other"}
Issues == {"issue", "guideline"}
PullRequests == {"own", "fork"}

ASSUME CommentsAssumption ==
  /\ Nobody \notin People /\ Author \in People
  /\ Members \subseteq People /\ Maintainers \subseteq People
  /\ First \in People \union {Nobody} /\ First # Author
  /\ Items \subseteq Issues \union PullRequests
  /\ AutoBodies \subseteq Bodies
  \* alone: commands on lines of their own; mention: commands within other
  \* text; code: what a fenced block holds
  /\ \A b \in Bodies : /\ b.alone \subseteq Commands /\ b.mention \subseteq Commands
                       /\ b.text \in BOOLEAN /\ (b.mention # {} => b.text)
                       /\ b.code \in {"none", "prose", "command"}
  /\ {MaxComments, MaxChanges} \subseteq Nat

VARIABLES item,
          open,       \* on GitHub
          permitted,  \* people with triage permission
          readable,   \* GitHub answers what is asked about the item
          comments,   \* in the order in which they were made
          row,        \* the saved state of the item
          changes

vars == <<item, open, permitted, readable, comments, row, changes>>

IsPR == item \in PullRequests
Stages == {"posted", "direct", "deferred", "red", "dropped", "handled", "replayed", "gap"}
Actors == {"user", "bot", "unknown"}

NoRow == [tracked |-> FALSE, reviewer |-> Nobody, skipped |-> {}, done |-> FALSE,
          handoff |-> 0,    \* the comment that handed over to the author
          head |-> FALSE]   \* active_head_sha is known

Init ==
  /\ item \in Items /\ open = TRUE /\ permitted = Maintainers /\ readable = TRUE
  /\ comments = <<>>
  /\ row = [NoRow EXCEPT !.tracked = TRUE, !.reviewer = First, !.head = IsPR]
  /\ changes = 0

-----------------------------------------------------------------------------
(* What a comment says *)

Class(count, text) ==
  CASE count > 0 /\ text  -> "command_plus_text"
    [] count > 0 /\ ~text -> "command_only"
    [] count = 0 /\ text  -> "plain_text"
    [] OTHER              -> "empty"
WithCommand == {"command_only", "command_plus_text"}
WithText == {"plain_text", "command_plus_text"}

\* classify_comment_payload, code blocks taken out
Count(b) == Cardinality(b.alone)
LiveClass(b) == Class(Count(b), b.text)

\* _classify_deferred_comment_payload: of the artifact, code blocks and all
SourceClass(b) ==
  Class(Count(b) + (IF b.code = "command" THEN 1 ELSE 0), b.text \/ b.code # "none")

\* parse_command, which also finds a command in the middle of a line
Parsed(b) ==
  CASE Count(b) + Cardinality(b.mention) > 1 -> "multiple"
    [] b.alone \union b.mention = {}         -> "none"
    [] OTHER                                 -> CHOOSE k \in b.alone \union b.mention : TRUE

\* The handler of comments runs the one command of a comment.
HasCommand(b) == LiveClass(b) \in WithCommand /\ Count(b) = 1

-----------------------------------------------------------------------------
(* What is done about it *)

\* record_conversation_freshness: the author's comment answers an older handoff.
Freshened(r, n) ==
  [r EXCEPT !.tracked = TRUE,
            !.handoff = IF comments[n].by = Author /\ n > @ THEN 0 ELSE @]

BadAnew(r, p) == [r EXCEPT !.tracked = TRUE, !.reviewer = p, !.done = FALSE, !.head = FALSE]
Anew(r, p) == [r EXCEPT !.tracked = TRUE, !.reviewer = p, !.done = FALSE, !.handoff = 0, !.head = FALSE]

\* confirm_reviewer_assignment: never the author.  A reviewer whom GitHub no longer shows as
\* requested, having reviewed, starts anew when assigned again.
Assigned(r, p) ==
  CASE p = Author -> {[r EXCEPT !.tracked = TRUE]}
    [] p # Author /\ r.reviewer = p -> {r} \union (IF IsPR THEN {Anew(r, p)} ELSE {})
    [] OTHER -> {Anew(r, p)}

\* get_next_reviewer: whose turn it is, is module ReviewerQueue's.
NextInLine(skip) == Members \ (skip \union {Author})
FromLine(r, skip) ==
  IF NextInLine(skip) = {} THEN {r} ELSE UNION {Assigned(r, p) : p \in NextInLine(skip)}

\* get_user_permission_status, which is asked when the run wants to know
Granted(p) == p \in permitted

\* resolve_reviewer_command_authority, require_reviewer_command_actor
IsReviewer(r, p) == r.reviewer = p

\* authorize_assignment_command
BadMayAssign(r, p, target) == Granted(p) \/ IsReviewer(r, p) \/ target = "producers"
MayAssign(r, p, target) ==
  \/ Granted(p)
  \/ target = "producers" /\ (IsReviewer(r, p) \/ r.reviewer = Nobody)

\* _feedback_handoff_should_replace
BadReplaces(r, n) == TRUE
Replaces(r, n) == n > r.handoff

\* What each command makes of the row of who gives it, where its handler agrees to act.
Claimed(r, p) == IF p \in Members THEN Assigned(r, p) ELSE {r}
AssignedByName(r, p) ==
  IF MayAssign(r, p, "person") THEN UNION {Assigned(r, q) : q \in Members} ELSE {r}
AssignedFromLine(r, p) == IF MayAssign(r, p, "producers") THEN FromLine(r, {}) ELSE {r}
Passed(r, p) ==
  LET skipped == r.skipped \union {p}
      next == {IF s = r THEN r ELSE [s EXCEPT !.skipped = skipped] : s \in FromLine(r, skipped)}
  IN  IF IsReviewer(r, p) THEN next ELSE {r}
Released(r, p) == IF IsReviewer(r, p) THEN {[r EXCEPT !.reviewer = Nobody, !.handoff = 0]} ELSE {r}

\* /done is for issues, the label for guidelines; the label asks for no permission.
MarkedDone(r, p) ==
  IF item = "issue" /\ r.tracked /\ (IsReviewer(r, p) \/ Granted(p))
  THEN {[r EXCEPT !.done = TRUE]} ELSE {r}
SignedOff(r, p) == IF item = "guideline" /\ r.tracked THEN {[r EXCEPT !.done = TRUE]} ELSE {r}

\* build_reviewer_feedback_handoff_decision: of an open item, by its reviewer, on a known head
HandedOver(r, n) ==
  IF /\ comments[n].open /\ IsReviewer(r, comments[n].by)
     /\ IsPR => r.head
     /\ Replaces(r, n)
  THEN {[r EXCEPT !.handoff = n]} ELSE {r}

Executed(r, n, command) ==
  LET p == comments[n].by IN
  CASE command = "claim"     -> Claimed(r, p)
    [] command = "assign"    -> AssignedByName(r, p)
    [] command = "producers" -> AssignedFromLine(r, p)
    [] command = "pass"      -> Passed(r, p)
    [] command = "release"   -> Released(r, p)
    [] command = "done"      -> MarkedDone(r, p)
    [] command = "signoff"   -> SignedOff(r, p)
    [] command = "feedback"  -> HandedOver(r, n)
    [] command = "other"     -> {r}

\* decide_comment_command: automation gets no answer, several commands get no other.
Decision(actor, command) ==
  CASE actor # "user" -> "ignore"
    [] actor = "user" /\ command \notin Commands -> "answer"
    [] OTHER -> "execute"

\* apply_comment_command: what cannot be read is a reason to refuse.
Commanded(r, n, command) ==
  IF Decision(comments[n].actor, command) = "execute" /\ readable THEN Executed(r, n, command) ELSE {r}

\* process_comment_event
Processed(r, n, b) ==
  LET fresh == IF LiveClass(b) \in WithText /\ Parsed(b) # "feedback" THEN Freshened(r, n) ELSE r
  IN  IF HasCommand(b) THEN Commanded(fresh, n, Parsed(b)) ELSE {fresh}

-----------------------------------------------------------------------------
(* Who does it *)

Stage(n, s) == comments' = [comments EXCEPT ![n].stage = s]
Env == <<item, open, permitted, readable, changes>>

\* classify_pr_comment_processing_target
Target(c) ==
  CASE c.actor = "bot"                        -> "dropped"
    [] c.actor # "bot" /\ (~readable \/ item = "fork") -> "deferred"
    [] c.actor = "user" /\ readable /\ item = "own" ->
         IF c.trusted THEN "direct" ELSE "deferred"
    [] OTHER                                  -> "red"

\* The router workflow: the artifact of the comment, the run that may write, or
\* a run that fails where it is not clear whom to trust.
Route(n) ==
  /\ IsPR /\ comments[n].stage = "posted"
  /\ Stage(n, Target(comments[n]))
  /\ UNCHANGED <<Env, row>>

\* build_pr_comment_admission, classify_pr_comment_processing_target: of a pull
\* request a run that may write takes only what the router gave it.
Admitted(c) == c.stage = (IF IsPR THEN "direct" ELSE "posted")

\* build_comment_event_request: the comment, and the item, as the event had them
Said(c) == c.body

\* handle_comment_event
Handle(n) ==
  LET c == comments[n] IN
  /\ Admitted(c)
  /\ IF c.open THEN /\ row' \in Processed(row, n, Said(c))
                    /\ Stage(n, "handled")
     ELSE row' = row /\ Stage(n, "dropped")
  /\ UNCHANGED Env

\* build_replay_comment_event_request: the text is what GitHub shows now.
LiveBodies(c) == IF c.live = "edited" THEN Bodies ELSE {c.body}

\* decide_comment_replay: the comment reads as the artifact does (the digest),
\* and, without its code blocks, as the artifact does with them.
BadIntact(c, b) == c.live # "gone" /\ SourceClass(c.body) = LiveClass(b) /\ Count(b) <= 1
Intact(c, b) ==
  /\ c.live # "gone" /\ b = c.body
  /\ SourceClass(c.body) = LiveClass(b)
  /\ LiveClass(b) \in WithCommand => Count(b) = 1

\* handle_workflow_run_event_result, _reconcile_deferred_comment
Done(r, stage) == [row |-> r, stage |-> stage]
BadReplay(n, b) ==
  CASE ~readable         -> {Done(row, "gap")}
    [] readable /\ ~open -> {Done(row, "dropped")}
    [] readable /\ open /\ Intact(comments[n], b) ->
         {Done(r, "replayed") : r \in Commanded(Freshened(row, n), n, Parsed(b))}
    [] OTHER             -> {Done(Freshened(row, n), "gap")}
Replay(n, b) ==
  CASE ~readable         -> {Done(row, "gap")}
    [] readable /\ ~open -> {Done(row, "dropped")}
    [] readable /\ open /\ Intact(comments[n], b) ->
         {Done(r, "replayed") :
            r \in IF LiveClass(b) \in WithCommand THEN Processed(Freshened(row, n), n, b)
                  ELSE {Freshened(row, n)}}
    [] OTHER             -> {Done(Freshened(row, n), "gap")}

Reconcile(n) ==
  /\ comments[n].stage = "deferred"
  /\ \E b \in LiveBodies(comments[n]) :
       \E done \in Replay(n, b) : row' = done.row /\ Stage(n, done.stage)
  /\ UNCHANGED Env

-----------------------------------------------------------------------------
(* People, and GitHub *)

Change == changes < MaxChanges /\ changes' = changes + 1

\* Whoever has triage permission is a collaborator; others may be members.  Of
\* issues nobody asks.
Comment(p, actor, trusted, b) ==
  /\ open /\ Len(comments) < MaxComments
  /\ actor = "user" <=> p # Nobody
  /\ actor = "user" \/ b \in AutoBodies
  /\ trusted => actor = "user" /\ IsPR
  /\ IsPR /\ p \in permitted => trusted
  /\ comments' = Append(comments, [by |-> p, actor |-> actor, trusted |-> trusted, open |-> open,
                                   body |-> b, live |-> "same", stage |-> "posted"])
  /\ UNCHANGED <<Env, row>>

\* Edited or deleted, where a run may look again; the comment may also be one
\* that cannot be read.
Alter(n) ==
  /\ Change /\ IsPR /\ comments[n].live = "same" /\ comments[n].stage \in {"posted", "deferred"}
  /\ \E s \in {"edited", "gone"} : comments' = [comments EXCEPT ![n].live = s]
  /\ UNCHANGED <<item, open, permitted, readable, row>>

Close == /\ Change /\ open /\ open' = FALSE
         /\ UNCHANGED <<item, permitted, readable, comments, row>>

\* remove_closed_review_entry
Forget == /\ ~open /\ row.tracked /\ row' = NoRow
          /\ UNCHANGED <<Env, comments>>

Permit(p) == /\ Change
             /\ permitted' = IF p \in permitted THEN permitted \ {p} ELSE permitted \union {p}
             /\ UNCHANGED <<item, open, readable, comments, row>>

Outage == /\ Change /\ readable' = ~readable
          /\ UNCHANGED <<item, open, permitted, comments, row>>

\* A push or a review makes the head known again (module ReviewTurn).
LearnHead == /\ IsPR /\ row.tracked /\ ~row.head /\ open /\ row' = [row EXCEPT !.head = TRUE]
             /\ UNCHANGED <<Env, comments>>

World ==
  \/ \E p \in People \union {Nobody}, actor \in Actors, trusted \in BOOLEAN, b \in Bodies :
       Comment(p, actor, trusted, b)
  \/ \E n \in DOMAIN comments : Alter(n)
  \/ \E p \in People : Permit(p)
  \/ Close \/ Outage \/ LearnHead
Bot == Forget \/ \E n \in DOMAIN comments : Route(n) \/ Handle(n) \/ Reconcile(n)
Next == World \/ Bot
Spec == Init /\ [][Next]_vars

-----------------------------------------------------------------------------
(* Properties *)

CommentsTypeOK ==
  /\ item \in Items /\ open \in BOOLEAN /\ readable \in BOOLEAN
  /\ permitted \subseteq People /\ changes \in 0 .. MaxChanges
  /\ Len(comments) <= MaxComments
  /\ \A n \in DOMAIN comments :
       /\ comments[n].by \in People \union {Nobody} /\ comments[n].actor \in Actors
       /\ comments[n].live \in {"same", "edited", "gone"} /\ comments[n].stage \in Stages
  /\ row.reviewer \in (People \ {Author}) \union {Nobody} /\ row.skipped \subseteq People
  /\ row.done \in BOOLEAN /\ row.head \in BOOLEAN /\ row.handoff \in 0 .. Len(comments)

\* Whatever order comments are handled in, and on whichever path: the review is
\* handed to the author only by who is the reviewer now
\* (build_reviewer_feedback_handoff_decision, _reset_cycle_state).
HandoffIsReviewers == row.handoff # 0 => comments[row.handoff].by = row.reviewer

\* A handoff that comes late does not take the place of a newer one.
HandoffsAdvance == [][row.handoff # 0 /\ row'.handoff # 0 => row'.handoff >= row.handoff]_vars

Taken(n) == n \in DOMAIN comments /\ comments'[n].stage # comments[n].stage

\* A run that changes the reviewer does so for somebody who is entitled to it
\* when it runs: not when the comment was made, or was routed.
EntitledNow ==
  [][\A n \in DOMAIN comments : Taken(n) /\ row'.reviewer # row.reviewer =>
       LET p == comments[n].by IN
       \/ p \in permitted \/ p = row.reviewer \/ p = row'.reviewer
       \/ row.reviewer = Nobody /\ comments[n].actor = "user"]_vars

\* On a pull request the run that acts on the event at once acts only for
\* people of this repository, on a head of this repository.
DirectIsTrusted ==
  [][\A n \in DOMAIN comments : Taken(n) /\ comments[n].stage = "direct" /\ row' # row =>
       item = "own" /\ comments[n].trusted /\ comments[n].actor = "user"]_vars

\* What commands do to the row.  The handoff is left out for the author's own
\* comments: replayed, each of them counts as an answer.
Effects(r, n) == <<r.reviewer, r.skipped, r.done, IF comments[n].by = Author THEN 0 ELSE r.handoff>>
AsDirect(n) == {Effects(r, n) : r \in Processed(row, n, comments[n].body)}

\* A replay does what the comment said when it was made, or nothing.
RunsAsPosted ==
  [][\A n \in DOMAIN comments : Taken(n) /\ comments[n].stage = "deferred" =>
       Effects(row', n) \in AsDirect(n) \union {Effects(row, n)}]_vars

\* The replay of a comment that is as it was, of one command at most and without
\* code blocks, does what the direct run would have done.
PathsAgree ==
  [][\A n \in DOMAIN comments :
       Taken(n) /\ comments[n].stage = "deferred" /\ comments[n].live = "same" /\ open /\ readable
         /\ comments[n].body.code = "none" /\ Count(comments[n].body) <= 1 =>
       Effects(row', n) \in AsDirect(n) /\ comments'[n].stage = "replayed"]_vars
=============================================================================
