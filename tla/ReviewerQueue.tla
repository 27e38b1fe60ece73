--------------------------- MODULE ReviewerQueue ---------------------------
(***************************************************************************)
(* The round-robin queue of reviewers: scripts/reviewer_bot_lib/queue.py,  *)
(* and the commands and events that use it (commands.py, lifecycle.py).    *)
(*                                                                         *)
(* The saved state holds the queue, the index of the reviewer who is next  *)
(* up, the reviewers who are away until a date and, per issue or PR, who   *)
(* reviews it.  A mutating run loads the state, brings back the reviewers  *)
(* whose date has come, syncs the queue with members.md, and then handles  *)
(* its event.  The state is written only if something was reported as      *)
(* changed.  Runs exclude one another (module LeaseLock), so one action is *)
(* one run from its load to its save; a run that raises or fails to save   *)
(* changes nothing here.                                                   *)
(*                                                                         *)
(* How GitHub answers a request to assign or release somebody is a choice; *)
(* module Assignment has the steps behind that choice.  Logins are taken   *)
(* to be written the same way everywhere.                                  *)
(***************************************************************************)
EXTENDS SequencesExt

CONSTANTS Listing,    \* everybody who may be in members.md, in its order
          Items,      \* issues and PRs
          Authors,    \* who wrote each of them
          Nobody,     \* no reviewer
          LastDay,    \* bound: the last date
          MaxEdits    \* bound: edits of members.md

Reviewers == ToSet(Listing)

ASSUME ListingAssumption ==
  Listing \in Seq(Reviewers) /\ IsInjective(Listing) /\ Nobody \notin Reviewers
ASSUME AuthorAssumption == Authors \in [Items -> Reviewers \union {Nobody}]
ASSUME DaysAssumption == LastDay \in Nat /\ MaxEdits \in Nat

VARIABLES roster,    \* [queue, cursor, away]: queue, current_index, pass_until
          rows,      \* active_reviews: who reviews an item, how they got it,
                     \* and who passed on it
          producers, \* the Producers in members.md
          edits,     \* edits of members.md so far
          today      \* the date

queueVars == <<roster, rows, producers, edits, today>>

NoRow == [reviewer |-> Nobody, method |-> "none", skipped |-> <<>>]

\* Those of a sequence who are in S, in their order.  (SelectSeq would do, but
\* the provers do not know it.)
Among(seq, S) ==
  LET kept[n \in 0..Len(seq)] ==
        IF n = 0 THEN <<>>
        ELSE IF seq[n] \in S THEN Append(kept[n-1], seq[n]) ELSE kept[n-1]
  IN kept[Len(seq)]

\* Who is on the list, in the order of the list.
Listed(S) == Among(Listing, S)

QueueInit ==
  /\ producers \in SUBSET Reviewers
  /\ roster = [queue |-> Listed(producers), cursor |-> 0, away |-> <<>>]
  /\ rows = [i \in Items |-> NoRow]
  /\ edits = 0
  /\ today = 0

-----------------------------------------------------------------------------
(* queue.py.  current_index counts from 0, as there. *)

Queued(s) == ToSet(s.queue)
Away(s) == {e.who : e \in ToSet(s.away)}
Place(seq, p) == CHOOSE i \in DOMAIN seq : seq[i] = p
Without(seq, p) == RemoveAt(seq, Place(seq, p))
Position(s, p) == Place(s.queue, p) - 1

Normal(s) == [s EXCEPT !.cursor = IF s.queue = <<>> THEN 0 ELSE @ % Len(s.queue)]

\* The queue as its users see it: whoever is next up comes first.
Line(s) == [k \in 1..Len(s.queue) |-> s.queue[((s.cursor + k - 1) % Len(s.queue)) + 1]]

\* get_next_reviewer: the places in the line that may be served
Eligible(s, skip) == {k \in 1..Len(s.queue) : Line(s)[k] \notin skip}
Next1(s, skip) == IF Eligible(s, skip) = {} THEN Nobody ELSE Line(s)[Min(Eligible(s, skip))]
Advanced(s, skip) ==
  IF Eligible(s, skip) = {} THEN s
  ELSE [s EXCEPT !.cursor = (@ + Min(Eligible(s, skip))) % Len(s.queue)]

BadTakenOut(s, p) == Normal([s EXCEPT !.queue = Without(@, p)])

\* Taking somebody out in front of the cursor moves the cursor back with it.
TakenOut(s, p) ==
  Normal([s EXCEPT !.queue = Without(@, p),
                   !.cursor = IF Position(s, p) < @ THEN @ - 1 ELSE @])

\* reposition_member_as_next
Repositioned(s, p) ==
  IF p \notin Queued(s) THEN s
  ELSE LET t == TakenOut(s, p) IN [t EXCEPT !.queue = InsertAt(@, t.cursor + 1, p)]

\* process_pass_until_expirations
BadDue(s) == {e \in ToSet(s.away) : e.until < today}
Due(s) == {e \in ToSet(s.away) : e.until <= today}
BadReturn(s, e) == Repositioned(s, e.who)
Return(s, e) == Repositioned([s EXCEPT !.queue = Append(@, e.who)], e.who)
Restored(s) ==
  LET due == Among(s.away, Due(s))
      back[n \in 0..Len(due)] == IF n = 0 THEN s ELSE Return(back[n-1], due[n])
  IN [back[Len(due)] EXCEPT !.away = Among(@, ToSet(@) \ Due(s))]

\* sync_members_with_queue, given the list that was fetched
BadSynced(s, list) ==
  LET new == Among(list, Reviewers \ Queued(s))
  IN Normal([s EXCEPT !.queue = Among(@ \o new, ToSet(list))])
Synced(s, list) ==
  LET new == Among(list, Reviewers \ (Queued(s) \union Away(s)))
  IN Normal([s EXCEPT !.queue = Among(@ \o new, ToSet(list))])

-----------------------------------------------------------------------------
(* A run: execute_run from load_state to save_state *)

\* What precedes the handler.  members.md may be unavailable.
Prepared == {Restored(roster), Synced(Restored(roster), Listed(producers))}

\* The handler reported a change (the state is saved), or it did not: then
\* what it did to the queue is saved only if the run had changed the queue
\* before.
Report(changed, before, after) ==
  /\ roster' = IF changed \/ before # roster THEN after ELSE roster
  /\ UNCHANGED <<producers, edits, today>>

Row(i, r) == rows' = [rows EXCEPT ![i] = r]
Cleared(i) == [rows[i] EXCEPT !.reviewer = Nobody, !.method = "none"]
Reviewed(i, p, how) == [rows[i] EXCEPT !.reviewer = p, !.method = how]

\* confirm_reviewer_assignment was confirmed.  If p was it already, nothing is set.
Confirmed(i, p, how) == {Reviewed(i, p, how)} \union (IF rows[i].reviewer = p THEN {rows[i]} ELSE {})

\* confirm_reviewer_assignment or confirm_reviewer_release was not confirmed:
\* the tracked reviewer may have been cleared, and a marker may have been left.
NotConfirmed(i, before, after) ==
  \/ Row(i, Cleared(i)) /\ Report(TRUE, before, after)
  \/ \E changed \in BOOLEAN : UNCHANGED rows /\ Report(changed, before, after)

AuthorOf(i) == {Authors[i]} \ {Nobody}

\* handle_issue_or_pr_opened, handle_labeled_event and /r? producers
AssignNext(i) ==
  \E s \in Prepared :
    LET p == Next1(s, AuthorOf(i)) t == Advanced(s, AuthorOf(i)) IN
      IF p = Nobody THEN UNCHANGED rows /\ Report(FALSE, s, s)
      ELSE \/ \E r \in Confirmed(i, p, "round-robin") : Row(i, r) /\ Report(TRUE, s, t)
           \/ NotConfirmed(i, s, t)

BadPass(i) ==
  /\ rows[i].reviewer # Nobody
  /\ \E s \in Prepared :
       LET passer == rows[i].reviewer
           list == rows[i].skipped \o (IF Contains(rows[i].skipped, passer) THEN <<>> ELSE <<passer>>)
           p == Next1(s, AuthorOf(i)) t == Advanced(s, AuthorOf(i)) IN
         IF p = Nobody THEN UNCHANGED rows /\ Report(FALSE, s, s)
         ELSE \/ /\ Row(i, [Reviewed(i, p, "round-robin") EXCEPT !.skipped = list])
                 /\ Report(TRUE, s, Repositioned(t, passer))
              \/ NotConfirmed(i, s, t)

\* /pass by the confirmed reviewer of the item
Pass(i) ==
  /\ rows[i].reviewer # Nobody
  /\ \E s \in Prepared :
       LET passer == rows[i].reviewer
           list == rows[i].skipped \o (IF Contains(rows[i].skipped, passer) THEN <<>> ELSE <<passer>>)
           skip == ToSet(list) \union AuthorOf(i)
           p == Next1(s, skip) t == Advanced(s, skip) IN
         IF p = Nobody THEN UNCHANGED rows /\ Report(FALSE, s, s)
         ELSE \/ /\ Row(i, [Reviewed(i, p, "round-robin") EXCEPT !.skipped = list])
                 /\ Report(TRUE, s, Repositioned(t, passer))
              \/ NotConfirmed(i, s, t)

\* /release by the confirmed reviewer of the item
Release(i) ==
  /\ rows[i].reviewer # Nobody
  /\ \E s \in Prepared :
       \/ /\ Row(i, Cleared(i))
          /\ Report(TRUE, s, IF rows[i].method = "round-robin"
                               THEN Repositioned(s, rows[i].reviewer) ELSE s)
       \/ NotConfirmed(i, s, s)

Entry(p, d) == [who |-> p, until |-> d]
SteppedAway(s, p, d) == [TakenOut(s, p) EXCEPT !.away = Append(@, Entry(p, d))]

\* /away by somebody in the queue.  If they are the only live assignee of the
\* item of the comment, the item goes to the next reviewer, or is released,
\* and only when that is confirmed do they leave the queue.
StepAway(i, p, d) ==
  /\ d > today
  /\ \E s \in Prepared :
       /\ p \in Queued(s)
       /\ LET skip == AuthorOf(i) \union {p}
              n == Next1(s, skip) t == Advanced(s, skip) IN
            \/ UNCHANGED rows /\ Report(TRUE, s, SteppedAway(s, p, d))
            \/ n # Nobody /\ \E r \in Confirmed(i, n, "round-robin") :
                              Row(i, r) /\ Report(TRUE, s, SteppedAway(t, p, d))
            \/ n = Nobody /\ Row(i, Cleared(i)) /\ Report(TRUE, s, SteppedAway(t, p, d))
            \/ NotConfirmed(i, s, t)

\* /away by somebody who is away: the new date.
StayAway(p, d) ==
  /\ d > today
  /\ \E s \in Prepared :
       /\ p \in Away(s) \ Queued(s)
       /\ Report(TRUE, s, [s EXCEPT !.away = [k \in DOMAIN @ |->
            IF @[k].who = p THEN Entry(p, d) ELSE @[k]]])
  /\ UNCHANGED rows

\* /claim and /r? @user: for people in the queue
TakeOver(i, p, how) ==
  \E s \in Prepared :
    /\ p \in Queued(s) \ Away(s)
    /\ \/ p # Authors[i] /\ \E r \in Confirmed(i, p, how) : Row(i, r) /\ Report(TRUE, s, s)
       \/ NotConfirmed(i, s, s)

\* _reconcile_lifecycle_reviewer_authority, when somebody was assigned on
\* GitHub: the only live assignee is tracked, unless it is the author.
Reconcile(i, p) ==
  \E s \in Prepared :
    IF p = Authors[i] THEN Row(i, Cleared(i)) /\ Report(rows[i].reviewer # Nobody, s, s)
    ELSE \/ \E r \in Confirmed(i, p, "lifecycle") : Row(i, r) /\ Report(TRUE, s, s)
         \/ NotConfirmed(i, s, s)

\* handle_closed_event
Closed(i) == \E s \in Prepared : Row(i, NoRow) /\ Report(rows[i] # NoRow, s, s)

\* Any other mutating run, a scheduled one for instance.
OtherRun == \E s \in Prepared : UNCHANGED rows /\ Report(FALSE, s, s)

EditMembers == /\ edits < MaxEdits
               /\ producers' \in SUBSET Reviewers
               /\ edits' = edits + 1
               /\ UNCHANGED <<roster, rows, today>>

NextDay == /\ today < LastDay
           /\ today' = today + 1
           /\ UNCHANGED <<roster, rows, producers, edits>>

QueueNext ==
  \/ \E i \in Items : \/ AssignNext(i) \/ Pass(i) \/ Release(i) \/ Closed(i)
                      \/ \E p \in Reviewers :
                            \/ Reconcile(i, p)
                            \/ \E how \in {"claim", "manual"} : TakeOver(i, p, how)
                            \/ \E d \in 1..LastDay : StepAway(i, p, d)
  \/ \E p \in Reviewers, d \in 1..LastDay : StayAway(p, d)
  \/ OtherRun \/ EditMembers \/ NextDay

QueueSpec == QueueInit /\ [][QueueNext]_queueVars

-----------------------------------------------------------------------------
(* Properties *)

Queues == [queue : Seq(Reviewers), cursor : Nat,
           away : Seq([who : Reviewers, until : 1..LastDay])]
Methods == {"none", "round-robin", "claim", "manual", "lifecycle"}

QueueTypeOK ==
  /\ roster \in Queues
  /\ rows \in [Items -> [reviewer : Reviewers \union {Nobody}, method : Methods,
                         skipped : Seq(Reviewers)]]
  /\ producers \subseteq Reviewers
  /\ edits \in 0..MaxEdits /\ today \in 0..LastDay

InRange(s) == IF s.queue = <<>> THEN s.cursor = 0 ELSE s.cursor < Len(s.queue)
AwayOnce(s) == \A j, k \in DOMAIN s.away : s.away[j].who = s.away[k].who => j = k

\* Nobody gets two turns per round, nobody is in the queue and away at once,
\* and current_index points into the queue (handle_queue_command indexes with
\* it without a check).
QueueSound ==
  /\ QueueTypeOK
  /\ IsInjective(roster.queue)
  /\ AwayOnce(roster)
  /\ Queued(roster) \intersect Away(roster) = {}
  /\ InRange(roster)

\* Whoever is a Producer and waits for a turn or has stepped away goes on doing
\* one or the other: no sequence of passes, releases, departures, returns and
\* syncs loses a reviewer.
NobodyForgotten ==
  [][(Queued(roster) \union Away(roster)) \intersect producers
       \subseteq Queued(roster') \union Away(roster')]_queueVars

\* The index arithmetic keeps the line: taking somebody out leaves the others
\* in their order and the same one next up, and repositioning puts exactly one
\* in front of all the others.
LineKept ==
  \A p \in Queued(roster) :
    /\ Line(TakenOut(roster, p)) = Without(Line(roster), p)
    /\ Line(Repositioned(roster, p)) = <<p>> \o Without(Line(roster), p)

\* A pass moves the item to somebody who has not passed on it before.
PassMovesOn ==
  [][\A i \in Items : Len(rows'[i].skipped) > Len(rows[i].skipped)
       => ~Contains(rows'[i].skipped, rows'[i].reviewer)]_queueVars

\* "You'll be automatically added back to the queue on that date": whatever
\* else a run does, and whether or not its handler has anything to report, no
\* date that has come is left among the absences that it saves.
ReturnsInTime ==
  [][today' = today /\ edits' = edits => \A e \in ToSet(roster'.away) : e.until > today]_queueVars
=============================================================================
